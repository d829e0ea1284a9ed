---------------------------- MODULE Notifications ----------------------------
(***************************************************************************)
(* From a finished backup, or one that is due, to the phones: the          *)
(* forwarder that pumps the event bus, the runner that decides, the        *)
(* reminder track, the push service's deliveries, subscriptions and        *)
(* signing key.                                                            *)
(*                                                                         *)
(* One device; a browser is an endpoint.  Times are in ticks of the        *)
(* runner's interval.  A message's wording, its encryption and the scope   *)
(* of a row (no path stores one) are left out; every category is on.       *)
(***************************************************************************)
EXTENDS Integers, Sequences, SequencesExt, FiniteSets

CONSTANTS
    Endpoints,               \* browsers that may subscribe
    Callers,                 \* requests that ask for the public key
    BusBuffer, OutBuffer,    \* notifierBuffer, of the subscription and of the runner's channel
    Cooldown, Staleness, Overdue,
    Themes                   \* what may happen, and bounds on jobs, time, updates and subscriptions

Never == -1
Categories == {"available", "overdue", "action_required", "failed", "completed"}
Outcomes == {"succeeded", "lost", "broken", "cancelled"}

NotifyJobs == 1..3

ThemeRecs ==
    [may : SUBSET {"jobs", "first", "delete", "restart", "db", "test", "subscribe", "leave", "away", "mute", "lostKey"},
     ends : SUBSET Outcomes, subscribed : SUBSET Endpoints, jobs : 0..3, ticks : Nat, updates : Nat, gens : Nat]

ASSUME NotifyAssumption ==
    /\ IsFiniteSet(Endpoints) /\ IsFiniteSet(Callers)
    /\ BusBuffer \in Nat \ {0} /\ OutBuffer \in Nat \ {0} /\ Cooldown \in Nat /\ Staleness \in Nat /\ Overdue \in Nat
    /\ Themes \subseteq ThemeRecs

VARIABLES
    feed,     \* the bus subscription: its queue, and whether it was dropped
    fwd,      \* forwardEvents: the envelope it is sending
    inbox,    \* the runner's channel
    track,    \* the device: here, busy, last backup, last reminder (push_reminders)
    work,     \* the deliveries under way: the runner's, and a test's
    rows,     \* push_subscriptions
    vapid,    \* the stored key, and the callers between reading none and storing one
    time,
    ended,    \* history: how each job ended, those announced, those nobody will be told of
    reminded, \* history: the last reminder since a success, of those on record or going out
    theme     \* what may happen, and what is left of the bounds

notifyVars == <<feed, fwd, inbox, track, work, rows, vapid, time, ended, reminded, theme>>

Nothing == [typ |-> "none", job |-> 0]
DeviceUpdated == [typ |-> "device", job |-> 0]
NoWork == [on |-> FALSE, cat |-> "none", job |-> 0, due |-> {}, gens |-> [e \in Endpoints |-> 0]]
NoRow == [id |-> 0, live |-> FALSE, key |-> 0, gen |-> 0]
Quiet == [may |-> {"away"}, ends |-> {}, subscribed |-> {}, jobs |-> 0, ticks |-> 0, updates |-> 0, gens |-> 0]

\* A job's envelope names a job that ended.
Notices == {ev \in [typ : {"none", "device", "job"}, job : 0..3] :
              ev.typ = "job" => ev.job # 0 /\ ended.how[ev.job] # "none"}
Times == {Never} \cup Nat
Deliveries == [on : BOOLEAN, cat : Categories \cup {"none", "test"}, job : 0..3, due : SUBSET Endpoints,
               gens : [Endpoints -> Nat]]
RowRecords == [id : {0, 1}, live : BOOLEAN, key : Nat, gen : Nat]

NotifyTypeOK ==
    /\ feed \in [q : Seq(Notices), dropped : BOOLEAN] /\ Len(feed.q) <= BusBuffer
    /\ fwd \in Notices /\ inbox \in Seq(Notices) /\ Len(inbox) <= OutBuffer
    /\ track \in [here : BOOLEAN, busy : BOOLEAN, tearing : BOOLEAN, last : Times, reminder : Times, muted : BOOLEAN]
    /\ track.tearing => track.busy
    /\ work \in [{"runner", "test"} -> Deliveries]
    /\ rows \in [Endpoints -> RowRecords] /\ \A e \in Endpoints : rows[e].live => rows[e].id # 0
    /\ vapid \in [key : Nat, minting : SUBSET Callers, next : Nat, handed : SUBSET Nat]
    /\ time \in Nat /\ reminded \in Times
    /\ ended \in [how : [NotifyJobs -> Outcomes \cup {"none"}], told : SUBSET (0..3), lost : SUBSET (0..3)]
    /\ theme \in ThemeRecs

NotifyInit(themes) ==
    /\ theme \in themes /\ time = 0 /\ reminded = Never
    /\ feed = [q |-> << >>, dropped |-> FALSE] /\ fwd = Nothing /\ inbox = << >>
    /\ track = [here |-> "away" \notin theme.may, busy |-> FALSE, tearing |-> FALSE,
                last |-> IF "jobs" \in theme.may /\ "first" \notin theme.may THEN 0 ELSE Never, reminder |-> Never, muted |-> FALSE]
    /\ work = [t \in {"runner", "test"} |-> NoWork]
    /\ ended = [how |-> [j \in NotifyJobs |-> "none"], told |-> {}, lost |-> {}]
    \* A database restored without its key has its subscriptions still.
    /\ vapid = [key |-> IF theme.subscribed = {} \/ "lostKey" \in theme.may THEN 0 ELSE 1,
               minting |-> {}, next |-> 2, handed |-> {}]
    /\ rows = [e \in Endpoints |-> IF e \in theme.subscribed THEN [id |-> 1, live |-> TRUE, key |-> 1, gen |-> 0] ELSE NoRow]

-----------------------------------------------------------------------------
(* The bus, and what is published on it                                    *)

Job(ev) == IF ev.typ = "job" THEN {ev.job} ELSE {}
\* Publish never waits: a full buffer drops the subscriber.
PublishTo(ev) ==
    IF Len(feed.q) < BusBuffer THEN feed' = [feed EXCEPT !.q = Append(@, ev)]
    ELSE feed' = [feed EXCEPT !.dropped = TRUE]
Unheard(ev) == IF Len(feed.q) < BusBuffer THEN {} ELSE Job(ev)

StartJob ==
    /\ "jobs" \in theme.may /\ theme.jobs > 0 /\ ~track.busy
    /\ track' = [track EXCEPT !.busy = TRUE] /\ theme' = [theme EXCEPT !.jobs = @ - 1]
    /\ UNCHANGED <<feed, fwd, inbox, work, rows, vapid, time, ended, reminded>>

\* The verdict is published; RunningFor says busy until the teardown is done.
EndJob(how) ==
    /\ track.busy /\ ~track.tearing /\ how \in theme.ends
    /\ LET j == Cardinality({k \in NotifyJobs : ended.how[k] # "none"}) + 1  ev == [typ |-> "job", job |-> j] IN
       /\ PublishTo(ev)
       /\ ended' = [ended EXCEPT !.how[j] = how, !.lost = @ \cup Unheard(ev)]
    /\ track' = [track EXCEPT !.last = IF how = "succeeded" THEN time ELSE @, !.tearing = TRUE]
    /\ UNCHANGED <<fwd, inbox, work, rows, vapid, time, reminded, theme>>
JobTornDown ==
    /\ track.tearing /\ track' = [track EXCEPT !.busy = FALSE, !.tearing = FALSE]
    /\ UNCHANGED <<feed, fwd, inbox, work, rows, vapid, time, ended, reminded, theme>>

\* Any other event: an update of the device, which may have come or gone.
DeviceChanges(here) ==
    /\ theme.updates > 0 /\ theme' = [theme EXCEPT !.updates = @ - 1]
    /\ here = TRUE \/ "leave" \in theme.may
    /\ track' = [track EXCEPT !.here = here] /\ PublishTo(DeviceUpdated)
    /\ UNCHANGED <<fwd, inbox, work, rows, vapid, time, ended, reminded>>

\* The last version of the device is deleted: last_backup is read at every turn.
VersionsDeleted ==
    /\ "delete" \in theme.may /\ track.last # Never /\ track' = [track EXCEPT !.last = Never]
    /\ UNCHANGED <<feed, fwd, inbox, work, rows, vapid, time, ended, reminded, theme>>

-----------------------------------------------------------------------------
(* forwardEvents                                                           *)

\* Mutation: only the device's events are passed on.
ForwardsDevices(ev) == ev.typ = "device"
Forwards(ev) == ev.typ \in {"device", "job"}

ForwardEvent ==
    /\ fwd = Nothing /\ feed.q # << >>
    /\ fwd' = IF Forwards(Head(feed.q)) THEN Head(feed.q) ELSE Nothing
    /\ feed' = [feed EXCEPT !.q = Tail(@)]
    /\ UNCHANGED <<inbox, track, work, rows, vapid, time, ended, reminded, theme>>

\* A drop: what was still queued is gone with the subscription, and every
\* device is evaluated again.
ForwardDropped ==
    /\ fwd = Nothing /\ feed.dropped
    /\ ended' = [ended EXCEPT !.lost = @ \cup UNION {Job(feed.q[i]) : i \in DOMAIN feed.q}]
    /\ feed' = [q |-> << >>, dropped |-> FALSE] /\ fwd' = DeviceUpdated
    /\ UNCHANGED <<inbox, track, work, rows, vapid, time, reminded, theme>>

Send ==
    /\ fwd # Nothing /\ Len(inbox) < OutBuffer
    /\ inbox' = Append(inbox, fwd) /\ fwd' = Nothing
    /\ UNCHANGED <<feed, track, work, rows, vapid, time, ended, reminded, theme>>

-----------------------------------------------------------------------------
(* Deliveries                                                              *)

\* The rows a delivery starts with; none without a key.
Delivers(cat, job) ==
    [on |-> TRUE, cat |-> cat, job |-> job,
     due |-> IF vapid.key = 0 THEN {} ELSE {e \in Endpoints : rows[e].live},
     gens |-> [e \in Endpoints |-> rows[e].gen]]

\* deliverOne: the service takes it, refuses it or does not answer in time, all
\* one here; or it says the subscription is gone.
Post(t, e, answer) ==
    /\ work[t].on /\ e \in work[t].due
    /\ work' = [work EXCEPT ![t].due = @ \ {e}]
    /\ IF answer = "gone" THEN rows' = [rows EXCEPT ![e].live = FALSE] ELSE UNCHANGED rows
    /\ answer = "gone" => "subscribe" \in theme.may
    /\ UNCHANGED <<feed, fwd, inbox, track, vapid, time, ended, reminded, theme>>

\* The owner muted the device: asked for each row, at its turn.
Muted(t, e) ==
    /\ work[t].on /\ e \in work[t].due /\ track.muted /\ work[t].cat # "test"
    /\ work' = [work EXCEPT ![t].due = @ \ {e}]
    /\ UNCHANGED <<feed, fwd, inbox, track, rows, vapid, time, ended, reminded, theme>>

SetMuted ==
    /\ "mute" \in theme.may /\ ~track.muted /\ track' = [track EXCEPT !.muted = TRUE]
    /\ PublishTo(DeviceUpdated)
    /\ UNCHANGED <<fwd, inbox, work, rows, vapid, time, ended, reminded, theme>>

SendTest ==
    /\ "test" \in theme.may /\ ~work["test"].on
    /\ work' = [work EXCEPT !["test"] = Delivers("test", 0)]
    /\ theme' = [theme EXCEPT !.may = @ \ {"test"}]
    /\ UNCHANGED <<feed, fwd, inbox, track, rows, vapid, time, ended, reminded>>
TestEnds ==
    /\ work["test"].on /\ work["test"].due = {} /\ work' = [work EXCEPT !["test"] = NoWork]
    /\ UNCHANGED <<feed, fwd, inbox, track, rows, vapid, time, ended, reminded, theme>>

-----------------------------------------------------------------------------
(* The runner                                                              *)

KindForTerminal(how) ==
    CASE how = "succeeded" -> "completed" [] how = "lost" -> "action_required"
      [] how = "broken" -> "failed" [] how = "cancelled" -> "none"

Evaluate ==
    LET age == time - track.last IN
    IF ~track.here \/ track.busy \/ (track.reminder # Never /\ time - track.reminder < Cooldown) THEN "none"
    ELSE IF track.last = Never THEN "available"
    ELSE IF age < Staleness THEN "none"
    ELSE IF age >= Overdue THEN "overdue" ELSE "available"

Idling == ~work["runner"].on
\* What the database may answer to a read or a write: an error is only logged.
Took == {TRUE} \cup (IF "db" \in theme.may THEN {FALSE} ELSE {})
\* Devices() has the device: it is here, or it has a version.
Known == track.here \/ track.last # Never

\* evaluateAll: by the hour, or for an event; not where the track cannot be read.
EvaluateAll ==
    \/ (Evaluate = "none" \/ FALSE \in Took) /\ UNCHANGED <<work, reminded>>
    \/ /\ Evaluate # "none"
       /\ work' = [work EXCEPT !["runner"] = Delivers(Evaluate, 0)] /\ reminded' = time

HourTick ==
    /\ Idling /\ EvaluateAll
    /\ UNCHANGED <<feed, fwd, inbox, track, rows, vapid, time, ended, theme>>

HandleDevice ==
    /\ Idling /\ inbox # << >> /\ Head(inbox).typ = "device"
    /\ inbox' = Tail(inbox) /\ EvaluateAll
    /\ UNCHANGED <<feed, fwd, track, rows, vapid, time, ended, theme>>

\* A device nothing lists any more is passed over.  A success ends the reminder
\* track; then what happened is told, or is not news.
HandleJob ==
    /\ Idling /\ inbox # << >> /\ Head(inbox).typ = "job"
    /\ inbox' = Tail(inbox)
    /\ LET j == Head(inbox).job  how == ended.how[j] IN
       \/ ~Known /\ ended' = [ended EXCEPT !.lost = @ \cup {j}] /\ UNCHANGED <<track, work, reminded>>
       \/ /\ Known
          /\ reminded' = IF how = "succeeded" THEN Never ELSE reminded
          /\ \E took \in Took :
                track' = [track EXCEPT !.reminder = IF how = "succeeded" /\ took THEN Never ELSE @]
          /\ IF KindForTerminal(how) = "none" THEN ended' = [ended EXCEPT !.told = @ \cup {j}] /\ UNCHANGED work
             ELSE work' = [work EXCEPT !["runner"] = Delivers(KindForTerminal(how), j)] /\ UNCHANGED ended
    /\ UNCHANGED <<feed, fwd, rows, vapid, time, theme>>

\* Mutation: a reminder nobody could be sent is not recorded.
RecordedIfSent(w, at) == IF vapid.key = 0 \/ \A e \in Endpoints : ~rows[e].live THEN at ELSE time
\* Recorded whatever became of the deliveries.
Recorded(w, at) == time

DeliveryEnds ==
    /\ ~Idling /\ work["runner"].due = {}
    /\ LET w == work["runner"] IN
       /\ \E took \in Took :
             /\ track' = [track EXCEPT !.reminder = IF w.job = 0 /\ took THEN Recorded(w, @) ELSE @]
             /\ reminded' = IF w.job = 0 /\ ~took THEN track.reminder ELSE reminded
       /\ ended' = [ended EXCEPT !.told = @ \cup (IF w.job = 0 THEN {} ELSE {w.job})]
    /\ work' = [work EXCEPT !["runner"] = NoWork]
    /\ UNCHANGED <<feed, fwd, inbox, rows, vapid, time, theme>>

-----------------------------------------------------------------------------
(* Subscriptions and the signing key                                       *)

SubscribeRow(e) ==
    /\ "subscribe" \in theme.may /\ theme.gens > 0 /\ theme' = [theme EXCEPT !.gens = @ - 1]
    /\ \E k \in vapid.handed :
          rows' = [rows EXCEPT ![e] = [id |-> IF @.id = 0 THEN 1 ELSE @.id, live |-> TRUE,
                                       key |-> k, gen |-> @.gen + 1]]
    /\ UNCHANGED <<feed, fwd, inbox, track, work, vapid, time, ended, reminded>>
Unsubscribe(e) ==
    /\ "subscribe" \in theme.may /\ rows[e].id # 0 /\ rows' = [rows EXCEPT ![e] = [NoRow EXCEPT !.gen = rows[e].gen]]
    /\ UNCHANGED <<feed, fwd, inbox, track, work, vapid, time, ended, reminded, theme>>

\* VAPIDPrivateKey: the stored key; none, on a clean install; refused when
\* subscriptions exist without one.
ReadKey(c) ==
    /\ {"subscribe", "lostKey"} \cap theme.may # {} /\ c \notin vapid.minting
    /\ \/ vapid.key # 0 /\ vapid' = [vapid EXCEPT !.handed = @ \cup {vapid.key}]
       \/ /\ vapid.key = 0 /\ \A e \in Endpoints : rows[e].id = 0
          /\ vapid' = [vapid EXCEPT !.minting = @ \cup {c}]
    /\ UNCHANGED <<feed, fwd, inbox, track, work, rows, time, ended, reminded, theme>>

\* SetSettingIfAbsent: one of two callers stores its key, the other is refused.
IfAbsent(key) == key = 0

MintKey(c) ==
    /\ c \in vapid.minting
    /\ vapid' = [vapid EXCEPT !.minting = @ \ {c}, !.next = @ + 1,
                              !.key = IF IfAbsent(vapid.key) THEN vapid.next ELSE @,
                              !.handed = IF IfAbsent(vapid.key) THEN @ \cup {vapid.next} ELSE @]
    /\ UNCHANGED <<feed, fwd, inbox, track, work, rows, time, ended, reminded, theme>>

-----------------------------------------------------------------------------

HourPasses ==
    /\ theme.ticks > 0 /\ time' = time + 1 /\ theme' = [theme EXCEPT !.ticks = @ - 1]
    /\ UNCHANGED <<feed, fwd, inbox, track, work, rows, vapid, ended, reminded>>

\* The daemon restarts: the reminder track and the rows are kept.  A reminder
\* that was going out has not been recorded.
NotifyRestart ==
    /\ "restart" \in theme.may /\ theme' = [theme EXCEPT !.may = @ \ {"restart"}]
    /\ feed' = [q |-> << >>, dropped |-> FALSE] /\ fwd' = Nothing /\ inbox' = << >>
    /\ work' = [t \in {"runner", "test"} |-> NoWork] /\ vapid' = [vapid EXCEPT !.minting = {}]
    /\ ended' = [ended EXCEPT !.lost = {j \in NotifyJobs : ended.how[j] # "none"} \ ended.told]
    /\ reminded' = track.reminder
    /\ track' = [track EXCEPT !.busy = FALSE, !.tearing = FALSE]
    /\ UNCHANGED <<rows, time>>

Forwarding == ForwardEvent \/ ForwardDropped \/ Send
Reading == HandleDevice \/ HandleJob
Running == Reading \/ DeliveryEnds
Delivering(t) == \E e \in Endpoints : Muted(t, e) \/ (~track.muted /\ \E a \in {"answered", "gone"} : Post(t, e, a))
                                      \/ (track.muted /\ work[t].cat = "test" /\ Post(t, e, "answered"))
NotifyNext ==
    \/ StartJob \/ (\E how \in Outcomes : EndJob(how)) \/ JobTornDown \/ VersionsDeleted \/ \E here \in BOOLEAN : DeviceChanges(here)
    \/ Forwarding \/ Running \/ HourTick \/ Delivering("runner") \/ Delivering("test")
    \/ SetMuted \/ SendTest \/ TestEnds \/ HourPasses \/ NotifyRestart
    \/ \E e \in Endpoints : SubscribeRow(e) \/ Unsubscribe(e)
    \/ \E c \in Callers : ReadKey(c) \/ MintKey(c)

NotifySpec == NotifyInit(Themes) /\ [][NotifyNext]_notifyVars

-----------------------------------------------------------------------------
(* Properties                                                              *)

Untold == {j \in NotifyJobs : ended.how[j] # "none"} \ (ended.told \cup ended.lost)
\* How a backup ended reaches the phones, but for the three ways it may not: the
\* notifier fell so far behind the bus that it was dropped, the daemon restarted
\* first, or by then nothing listed the device (a first backup the phone walked
\* away from).  Nothing else between the engine and the push service loses it.
EndsTold == (Untold # {}) ~> (Untold = {})

\* A device that is owed a reminder gets it within the hour, or stops being owed
\* it, while the track can be read.
Owed == /\ track.here /\ ~track.busy /\ (track.reminder = Never \/ time - track.reminder >= Cooldown)
        /\ (track.last = Never \/ time - track.last >= Staleness) /\ "db" \notin theme.may
DueReminded == Owed ~> (~Owed \/ ~Idling)

\* One lapse is one reminder per cooldown, whoever it reached, at either rank and
\* across restarts.  Only a reminder the database has no record of, because the
\* write failed or the daemon went down before it, is followed by one more, and
\* the one on record before it is respected even then.
CooldownKept == [][~work["runner"].on /\ work'["runner"].on /\ work'["runner"].job = 0
                   => reminded = Never \/ time - reminded >= Cooldown]_notifyVars

\* Every key a browser was given is the stored one, and every subscription is
\* signed for by it: it is never replaced, though two requests may ask first.
KeyHeld == /\ vapid.handed \subseteq {vapid.key}
           /\ vapid.key # 0 => \A e \in Endpoints : rows[e].id # 0 => rows[e].key = vapid.key

\* Jobs end in the order of their numbers, and no more of them than may start.
JobsCounted ==
    \E n \in 0..3 : /\ \A k \in NotifyJobs : ended.how[k] # "none" <=> k <= n
                    /\ n + theme.jobs + (IF track.busy /\ ~track.tearing THEN 1 ELSE 0) <= 3

\* Between reminders, the one that went out last is on record.
RemindersTrue ==
    /\ reminded <= time /\ track.reminder <= time
    /\ ~work["runner"].on \/ work["runner"].job # 0 =>
          reminded = Never \/ (track.reminder # Never /\ reminded <= track.reminder)

\* Nobody was given a key that is not stored, and one is minted only where no
\* browser is subscribed.
KeyTrue ==
    /\ vapid.next # 0 /\ (vapid.key = 0 => vapid.handed = {})
    /\ vapid.key = 0 /\ vapid.minting # {} => \A e \in Endpoints : rows[e].id = 0

\* The inductive invariant behind NotifyTypeOK, CooldownKept and KeyHeld.
NotifyInv == NotifyTypeOK /\ JobsCounted /\ RemindersTrue /\ KeyTrue /\ KeyHeld

\* What AddPushSubscription's comment says, re-subscribing revives a row: an
\* answer to a message sent before it does not expire it again.
ReviveHolds == [][\A e \in Endpoints : rows[e].live /\ ~rows'[e].live /\ rows'[e].id # 0 =>
                    \E t \in {"runner", "test"} : work[t].on /\ e \in work[t].due /\ work[t].gens[e] = rows[e].gen]_notifyVars
=============================================================================
