--------------------------- MODULE VaultSessions ---------------------------
(***************************************************************************)
(* Unlocked versions: the session registry, the requests that use a        *)
(* session, what the service derives from decrypted content and must drop  *)
(* with it, the sweeper, shutdown and a crash.                             *)
(*                                                                         *)
(* A goroutine is a record [op, s, at, due, cur]; the registry's own mutex *)
(* is never held across a wait, so a section under it is one step.  The    *)
(* other locks (a session's busy, capMu, msgMu, a reader's mu) are held    *)
(* across steps and are variables.                                         *)
(***************************************************************************)
EXTENDS Naturals, Sequences, FiniteSets

CONSTANTS
    Sessions,   \* ids that may be unlocked, each at most once
    Reqs,       \* request goroutines, reused
    Mixes       \* bounds: which sessions and operations a run has, whether the process ends

Asked == {"unlock", "lock", "browse", "stream", "overview", "chats", "search"}

ASSUME VaultAssumption ==
    /\ IsFiniteSet(Sessions) /\ IsFiniteSet(Reqs) /\ "sweeper" \notin Reqs /\ "none" \notin Reqs \cup Sessions
    /\ Mixes \subseteq [sessions : SUBSET Sessions, ends : BOOLEAN, ops : SUBSET Asked]

VARIABLES
    ent,     \* registryEntry of each session: in the map, busy, vault, scratch directory (held,
             \* or left by a wipe that failed), closers
    caches,  \* Service.capCache and Service.msgReaders
    mu,      \* holders of capMu and msgMu
    reader,  \* each messages.Reader: its file is materialized, built, projection open, mu
    th,      \* the goroutines
    proc,    \* the process
    mix

vars == <<ent, caches, mu, reader, th, proc>>

Threads == Reqs \cup {"sweeper"}
NoEntry == [reg |-> FALSE, expired |-> FALSE, busy |-> "none", vault |-> "none",
            scratch |-> FALSE, left |-> FALSE, derived |-> << >>, short |-> FALSE]
NoReader == [memo |-> FALSE, built |-> FALSE, proj |-> FALSE, mu |-> "none"]
Idle == [op |-> "none", s |-> "none", at |-> "idle", due |-> {}, cur |-> "none"]

Holders == Threads \cup {"none"}
Places == {"idle", "open", "register", "with", "using", "capmu", "msgmu", "attach", "read", "outside",
           "building", "query", "teardown", "close", "closing"}
Closers == {<< >>, <<"cap">>, <<"msg">>, <<"cap", "msg">>, <<"msg", "cap">>}
Entries == [reg : BOOLEAN, expired : BOOLEAN, busy : Holders, vault : {"none", "open", "closed"},
            scratch : BOOLEAN, left : BOOLEAN, derived : Closers, short : BOOLEAN]
ReaderRecs == [memo : BOOLEAN, built : BOOLEAN, proj : BOOLEAN, mu : Holders]
Goroutines == [op : Asked \cup {"none"}, s : Sessions \cup {"none"}, at : Places, due : SUBSET Sessions,
               cur : Sessions \cup {"none"}]

TypeOK ==
    /\ ent \in [Sessions -> Entries] /\ reader \in [Sessions -> ReaderRecs] /\ th \in [Threads -> Goroutines]
    /\ caches \in [cap : SUBSET Sessions, msg : SUBSET Sessions] /\ mu \in [cap : Holders, msg : Holders]
    /\ proc \in {"up", "stopping", "down"} /\ mix \in [sessions : SUBSET Sessions, ends : BOOLEAN, ops : SUBSET Asked]

Init ==
    /\ mix \in Mixes /\ proc = "up"
    /\ ent = [s \in Sessions |-> NoEntry] /\ reader = [s \in Sessions |-> NoReader]
    /\ caches = [cap |-> {}, msg |-> {}] /\ mu = [cap |-> "none", msg |-> "none"]
    /\ th = [t \in Threads |-> Idle]

Go(t, at) == th' = [th EXCEPT ![t].at = at]
Freed(t) == [cap |-> IF mu.cap = t THEN "none" ELSE mu.cap, msg |-> IF mu.msg = t THEN "none" ELSE mu.msg]
\* The goroutine returns; deferred unlocks run.
Return(t) == th' = [th EXCEPT ![t] = Idle] /\ mu' = Freed(t)
Up == proc # "down"
At(t, at) == Up /\ th[t].at = at
Sess(t) == th[t].s

-----------------------------------------------------------------------------
(* Registry                                                                *)

\* Mutation: the vault is taken after the registry lock was released.
TakeLate(t, s) == th' = [th EXCEPT ![t].at = "using"] /\ UNCHANGED ent
\* TryLock, under the registry lock.
Take(t, s) == ent' = [ent EXCEPT ![s].busy = t] /\ Go(t, "using")

Teardowns(t, due) == th' = [th EXCEPT ![t].at = "teardown", ![t].due = due]
Unlisted(due) == ent' = [s \in Sessions |-> IF s \in due THEN [ent[s] EXCEPT !.reg = FALSE] ELSE ent[s]]

\* With, OpenStream and OpenStreamByPath: unknown, expired (reaped here), busy, or taken.
With(t) ==
    /\ At(t, "with")
    /\ LET s == Sess(t) IN
       \/ ~ent[s].reg /\ Return(t) /\ UNCHANGED ent
       \/ ent[s].reg /\ ent[s].expired /\ Unlisted({s}) /\ Teardowns(t, {s}) /\ UNCHANGED mu
       \/ ent[s].reg /\ ~ent[s].expired /\ ent[s].busy # "none" /\ Return(t) /\ UNCHANGED ent
       \/ ent[s].reg /\ ~ent[s].expired /\ ent[s].busy = "none" /\ Take(t, s) /\ UNCHANGED mu
    /\ UNCHANGED <<caches, reader, proc>>

\* Unlock: a scratch directory, then the vault; a failure wipes it.
UnlockOpen(t) ==
    /\ At(t, "open") /\ ent' = [ent EXCEPT ![Sess(t)].scratch = TRUE] /\ Go(t, "register")
    /\ UNCHANGED <<caches, mu, reader, proc>>

\* wipe: the session lets go of its scratch directory, whether or not it could
\* be removed; what could not stays until the next start.
Wipe(e) == {[e EXCEPT !.vault = "closed", !.scratch = FALSE, !.left = failed] : failed \in BOOLEAN}

UnlockRegister(t) ==
    /\ At(t, "register")
    /\ \E e \in {[ent[Sess(t)] EXCEPT !.vault = "open", !.reg = TRUE]} \cup Wipe(ent[Sess(t)]) :
          ent' = [ent EXCEPT ![Sess(t)] = e]
    /\ Return(t) /\ UNCHANGED <<caches, reader, proc>>

\* teardown waits for whoever uses the vault.
TeardownBegins(t) ==
    /\ At(t, "teardown")
    /\ \E s \in th[t].due :
          /\ ent[s].busy = "none"
          /\ ent' = [ent EXCEPT ![s].busy = t]
          /\ th' = [th EXCEPT ![t].at = "close", ![t].cur = s]
    /\ UNCHANGED <<caches, mu, reader, proc>>

\* The closers, in the order they were attached: the capability report's...
CloseCap(t) ==
    /\ At(t, "close") /\ mu.cap = "none"
    /\ LET s == th[t].cur IN
       /\ ent[s].derived # << >> /\ Head(ent[s].derived) = "cap"
       /\ caches' = [caches EXCEPT !.cap = @ \ {s}]
       /\ ent' = [ent EXCEPT ![s].derived = Tail(@)]
    /\ UNCHANGED <<mu, reader, th, proc>>

\* ... and the Messages reader's, which also waits for a build.
CloseMsg(t) ==
    /\ At(t, "close") /\ mu.msg = "none"
    /\ LET s == th[t].cur IN ent[s].derived # << >> /\ Head(ent[s].derived) = "msg"
    /\ mu' = [mu EXCEPT !.msg = t] /\ Go(t, "closing")
    /\ UNCHANGED <<ent, caches, reader, proc>>

Dropped(s) == [caches EXCEPT !.msg = @ \ {s}]

ReaderClose(t) ==
    /\ At(t, "closing")
    /\ LET s == th[t].cur IN
       /\ reader[s].mu = "none"
       /\ reader' = [reader EXCEPT ![s].proj = FALSE]
       /\ caches' = Dropped(s)
       /\ ent' = [ent EXCEPT ![s].derived = Tail(@)]
    /\ mu' = [mu EXCEPT !.msg = "none"] /\ Go(t, "close")
    /\ UNCHANGED proc

Wiped(e) == Wipe([e EXCEPT !.busy = "none"])

CloseVault(t) ==
    /\ At(t, "close")
    /\ LET s == th[t].cur IN
       /\ ent[s].derived = << >>
       /\ \E e \in Wiped(ent[s]) : ent' = [ent EXCEPT ![s] = e]
       /\ IF th[t].due = {s} THEN Return(t)
          ELSE th' = [th EXCEPT ![t].at = "teardown", ![t].due = @ \ {s}, ![t].cur = "none"] /\ UNCHANGED mu
    /\ UNCHANGED <<caches, reader, proc>>

Expire(s) ==
    /\ Up /\ ent[s].reg /\ ~ent[s].expired /\ ent' = [ent EXCEPT ![s].expired = TRUE]
    /\ UNCHANGED <<caches, mu, reader, th, proc>>

-----------------------------------------------------------------------------
(* Requests                                                                *)

First(op) == CASE op = "unlock" -> "open" [] op \in {"chats", "search"} -> "msgmu" [] OTHER -> "with"

Request(t, op, s) ==
    /\ Up /\ th[t].at = "idle" /\ op \in mix.ops \ {"lock"} /\ s \in mix.sessions
    /\ op = "unlock" <=> ent[s].vault = "none"
    /\ op = "unlock" => \A u \in Reqs : ~(th[u].op = "unlock" /\ th[u].s = s)
    /\ th' = [th EXCEPT ![t] = [Idle EXCEPT !.op = op, !.s = s, !.at = First(op)]]
    /\ UNCHANGED <<ent, caches, mu, reader, proc>>

\* Lock: out of the map, then torn down; a second one finds nothing to do.
Lock(t, s) ==
    /\ Up /\ th[t].at = "idle" /\ "lock" \in mix.ops /\ s \in mix.sessions /\ ent[s].reg
    /\ Unlisted({s})
    /\ th' = [th EXCEPT ![t] = [op |-> "lock", s |-> s, at |-> "teardown", due |-> {s}, cur |-> "none"]]
    /\ UNCHANGED <<caches, mu, reader, proc>>

Released(s) == ent' = [ent EXCEPT ![s].busy = "none"]

\* What a request does inside With ends: a browse, the aggregate of an
\* overview, ...
Browsed(t) ==
    /\ At(t, "using") /\ th[t].op = "browse" /\ Released(Sess(t)) /\ Return(t)
    /\ UNCHANGED <<caches, reader, proc>>
Aggregated(t) ==
    /\ At(t, "using") /\ th[t].op = "overview" /\ mu.cap # t /\ Released(Sess(t)) /\ Go(t, "capmu")
    /\ UNCHANGED <<caches, mu, reader, proc>>

\* ... the capability probes, a reader, whose file may fail to be copied out...
Probed(t) ==
    /\ At(t, "using") /\ th[t].op = "overview" /\ mu.cap = t /\ Released(Sess(t)) /\ Go(t, "attach")
    /\ UNCHANGED <<caches, mu, reader, proc>>
Materialized(t) ==
    /\ At(t, "using") /\ th[t].op \in {"chats", "search"} /\ Released(Sess(t)) /\ Go(t, "attach")
    /\ \E memo \in BOOLEAN : reader' = [reader EXCEPT ![Sess(t)] = [NoReader EXCEPT !.memo = memo]]
    /\ UNCHANGED <<caches, mu, proc>>

\* Mutation: the error returns without letting go.
VaultFailsHolds(t) ==
    /\ At(t, "using") /\ th[t].op # "stream" /\ Return(t)
    /\ UNCHANGED <<ent, caches, reader, proc>>
\* ... or the vault's error.
VaultFails(t) ==
    /\ At(t, "using") /\ th[t].op # "stream" /\ Released(Sess(t)) /\ Return(t)
    /\ UNCHANGED <<caches, reader, proc>>

\* streamHold.Close; a short or overlong read is remembered while the session lasts.
StreamEnds(t) ==
    /\ At(t, "using") /\ th[t].op = "stream"
    /\ \E short \in BOOLEAN :
          ent' = [ent EXCEPT ![Sess(t)].busy = "none", ![Sess(t)].short = @ \/ (short /\ ent[Sess(t)].reg)]
    /\ Return(t) /\ UNCHANGED <<caches, reader, proc>>

Cached(kind, s) == s \in caches[kind]

CapMu(t) ==
    /\ At(t, "capmu") /\ mu.cap = "none"
    /\ IF Cached("cap", Sess(t)) THEN Return(t)
       ELSE mu' = [mu EXCEPT !.cap = t] /\ Go(t, "with")
    /\ UNCHANGED <<ent, caches, reader, proc>>

MsgMu(t) ==
    /\ At(t, "msgmu") /\ mu.msg = "none"
    /\ IF Cached("msg", Sess(t)) THEN Go(t, "read") /\ UNCHANGED mu
       ELSE mu' = [mu EXCEPT !.msg = t] /\ Go(t, "with")
    /\ UNCHANGED <<ent, caches, reader, proc>>

\* Mutation: cached whether or not the session took the closer.
AttachedAny(s) == TRUE
AttachDerived(s) == ent[s].reg

\* Attach, then cache; a session that ended meanwhile gets neither.
Attach(t) ==
    /\ At(t, "attach")
    /\ LET s == Sess(t)  kind == IF th[t].op = "overview" THEN "cap" ELSE "msg" IN
       IF AttachDerived(s)
       THEN /\ ent' = [ent EXCEPT ![s].derived = IF ent[s].reg THEN Append(@, kind) ELSE @]
            /\ caches' = [caches EXCEPT ![kind] = @ \cup {s}]
            /\ IF kind = "cap" THEN Return(t) ELSE Go(t, "read") /\ mu' = Freed(t)
       ELSE Return(t) /\ UNCHANGED <<ent, caches>>
    /\ UNCHANGED <<reader, proc>>

\* Chats and Thread open the materialized file; without it, the vault.
Read(t) ==
    /\ At(t, "read") /\ th[t].op = "chats"
    /\ IF reader[Sess(t)].memo THEN Return(t) ELSE Go(t, "outside") /\ UNCHANGED mu
    /\ UNCHANGED <<ent, caches, reader, proc>>
ReadEnds(t) ==
    /\ At(t, "outside") /\ Return(t) /\ UNCHANGED <<ent, caches, reader, proc>>

\* ensure: built once, under the reader's mutex.
Ensure(t) ==
    /\ At(t, "read") /\ th[t].op = "search" /\ reader[Sess(t)].mu = "none"
    /\ IF reader[Sess(t)].built THEN Go(t, "query") /\ UNCHANGED reader
       ELSE Go(t, "building") /\ reader' = [reader EXCEPT ![Sess(t)].mu = t]
    /\ UNCHANGED <<ent, caches, mu, proc>>

\* The scan reads the materialized file, which is gone once the session is.
Scanned(s) == ent[s].scratch

Build(t) ==
    /\ At(t, "building")
    /\ \/ /\ Scanned(Sess(t))
          /\ reader' = [reader EXCEPT ![Sess(t)].built = TRUE, ![Sess(t)].proj = TRUE, ![Sess(t)].mu = "none"]
          /\ Go(t, "query") /\ UNCHANGED mu
       \/ /\ reader' = [reader EXCEPT ![Sess(t)].proj = FALSE, ![Sess(t)].mu = "none"] /\ Return(t)
    /\ UNCHANGED <<ent, caches, proc>>

Query(t) == At(t, "query") /\ Return(t) /\ UNCHANGED <<ent, caches, reader, proc>>

-----------------------------------------------------------------------------
(* The sweeper and the process                                             *)

Due == {s \in Sessions : ent[s].reg /\ ent[s].expired}

Sweep ==
    /\ Up /\ th["sweeper"].at = "idle" /\ Due # {}
    /\ Unlisted(Due) /\ Teardowns("sweeper", Due)
    /\ UNCHANGED <<caches, mu, reader, proc>>

Stop == proc = "up" /\ mix.ends /\ proc' = "stopping" /\ UNCHANGED <<ent, caches, mu, reader, th>>

CloseAll ==
    /\ proc = "stopping" /\ th["sweeper"].at = "idle"
    /\ LET all == {s \in Sessions : ent[s].reg} IN all # {} /\ Unlisted(all) /\ Teardowns("sweeper", all)
    /\ UNCHANGED <<caches, mu, reader, proc>>

\* Exit, or a crash: nobody waits for the sweeper.  What was in memory is gone.
Exit ==
    /\ Up /\ mix.ends /\ proc' = "down"
    /\ ent' = [s \in Sessions |-> [NoEntry EXCEPT !.scratch = ent[s].scratch, !.left = ent[s].left,
                                                  !.vault = IF ent[s].vault = "none" THEN "none" ELSE "closed"]]
    /\ caches' = [cap |-> {}, msg |-> {}] /\ mu' = [cap |-> "none", msg |-> "none"]
    /\ reader' = [s \in Sessions |-> NoReader] /\ th' = [t \in Threads |-> Idle]

WipedRoot(s) == FALSE

\* NewRegistry wipes the scratch root, or does not start; the process does not
\* end again.
Restart ==
    /\ proc = "down" /\ proc' = "up" /\ mix' = [mix EXCEPT !.ends = FALSE]
    /\ ent' = [s \in Sessions |-> [ent[s] EXCEPT !.scratch = WipedRoot(s), !.left = WipedRoot(s)]]
    /\ UNCHANGED <<caches, mu, reader, th>>

-----------------------------------------------------------------------------

Teardown(t) == TeardownBegins(t) \/ CloseCap(t) \/ CloseMsg(t) \/ ReaderClose(t) \/ CloseVault(t)
Run(t) ==
    \/ With(t) \/ UnlockOpen(t) \/ UnlockRegister(t) \/ StreamEnds(t) \/ CapMu(t) \/ MsgMu(t)
    \/ Browsed(t) \/ Aggregated(t) \/ Probed(t) \/ Materialized(t) \/ VaultFails(t)
    \/ Attach(t) \/ Read(t) \/ ReadEnds(t) \/ Ensure(t) \/ Build(t) \/ Query(t)
Steps ==
    \/ \E t \in Threads : Run(t) \/ Teardown(t)
    \/ \E t \in Reqs, s \in Sessions : Lock(t, s) \/ \E op \in mix.ops : Request(t, op, s)
    \/ Sweep \/ CloseAll \/ Stop \/ Exit \/ \E s \in Sessions : Expire(s)
Next == (Steps /\ UNCHANGED mix) \/ Restart

\* Goroutines run, a download ends or its client goes away, the ticker ticks.
\* A mutex is handed over fairly: a waiter that keeps finding it free gets it.
Fairness ==
    /\ \A t \in Threads : WF_vars(Run(t) /\ UNCHANGED mix) /\ SF_vars(Teardown(t) /\ UNCHANGED mix)
    /\ \A t \in Reqs : SF_vars((CapMu(t) \/ MsgMu(t) \/ Ensure(t)) /\ UNCHANGED mix)
    /\ WF_vars(Sweep /\ UNCHANGED mix)

Spec == Init /\ [][Next]_<<vars, mix>> /\ Fairness

-----------------------------------------------------------------------------
(* Properties                                                              *)

\* No torn read: whoever got into a session finds its vault open and its
\* scratch directory there until it lets go, and is alone in it.
NoTornRead == \A t \in Reqs : th[t].at = "using" =>
    /\ ent[Sess(t)].vault = "open" /\ ent[Sess(t)].scratch
    /\ \A u \in Threads \ {t} : ~(th[u].at = "using" /\ Sess(u) = Sess(t)) /\ th[u].cur # Sess(t)

\* What was derived from decrypted content is reachable only through a
\* session that still has the closer which drops it.
DerivedHasCloser == \A s \in Sessions :
    /\ s \in caches.cap => \E i \in DOMAIN ent[s].derived : ent[s].derived[i] = "cap"
    /\ s \in caches.msg => \E i \in DOMAIN ent[s].derived : ent[s].derived[i] = "msg"

\* Decrypted files are on disk only for a session somebody will end (listed,
\* being unlocked or being torn down), or because wipe, which nobody retries
\* before the next start, failed to remove them.
OnDisk(s) == ent[s].scratch \/ ent[s].left
EndedBy(s) == ent[s].reg \/ \E t \in Threads : (s \in th[t].due) \/ (th[t].at = "register" /\ Sess(t) = s)
ScratchOwned == \A s \in Sessions : OnDisk(s) /\ Up => EndedBy(s) \/ ent[s].left

\* A vault is open only while the registry or one goroutine answers for it.
VaultOwned == \A s \in Sessions : ent[s].vault = "open" =>
    ent[s].scratch /\ Cardinality({t \in Threads : s \in th[t].due}) = (IF ent[s].reg THEN 0 ELSE 1)
\* Whatever was decrypted has somebody who will drop it, or a removal that failed.
NothingLeft == DerivedHasCloser /\ ScratchOwned /\ VaultOwned

\* A session whose time is up is wiped, whoever is using it; whether the files
\* could be removed is another matter (left).
ExpiredEnds == \A s \in Sessions : ent[s].expired ~> (~ent[s].scratch \/ ~Up)

\* Whom a goroutine waits for: the holder of the lock it needs next.
WaitsFor(t) ==
    LET s == th[t].cur  h == CASE th[t].at = "capmu" -> {mu.cap}
                               [] th[t].at = "msgmu" -> {mu.msg}
                               [] th[t].at = "read" /\ th[t].op = "search" -> {reader[Sess(t)].mu}
                               [] th[t].at = "teardown" -> {ent[u].busy : u \in th[t].due}
                               [] th[t].at = "closing" -> {reader[s].mu}
                               [] th[t].at = "close" /\ ent[s].derived # << >> -> {mu[Head(ent[s].derived)]}
                               [] OTHER -> {"none"}
    IN IF "none" \in h THEN {} ELSE h

\* What Registry's comment says, every way a session ends runs the teardown,
\* needs teardowns that come to an end: no goroutines wait for one another,
\* or for themselves.
NoLockCycle == \A ring \in SUBSET Threads : ring # {} => \E t \in ring : WaitsFor(t) \cap ring = {}

\* What messagesReader's comment relies on: the vault is only reached inside With.
VaultInsideWith == \A t \in Reqs : th[t].at # "outside"

\* What Service.msgReaders' comment says: nothing derived from decrypted
\* content outlives the lock.
ProjectionDies == \A s \in Sessions : reader[s].proj => ent[s].scratch

\* The answer MessagesSearch has for a session that ended is an error: a
\* search never queries a projection that was closed.
QueryHasProjection == \A t \in Reqs : th[t].at = "query" => reader[Sess(t)].proj

\* What startVaultSweeper's comment says: scratch is wiped when the process ends.
ShutdownWipes == proc = "down" => \A s \in Sessions : ~OnDisk(s)

-----------------------------------------------------------------------------
(* The inductive invariant behind NoTornRead and NothingLeft               *)

\* Where a goroutine is tells what it may have in hand.
PlacesTrue == \A t \in Threads :
    /\ th[t].at = "idle" => th[t] = Idle
    /\ th[t].at \in Places \ {"idle", "teardown", "close", "closing"} => Sess(t) \in Sessions
    /\ th[t].op = "unlock" <=> th[t].at \in {"open", "register"}
    /\ th[t].at = "attach" => th[t].op \in {"overview", "chats", "search"}
    /\ th[t].at = "capmu" => th[t].op = "overview"
    /\ th[t].at = "msgmu" => th[t].op \in {"chats", "search"}
    /\ th[t].due # {} => th[t].at \in {"teardown", "close", "closing"}
    /\ th[t].cur # "none" => th[t].at \in {"close", "closing"}
    /\ th[t].at \in {"close", "closing"} => th[t].cur \in th[t].due

\* Whoever is in a session, or ends it, has its lock; a vault is open while the
\* registry lists it or one teardown is due, and that one closes it last.
SessionsTrue ==
    /\ \A t \in Threads : th[t].at = "using" => ent[Sess(t)].busy = t /\ ent[Sess(t)].vault = "open"
    /\ \A t \in Threads : th[t].cur # "none" => ent[th[t].cur].busy = t
    /\ \A s \in Sessions : ent[s].reg => ent[s].vault = "open"
    /\ \A s \in Sessions : ent[s].vault = "open" => ent[s].scratch /\ (ent[s].reg \/ \E t \in Threads : s \in th[t].due)
    /\ \A t \in Threads : \A s \in th[t].due : ~ent[s].reg /\ ent[s].vault = "open"
    /\ \A t, u \in Threads : t # u => th[t].due \cap th[u].due = {}

\* One goroutine unlocks a session, once; a process that is down has nothing open.
UnlocksTrue ==
    /\ \A t \in Threads : th[t].op = "unlock" => ent[Sess(t)].vault = "none"
    /\ \A t \in Threads : th[t].at = "register" => ent[Sess(t)].scratch
    /\ \A t, u \in Threads : th[t].op = "unlock" /\ th[u].op = "unlock" /\ Sess(t) = Sess(u) => t = u
    /\ th["sweeper"].op = "none"
    /\ \A s \in Sessions : ent[s].scratch /\ Up =>
          ent[s].vault = "open" \/ \E t \in Threads : th[t].at = "register" /\ Sess(t) = s
    /\ ~Up => (\A t \in Threads : th[t] = Idle) /\ \A s \in Sessions : ent[s].vault # "open"

WithCap == {<<"cap">>, <<"cap", "msg">>, <<"msg", "cap">>}
WithMsg == {<<"msg">>, <<"cap", "msg">>, <<"msg", "cap">>}
MsgFirst == {<<"msg">>, <<"msg", "cap">>}

\* What is cached has its closer, and only then; who is about to cache found
\* nothing cached and still has the lock it looked under.
CachesTrue ==
    /\ \A s \in Sessions : s \in caches.cap <=> ent[s].derived \in WithCap
    /\ \A s \in Sessions : s \in caches.msg <=> ent[s].derived \in WithMsg
    /\ \A t \in Threads : th[t].op = "overview" /\ th[t].at = "attach" => mu.cap = t
    /\ \A t \in Threads : th[t].op = "overview" /\ th[t].at \in {"with", "using", "attach"} /\ mu.cap = t
                          => Sess(t) \notin caches.cap
    /\ \A t \in Threads : th[t].op \in {"chats", "search"} /\ th[t].at \in {"with", "using", "attach"}
                          => mu.msg = t /\ Sess(t) \notin caches.msg
    /\ \A t \in Threads : th[t].at = "idle" => mu.cap # t /\ mu.msg # t
    /\ \A t \in Threads : th[t].at = "closing" => mu.msg = t /\ ent[th[t].cur].derived \in MsgFirst

VaultInv == TypeOK /\ PlacesTrue /\ SessionsTrue /\ UnlocksTrue /\ CachesTrue
=============================================================================
