----------------------------- MODULE DeviceOps -----------------------------
(***************************************************************************)
(* Operations on one device (pair, encryption, Wi-Fi sync), one in flight  *)
(* at a time, each a goroutine that runs command line tools; and what      *)
(* quince believes of the device, which every read replaces whole: the     *)
(* enrichment driver on each attach, the backup preflight's probe, and the *)
(* operations when they end.                                               *)
(*                                                                         *)
(* The device, its owner and the tools are external: a tool may ask for a  *)
(* confirmation, succeed, fail before or after the device changed, or find *)
(* the device gone.  A deadline is a tool failing or a wait ending.        *)
(***************************************************************************)
EXTENDS Naturals, Sequences, FiniteSets

CONSTANTS
    Ids,       \* operations that may be asked for, in order
    Mixes,     \* bounds: what each operation may be, which other readers run, how many moves
    Backed,    \* the device has a version, so it stays listed when it is away
    SoftCap,   \* opsSoftCap
    Queue      \* the driver's subscription buffer

ASSUME OpsAssumption ==
    /\ IsFiniteSet(Ids) /\ Ids \cap {"none", "d1", "d2", "probe"} = {} /\ SoftCap \in Nat \ {0} /\ Queue \in Nat \ {0}
    /\ Backed \in BOOLEAN
    /\ \A m \in Mixes : /\ m.kinds \in [Ids -> SUBSET {"pair", "encryption", "wifi_sync"}]
                        /\ m.readers \subseteq {"d1", "d2", "probe"} /\ m.moves \in Nat

VARIABLES
    dev,     \* the device and its pairing record at the muxer (0: none, unsaved when it is stuck)
    ident,   \* Registry.identity
    ops,     \* Manager.ops and the goroutine of each
    slot,    \* Manager.inflight
    rd,      \* reads of the identity under way
    drv,     \* EnrichDriver: subscription, buffered attaches, timer
    unsure,  \* history: a snapshot was overtaken, a tool failed once the device had
             \* changed, or there was no device left to publish onto
    moves,   \* cables and networks coming or going, probes, muxer failures left
    mix

vars == <<dev, ident, ops, slot, rd, drv, unsure, moves>>

Readers == {"d1", "d2", "probe"} \cup Ids
Unread == [name |-> FALSE, paired |-> "unknown", enc |-> "unknown", wifi |-> "unknown"]
NoOp == [kind |-> "none", st |-> "none", at |-> "idle", tr |-> "none", on |-> FALSE, rec |-> 0, got |-> Unread]
NoRead == [at |-> "idle", tr |-> "none", id |-> Unread]
Active == {"running", "waiting_for_user"}
Ended == {"succeeded", "failed"}
OnOff(b) == IF b THEN "on" ELSE "off"

Devices == [here : SUBSET {"usb", "wifi"}, paired : BOOLEAN, enc : BOOLEAN, wifi : BOOLEAN, rec : 0..2, stuck : BOOLEAN]
Idents == [name : BOOLEAN, paired : {"yes", "no", "unknown"},
           enc : {"on", "off", "unknown"}, wifi : {"on", "off", "unknown"}]
OpRecs == [kind : {"none", "pair", "encryption", "wifi_sync"}, st : {"none", "pruned"} \cup Active \cup Ended,
           at : {"idle", "asked", "tool", "wait", "check", "copied", "announce", "enrich", "release"},
           tr : {"none", "usb", "wifi"}, on : BOOLEAN, rec : 0..2, got : Idents]
ReadRecs == [at : {"idle", "asked", "read"}, tr : {"none", "usb", "wifi"}, id : Idents]
Drivers == [at : {"off", "subscribed", "on"}, q : Seq({"usb", "wifi"}), dropped : BOOLEAN,
            timer : {"none", "usb", "wifi"}]

TypeOK ==
    /\ dev \in Devices /\ ident \in Idents /\ ops \in [Ids -> OpRecs] /\ slot \in Ids \cup {"none"}
    /\ rd \in [Readers -> ReadRecs] /\ drv \in Drivers /\ Len(drv.q) <= Queue
    /\ unsure \in BOOLEAN /\ mix \in Mixes /\ moves \in 0..mix.moves

Init ==
    /\ dev \in [here : {{}, {"usb"}}, paired : BOOLEAN, enc : {FALSE}, wifi : {TRUE}, rec : {0}, stuck : {FALSE}]
    /\ ident \in {Unread, [name |-> TRUE, paired |-> "yes", enc |-> "off", wifi |-> "on"]}   \* LoadPersisted
    /\ (ident.paired = "yes" => dev.paired)
    /\ ops = [i \in Ids |-> NoOp] /\ slot = "none"
    /\ rd = [r \in Readers |-> NoRead]
    /\ drv = [at |-> "off", q |-> << >>, dropped |-> FALSE, timer |-> "none"]
    /\ unsure = FALSE /\ mix \in Mixes /\ moves = mix.moves

Move == moves > 0 /\ moves' = moves - 1
Op(i, o) == ops' = [ops EXCEPT ![i] = o]
Goto(i, at) == Op(i, [ops[i] EXCEPT !.at = at])
SetOp(i, st, at) == Op(i, [ops[i] EXCEPT !.at = at, !.st = IF @ = "pruned" THEN @ ELSE st])
Listed == dev.here # {} \/ Backed
Transport == IF "usb" \in dev.here THEN "usb" ELSE "wifi"

\* Somebody holds a snapshot of the device or of its identity.
Overtakes(who) ==
    \/ \E r \in Readers \ who : rd[r].at = "read"
    \/ \E i \in Ids \ who : ops[i].at \in {"copied", "announce"} /\ ops[i].kind = "wifi_sync"

\* Registry.Enrich replaces the whole identity.
Enrich(who, id) == ident' = id /\ unsure' = (unsure \/ Overtakes(who))

-----------------------------------------------------------------------------
(* Tools.Info: validate, then the fields a confirmed pairing allows        *)

Tri(b) == {OnOff(b), "unknown"}

\* idevicepair validate: a locked device does not say whether it is paired.
Validate(tr) ==
    IF tr \notin dev.here THEN {"unknown"} ELSE {IF dev.paired THEN "yes" ELSE "no", "unknown"}

\* Never an error: what could not be read is unknown, the settings are only
\* asked of a device that confirmed its pairing.
Info(tr) == UNION
    {IF p = "yes" THEN [name : {TRUE}, paired : {p}, enc : Tri(dev.enc), wifi : Tri(dev.wifi)]
     ELSE {[Unread EXCEPT !.name = tr \in dev.here, !.paired = p]} : p \in Validate(tr)}

ReadInfo(r) ==
    /\ rd[r].at = "asked"
    /\ \E id \in Info(rd[r].tr) : rd' = [rd EXCEPT ![r] = [@ EXCEPT !.at = "read", !.id = id]]
    /\ UNCHANGED <<dev, ident, ops, slot, drv, unsure, moves>>

EnrichInfo(r) ==
    /\ rd[r].at = "read"
    /\ Enrich({r}, rd[r].id)
    /\ rd' = [rd EXCEPT ![r] = NoRead]
    /\ ops' = IF r \in Ids THEN [ops EXCEPT ![r].at = "release"] ELSE ops
    /\ UNCHANGED <<dev, slot, drv, moves>>

Ask(r, tr) == rd' = [rd EXCEPT ![r] = [NoRead EXCEPT !.at = "asked", !.tr = tr]]

\* RefreshEncryption, for a backup's preflight.
Probe ==
    /\ "probe" \in mix.readers /\ rd["probe"].at = "idle" /\ dev.here # {} /\ Move /\ Ask("probe", Transport)
    /\ UNCHANGED <<dev, ident, ops, slot, drv, unsure>>

-----------------------------------------------------------------------------
(* EnrichDriver                                                            *)

Subscribe ==
    /\ drv.at = "off" /\ "d1" \in mix.readers /\ drv' = [drv EXCEPT !.at = "subscribed"]
    /\ UNCHANGED <<dev, ident, ops, slot, rd, unsure, moves>>

RefreshAll == IF dev.here = {} THEN drv.timer ELSE Transport

DriverStarts ==
    /\ drv.at = "subscribed"
    /\ drv' = [drv EXCEPT !.at = "on", !.timer = RefreshAll]
    /\ UNCHANGED <<dev, ident, ops, slot, rd, unsure, moves>>

\* An attach: the timer of the device is set, or set again.
Schedule ==
    /\ drv.at = "on" /\ drv.q # << >>
    /\ drv' = [drv EXCEPT !.q = Tail(@), !.timer = Head(drv.q)]
    /\ UNCHANGED <<dev, ident, ops, slot, rd, unsure, moves>>

\* Overflow: subscribe anew, and refresh everything present.
Resubscribe ==
    /\ drv.at = "on" /\ drv.dropped
    /\ drv' = [drv EXCEPT !.q = << >>, !.dropped = FALSE, !.timer = RefreshAll]
    /\ UNCHANGED <<dev, ident, ops, slot, rd, unsure, moves>>

\* The timer fires; an earlier read may still be running.
EnrichOne(r) ==
    /\ r \in {"d1", "d2"} \cap mix.readers /\ rd[r].at = "idle" /\ drv.timer # "none"
    /\ Ask(r, drv.timer) /\ drv' = [drv EXCEPT !.timer = "none"]
    /\ UNCHANGED <<dev, ident, ops, slot, unsure, moves>>

-----------------------------------------------------------------------------
(* Asking for an operation                                                 *)

\* readPairRecord; 3 stands for PairRecordUnknown, the muxer not answering.
PairRecord == IF moves > 0 THEN {dev.rec, 3} ELSE {dev.rec}

\* Pair reads the muxer's record before it claims the device; without an answer it refuses.
Pair(i) ==
    /\ ops[i] = NoOp /\ "pair" \in mix.kinds[i] /\ "usb" \in dev.here
    /\ Op(i, [NoOp EXCEPT !.kind = "pair", !.at = "asked", !.tr = "usb", !.rec = dev.rec])
    /\ UNCHANGED <<dev, ident, slot, rd, drv, unsure, moves>>

Encryption(i, on) ==
    /\ ops[i] = NoOp /\ "encryption" \in mix.kinds[i] /\ dev.here # {}
    /\ Op(i, [NoOp EXCEPT !.kind = "encryption", !.at = "asked", !.tr = Transport, !.on = on])
    /\ UNCHANGED <<dev, ident, slot, rd, drv, unsure, moves>>

WifiSync(i, on) ==
    /\ ops[i] = NoOp /\ "wifi_sync" \in mix.kinds[i] /\ dev.here # {} /\ ident.paired = "yes"
    /\ Op(i, [NoOp EXCEPT !.kind = "wifi_sync", !.at = "asked", !.tr = Transport, !.on = on])
    /\ UNCHANGED <<dev, ident, slot, rd, drv, unsure, moves>>

Claimed(i) == slot # "none"

Pruned(st) == IF st \in Ended THEN "pruned" ELSE st

\* startGuardedOp: claim, prune and record in one step; a busy device is a 409.
StartGuardedOp(i) ==
    /\ ops[i].at = "asked"
    /\ IF Claimed(i) THEN Op(i, NoOp) /\ UNCHANGED slot
       ELSE /\ slot' = i
            /\ LET kept == {j \in Ids : ops[j].st \notin {"none", "pruned"}} IN
               ops' = [j \in Ids |-> IF j = i THEN [ops[i] EXCEPT !.st = "running", !.at = "tool"]
                                     ELSE IF Cardinality(kept) >= SoftCap THEN [ops[j] EXCEPT !.st = Pruned(@)]
                                     ELSE ops[j]]
    /\ UNCHANGED <<dev, ident, rd, drv, unsure, moves>>

-----------------------------------------------------------------------------
(* The goroutines                                                          *)

Tool(i, kind) == ops[i].at = "tool" /\ ops[i].kind = kind
Fails(i) == SetOp(i, "failed", "release")

\* pairAttempt: paired (the muxer saves a record, unless its directory is
\* read-only), still asking, or over.
PairAttempt(i) ==
    /\ Tool(i, "pair")
    /\ \/ /\ "usb" \in dev.here
          /\ dev' = [dev EXCEPT !.paired = TRUE, !.rec = IF dev.stuck THEN @ ELSE 1 + (@ % 2)]
          /\ unsure' = (unsure \/ Overtakes({i}))
          /\ Goto(i, "check")
       \/ SetOp(i, "waiting_for_user", "wait") /\ UNCHANGED <<dev, unsure>>
       \/ Fails(i) /\ UNCHANGED <<dev, unsure>>        \* denied, not USB, failed, gone
    /\ UNCHANGED <<ident, slot, rd, drv, moves>>

PairPoll(i) ==
    /\ ops[i].kind = "pair" /\ ops[i].at = "wait" /\ Goto(i, "tool")
    /\ UNCHANGED <<dev, ident, slot, rd, drv, unsure, moves>>
PairTimeout(i) ==
    /\ ops[i].kind = "pair" /\ ops[i].at = "wait" /\ Fails(i)
    /\ UNCHANGED <<dev, ident, slot, rd, drv, unsure, moves>>

\* PairRecord.Recorded: absent to present, or a different one.
Recorded(before, after) == after \notin {0, 3} /\ before # after

PairCheck(i) ==
    /\ ops[i].kind = "pair" /\ ops[i].at = "check"
    /\ \E after \in PairRecord :
          /\ after = 3 => Move
          /\ after # 3 => UNCHANGED moves
          /\ IF Recorded(ops[i].rec, after) THEN SetOp(i, "succeeded", "enrich") ELSE Fails(i)
    /\ UNCHANGED <<dev, ident, slot, rd, drv, unsure>>

\* idevicebackup2 on a pseudo-terminal: it may ask for the passcode on the device.
EncryptionConfirm(i) ==
    /\ Tool(i, "encryption") /\ ops[i].st = "running" /\ SetOp(i, "waiting_for_user", "tool")
    /\ UNCHANGED <<dev, ident, slot, rd, drv, unsure, moves>>

EncryptionDone(i) ==
    /\ Tool(i, "encryption") /\ ops[i].tr \in dev.here
    /\ dev' = [dev EXCEPT !.enc = ops[i].on]
    /\ \/ SetOp(i, "succeeded", "enrich") /\ unsure' = (unsure \/ Overtakes({i}))
       \/ Fails(i) /\ unsure' = TRUE
    /\ UNCHANGED <<ident, slot, rd, drv, moves>>

\* SetWifiSync: the write.  Turning it off may take the device off Wi-Fi.
WifiWrite(i) ==
    /\ Tool(i, "wifi_sync") /\ ops[i].tr \in dev.here
    /\ \E here \in {dev.here, IF ops[i].on THEN dev.here ELSE dev.here \ {"wifi"}} :
          dev' = [dev EXCEPT !.wifi = ops[i].on, !.here = here]
    /\ \/ Goto(i, "check") /\ unsure' = (unsure \/ Overtakes({i}))
       \/ Fails(i) /\ unsure' = TRUE
    /\ UNCHANGED <<ident, slot, rd, drv, moves>>

\* The write that changed nothing, and any tool that fails at once.
ToolFails(i) ==
    /\ ops[i].at = "tool" /\ ops[i].kind # "pair" /\ Fails(i)
    /\ UNCHANGED <<dev, ident, slot, rd, drv, unsure, moves>>

\* Mutation: what is held is published as it is.
ConfirmedStale(got) == ident
Confirmed(got) == [ident EXCEPT !.wifi = got]

\* The read-back, and Device(udid): a copy of what is held, with the value read.
WifiReadBack(i) ==
    /\ ops[i].kind = "wifi_sync" /\ ops[i].at = "check"
    /\ \E got \in (IF ops[i].tr \in dev.here THEN Tri(dev.wifi) ELSE {"unknown"}) :
          LET lost == got = "unknown" /\ ~ops[i].on /\ ops[i].tr = "wifi" IN
          IF got = OnOff(ops[i].on) \/ lost
          THEN /\ Op(i, [ops[i] EXCEPT !.at = IF Listed THEN "copied" ELSE "announce",
                                       !.got = Confirmed(got)])
               /\ unsure' = (unsure \/ ~Listed)
          ELSE Fails(i) /\ unsure' = TRUE      \* unconfirmed, or not applied
    /\ UNCHANGED <<dev, ident, slot, rd, drv, moves>>

\* The whole identity, before the operation is announced.
WifiPublish(i) == Enrich({i}, ops[i].got) /\ Goto(i, "announce")

WifiEnrich(i) ==
    /\ ops[i].at = "copied" /\ WifiPublish(i)
    /\ UNCHANGED <<dev, slot, rd, drv, moves>>

WifiAnnounce(i) ==
    /\ ops[i].at = "announce"
    /\ SetOp(i, "succeeded",
             IF ops[i].got.wifi # "unknown" /\ (ops[i].on \/ ops[i].tr = "usb") THEN "enrich" ELSE "release")
    /\ UNCHANGED <<dev, ident, slot, rd, drv, unsure, moves>>

\* reEnrich reads the device once more, still holding it.
ReEnrich(i) ==
    /\ ops[i].at = "enrich" /\ rd[i].at = "idle" /\ Ask(i, ops[i].tr)
    /\ UNCHANGED <<dev, ident, ops, slot, drv, unsure, moves>>

\* releaseUDID, however the operation ended.
ReleaseUDID(i) ==
    /\ ops[i].at = "release" /\ slot' = (IF slot = i THEN "none" ELSE slot)
    /\ Goto(i, "idle")
    /\ UNCHANGED <<dev, ident, rd, drv, unsure, moves>>

-----------------------------------------------------------------------------
(* The owner and the muxer                                                 *)

\* The registry's event reaches the driver, if it listens and has room.
Delivered(t) ==
    IF drv.at = "off" THEN drv
    ELSE IF Len(drv.q) < Queue THEN [drv EXCEPT !.q = Append(@, t)]
    ELSE [drv EXCEPT !.dropped = TRUE]

Attach(t) ==
    /\ t \notin dev.here /\ (t = "wifi" => dev.wifi /\ dev.paired) /\ Move
    /\ dev' = [dev EXCEPT !.here = @ \cup {t}]
    /\ drv' = Delivered(t)
    /\ UNCHANGED <<ident, ops, slot, rd, unsure>>

Leave(t) ==
    /\ t \in dev.here /\ Move /\ dev' = [dev EXCEPT !.here = @ \ {t}]
    /\ UNCHANGED <<ident, ops, slot, rd, drv, unsure>>

ReadOnlyRecords ==
    /\ ~dev.stuck /\ Move /\ dev' = [dev EXCEPT !.stuck = TRUE]
    /\ UNCHANGED <<ident, ops, slot, rd, drv, unsure>>

-----------------------------------------------------------------------------

Run(i) ==
    \/ StartGuardedOp(i) \/ PairAttempt(i) \/ PairPoll(i) \/ PairCheck(i)
    \/ EncryptionDone(i) \/ WifiWrite(i) \/ ToolFails(i)
    \/ WifiReadBack(i) \/ WifiEnrich(i) \/ WifiAnnounce(i) \/ ReEnrich(i) \/ ReleaseUDID(i)
Drive == Subscribe \/ DriverStarts \/ Schedule \/ Resubscribe \/ EnrichOne("d1") \/ EnrichOne("d2")
Read(r) == ReadInfo(r) \/ EnrichInfo(r)

Steps ==
    \/ \E i \in Ids : Run(i) \/ PairTimeout(i) \/ EncryptionConfirm(i) \/ Pair(i)
                      \/ \E on \in BOOLEAN : Encryption(i, on) \/ WifiSync(i, on)
    \/ Drive \/ Probe \/ \E r \in Readers : Read(r)
    \/ \E t \in {"usb", "wifi"} : Attach(t) \/ Leave(t)
    \/ ReadOnlyRecords
Next == Steps /\ UNCHANGED mix

\* Goroutines run and tools return, if only because their context ends; the
\* deadline of a pairing passes while it waits for the owner.
Fairness ==
    /\ \A i \in Ids : WF_vars(Run(i) /\ UNCHANGED mix) /\ SF_vars(PairTimeout(i) /\ UNCHANGED mix)
    /\ \A r \in Readers : WF_vars(Read(r) /\ UNCHANGED mix)
    /\ WF_vars(Drive /\ UNCHANGED mix)

Spec == Init /\ [][Next]_<<vars, mix>> /\ Fairness

-----------------------------------------------------------------------------
(* Properties                                                              *)

Working(i) == ops[i].at \notin {"idle", "asked"}

\* One operation per device, whatever its kind: Wi-Fi sync cuts the transport
\* the others run over.
OneAtATime == \A i, j \in Ids : Working(i) /\ Working(j) => i = j

\* A client can always learn how its operation ended: it stays on record until
\* it has ended, and a free device has no operation still open.
OpenOpsTracked == \A i \in Ids : Working(i) /\ ops[i].at # "release" /\ ops[i].at # "enrich"
                                 => ops[i].st \in Active /\ slot = i

\* A pairing that is reported is one the muxer keeps: there is a record.
PairingSaved == [][\A i \in Ids : ops[i].kind = "pair" /\ ops[i].st \in Active /\ ops'[i].st = "succeeded"
                                  => dev.rec # 0 /\ dev.rec # ops[i].rec]_vars

\* Publish before announcing: who polls for "succeeded" and then reads the
\* device sees the value the operation read back, unless a later read replaced it.
PublishedBeforeDone ==
    [][\A i \in Ids : ops[i].kind = "wifi_sync" /\ ops[i].st \in Active /\ ops'[i].st = "succeeded" /\ Listed
                      => unsure \/ ident'.wifi = ops[i].got.wifi]_vars

Quiet == \A i \in Ids : ~Working(i) /\ \A r \in Readers : rd[r].at = "idle"

\* Settings only change through quince here: with nothing under way the badges
\* are right or unknown, unless a snapshot was overtaken, a tool failed late or
\* the value read back had no listed device to go to.
BadgeTrue == Quiet /\ ~unsure => ident.enc \in {OnOff(dev.enc), "unknown"} /\ ident.wifi \in {OnOff(dev.wifi), "unknown"}

\* Every operation ends and gives the device back.
OpEnds == \A i \in Ids : Working(i) ~> ~Working(i)

\* A device that stays is read, also one that was there before the driver
\* subscribed or whose attach did not fit the buffer.
PresentIsRead ==
    "d1" \in mix.readers /\ <>[]("usb" \in dev.here) => <>(\E r \in {"d1", "d2"} : rd[r].at = "read")

\* What runWifiSync's comment says of a read that fails: nothing is updated.
FailedReadKeeps == [][ident.name => ident'.name]_vars

-----------------------------------------------------------------------------
(* The inductive invariant behind BadgeTrue and the others                 *)

EncTrue(id) == id.enc \in {OnOff(dev.enc), "unknown"}
WifiTrue(id) == id.wifi \in {OnOff(dev.wifi), "unknown"}

\* An operation under way holds the device; what it is, is told from where it is;
\* it reads the identity only at its end.
HolderTrue ==
    /\ \A i \in Ids : Working(i) => slot = i
    /\ \A i \in Ids : ops[i].at \in {"copied", "announce"} => ops[i].kind = "wifi_sync"
    /\ \A i \in Ids : Working(i) /\ ops[i].at \notin {"enrich", "release"} => ops[i].st \in Active
    /\ \A i \in Ids : rd[i].at # "idle" => ops[i].at = "enrich"

\* Nobody holds a snapshot the device has left behind, and an identity that is
\* out of date has an operation that is about to replace it.
SnapshotsTrue ==
    /\ \A r \in Readers : rd[r].at = "read" => EncTrue(rd[r].id) /\ WifiTrue(rd[r].id)
    /\ \A i \in Ids : ops[i].at = "copied" => EncTrue(ops[i].got) /\ WifiTrue(ops[i].got)
    /\ \A i \in Ids : ops[i].at = "announce" => ident.wifi = ops[i].got.wifi
    /\ EncTrue(ident) \/ \E i \in Ids : ops[i].kind = "encryption" /\ ops[i].at = "enrich"
    /\ WifiTrue(ident) \/ \E i \in Ids : ops[i].kind = "wifi_sync" /\ ops[i].at \in {"check", "copied"}

OpsInv == TypeOK /\ HolderTrue /\ (~unsure => SnapshotsTrue)
=============================================================================
