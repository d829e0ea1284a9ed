---------------------------- MODULE DeviceProofs ----------------------------
(***************************************************************************)
(* Proofs about DeviceOps and CertTrial.                                   *)
(*                                                                         *)
(* The operations: for any operations asked for, readers, limits and       *)
(* movements of the device.  The operation at work holds the device        *)
(* (HolderTrue); a setting quince has wrong is one that operation is about *)
(* to publish (SnapshotsTrue).                                             *)
(*                                                                         *)
(* The certificate trial: for any callers, trials, edits and restarts.     *)
(* What the Keeper serves is what the last document read names, or a trial *)
(* that holds its own timer (RolesTrue, FilesTrue, TimersTrue, PathsTrue). *)
(***************************************************************************)
EXTENDS DeviceOps, CertTrial, TLAPS

-----------------------------------------------------------------------------
(* Operations on one device: what an update does                           *)

OpPlaces == {"idle", "asked", "tool", "wait", "check", "copied", "announce", "enrich", "release"}
OpStates == {"none", "pruned"} \cup Active \cup Ended

\* Operation i moves; the others stay as they are.
Only(i) == /\ ops' \in [Ids -> OpRecs] /\ \A j \in Ids : j # i => ops'[j] = ops[j]
Same(i) == ops'[i].kind = ops[i].kind /\ ops'[i].tr = ops[i].tr /\ ops'[i].on = ops[i].on /\ ops'[i].rec = ops[i].rec

\* The fields of an operation's record.
LEMMA OpFields ==
    ASSUME NEW o \in OpRecs
    PROVE  /\ o.kind \in {"none", "pair", "encryption", "wifi_sync"} /\ o.st \in OpStates /\ o.at \in OpPlaces
           /\ o.tr \in {"none", "usb", "wifi"} /\ o.on \in BOOLEAN /\ o.rec \in 0..2 /\ o.got \in Idents
  BY DEF OpRecs, OpStates, OpPlaces

\* The blank records are records.
LEMMA Blanks == /\ Unread \in Idents /\ NoOp \in OpRecs /\ NoRead \in ReadRecs
                /\ NoOp.at = "idle" /\ NoRead.at = "idle"
                /\ Unread.enc = "unknown" /\ Unread.wifi = "unknown"
  BY DEF Unread, Idents, NoOp, OpRecs, NoRead, ReadRecs, Active, Ended

\* Writing one operation's record leaves the others alone.
LEMMA OpDoes ==
    ASSUME ops \in [Ids -> OpRecs], NEW i \in Ids, NEW o \in OpRecs, Op(i, o)
    PROVE  Only(i) /\ ops'[i] = o
  BY DEF Op, Only

\* Moving an operation on changes its place only.
LEMMA GotoDoes ==
    ASSUME ops \in [Ids -> OpRecs], NEW i \in Ids, NEW t \in OpPlaces, Goto(i, t)
    PROVE  Only(i) /\ Same(i) /\ ops'[i].at = t /\ ops'[i].st = ops[i].st /\ ops'[i].got = ops[i].got
<1> DEFINE o == [ops[i] EXCEPT !.at = t]
<1>1. /\ o \in OpRecs /\ o.at = t /\ o.st = ops[i].st /\ o.got = ops[i].got
      /\ o.kind = ops[i].kind /\ o.tr = ops[i].tr /\ o.on = ops[i].on /\ o.rec = ops[i].rec
  BY DEF OpRecs, OpPlaces
<1>2. Op(i, o)
  BY DEF Goto
<1> HIDE DEF o
<1> QED
  BY <1>1, <1>2, OpDoes DEF Same

\* setOp changes an operation's state and place, unless it was pruned.
LEMMA SetOpDoes ==
    ASSUME ops \in [Ids -> OpRecs], NEW i \in Ids, NEW st \in OpStates, NEW t \in OpPlaces, SetOp(i, st, t)
    PROVE  /\ Only(i) /\ Same(i) /\ ops'[i].at = t /\ ops'[i].got = ops[i].got
           /\ ops[i].st # "pruned" => ops'[i].st = st
<1> DEFINE o == [ops[i] EXCEPT !.at = t, !.st = IF @ = "pruned" THEN @ ELSE st]
<1>1. /\ o \in OpRecs /\ o.at = t /\ o.got = ops[i].got /\ (ops[i].st # "pruned" => o.st = st)
      /\ o.kind = ops[i].kind /\ o.tr = ops[i].tr /\ o.on = ops[i].on /\ o.rec = ops[i].rec
  BY DEF OpRecs, OpPlaces, OpStates
<1>2. Op(i, o)
  BY DEF SetOp
<1> HIDE DEF o
<1> QED
  BY <1>1, <1>2, OpDoes DEF Same

\* An operation that fails goes on to release the device.
LEMMA FailsDoes ==
    ASSUME ops \in [Ids -> OpRecs], NEW i \in Ids, Fails(i)
    PROVE  Only(i) /\ Same(i) /\ ops'[i].at = "release" /\ ops'[i].got = ops[i].got
<1>1. SetOp(i, "failed", "release") /\ "failed" \in OpStates /\ "release" \in OpPlaces
  BY DEF Fails, OpStates, OpPlaces, Ended
<1> QED
  BY <1>1, SetOpDoes

\* A reader that is asked is asked; the others are left alone.
LEMMA ReadDoes ==
    ASSUME rd \in [Readers -> ReadRecs], NEW r \in Readers, NEW tr \in {"usb", "wifi", "none"}, Ask(r, tr)
    PROVE  /\ rd' \in [Readers -> ReadRecs] /\ \A q \in Readers : q # r => rd'[q] = rd[q]
           /\ rd'[r].at = "asked"
<1> DEFINE x == [NoRead EXCEPT !.at = "asked", !.tr = tr]
<1>1. x \in ReadRecs /\ x.at = "asked"
  BY Blanks DEF ReadRecs, NoRead
<1> HIDE DEF x
<1> QED
  BY <1>1 DEF Ask, x

\* What a read brings is right or unknown at the moment it is read.
LEMMA InfoTrue ==
    ASSUME dev \in Devices, NEW tr, NEW id \in Info(tr)
    PROVE  id \in Idents /\ EncTrue(id) /\ WifiTrue(id)
<1>1. PICK p \in Validate(tr) :
        id \in IF p = "yes" THEN [name : {TRUE}, paired : {p}, enc : Tri(dev.enc), wifi : Tri(dev.wifi)]
               ELSE {[Unread EXCEPT !.name = tr \in dev.here, !.paired = p]}
  BY DEF Info
<1>2. p \in {"yes", "no", "unknown"}
  BY DEF Validate
<1>3. CASE p = "yes"
  BY <1>1, <1>3 DEF Tri, OnOff, Idents, EncTrue, WifiTrue
<1>4. CASE p # "yes"
  <2>1. id = [Unread EXCEPT !.name = tr \in dev.here, !.paired = p] /\ (tr \in dev.here) \in BOOLEAN
    BY <1>1, <1>4
  <2> QED
    BY <1>2, <2>1, Blanks DEF Idents, Unread, EncTrue, WifiTrue
<1> QED
  BY <1>3, <1>4

\* A device is reached over one of the two transports.
LEMMA Transports ==
    ASSUME dev \in Devices
    PROVE  Transport \in {"usb", "wifi"} /\ dev.here \in SUBSET {"usb", "wifi"}
  BY DEF Transport, Devices

-----------------------------------------------------------------------------
(* What each step does to the operations                                   *)

\* A request, or the refusal of one: nothing is held before or after.
Asks(i) == Only(i) /\ ops[i].at \in {"idle", "asked"} /\ ops'[i].at \in {"idle", "asked"} /\ UNCHANGED slot

\* A request for an operation only puts it on record.
LEMMA AsksDoes ==
    ASSUME TypeOK, NEW i \in Ids, Pair(i) \/ (\E on \in BOOLEAN : Encryption(i, on) \/ WifiSync(i, on))
    PROVE  Asks(i) /\ UNCHANGED <<dev, ident, rd, unsure>>
<1>0. ops \in [Ids -> OpRecs] /\ dev.rec \in 0..2 /\ Transport \in {"usb", "wifi"}
  BY Transports DEF TypeOK, Devices
<1>1. CASE Pair(i)
  <2> DEFINE o == [NoOp EXCEPT !.kind = "pair", !.at = "asked", !.tr = "usb", !.rec = dev.rec]
  <2>1. o \in OpRecs /\ o.at = "asked"
    BY <1>0, Blanks DEF OpRecs, NoOp
  <2>2. Op(i, o) /\ ops[i] = NoOp
    BY <1>1 DEF Pair
  <2> HIDE DEF o
  <2> QED
    BY <1>0, <1>1, <2>1, <2>2, OpDoes, Blanks DEF Pair, Asks
<1>2. ASSUME NEW on \in BOOLEAN, Encryption(i, on)
      PROVE  Asks(i) /\ UNCHANGED <<dev, ident, rd, unsure>>
  <2> DEFINE o == [NoOp EXCEPT !.kind = "encryption", !.at = "asked", !.tr = Transport, !.on = on]
  <2>1. o \in OpRecs /\ o.at = "asked"
    BY <1>0, Blanks DEF OpRecs, NoOp
  <2>2. Op(i, o) /\ ops[i] = NoOp
    BY <1>2 DEF Encryption
  <2> HIDE DEF o
  <2> QED
    BY <1>0, <1>2, <2>1, <2>2, OpDoes, Blanks DEF Encryption, Asks
<1>3. ASSUME NEW on \in BOOLEAN, WifiSync(i, on)
      PROVE  Asks(i) /\ UNCHANGED <<dev, ident, rd, unsure>>
  <2> DEFINE o == [NoOp EXCEPT !.kind = "wifi_sync", !.at = "asked", !.tr = Transport, !.on = on]
  <2>1. o \in OpRecs /\ o.at = "asked"
    BY <1>0, Blanks DEF OpRecs, NoOp
  <2>2. Op(i, o) /\ ops[i] = NoOp
    BY <1>3 DEF WifiSync
  <2> HIDE DEF o
  <2> QED
    BY <1>0, <1>3, <2>1, <2>2, OpDoes, Blanks DEF WifiSync, Asks
<1> QED
  BY <1>1, <1>2, <1>3

\* An operation starts when it gets the device, or is refused.
LEMMA StartDoes ==
    ASSUME TypeOK, NEW i \in Ids, StartGuardedOp(i)
    PROVE  /\ UNCHANGED <<dev, ident, rd, unsure>>
           /\ \/ Asks(i)
              \/ /\ ops' \in [Ids -> OpRecs] /\ slot = "none" /\ slot' = i /\ ops[i].at = "asked"
                 /\ ops'[i].at = "tool" /\ ops'[i].st = "running"
                 /\ \A j \in Ids : j # i => /\ ops'[j].at = ops[j].at /\ ops'[j].kind = ops[j].kind
                                            /\ ops'[j].got = ops[j].got /\ ops'[j].st \in {ops[j].st, Pruned(ops[j].st)}
<1>0. ops \in [Ids -> OpRecs] /\ UNCHANGED <<dev, ident, rd, unsure>> /\ ops[i].at = "asked"
  BY DEF TypeOK, StartGuardedOp
<1>1. CASE Claimed(i)
  BY <1>0, <1>1, OpDoes, Blanks DEF StartGuardedOp, Asks
<1>2. CASE ~Claimed(i)
  <2> DEFINE many == Cardinality({j \in Ids : ops[j].st \notin {"none", "pruned"}}) >= SoftCap
  <2>1. /\ slot' = i /\ slot = "none"
        /\ ops' = [j \in Ids |-> IF j = i THEN [ops[i] EXCEPT !.st = "running", !.at = "tool"]
                                 ELSE IF many THEN [ops[j] EXCEPT !.st = Pruned(@)]
                                 ELSE ops[j]]
    BY <1>2 DEF StartGuardedOp, Claimed
  <2> HIDE DEF many
  <2>2. [ops[i] EXCEPT !.st = "running", !.at = "tool"] \in OpRecs
    BY <1>0 DEF OpRecs, Active
  <2>3. ASSUME NEW j \in Ids
        PROVE  LET o == [ops[j] EXCEPT !.st = Pruned(@)] IN
               o \in OpRecs /\ o.at = ops[j].at /\ o.kind = ops[j].kind /\ o.got = ops[j].got /\ o.st = Pruned(ops[j].st)
    <3>1. Pruned(ops[j].st) \in OpStates /\ ops[j] \in OpRecs
      BY <1>0, OpFields DEF Pruned, OpStates
    <3> QED
      BY <3>1 DEF OpRecs, OpStates
  <2>4. ops' \in [Ids -> OpRecs]
    BY <1>0, <2>1, <2>2, <2>3
  <2>5. ops'[i].at = "tool" /\ ops'[i].st = "running"
    BY <1>0, <2>1 DEF OpRecs
  <2>6. \A j \in Ids : j # i => /\ ops'[j].at = ops[j].at /\ ops'[j].kind = ops[j].kind
                                /\ ops'[j].got = ops[j].got /\ ops'[j].st \in {ops[j].st, Pruned(ops[j].st)}
    BY <2>1, <2>3
  <2> QED
    BY <1>0, <2>1, <2>4, <2>5, <2>6
<1> QED
  BY <1>1, <1>2

\* Steps of an operation at work that leave the device and the identity alone.
Works(i) ==
    /\ Only(i) /\ Same(i) /\ Working(i) /\ UNCHANGED <<slot, ident>> /\ ops[i].at \notin {"enrich", "release"}

\* The places and states the actions name.
LEMMA Places ==
    /\ OpPlaces = {"idle", "asked", "tool", "wait", "check", "copied", "announce", "enrich", "release"}
    /\ {"failed", "succeeded", "running", "waiting_for_user", "none", "pruned"} \subseteq OpStates
    /\ Active = {"running", "waiting_for_user"}
  BY DEF OpPlaces, OpStates, Active, Ended

\* What one attempt at pairing may change.
LEMMA PairAttemptDoes ==
    ASSUME TypeOK, NEW i \in Ids, PairAttempt(i)
    PROVE  /\ Works(i) /\ ops[i].kind = "pair" /\ UNCHANGED rd
           /\ ops'[i].at \in {"check", "wait", "release"}
           /\ ops'[i].at = "check" => ops'[i].st = ops[i].st
           /\ ops'[i].at = "wait" => ops'[i].st \in {"pruned", "waiting_for_user"} /\ (ops[i].st # "pruned" => ops'[i].st = "waiting_for_user")
           /\ dev' \in Devices /\ dev'.enc = dev.enc /\ dev'.wifi = dev.wifi /\ unsure' \in BOOLEAN /\ (unsure => unsure')
<1>0. /\ ops \in [Ids -> OpRecs] /\ dev \in Devices /\ unsure \in BOOLEAN /\ UNCHANGED <<rd, slot, ident>>
      /\ ops[i].at = "tool" /\ ops[i].kind = "pair" /\ Working(i)
  BY DEF TypeOK, PairAttempt, Tool, Working
<1>1. CASE Goto(i, "check") /\ dev' = [dev EXCEPT !.paired = TRUE, !.rec = IF dev.stuck THEN @ ELSE 1 + (@ % 2)]
           /\ unsure' = (unsure \/ Overtakes({i}))
  <2>1. dev' \in Devices /\ dev'.enc = dev.enc /\ dev'.wifi = dev.wifi
    <3>1. \A n \in 0..2 : 1 + (n % 2) \in 0..2
      OBVIOUS
    <3> QED
      BY <1>0, <1>1, <3>1 DEF Devices
  <2>2. Only(i) /\ Same(i) /\ ops'[i].at = "check" /\ ops'[i].st = ops[i].st
    BY <1>0, <1>1, GotoDoes, Places
  <2>3. unsure' \in BOOLEAN /\ (unsure => unsure')
    BY <1>0, <1>1
  <2> QED
    BY <1>0, <2>1, <2>2, <2>3 DEF Works
<1>2. CASE SetOp(i, "waiting_for_user", "wait") /\ UNCHANGED <<dev, unsure>>
  <2>1. Only(i) /\ Same(i) /\ ops'[i].at = "wait" /\ (ops[i].st # "pruned" => ops'[i].st = "waiting_for_user")
    BY <1>0, <1>2, SetOpDoes, Places
  <2>2. ops'[i].st \in {"pruned", "waiting_for_user"}
    BY <1>0, <1>2 DEF SetOp, Op, OpRecs
  <2> QED
    BY <1>0, <1>2, <2>1, <2>2 DEF Works
<1>3. CASE Fails(i) /\ UNCHANGED <<dev, unsure>>
  BY <1>0, <1>3, FailsDoes DEF Works
<1> QED
  BY <1>1, <1>2, <1>3 DEF PairAttempt

\* A wait, a check, a confirmation on the device, a tool that failed at once.
LEMMA QuietDoes ==
    ASSUME TypeOK, NEW i \in Ids,
           PairPoll(i) \/ PairTimeout(i) \/ PairCheck(i) \/ EncryptionConfirm(i) \/ ToolFails(i)
    PROVE  /\ Works(i) /\ UNCHANGED <<dev, rd, unsure>> /\ ops'[i].at \in {"tool", "release", "enrich"}
           /\ ops'[i].at = "tool" /\ ops[i].st \in Active => ops'[i].st \in Active
           /\ ops[i].at \in {"tool", "wait", "check"}
           /\ ops[i].at = "check" => ops[i].kind = "pair"
<1>0. ops \in [Ids -> OpRecs] /\ UNCHANGED <<dev, rd, slot, ident, unsure>>
  BY DEF TypeOK, PairPoll, PairTimeout, PairCheck, EncryptionConfirm, ToolFails
<1>1. CASE PairPoll(i)
  <2>1. Only(i) /\ Same(i) /\ ops'[i].at = "tool" /\ ops'[i].st = ops[i].st
    BY <1>0, <1>1, GotoDoes, Places DEF PairPoll
  <2> QED
    BY <1>0, <1>1, <2>1 DEF PairPoll, Works, Working
<1>2. CASE Fails(i) /\ ops[i].at \in {"wait", "tool", "check"} /\ (ops[i].at = "check" => ops[i].kind = "pair")
  BY <1>0, <1>2, FailsDoes DEF Works, Working
<1>3. CASE SetOp(i, "succeeded", "enrich") /\ ops[i].at = "check" /\ ops[i].kind = "pair"
  BY <1>0, <1>3, SetOpDoes, Places DEF Works, Working
<1>4. CASE EncryptionConfirm(i)
  <2>1. Only(i) /\ Same(i) /\ ops'[i].at = "tool" /\ (ops[i].st # "pruned" => ops'[i].st = "waiting_for_user")
    BY <1>0, <1>4, SetOpDoes, Places DEF EncryptionConfirm
  <2> QED
    BY <1>0, <1>4, <2>1, Places DEF EncryptionConfirm, Tool, Works, Working
<1> QED
  BY <1>1, <1>2, <1>3, <1>4 DEF PairTimeout, PairCheck, ToolFails

\* What the end of the encryption tool may change.
LEMMA EncryptionDoneDoes ==
    ASSUME TypeOK, NEW i \in Ids, EncryptionDone(i)
    PROVE  /\ Works(i) /\ ops[i].kind = "encryption" /\ UNCHANGED rd /\ dev' \in Devices /\ dev'.wifi = dev.wifi
           /\ ops[i].at = "tool" /\ unsure' \in BOOLEAN
           /\ unsure' \/ (ops'[i].at = "enrich" /\ ~Overtakes({i}) /\ ~unsure)
           /\ ops'[i].at \in {"enrich", "release"}
<1>0. /\ ops \in [Ids -> OpRecs] /\ dev \in Devices /\ unsure \in BOOLEAN /\ UNCHANGED <<rd, slot, ident>>
      /\ ops[i].at = "tool" /\ ops[i].kind = "encryption" /\ Working(i) /\ ops[i].on \in BOOLEAN
      /\ dev' = [dev EXCEPT !.enc = ops[i].on]
  BY OpFields DEF TypeOK, EncryptionDone, Tool, Working
<1>1. dev' \in Devices /\ dev'.wifi = dev.wifi
  BY <1>0 DEF Devices
<1>2. CASE SetOp(i, "succeeded", "enrich") /\ unsure' = (unsure \/ Overtakes({i}))
  BY <1>0, <1>1, <1>2, SetOpDoes, Places DEF Works
<1>3. CASE Fails(i) /\ unsure' = TRUE
  BY <1>0, <1>1, <1>3, FailsDoes DEF Works
<1> QED
  BY <1>2, <1>3 DEF EncryptionDone

\* What writing the Wi-Fi setting may change.
LEMMA WifiWriteDoes ==
    ASSUME TypeOK, NEW i \in Ids, WifiWrite(i)
    PROVE  /\ Works(i) /\ ops[i].kind = "wifi_sync" /\ UNCHANGED rd /\ dev' \in Devices /\ dev'.enc = dev.enc
           /\ ops[i].at = "tool" /\ unsure' \in BOOLEAN
           /\ unsure' \/ (ops'[i].at = "check" /\ ~Overtakes({i}) /\ ~unsure)
           /\ ops'[i].at \in {"check", "release"} /\ (ops'[i].at = "check" => ops'[i].st = ops[i].st)
<1>0. /\ ops \in [Ids -> OpRecs] /\ dev \in Devices /\ unsure \in BOOLEAN /\ UNCHANGED <<rd, slot, ident>>
      /\ ops[i].at = "tool" /\ ops[i].kind = "wifi_sync" /\ Working(i) /\ ops[i].on \in BOOLEAN
  BY OpFields DEF TypeOK, WifiWrite, Tool, Working
<1>1. PICK here \in {dev.here, IF ops[i].on THEN dev.here ELSE dev.here \ {"wifi"}} :
        dev' = [dev EXCEPT !.wifi = ops[i].on, !.here = here]
  BY DEF WifiWrite
<1>2. dev' \in Devices /\ dev'.enc = dev.enc
  BY <1>0, <1>1 DEF Devices
<1>3. CASE Goto(i, "check") /\ unsure' = (unsure \/ Overtakes({i}))
  BY <1>0, <1>2, <1>3, GotoDoes, Places DEF Works
<1>4. CASE Fails(i) /\ unsure' = TRUE
  BY <1>0, <1>2, <1>4, FailsDoes DEF Works
<1> QED
  BY <1>3, <1>4 DEF WifiWrite

\* What reading the Wi-Fi setting back may change.
LEMMA WifiReadBackDoes ==
    ASSUME TypeOK, NEW i \in Ids, WifiReadBack(i)
    PROVE  /\ Works(i) /\ ops[i].kind = "wifi_sync" /\ UNCHANGED <<rd, dev>> /\ unsure' \in BOOLEAN
           /\ ops[i].at = "check" /\ ops'[i].at \in {"copied", "announce", "release"}
           /\ ops'[i].at # "release" => ops'[i].st = ops[i].st
           /\ unsure' \/ (/\ ~unsure /\ ops'[i].at = "copied" /\ WifiTrue(ops'[i].got) /\ ops'[i].got.enc = ident.enc)
<1>0. /\ ops \in [Ids -> OpRecs] /\ dev \in Devices /\ ident \in Idents /\ unsure \in BOOLEAN
      /\ UNCHANGED <<rd, slot, ident, dev>> /\ ops[i].at = "check" /\ ops[i].kind = "wifi_sync" /\ Working(i)
  BY DEF TypeOK, WifiReadBack, Working
<1>1. CASE Fails(i) /\ unsure' = TRUE
  BY <1>0, <1>1, FailsDoes DEF Works
<1>2. ASSUME NEW got \in {"on", "off", "unknown"}, got \in {OnOff(dev.wifi), "unknown"},
             Op(i, [ops[i] EXCEPT !.at = IF Listed THEN "copied" ELSE "announce", !.got = Confirmed(got)]),
             unsure' = (unsure \/ ~Listed)
      PROVE  /\ Works(i) /\ ops'[i].at \in {"copied", "announce"} /\ ops'[i].st = ops[i].st /\ unsure' \in BOOLEAN
             /\ unsure' \/ (/\ ~unsure /\ ops'[i].at = "copied" /\ WifiTrue(ops'[i].got) /\ ops'[i].got.enc = ident.enc)
  <2> DEFINE o == [ops[i] EXCEPT !.at = IF Listed THEN "copied" ELSE "announce", !.got = Confirmed(got)]
  <2>1. Confirmed(got) \in Idents /\ Confirmed(got).wifi = got /\ Confirmed(got).enc = ident.enc
    BY <1>0, <1>2 DEF Confirmed, Idents
  <2>2. /\ o \in OpRecs /\ o.at \in {"copied", "announce"} /\ o.st = ops[i].st /\ o.got = Confirmed(got)
        /\ o.kind = ops[i].kind /\ o.tr = ops[i].tr /\ o.on = ops[i].on /\ o.rec = ops[i].rec
        /\ (Listed => o.at = "copied")
    BY <1>0, <2>1 DEF OpRecs
  <2>3. Op(i, o)
    BY <1>2
  <2> HIDE DEF o
  <2>4. Only(i) /\ ops'[i] = o
    BY <1>0, <2>2, <2>3, OpDoes
  <2> QED
    BY <1>0, <1>2, <2>1, <2>2, <2>4 DEF Works, Same, WifiTrue
<1>3. PICK got \in (IF ops[i].tr \in dev.here THEN Tri(dev.wifi) ELSE {"unknown"}) :
        \/ /\ Op(i, [ops[i] EXCEPT !.at = IF Listed THEN "copied" ELSE "announce", !.got = Confirmed(got)])
           /\ unsure' = (unsure \/ ~Listed)
        \/ Fails(i) /\ unsure' = TRUE
  BY DEF WifiReadBack
<1>4. got \in {"on", "off", "unknown"} /\ got \in {OnOff(dev.wifi), "unknown"}
  BY <1>3 DEF Tri, OnOff
<1> QED
  BY <1>0, <1>1, <1>2, <1>3, <1>4

\* The value read back becomes the identity's.
LEMMA WifiEnrichDoes ==
    ASSUME TypeOK, NEW i \in Ids, WifiEnrich(i)
    PROVE  /\ Only(i) /\ Same(i) /\ ops[i].at = "copied" /\ ops'[i].at = "announce" /\ ops'[i].got = ops[i].got
           /\ ops'[i].st = ops[i].st /\ ident' = ops[i].got /\ UNCHANGED <<dev, slot, rd>>
           /\ unsure' \in BOOLEAN /\ (unsure => unsure')
  BY GotoDoes, Places DEF TypeOK, WifiEnrich, WifiPublish, Enrich

\* The announcement changes the operation only.
LEMMA WifiAnnounceDoes ==
    ASSUME TypeOK, NEW i \in Ids, WifiAnnounce(i)
    PROVE  /\ Works(i) /\ ops[i].at = "announce" /\ ops'[i].at \in {"enrich", "release"} /\ UNCHANGED <<dev, rd, unsure>>
  BY SetOpDoes, Places DEF TypeOK, WifiAnnounce, Works, Working

-----------------------------------------------------------------------------
(* The reads of the identity, the driver and the world                     *)

\* The reads stay as they are, but for one.
OnlyRead(r) == rd' \in [Readers -> ReadRecs] /\ \A x \in Readers : x # r => rd'[x] = rd[x]

\* What a reader reads is true when it reads it.
LEMMA ReadInfoDoes ==
    ASSUME TypeOK, NEW r \in Readers, ReadInfo(r)
    PROVE  /\ OnlyRead(r) /\ rd[r].at = "asked" /\ rd'[r].at = "read" /\ EncTrue(rd'[r].id) /\ WifiTrue(rd'[r].id)
           /\ UNCHANGED <<dev, ident, ops, slot, unsure>>
<1>1. PICK id \in Info(rd[r].tr) : rd' = [rd EXCEPT ![r] = [@ EXCEPT !.at = "read", !.id = id]]
  BY DEF ReadInfo
<1>2. id \in Idents /\ EncTrue(id) /\ WifiTrue(id)
  BY <1>1, InfoTrue DEF TypeOK
<1> DEFINE x == [rd[r] EXCEPT !.at = "read", !.id = id]
<1>3. x \in ReadRecs /\ x.at = "read" /\ x.id = id
  BY <1>2 DEF TypeOK, ReadRecs
<1>4. rd' = [rd EXCEPT ![r] = x]
  BY <1>1
<1> HIDE DEF x
<1> QED
  BY <1>2, <1>3, <1>4 DEF TypeOK, OnlyRead, ReadInfo

\* A reader publishes what it read, and an overtaken one is recorded as such.
LEMMA EnrichInfoDoes ==
    ASSUME TypeOK, NEW r \in Readers, EnrichInfo(r)
    PROVE  /\ OnlyRead(r) /\ rd[r].at = "read" /\ rd'[r].at = "idle" /\ ident' = rd[r].id /\ ident' \in Idents
           /\ UNCHANGED <<dev, slot>> /\ unsure' \in BOOLEAN /\ (unsure \/ Overtakes({r}) => unsure')
           /\ r \in Ids => Only(r) /\ Same(r) /\ ops'[r].at = "release" /\ ops'[r].got = ops[r].got
           /\ r \notin Ids => UNCHANGED ops
<1>1. OnlyRead(r) /\ rd'[r].at = "idle"
  BY Blanks DEF TypeOK, EnrichInfo, OnlyRead
<1>2. /\ rd[r].at = "read" /\ ident' = rd[r].id /\ UNCHANGED <<dev, slot>> /\ unsure' \in BOOLEAN
      /\ (unsure \/ Overtakes({r}) => unsure')
  BY DEF TypeOK, EnrichInfo, Enrich
<1>3. ident' \in Idents
  BY <1>2 DEF TypeOK, ReadRecs
<1>4. ASSUME r \in Ids
      PROVE  Only(r) /\ Same(r) /\ ops'[r].at = "release" /\ ops'[r].got = ops[r].got
  <2>1. Goto(r, "release")
    BY <1>4 DEF EnrichInfo, Goto, Op
  <2> QED
    BY <1>4, <2>1, GotoDoes, Places DEF TypeOK
<1>5. r \notin Ids => UNCHANGED ops
  BY DEF EnrichInfo
<1> QED
  BY <1>1, <1>2, <1>3, <1>4, <1>5

\* A read is asked for: by an operation at its end, by the driver or for a backup.
LEMMA ReEnrichDoes ==
    ASSUME TypeOK, NEW i \in Ids, ReEnrich(i)
    PROVE  /\ i \in Readers /\ OnlyRead(i) /\ rd'[i].at = "asked" /\ ops[i].at = "enrich" /\ UNCHANGED <<dev, ident, ops, slot, unsure>>
<1>1. i \in Readers /\ ops[i].tr \in {"usb", "wifi", "none"} /\ Ask(i, ops[i].tr)
  BY OpFields DEF TypeOK, ReEnrich, Readers
<1> QED
  BY <1>1, ReadDoes DEF TypeOK, ReEnrich, OnlyRead

\* The probe and the driver ask a reader of their own.
LEMMA OthersAsk ==
    ASSUME TypeOK, Probe \/ EnrichOne("d1") \/ EnrichOne("d2")
    PROVE  \E r \in Readers \ Ids : OnlyRead(r) /\ rd'[r].at = "asked" /\ UNCHANGED <<dev, ident, ops, slot, unsure>>
<1>0. {"d1", "d2", "probe"} \subseteq Readers \ Ids
  BY OpsAssumption DEF Readers
<1>1. CASE Probe
  <2>1. Ask("probe", Transport) /\ Transport \in {"usb", "wifi", "none"} /\ UNCHANGED <<dev, ident, ops, slot, unsure>>
    BY <1>1, Transports DEF TypeOK, Probe
  <2> QED
    BY <1>0, <2>1, ReadDoes DEF TypeOK, OnlyRead
<1>2. ASSUME NEW r \in {"d1", "d2"}, EnrichOne(r)
      PROVE  OnlyRead(r) /\ rd'[r].at = "asked" /\ UNCHANGED <<dev, ident, ops, slot, unsure>>
  <2>1. r \in Readers /\ Ask(r, drv.timer) /\ drv.timer \in {"usb", "wifi", "none"} /\ UNCHANGED <<dev, ident, ops, slot, unsure>>
    BY <1>0, <1>2 DEF TypeOK, EnrichOne, Drivers
  <2> QED
    BY <2>1, ReadDoes DEF TypeOK, OnlyRead
<1> QED
  BY <1>0, <1>1, <1>2

\* The moves that are left stay within the mix.
LEMMA MoveDoes ==
    ASSUME TypeOK, Move
    PROVE  moves' \in 0..mix.moves
<1>1. mix.moves \in Nat /\ moves \in 0..mix.moves
  BY OpsAssumption DEF TypeOK
<1> QED
  BY <1>1 DEF Move

\* A cable or a network comes or goes, the muxer's directory turns read-only.
LEMMA WorldDoes ==
    ASSUME TypeOK, NEW t \in {"usb", "wifi"}, Attach(t) \/ Leave(t) \/ ReadOnlyRecords
    PROVE  dev' \in Devices /\ dev'.enc = dev.enc /\ dev'.wifi = dev.wifi /\ UNCHANGED <<ident, ops, slot, rd, unsure>>
<1>1. dev \in Devices /\ UNCHANGED <<ident, ops, slot, rd, unsure>>
  BY DEF TypeOK, Attach, Leave, ReadOnlyRecords
<1>2. \/ \E h \in SUBSET {"usb", "wifi"} : dev' = [dev EXCEPT !.here = h]
      \/ dev' = [dev EXCEPT !.stuck = TRUE]
  <2>1. dev.here \in SUBSET {"usb", "wifi"}
    BY <1>1 DEF Devices
  <2>2. dev.here \cup {t} \in SUBSET {"usb", "wifi"} /\ dev.here \ {t} \in SUBSET {"usb", "wifi"}
    BY <2>1
  <2> QED
    BY <2>2 DEF Attach, Leave, ReadOnlyRecords
<1> QED
  BY <1>1, <1>2 DEF Devices

\* Only the holder gives the device up.
LEMMA ReleaseDoes ==
    ASSUME TypeOK, NEW i \in Ids, ReleaseUDID(i)
    PROVE  /\ Only(i) /\ Same(i) /\ ops[i].at = "release" /\ ops'[i].at = "idle"
           /\ slot' = (IF slot = i THEN "none" ELSE slot) /\ UNCHANGED <<dev, ident, rd, unsure>>
  BY GotoDoes, Places DEF TypeOK, ReleaseUDID

-----------------------------------------------------------------------------
(* The driver's record                                                     *)

\* The fields of the driver's record.
LEMMA DriverFields ==
    ASSUME TypeOK
    PROVE  /\ drv.at \in {"off", "subscribed", "on"} /\ drv.q \in Seq({"usb", "wifi"}) /\ drv.dropped \in BOOLEAN
           /\ drv.timer \in {"none", "usb", "wifi"} /\ Len(drv.q) \in 0..Queue /\ Len(drv.q) <= Queue /\ Queue \in Nat
           /\ drv = [at |-> drv.at, q |-> drv.q, dropped |-> drv.dropped, timer |-> drv.timer]
<1>1. drv \in Drivers /\ Len(drv.q) <= Queue /\ Queue \in Nat
  BY OpsAssumption DEF TypeOK
<1>2. drv.q \in Seq({"usb", "wifi"})
  BY <1>1 DEF Drivers
<1>3. Len(drv.q) \in Nat
  BY <1>2
<1> QED
  BY <1>1, <1>2, <1>3 DEF Drivers

\* A driver record made from parts of the right type.
LEMMA DriverMakes ==
    ASSUME NEW a \in {"off", "subscribed", "on"}, NEW s \in Seq({"usb", "wifi"}), NEW b \in BOOLEAN,
           NEW t \in {"none", "usb", "wifi"}, Len(s) <= Queue,
           drv' = [at |-> a, q |-> s, dropped |-> b, timer |-> t]
    PROVE  drv' \in Drivers /\ Len(drv'.q) <= Queue
  BY DEF Drivers

\* A delivered event joins the queue, or is dropped when it is full.
LEMMA DeliveredDoes ==
    ASSUME TypeOK, NEW t \in {"usb", "wifi"}, drv' = Delivered(t)
    PROVE  drv' \in Drivers /\ Len(drv'.q) <= Queue
<1>0. /\ drv.at \in {"off", "subscribed", "on"} /\ drv.q \in Seq({"usb", "wifi"}) /\ drv.dropped \in BOOLEAN
      /\ drv.timer \in {"none", "usb", "wifi"} /\ Len(drv.q) \in 0..Queue /\ Len(drv.q) <= Queue /\ Queue \in Nat
      /\ drv = [at |-> drv.at, q |-> drv.q, dropped |-> drv.dropped, timer |-> drv.timer]
  BY DriverFields
<1>1. CASE drv' = drv
  BY <1>1 DEF TypeOK
<1>2. CASE Len(drv.q) < Queue /\ drv' = [drv EXCEPT !.q = Append(@, t)]
  <2>1. Append(drv.q, t) \in Seq({"usb", "wifi"}) /\ Len(Append(drv.q, t)) = Len(drv.q) + 1
    BY <1>0
  <2>2. drv' = [at |-> drv.at, q |-> Append(drv.q, t), dropped |-> drv.dropped, timer |-> drv.timer]
    BY <1>0, <1>2
  <2>3. Len(Append(drv.q, t)) <= Queue
    BY <1>0, <1>2, <2>1
  <2> QED
    BY <1>0, <2>1, <2>2, <2>3, DriverMakes
<1>3. CASE drv' = [drv EXCEPT !.dropped = TRUE]
  <2>1. drv' = [at |-> drv.at, q |-> drv.q, dropped |-> TRUE, timer |-> drv.timer]
    BY <1>0, <1>3
  <2> QED
    BY <1>0, <2>1, DriverMakes
<1> QED
  BY <1>1, <1>2, <1>3 DEF Delivered

\* The driver's steps keep its type and the bound of its queue.
LEMMA DriverDoes ==
    ASSUME TypeOK, Drive \/ Probe
    PROVE  drv' \in Drivers /\ Len(drv'.q) <= Queue
<1>0. /\ drv.at \in {"off", "subscribed", "on"} /\ drv.q \in Seq({"usb", "wifi"}) /\ drv.dropped \in BOOLEAN
      /\ drv.timer \in {"none", "usb", "wifi"} /\ Len(drv.q) \in 0..Queue /\ Len(drv.q) <= Queue /\ Queue \in Nat
      /\ drv = [at |-> drv.at, q |-> drv.q, dropped |-> drv.dropped, timer |-> drv.timer]
  BY DriverFields
<1>1. RefreshAll \in {"none", "usb", "wifi"}
  BY <1>0, Transports DEF TypeOK, RefreshAll
<1>2. CASE Probe
  BY <1>2 DEF TypeOK, Probe
<1>3. CASE Subscribe
  <2>1. drv' = [at |-> "subscribed", q |-> drv.q, dropped |-> drv.dropped, timer |-> drv.timer]
    BY <1>0, <1>3 DEF Subscribe
  <2> QED
    BY <1>0, <2>1, DriverMakes
<1>4. CASE DriverStarts
  <2>1. drv' = [at |-> "on", q |-> drv.q, dropped |-> drv.dropped, timer |-> RefreshAll]
    BY <1>0, <1>4 DEF DriverStarts
  <2> QED
    BY <1>0, <1>1, <2>1, DriverMakes
<1>5. CASE Schedule
  <2>1. drv' = [at |-> drv.at, q |-> Tail(drv.q), dropped |-> drv.dropped, timer |-> Head(drv.q)]
    BY <1>0, <1>5 DEF Schedule
  <2>2. drv.q # << >>
    BY <1>5 DEF Schedule
  <2>3. Tail(drv.q) \in Seq({"usb", "wifi"}) /\ Len(Tail(drv.q)) = Len(drv.q) - 1 /\ Head(drv.q) \in {"usb", "wifi"}
    BY <1>0, <2>2
  <2>4. Len(Tail(drv.q)) <= Queue
    BY <1>0, <2>3
  <2> QED
    BY <1>0, <2>1, <2>3, <2>4, DriverMakes
<1>6. CASE Resubscribe
  <2>1. drv' = [at |-> drv.at, q |-> << >>, dropped |-> FALSE, timer |-> RefreshAll]
    BY <1>0, <1>6 DEF Resubscribe
  <2>2. << >> \in Seq({"usb", "wifi"}) /\ Len(<< >>) <= Queue
    BY <1>0
  <2> QED
    BY <1>0, <1>1, <2>1, <2>2, DriverMakes
<1>7. CASE EnrichOne("d1") \/ EnrichOne("d2")
  <2>1. drv' = [at |-> drv.at, q |-> drv.q, dropped |-> drv.dropped, timer |-> "none"]
    BY <1>0, <1>7 DEF EnrichOne
  <2> QED
    BY <1>0, <2>1, DriverMakes
<1> QED
  BY <1>2, <1>3, <1>4, <1>5, <1>6, <1>7 DEF Drive

-----------------------------------------------------------------------------
(* Every step is one of these                                              *)

\* The steps, action by action.
LEMMA StepCases ==
    ASSUME Steps
    PROVE  \/ \E i \in Ids : \/ StartGuardedOp(i) \/ PairAttempt(i) \/ EncryptionDone(i) \/ WifiWrite(i)
                             \/ WifiReadBack(i) \/ WifiEnrich(i) \/ WifiAnnounce(i) \/ ReEnrich(i) \/ ReleaseUDID(i)
                             \/ PairPoll(i) \/ PairTimeout(i) \/ PairCheck(i) \/ EncryptionConfirm(i) \/ ToolFails(i)
                             \/ Pair(i) \/ (\E on \in BOOLEAN : Encryption(i, on) \/ WifiSync(i, on))
           \/ Probe \/ EnrichOne("d1") \/ EnrichOne("d2")
           \/ Subscribe \/ DriverStarts \/ Schedule \/ Resubscribe
           \/ \E r \in Readers : ReadInfo(r) \/ EnrichInfo(r)
           \/ \E t \in {"usb", "wifi"} : Attach(t) \/ Leave(t) \/ ReadOnlyRecords
  BY DEF Steps, Run, Drive, Read

\* What a step may do to the parts the invariant is about.
LEMMA StepTypes ==
    ASSUME TypeOK, Steps
    PROVE  /\ dev' \in Devices /\ ident' \in Idents /\ ops' \in [Ids -> OpRecs] /\ slot' \in Ids \cup {"none"}
           /\ rd' \in [Readers -> ReadRecs] /\ unsure' \in BOOLEAN
<1>0. /\ dev \in Devices /\ ident \in Idents /\ ops \in [Ids -> OpRecs] /\ slot \in Ids \cup {"none"}
      /\ rd \in [Readers -> ReadRecs] /\ unsure \in BOOLEAN
  BY DEF TypeOK
<1> DEFINE Goal == /\ dev' \in Devices /\ ident' \in Idents /\ ops' \in [Ids -> OpRecs] /\ slot' \in Ids \cup {"none"}
                   /\ rd' \in [Readers -> ReadRecs] /\ unsure' \in BOOLEAN
<1>1. ASSUME NEW i \in Ids, Pair(i) \/ (\E on \in BOOLEAN : Encryption(i, on) \/ WifiSync(i, on))
      PROVE  Goal
  BY <1>0, <1>1, AsksDoes DEF Asks, Only
<1>2. ASSUME NEW i \in Ids, StartGuardedOp(i) PROVE Goal
  BY <1>0, <1>2, StartDoes DEF Asks, Only
<1>3. ASSUME NEW i \in Ids, PairAttempt(i) PROVE Goal
  BY <1>0, <1>3, PairAttemptDoes DEF Works, Only
<1>4. ASSUME NEW i \in Ids, EncryptionDone(i) PROVE Goal
  BY <1>0, <1>4, EncryptionDoneDoes DEF Works, Only
<1>5. ASSUME NEW i \in Ids, WifiWrite(i) PROVE Goal
  BY <1>0, <1>5, WifiWriteDoes DEF Works, Only
<1>6. ASSUME NEW i \in Ids, WifiReadBack(i) PROVE Goal
  BY <1>0, <1>6, WifiReadBackDoes DEF Works, Only
<1>7. ASSUME NEW i \in Ids, WifiEnrich(i) PROVE Goal
  <2>1. ops[i].got \in Idents
    BY <1>0, OpFields
  <2> QED
    BY <1>0, <1>7, <2>1, WifiEnrichDoes DEF Only
<1>8. ASSUME NEW i \in Ids, WifiAnnounce(i) PROVE Goal
  BY <1>0, <1>8, WifiAnnounceDoes DEF Works, Only
<1>9. ASSUME NEW i \in Ids, ReEnrich(i) PROVE Goal
  BY <1>0, <1>9, ReEnrichDoes DEF OnlyRead
<1>10. ASSUME NEW i \in Ids, ReleaseUDID(i) PROVE Goal
  BY <1>0, <1>10, ReleaseDoes DEF Only
<1>11. ASSUME NEW i \in Ids,
              PairPoll(i) \/ PairTimeout(i) \/ PairCheck(i) \/ EncryptionConfirm(i) \/ ToolFails(i)
       PROVE  Goal
  BY <1>0, <1>11, QuietDoes DEF Works, Only
<1>12. ASSUME Probe \/ EnrichOne("d1") \/ EnrichOne("d2") PROVE Goal
  BY <1>0, <1>12, OthersAsk DEF OnlyRead
<1>13. ASSUME NEW r \in Readers, ReadInfo(r) PROVE Goal
  BY <1>0, <1>13, ReadInfoDoes DEF OnlyRead
<1>14. ASSUME NEW r \in Readers, EnrichInfo(r) PROVE Goal
  BY <1>0, <1>14, EnrichInfoDoes DEF OnlyRead, Only
<1>15. ASSUME NEW t \in {"usb", "wifi"}, Attach(t) \/ Leave(t) \/ ReadOnlyRecords PROVE Goal
  BY <1>0, <1>15, WorldDoes
<1>16. ASSUME Subscribe \/ DriverStarts \/ Schedule \/ Resubscribe PROVE Goal
  BY <1>0, <1>16 DEF Subscribe, DriverStarts, Schedule, Resubscribe
<1> HIDE DEF Goal
<1>17. Goal
  BY StepCases, <1>1, <1>2, <1>3, <1>4, <1>5, <1>6, <1>7, <1>8, <1>9, <1>10, <1>11, <1>12, <1>13,
     <1>14, <1>15, <1>16
<1> QED
  BY <1>17 DEF Goal

\* Every step keeps the driver and the moves within bounds.
LEMMA StepCounts ==
    ASSUME TypeOK, Steps
    PROVE  drv' \in Drivers /\ Len(drv'.q) <= Queue /\ moves' \in 0..mix.moves
<1>1. CASE Drive \/ Probe
  <2>1. drv' \in Drivers /\ Len(drv'.q) <= Queue
    BY <1>1, DriverDoes
  <2>2. Move \/ moves' = moves
    BY <1>1 DEF Drive, Probe, Subscribe, DriverStarts, Schedule, Resubscribe, EnrichOne
  <2> QED
    BY <2>1, <2>2, MoveDoes DEF TypeOK
<1>2. CASE \E t \in {"usb", "wifi"} : Attach(t)
  BY <1>2, DeliveredDoes, MoveDoes DEF Attach
<1>3. CASE UNCHANGED drv /\ (Move \/ UNCHANGED moves)
  BY <1>3, MoveDoes DEF TypeOK
<1>4. ASSUME NEW i \in Ids,
             Run(i) \/ PairTimeout(i) \/ EncryptionConfirm(i) \/ Pair(i) \/ (\E on \in BOOLEAN : Encryption(i, on) \/ WifiSync(i, on))
      PROVE  UNCHANGED drv /\ (Move \/ UNCHANGED moves)
  <2>1. CASE PairCheck(i)
    BY <2>1 DEF PairCheck
  <2>2. CASE ~PairCheck(i)
    BY <1>4, <2>2 DEF Run, StartGuardedOp, PairAttempt, PairPoll, EncryptionDone, WifiWrite,
       ToolFails, WifiReadBack, WifiEnrich,
           WifiAnnounce, ReEnrich, ReleaseUDID, PairTimeout, EncryptionConfirm, Pair, Encryption, WifiSync
  <2> QED
    BY <2>1, <2>2
<1>5. ASSUME NEW r \in Readers, Read(r) PROVE UNCHANGED drv /\ (Move \/ UNCHANGED moves)
  BY <1>5 DEF Read, ReadInfo, EnrichInfo
<1>6. ASSUME NEW t \in {"usb", "wifi"}, Leave(t) \/ ReadOnlyRecords
      PROVE  UNCHANGED drv /\ (Move \/ UNCHANGED moves)
  BY <1>6 DEF Leave, ReadOnlyRecords
<1> QED
  BY <1>1, <1>2, <1>3, <1>4, <1>5, <1>6 DEF Steps

-----------------------------------------------------------------------------
(* The operation under way holds the device                                *)

\* The others neither work nor read.
LEMMA Alone ==
    ASSUME HolderTrue, NEW i \in Ids, Working(i)
    PROVE  /\ slot = i
           /\ \A j \in Ids : j # i => ~Working(j) /\ rd[j].at = "idle" /\ ops[j].at \in {"idle", "asked"}
  BY DEF HolderTrue, Working

\* A step of the holder's keeps HolderTrue.
LEMMA HolderWorks ==
    ASSUME TypeOK, HolderTrue, NEW i \in Ids, Only(i), Same(i), Working(i), slot' = slot, rd' = rd,
           ops[i].at # "enrich",
           ops'[i].at \in {"copied", "announce"} => ops[i].kind = "wifi_sync",
           ops'[i].at \notin {"enrich", "release"} => ops'[i].st \in Active
    PROVE  HolderTrue'
<1>1. slot = i /\ \A j \in Ids : j # i => ~Working(j) /\ rd[j].at = "idle" /\ ops'[j] = ops[j]
  BY Alone DEF Only
<1>2. rd[i].at = "idle" /\ ops'[i].kind = ops[i].kind
  BY DEF HolderTrue, Same
<1> QED
  BY <1>1, <1>2 DEF HolderTrue, Working, Only

\* A request keeps HolderTrue.
LEMMA HolderAsks ==
    ASSUME TypeOK, HolderTrue, NEW i \in Ids, Asks(i), rd' = rd
    PROVE  HolderTrue'
  BY DEF HolderTrue, Asks, Only, Working

\* A reader's step keeps HolderTrue.
LEMMA HolderReads ==
    ASSUME HolderTrue, NEW r \in Readers, OnlyRead(r), UNCHANGED <<ops, slot>>, r \in Ids => ops[r].at = "enrich"
    PROVE  HolderTrue'
  BY DEF HolderTrue, OnlyRead, Working, Readers

\* Every step keeps the device with the one operation that works on it.
LEMMA HolderStep ==
    ASSUME TypeOK, HolderTrue, Steps
    PROVE  HolderTrue'
<1>1. ASSUME NEW i \in Ids, Pair(i) \/ (\E on \in BOOLEAN : Encryption(i, on) \/ WifiSync(i, on))
      PROVE  HolderTrue'
  BY <1>1, AsksDoes, HolderAsks
<1>2. ASSUME NEW i \in Ids, StartGuardedOp(i) PROVE HolderTrue'
  <2>1. CASE Asks(i)
    BY <1>2, <2>1, StartDoes, HolderAsks
  <2>2. CASE ~Asks(i)
    <3>1. /\ ops' \in [Ids -> OpRecs] /\ slot = "none" /\ slot' = i /\ ops[i].at = "asked" /\ rd' = rd
          /\ ops'[i].at = "tool" /\ ops'[i].st = "running"
          /\ \A j \in Ids : j # i => ops'[j].at = ops[j].at /\ ops'[j].kind = ops[j].kind
      BY <1>2, <2>2, StartDoes
    <3>2. \A j \in Ids : ~Working(j) /\ rd[j].at = "idle"
      BY <3>1, OpsAssumption DEF HolderTrue, Working
    <3> QED
      BY <3>1, <3>2 DEF HolderTrue, Working, Active
  <2> QED
    BY <2>1, <2>2
<1>3. ASSUME NEW i \in Ids, PairAttempt(i) PROVE HolderTrue'
  <2>1. ops[i].st \in Active
    BY <1>3 DEF HolderTrue, PairAttempt, Tool, Working
  <2>2. /\ Works(i) /\ rd' = rd /\ ops'[i].at \in {"check", "wait", "release"}
        /\ ops'[i].at \notin {"enrich", "release"} => ops'[i].st \in Active
    BY <1>3, <2>1, PairAttemptDoes DEF Active
  <2> QED
    BY <2>2, HolderWorks DEF Works
<1>4. ASSUME NEW i \in Ids, EncryptionDone(i) PROVE HolderTrue'
  BY <1>4, EncryptionDoneDoes, HolderWorks DEF Works
<1>5. ASSUME NEW i \in Ids, WifiWrite(i) PROVE HolderTrue'
  <2>1. ops[i].st \in Active
    BY <1>5 DEF HolderTrue, WifiWrite, Tool, Working
  <2>2. /\ Works(i) /\ rd' = rd /\ ops'[i].at \in {"check", "release"}
        /\ ops'[i].at \notin {"enrich", "release"} => ops'[i].st \in Active
    BY <1>5, <2>1, WifiWriteDoes
  <2> QED
    BY <2>2, HolderWorks DEF Works
<1>6. ASSUME NEW i \in Ids, WifiReadBack(i) PROVE HolderTrue'
  <2>1. ops[i].st \in Active
    BY <1>6 DEF HolderTrue, WifiReadBack, Working
  <2>2. /\ Works(i) /\ rd' = rd /\ ops[i].kind = "wifi_sync"
        /\ ops'[i].at \notin {"enrich", "release"} => ops'[i].st \in Active
    BY <1>6, <2>1, WifiReadBackDoes
  <2> QED
    BY <2>2, HolderWorks DEF Works
<1>7. ASSUME NEW i \in Ids, WifiEnrich(i) PROVE HolderTrue'
  <2>1. /\ Only(i) /\ Same(i) /\ ops[i].at = "copied" /\ ops'[i].at = "announce" /\ ops'[i].st = ops[i].st
        /\ slot' = slot /\ rd' = rd
    BY <1>7, WifiEnrichDoes
  <2>2. ops[i].st \in Active /\ Working(i) /\ ops[i].kind = "wifi_sync"
    BY <2>1 DEF HolderTrue, Working
  <2> QED
    BY <2>1, <2>2, HolderWorks
<1>8. ASSUME NEW i \in Ids, WifiAnnounce(i) PROVE HolderTrue'
  BY <1>8, WifiAnnounceDoes, HolderWorks DEF Works
<1>9. ASSUME NEW i \in Ids, ReEnrich(i) PROVE HolderTrue'
  BY <1>9, ReEnrichDoes, HolderReads
<1>10. ASSUME NEW i \in Ids, ReleaseUDID(i) PROVE HolderTrue'
  <2>1. /\ Only(i) /\ Same(i) /\ ops[i].at = "release" /\ ops'[i].at = "idle" /\ rd' = rd
    BY <1>10, ReleaseDoes
  <2>2. \A j \in Ids : j # i => ~Working(j) /\ rd[j].at = "idle" /\ ops'[j] = ops[j]
    BY <2>1, Alone DEF Working, Only
  <2>3. rd[i].at = "idle"
    BY <2>1 DEF HolderTrue
  <2> QED
    BY <2>1, <2>2, <2>3 DEF HolderTrue, Working
<1>11. ASSUME NEW i \in Ids,
              PairPoll(i) \/ PairTimeout(i) \/ PairCheck(i) \/ EncryptionConfirm(i) \/ ToolFails(i)
       PROVE  HolderTrue'
  <2>1. /\ Works(i) /\ rd' = rd /\ ops'[i].at \in {"tool", "release", "enrich"}
        /\ ops'[i].at = "tool" /\ ops[i].st \in Active => ops'[i].st \in Active
    BY <1>11, QuietDoes
  <2>2. ops[i].st \in Active
    BY <2>1 DEF HolderTrue, Works
  <2> QED
    BY <2>1, <2>2, HolderWorks DEF Works
<1>12. ASSUME Probe \/ EnrichOne("d1") \/ EnrichOne("d2") PROVE HolderTrue'
  BY <1>12, OthersAsk, HolderReads
<1>13. ASSUME NEW r \in Readers, ReadInfo(r) PROVE HolderTrue'
  <2>1. OnlyRead(r) /\ rd[r].at = "asked" /\ UNCHANGED <<ops, slot>>
    BY <1>13, ReadInfoDoes
  <2>2. r \in Ids => ops[r].at = "enrich"
    BY <2>1 DEF HolderTrue
  <2> QED
    BY <2>1, <2>2, HolderReads
<1>14. ASSUME NEW r \in Readers, EnrichInfo(r) PROVE HolderTrue'
  <2>1. /\ OnlyRead(r) /\ rd[r].at = "read" /\ rd'[r].at = "idle" /\ slot' = slot
        /\ (r \in Ids => Only(r) /\ Same(r) /\ ops'[r].at = "release") /\ (r \notin Ids => UNCHANGED ops)
    BY <1>14, EnrichInfoDoes
  <2>2. CASE r \notin Ids
    BY <2>1, <2>2, HolderReads
  <2>3. CASE r \in Ids
    <3>1. ops[r].at = "enrich" /\ Working(r)
      BY <2>1, <2>3 DEF HolderTrue, Working
    <3>2. slot = r /\ \A j \in Ids : j # r => ~Working(j) /\ rd[j].at = "idle" /\ ops'[j] = ops[j]
      BY <2>1, <2>3, <3>1, Alone DEF Only
    <3> QED
      BY <2>1, <2>3, <3>2 DEF HolderTrue, Working, OnlyRead, Readers
  <2> QED
    BY <2>2, <2>3
<1>15. ASSUME UNCHANGED <<ops, slot, rd>> PROVE HolderTrue'
  BY <1>15 DEF HolderTrue, Working
<1>16. ASSUME NEW t \in {"usb", "wifi"}, Attach(t) \/ Leave(t) \/ ReadOnlyRecords
       PROVE  UNCHANGED <<ops, slot, rd>>
  BY <1>16, WorldDoes
<1>17. Subscribe \/ DriverStarts \/ Schedule \/ Resubscribe => UNCHANGED <<ops, slot, rd>>
  BY DEF Subscribe, DriverStarts, Schedule, Resubscribe
<1> QED
  BY StepCases, <1>1, <1>2, <1>3, <1>4, <1>5, <1>6, <1>7, <1>8, <1>9, <1>10, <1>11, <1>12, <1>13,
     <1>14, <1>15, <1>16, <1>17

-----------------------------------------------------------------------------
(* Snapshots and the identity                                              *)

\* A setting out of date belongs to the operation that holds the device.
LEMMA SettingsOf ==
    ASSUME HolderTrue, SnapshotsTrue, NEW i \in Ids, Working(i)
    PROVE  /\ ~(ops[i].kind = "encryption" /\ ops[i].at = "enrich") => EncTrue(ident)
           /\ ~(ops[i].kind = "wifi_sync" /\ ops[i].at \in {"check", "copied"}) => WifiTrue(ident)
  BY Alone DEF SnapshotsTrue

\* The settings stay, the operation at work is at no snapshot before or after.
LEMMA SnapshotsQuiet ==
    ASSUME TypeOK, HolderTrue, SnapshotsTrue, NEW i \in Ids, Only(i), Same(i), Working(i),
           dev'.enc = dev.enc, dev'.wifi = dev.wifi, ident' = ident, rd' = rd,
           ops[i].at \notin {"copied", "enrich"}, ops[i].at = "check" => ops[i].kind # "wifi_sync",
           ops'[i].at \notin {"copied", "announce"}
    PROVE  SnapshotsTrue'
<1>1. EncTrue(ident) /\ WifiTrue(ident)
  BY SettingsOf
<1>2. \A j \in Ids : ops'[j].at \notin {"copied", "announce"}
  BY Alone DEF Only
<1> QED
  BY <1>1, <1>2 DEF SnapshotsTrue, EncTrue, WifiTrue

\* Nobody but operation i moves between "idle" and "asked"; it holds nothing.
LEMMA SnapshotsAsks ==
    ASSUME TypeOK, SnapshotsTrue, NEW i \in Ids, Asks(i), UNCHANGED <<dev, ident, rd>>
    PROVE  SnapshotsTrue'
<1>1. \A j \in Ids : j # i => ops'[j] = ops[j]
  BY DEF Asks, Only
<1>2. ops[i].at \in {"idle", "asked"} /\ ops'[i].at \in {"idle", "asked"}
  BY DEF Asks
<1>3. EncTrue(ident)' = EncTrue(ident) /\ WifiTrue(ident)' = WifiTrue(ident)
  BY DEF EncTrue, WifiTrue
<1>4. (EncTrue(ident) \/ \E j \in Ids : ops[j].kind = "encryption" /\ ops[j].at = "enrich")'
  BY <1>1, <1>2, <1>3 DEF SnapshotsTrue
<1>5. (WifiTrue(ident) \/ \E j \in Ids : ops[j].kind = "wifi_sync" /\ ops[j].at \in {"check", "copied"})'
  BY <1>1, <1>2, <1>3 DEF SnapshotsTrue
<1>6. \A j \in Ids : ops'[j].at \in {"copied", "announce"} => ops'[j] = ops[j]
  BY <1>1, <1>2
<1> QED
  BY <1>4, <1>5, <1>6 DEF SnapshotsTrue, EncTrue, WifiTrue

\* A read is asked for or made.
LEMMA SnapshotsReads ==
    ASSUME TypeOK, SnapshotsTrue, NEW r \in Readers, OnlyRead(r), UNCHANGED <<dev, ident, ops>>,
           rd'[r].at = "read" => EncTrue(rd'[r].id) /\ WifiTrue(rd'[r].id)
    PROVE  SnapshotsTrue'
  BY DEF SnapshotsTrue, EncTrue, WifiTrue, OnlyRead

\* Nobody else holds a snapshot when i changes the device.
LEMMA NotOvertaken ==
    ASSUME HolderTrue, NEW i \in Ids, ops[i].at = "tool", ~Overtakes({i})
    PROVE  /\ \A r \in Readers : rd[r].at # "read"
           /\ \A j \in Ids : j # i => ops[j].at \notin {"copied", "announce"}
<1>1. \A r \in Readers : r # i => rd[r].at # "read"
  BY DEF Overtakes
<1>2. rd[i].at = "idle"
  BY DEF HolderTrue
<1>3. \A j \in Ids : j # i => ops[j].at \notin {"copied", "announce"}
  BY DEF Overtakes, HolderTrue
<1> QED
  BY <1>1, <1>2, <1>3

\* Every step keeps snapshots true that nothing has overtaken.
LEMMA SnapshotsStep ==
    ASSUME TypeOK, HolderTrue, ~unsure => SnapshotsTrue, Steps, ~unsure'
    PROVE  SnapshotsTrue'
<1>1. ASSUME NEW i \in Ids, Pair(i) \/ (\E on \in BOOLEAN : Encryption(i, on) \/ WifiSync(i, on))
      PROVE  SnapshotsTrue'
  BY <1>1, AsksDoes, SnapshotsAsks
<1>2. ASSUME NEW i \in Ids, StartGuardedOp(i) PROVE SnapshotsTrue'
  <2>0. SnapshotsTrue /\ UNCHANGED <<dev, ident, rd>>
    BY <1>2, StartDoes
  <2>1. CASE Asks(i)
    BY <2>0, <2>1, SnapshotsAsks
  <2>2. CASE ~Asks(i)
    <3>1. /\ slot = "none" /\ ops'[i].at = "tool"
          /\ \A j \in Ids : j # i => ops'[j].at = ops[j].at
      BY <1>2, <2>2, StartDoes
    <3>2. ops[i].at = "asked"
      BY <1>2 DEF StartGuardedOp
    <3>3. \A j \in Ids : ~Working(j)
      BY <3>1, OpsAssumption DEF HolderTrue
    <3>4. \A j \in Ids : ops[j].at \in {"idle", "asked"} /\ ops'[j].at \in {"idle", "asked", "tool"}
      BY <3>1, <3>3 DEF Working
    <3>5. EncTrue(ident) /\ WifiTrue(ident)
      BY <2>0, <3>4 DEF SnapshotsTrue
    <3> QED
      BY <2>0, <3>4, <3>5 DEF SnapshotsTrue, EncTrue, WifiTrue
  <2> QED
    BY <2>1, <2>2
<1>3. ASSUME NEW i \in Ids, PairAttempt(i) PROVE SnapshotsTrue'
  <2>1. /\ Works(i) /\ rd' = rd /\ ops'[i].at \in {"check", "wait", "release"} /\ dev'.enc = dev.enc /\ dev'.wifi = dev.wifi
        /\ SnapshotsTrue /\ ops[i].kind = "pair"
    BY <1>3, PairAttemptDoes
  <2>2. ops[i].at = "tool"
    BY <1>3 DEF PairAttempt, Tool
  <2> QED
    BY <2>1, <2>2, SnapshotsQuiet DEF Works
<1>4. ASSUME NEW i \in Ids, EncryptionDone(i) PROVE SnapshotsTrue'
  <2>1. /\ Works(i) /\ ops[i].kind = "encryption" /\ rd' = rd /\ dev'.wifi = dev.wifi /\ ops[i].at = "tool"
        /\ ops'[i].at = "enrich" /\ ~Overtakes({i}) /\ ~unsure /\ ident' = ident
    BY <1>4, EncryptionDoneDoes DEF Works
  <2>2. WifiTrue(ident)
    BY <2>1, SettingsOf DEF Works
  <2>3. (\A r \in Readers : rd[r].at # "read") /\ \A j \in Ids : ops'[j].at \notin {"copied", "announce"}
    BY <2>1, NotOvertaken DEF Works, Only
  <2>4. ops'[i].kind = "encryption"
    BY <2>1 DEF Works, Same
  <2> QED
    BY <2>1, <2>2, <2>3, <2>4 DEF SnapshotsTrue, WifiTrue
<1>5. ASSUME NEW i \in Ids, WifiWrite(i) PROVE SnapshotsTrue'
  <2>1. /\ Works(i) /\ ops[i].kind = "wifi_sync" /\ rd' = rd /\ dev'.enc = dev.enc /\ ops[i].at = "tool"
        /\ ops'[i].at = "check" /\ ~Overtakes({i}) /\ ~unsure /\ ident' = ident
    BY <1>5, WifiWriteDoes DEF Works
  <2>2. EncTrue(ident)
    BY <2>1, SettingsOf DEF Works
  <2>3. (\A r \in Readers : rd[r].at # "read") /\ \A j \in Ids : ops'[j].at \notin {"copied", "announce"}
    BY <2>1, NotOvertaken DEF Works, Only
  <2>4. ops'[i].kind = "wifi_sync"
    BY <2>1 DEF Works, Same
  <2> QED
    BY <2>1, <2>2, <2>3, <2>4 DEF SnapshotsTrue, EncTrue
<1>6. ASSUME NEW i \in Ids, WifiReadBack(i) PROVE SnapshotsTrue'
  <2>1. /\ Works(i) /\ ops[i].kind = "wifi_sync" /\ rd' = rd /\ dev' = dev /\ ops[i].at = "check" /\ ident' = ident
        /\ ~unsure /\ ops'[i].at = "copied" /\ WifiTrue(ops'[i].got) /\ ops'[i].got.enc = ident.enc
    BY <1>6, WifiReadBackDoes DEF Works
  <2>2. EncTrue(ident) /\ SnapshotsTrue
    BY <2>1, SettingsOf DEF Works
  <2>3. \A j \in Ids : j # i => ops'[j].at \notin {"copied", "announce"}
    BY <2>1, Alone DEF Works, Only
  <2>4. ops'[i].kind = "wifi_sync"
    BY <2>1 DEF Works, Same
  <2> QED
    BY <2>1, <2>2, <2>3, <2>4 DEF SnapshotsTrue, EncTrue, WifiTrue
<1>7. ASSUME NEW i \in Ids, WifiEnrich(i) PROVE SnapshotsTrue'
  <2>1. /\ Only(i) /\ Same(i) /\ ops[i].at = "copied" /\ ops'[i].at = "announce" /\ ops'[i].got = ops[i].got
        /\ ident' = ops[i].got /\ UNCHANGED <<dev, rd>> /\ SnapshotsTrue
    BY <1>7, WifiEnrichDoes
  <2>2. \A j \in Ids : j # i => ops'[j].at \notin {"copied", "announce"}
    BY <2>1, Alone DEF Working, Only
  <2>3. EncTrue(ops[i].got) /\ WifiTrue(ops[i].got)
    BY <2>1 DEF SnapshotsTrue
  <2> QED
    BY <2>1, <2>2, <2>3 DEF SnapshotsTrue, EncTrue, WifiTrue
<1>8. ASSUME NEW i \in Ids, WifiAnnounce(i) PROVE SnapshotsTrue'
  <2>1. Works(i) /\ ops[i].at = "announce" /\ ops'[i].at \in {"enrich", "release"} /\ UNCHANGED <<dev, rd>> /\ SnapshotsTrue
    BY <1>8, WifiAnnounceDoes
  <2> QED
    BY <2>1, SnapshotsQuiet DEF Works
<1>9. ASSUME NEW i \in Ids, ReEnrich(i) PROVE SnapshotsTrue'
  BY <1>9, ReEnrichDoes, SnapshotsReads
<1>10. ASSUME NEW i \in Ids, ReleaseUDID(i) PROVE SnapshotsTrue'
  <2>1. Only(i) /\ Same(i) /\ ops[i].at = "release" /\ ops'[i].at = "idle" /\ UNCHANGED <<dev, ident, rd>> /\ SnapshotsTrue
    BY <1>10, ReleaseDoes
  <2> QED
    BY <2>1, SnapshotsQuiet DEF Working
<1>11. ASSUME NEW i \in Ids,
              PairPoll(i) \/ PairTimeout(i) \/ PairCheck(i) \/ EncryptionConfirm(i) \/ ToolFails(i)
       PROVE  SnapshotsTrue'
  <2>1. /\ Works(i) /\ UNCHANGED <<dev, rd>> /\ ops'[i].at \in {"tool", "release", "enrich"} /\ SnapshotsTrue
        /\ ops[i].at \in {"tool", "wait", "check"} /\ (ops[i].at = "check" => ops[i].kind = "pair")
    BY <1>11, QuietDoes
  <2> QED
    BY <2>1, SnapshotsQuiet DEF Works
<1>12. ASSUME Probe \/ EnrichOne("d1") \/ EnrichOne("d2") PROVE SnapshotsTrue'
  <2>1. PICK r \in Readers \ Ids : OnlyRead(r) /\ rd'[r].at = "asked" /\ UNCHANGED <<dev, ident, ops, slot, unsure>>
    BY <1>12, OthersAsk
  <2> QED
    BY <2>1, SnapshotsReads
<1>13. ASSUME NEW r \in Readers, ReadInfo(r) PROVE SnapshotsTrue'
  BY <1>13, ReadInfoDoes, SnapshotsReads
<1>14. ASSUME NEW r \in Readers, EnrichInfo(r) PROVE SnapshotsTrue'
  <2>1. /\ OnlyRead(r) /\ rd[r].at = "read" /\ rd'[r].at = "idle" /\ ident' = rd[r].id /\ dev' = dev
        /\ ~unsure /\ ~Overtakes({r}) /\ SnapshotsTrue
        /\ (r \in Ids => Only(r) /\ Same(r) /\ ops'[r].at = "release") /\ (r \notin Ids => UNCHANGED ops)
    BY <1>14, EnrichInfoDoes
  <2>2. EncTrue(ident)' /\ WifiTrue(ident)'
    BY <2>1 DEF SnapshotsTrue, EncTrue, WifiTrue
  <2>3. \A x \in Readers : rd'[x].at # "read"
    BY <2>1 DEF OnlyRead, Overtakes
  <2>4. \A j \in Ids : ops'[j].at \notin {"copied", "announce"}
    <3>1. \A j \in Ids : j # r => ops[j].at \notin {"copied", "announce"} /\ ops'[j] = ops[j]
      BY <2>1 DEF Overtakes, HolderTrue, Only
    <3> QED
      BY <2>1, <3>1
  <2> QED
    BY <2>2, <2>3, <2>4 DEF SnapshotsTrue
<1>15. ASSUME NEW t \in {"usb", "wifi"}, Attach(t) \/ Leave(t) \/ ReadOnlyRecords
       PROVE  SnapshotsTrue'
  <2>1. dev'.enc = dev.enc /\ dev'.wifi = dev.wifi /\ UNCHANGED <<ident, ops, rd>> /\ SnapshotsTrue
    BY <1>15, WorldDoes
  <2> QED
    BY <2>1 DEF SnapshotsTrue, EncTrue, WifiTrue
<1>16. ASSUME Subscribe \/ DriverStarts \/ Schedule \/ Resubscribe PROVE SnapshotsTrue'
  <2>1. UNCHANGED <<dev, ident, ops, rd>> /\ SnapshotsTrue
    BY <1>16 DEF Subscribe, DriverStarts, Schedule, Resubscribe
  <2> QED
    BY <2>1 DEF SnapshotsTrue, EncTrue, WifiTrue
<1> QED
  BY StepCases, <1>1, <1>2, <1>3, <1>4, <1>5, <1>6, <1>7, <1>8, <1>9, <1>10, <1>11, <1>12, <1>13,
     <1>14, <1>15, <1>16

-----------------------------------------------------------------------------
(* Operations on one device: theorems                                      *)

\* The invariant holds at start-up.
LEMMA OpsInit == Init => OpsInv
<1> SUFFICES ASSUME Init PROVE OpsInv
  OBVIOUS
<1>1. dev \in Devices /\ dev.enc = FALSE /\ dev.wifi = TRUE
  <2>1. dev \in [here : {{}, {"usb"}}, paired : BOOLEAN, enc : {FALSE}, wifi : {TRUE}, rec : {0}, stuck : {FALSE}]
    BY DEF Init
  <2>2. /\ dev.here \in SUBSET {"usb", "wifi"} /\ dev.paired \in BOOLEAN /\ dev.enc = FALSE /\ dev.wifi = TRUE
        /\ dev.rec \in 0..2 /\ dev.stuck \in BOOLEAN
    <3>1. /\ dev.here \in {{}, {"usb"}} /\ dev.paired \in BOOLEAN /\ dev.enc \in {FALSE} /\ dev.wifi \in {TRUE}
          /\ dev.rec \in {0} /\ dev.stuck \in {FALSE}
      BY <2>1
    <3>2. dev.here \in SUBSET {"usb", "wifi"}
      BY <3>1
    <3>3. dev.rec \in 0..2
      BY <3>1
    <3> QED
      BY <3>1, <3>2, <3>3
  <2>3. dev = [here |-> dev.here, paired |-> dev.paired, enc |-> dev.enc, wifi |-> dev.wifi, rec |-> dev.rec,
               stuck |-> dev.stuck]
    BY <2>1
  <2> QED
    BY <2>2, <2>3 DEF Devices
<1>2. ident \in Idents /\ EncTrue(ident) /\ WifiTrue(ident)
  <2>1. CASE ident = Unread
    BY <2>1, Blanks DEF EncTrue, WifiTrue
  <2>2. CASE ident = [name |-> TRUE, paired |-> "yes", enc |-> "off", wifi |-> "on"]
    BY <1>1, <2>2 DEF Idents, EncTrue, WifiTrue, OnOff
  <2> QED
    BY <2>1, <2>2 DEF Init
<1>3. ops \in [Ids -> OpRecs] /\ rd \in [Readers -> ReadRecs] /\ slot = "none"
  BY Blanks DEF Init
<1>4. drv \in Drivers /\ Len(drv.q) <= Queue
  BY OpsAssumption DEF Init, Drivers
<1>5. unsure \in BOOLEAN /\ mix \in Mixes /\ moves \in 0..mix.moves
  <2>1. mix \in Mixes /\ mix.moves \in Nat /\ moves = mix.moves /\ unsure = FALSE
    BY OpsAssumption DEF Init
  <2>2. moves \in 0..mix.moves
    BY <2>1
  <2>3. unsure \in BOOLEAN
    BY <2>1
  <2> QED
    BY <2>1, <2>2, <2>3
<1>6. (\A i \in Ids : ops[i].at = "idle") /\ \A r \in Readers : rd[r].at = "idle"
  BY Blanks DEF Init
<1>7. HolderTrue
  BY <1>6 DEF HolderTrue, Working, Readers
<1>8. SnapshotsTrue
  BY <1>2, <1>6 DEF SnapshotsTrue
<1> QED
  BY <1>1, <1>2, <1>3, <1>4, <1>5, <1>7, <1>8 DEF OpsInv, TypeOK

\* Every step keeps the invariant.
LEMMA OpsStep == OpsInv /\ [Next]_<<vars, mix>> => OpsInv'
<1> SUFFICES ASSUME OpsInv, [Next]_<<vars, mix>> PROVE OpsInv'
  OBVIOUS
<1>1. CASE Next
  <2>0. TypeOK /\ HolderTrue /\ (~unsure => SnapshotsTrue) /\ Steps /\ mix' = mix
    BY <1>1 DEF OpsInv, Next
  <2>1. TypeOK'
    BY <2>0, StepTypes, StepCounts DEF TypeOK
  <2> QED
    BY <2>0, <2>1, HolderStep, SnapshotsStep DEF OpsInv
<1>2. CASE UNCHANGED <<vars, mix>>
  BY <1>2 DEF vars, OpsInv, TypeOK, HolderTrue, SnapshotsTrue, Working, EncTrue, WifiTrue
<1> QED
  BY <1>1, <1>2

\* An operation at work holds the device, and, while no snapshot was overtaken,
\* whatever quince holds of the device is right, unknown or about to be replaced.
THEOREM OpsInductive == Spec => []OpsInv
  BY OpsInit, OpsStep, PTL DEF Spec

\* Two operations never run on the device at once, whatever their kinds and
\* however requests race; one that is still open is on record and holds it.
THEOREM OpsHoldTheDevice == Spec => [](OneAtATime /\ OpenOpsTracked)
<1>1. OpsInv => OneAtATime /\ OpenOpsTracked
  BY DEF OpsInv, HolderTrue, OneAtATime, OpenOpsTracked
<1> QED
  BY <1>1, OpsInductive, PTL

\* With nothing under way the encryption and Wi-Fi badges are right or unknown,
\* for any reads, operations and cables, except after an overtaken snapshot, a
\* tool that failed late, or a value read back with no listed device.
THEOREM BadgesAreTrue == Spec => []BadgeTrue
<1>1. OpsInv => BadgeTrue
  <2> SUFFICES ASSUME OpsInv, Quiet, ~unsure PROVE EncTrue(ident) /\ WifiTrue(ident)
    BY DEF BadgeTrue, EncTrue, WifiTrue
  <2>1. \A i \in Ids : ops[i].at \in {"idle", "asked"}
    BY DEF Quiet, Working
  <2> QED
    BY <2>1 DEF OpsInv, SnapshotsTrue
<1> QED
  BY <1>1, OpsInductive, PTL

\* setOp gives no operation another state than the one it is called with.
LEMMA SetOpState ==
    ASSUME ops \in [Ids -> OpRecs], NEW i \in Ids, NEW j \in Ids, NEW st, NEW t, SetOp(j, st, t)
    PROVE  ops'[i].st \in {ops[i].st, st}
  BY DEF SetOp, Op, OpRecs

\* Moving on changes nobody's state.
LEMMA GotoState ==
    ASSUME ops \in [Ids -> OpRecs], NEW i \in Ids, NEW j \in Ids, NEW t, Goto(j, t)
    PROVE  ops'[i].st = ops[i].st
  BY DEF Goto, Op, OpRecs

\* Only three steps end an operation well, each its own kind.
LEMMA WhoSucceeds ==
    ASSUME OpsInv, Steps, NEW i \in Ids, ops[i].st \in Active, ops'[i].st = "succeeded"
    PROVE  \/ PairCheck(i) /\ ~Fails(i) /\ ops[i].kind = "pair"
           \/ EncryptionDone(i) /\ ops[i].kind = "encryption"
           \/ WifiAnnounce(i) /\ ops[i].kind = "wifi_sync"
<1>0. TypeOK /\ HolderTrue /\ ops \in [Ids -> OpRecs] /\ ops[i].st \notin {"none", "pruned", "succeeded", "failed"}
  BY DEF OpsInv, TypeOK, Active
<1>1. ops'[i] # ops[i]
  BY <1>0
<1>2. ASSUME NEW j \in Ids, SetOp(j, "failed", "release") PROVE FALSE
  BY <1>0, <1>2, SetOpState
<1>3. ASSUME NEW j \in Ids, NEW t, Goto(j, t) PROVE FALSE
  BY <1>0, <1>3, GotoState
<1>4. ASSUME NEW j \in Ids, NEW t, SetOp(j, "waiting_for_user", t) PROVE FALSE
  BY <1>0, <1>4, SetOpState
<1>5. ASSUME NEW j \in Ids, NEW t, SetOp(j, "succeeded", t) PROVE j = i
  BY <1>1, <1>5 DEF SetOp, Op
<1>6. ASSUME NEW j \in Ids, Pair(j) \/ (\E on \in BOOLEAN : Encryption(j, on) \/ WifiSync(j, on))
      PROVE  FALSE
  <2>1. ops[j] = NoOp /\ NoOp.st = "none" /\ \A x \in Ids : x # j => ops'[x] = ops[x]
    BY <1>0, <1>6, AsksDoes DEF Pair, Encryption, WifiSync, NoOp, Asks, Only
  <2> QED
    BY <1>0, <1>1, <2>1
<1>7. ASSUME NEW j \in Ids, StartGuardedOp(j) PROVE FALSE
  <2>1. CASE Claimed(j)
    <3>1. ops' = [ops EXCEPT ![j] = NoOp] /\ NoOp.st = "none"
      BY <1>7, <2>1 DEF StartGuardedOp, Op, NoOp
    <3> QED
      BY <1>0, <1>1, <3>1
  <2>2. CASE ~Claimed(j)
    <3>1. ~Asks(j) \/ (\A x \in Ids : x # j => ops'[x] = ops[x])
      BY DEF Asks, Only
    <3>2. slot' = j /\ slot = "none"
      BY <1>7, <2>2 DEF StartGuardedOp, Claimed
    <3>3. ~Asks(j)
      BY <3>2, OpsAssumption DEF Asks
    <3>4. /\ ops'[j].st = "running"
          /\ \A x \in Ids : x # j => ops'[x].st \in {ops[x].st, Pruned(ops[x].st)}
      BY <1>0, <1>7, <3>3, StartDoes
    <3> QED
      BY <1>0, <3>4 DEF Pruned
  <2> QED
    BY <2>1, <2>2
<1>8. ASSUME NEW j \in Ids, PairAttempt(j) PROVE FALSE
  BY <1>2, <1>3, <1>4, <1>8 DEF PairAttempt, Fails
<1>9. ASSUME NEW j \in Ids,
             PairPoll(j) \/ PairTimeout(j) \/ EncryptionConfirm(j) \/ ToolFails(j) \/ ReleaseUDID(j)
      PROVE  FALSE
  BY <1>2, <1>3, <1>4, <1>9 DEF PairPoll, PairTimeout, EncryptionConfirm, ToolFails, ReleaseUDID,
     Fails
<1>10. ASSUME NEW j \in Ids, WifiWrite(j) \/ WifiEnrich(j) PROVE FALSE
  BY <1>2, <1>3, <1>10 DEF WifiWrite, WifiEnrich, WifiPublish, Fails
<1>11. ASSUME NEW j \in Ids, WifiReadBack(j) PROVE FALSE
  <2>1. CASE Fails(j)
    BY <1>2, <2>1 DEF Fails
  <2>2. CASE ~Fails(j)
    <3>2. PICK o : Op(j, o) /\ o.st = ops[j].st
      <4>1. PICK g : Op(j, [ops[j] EXCEPT !.at = IF Listed THEN "copied" ELSE "announce", !.got = Confirmed(g)])
        BY <1>11, <2>2 DEF WifiReadBack
      <4>2. [ops[j] EXCEPT !.at = IF Listed THEN "copied" ELSE "announce", !.got = Confirmed(g)].st = ops[j].st
        BY <1>0 DEF OpRecs
      <4> QED
        BY <4>1, <4>2
    <3> QED
      BY <1>0, <3>2 DEF Op
  <2> QED
    BY <2>1, <2>2
<1>12. ASSUME NEW j \in Ids, PairCheck(j)
       PROVE  j = i /\ PairCheck(i) /\ ~Fails(i) /\ ops[i].kind = "pair"
  <2>1. ~SetOp(j, "failed", "release")
    BY <1>2
  <2>2. SetOp(j, "succeeded", "enrich")
    BY <1>12, <2>1 DEF PairCheck, Fails
  <2>3. j = i
    BY <1>5, <2>2
  <2> QED
    BY <1>12, <2>1, <2>3 DEF PairCheck, Fails
<1>13. ASSUME NEW j \in Ids, EncryptionDone(j)
       PROVE  j = i /\ EncryptionDone(i) /\ ops[i].kind = "encryption"
  <2>1. SetOp(j, "succeeded", "enrich")
    BY <1>2, <1>13 DEF EncryptionDone, Fails
  <2>2. j = i
    BY <1>5, <2>1
  <2> QED
    BY <1>13, <2>2 DEF EncryptionDone, Tool
<1>14. ASSUME NEW j \in Ids, WifiAnnounce(j)
       PROVE  j = i /\ WifiAnnounce(i) /\ ops[i].kind = "wifi_sync"
  <2>1. j = i
    BY <1>5, <1>14 DEF WifiAnnounce
  <2> QED
    BY <1>0, <1>14, <2>1 DEF WifiAnnounce, HolderTrue
<1>15. ASSUME NEW r \in Readers, EnrichInfo(r) PROVE FALSE
  <2>1. r \in Ids => Goto(r, "release")
    BY <1>15 DEF EnrichInfo, Goto, Op
  <2>2. r \notin Ids => ops' = ops
    BY <1>15 DEF EnrichInfo
  <2> QED
    BY <1>1, <1>3, <2>1, <2>2
<1>16. ASSUME UNCHANGED ops PROVE FALSE
  BY <1>1, <1>16
<1>17. ASSUME NEW j \in Ids, ReEnrich(j) PROVE UNCHANGED ops
  BY <1>17 DEF ReEnrich
<1>18. ASSUME NEW r \in Readers, ReadInfo(r) PROVE UNCHANGED ops
  BY <1>18 DEF ReadInfo
<1>19. ASSUME NEW t \in {"usb", "wifi"}, Attach(t) \/ Leave(t) \/ ReadOnlyRecords
       PROVE  UNCHANGED ops
  BY <1>19 DEF Attach, Leave, ReadOnlyRecords
<1>20. Probe \/ EnrichOne("d1") \/ EnrichOne("d2") \/ Subscribe \/ DriverStarts \/ Schedule \/ Resubscribe => UNCHANGED ops
  BY DEF Probe, EnrichOne, Subscribe, DriverStarts, Schedule, Resubscribe
<1> QED
  BY StepCases, <1>6, <1>7, <1>8, <1>9, <1>10, <1>11, <1>12, <1>13, <1>14, <1>15, <1>16, <1>17,
     <1>18, <1>19, <1>20

\* Pair reports success only when the muxer has a record it did not have when
\* the operation was asked for.
THEOREM PairingsAreSaved == Spec => PairingSaved
<1>1. ASSUME OpsInv, Next, NEW i \in Ids, ops[i].kind = "pair", ops[i].st \in Active,
             ops'[i].st = "succeeded"
      PROVE  dev.rec # 0 /\ dev.rec # ops[i].rec
  <2>1. PairCheck(i) /\ ~Fails(i)
    BY <1>1, WhoSucceeds DEF Next
  <2>2. PICK after \in PairRecord : Recorded(ops[i].rec, after)
    BY <2>1 DEF PairCheck
  <2> QED
    BY <2>2 DEF PairRecord, Recorded
<1>2. OpsInv /\ [Next]_<<vars, mix>> =>
        [\A i \in Ids : ops[i].kind = "pair" /\ ops[i].st \in Active /\ ops'[i].st = "succeeded"
                        => dev.rec # 0 /\ dev.rec # ops[i].rec]_vars
  BY <1>1 DEF vars
<1> QED
  BY <1>2, OpsInductive, PTL DEF Spec, PairingSaved

\* A Wi-Fi sync operation is announced as succeeded only once the identity has
\* the value it read back.
THEOREM PublishedFirst == Spec => PublishedBeforeDone
<1>1. ASSUME OpsInv, Next, NEW i \in Ids, ops[i].kind = "wifi_sync", ops[i].st \in Active,
             ops'[i].st = "succeeded", ~unsure
      PROVE  ident'.wifi = ops[i].got.wifi
  <2>1. WifiAnnounce(i)
    BY <1>1, WhoSucceeds DEF Next
  <2> QED
    BY <1>1, <2>1 DEF WifiAnnounce, OpsInv, SnapshotsTrue
<1>2. OpsInv /\ [Next]_<<vars, mix>> =>
        [\A i \in Ids : ops[i].kind = "wifi_sync" /\ ops[i].st \in Active /\ ops'[i].st = "succeeded" /\ Listed
                        => unsure \/ ident'.wifi = ops[i].got.wifi]_vars
  BY <1>1 DEF vars
<1> QED
  BY <1>2, OpsInductive, PTL DEF Spec, PublishedBeforeDone

-----------------------------------------------------------------------------
(* The certificate trial: callers and what they are doing                  *)

Writing == Callers \ {Shaker}

\* The callers of the Keeper are different goroutines.
LEMMA Who ==
    /\ Confirmer \in Writing /\ Editor \in Writing /\ Applier \in Writing /\ Shaker \in Callers
    /\ \A g \in Gens : Undo(g) \in Writing /\ Undo(g) # Applier /\ Undo(g) # Confirmer /\ Undo(g) # Shaker
    /\ Confirmer # Editor /\ Confirmer # Applier /\ Editor # Applier
    /\ Shaker # Applier /\ Shaker # Confirmer /\ Shaker # Editor
    /\ Writing \subseteq Callers /\ \A a \in Callers : a # Shaker => a \in Writing
  BY DEF Writing, Callers, Confirmer, Editor, Applier, Shaker, Undo

\* The numbers of trials and rewrites.
LEMMA Numbers ==
    /\ 0 \in 0..MaxRewrites /\ NoStamp \in 0..MaxRewrites + 1 /\ \A v \in 0..MaxRewrites : v \in 0..MaxRewrites + 1 /\ v # NoStamp
    /\ 0 \in 0..MaxTrials /\ Gens = {g \in 0..MaxTrials : g # 0}
    /\ \A g \in 0..MaxTrials : g < MaxTrials => g + 1 \in Gens
    /\ Off \notin Pairs
  BY CertAssumption DEF NoStamp, Gens

\* The fields of a call's record.
LEMMA CallRec ==
    ASSUME NEW c \in CallRecs
    PROVE  /\ c.at \in {"idle", "lock", "write", "set", "load", "store"} /\ c.to \in Pairs \cup {Off}
           /\ c.try \in Pairs \cup {Off} /\ c.prev \in Pairs \cup {Off} /\ c.got \in Certs
  BY DEF CallRecs

\* A caller that is not in a call.
LEMMA IdleCall == NoCall \in CallRecs /\ NoCall.at = "idle" /\ NoCall.try = Off
  BY Numbers DEF CallRecs, NoCall, NoCert, Certs

\* A call that sets the pair it is given.
LEMMA SetCall ==
    ASSUME NEW p \in Pairs \cup {Off}
    PROVE  Calls(p) \in CallRecs /\ Calls(p).at = "set" /\ Calls(p).to = p /\ Calls(p).try = Off
  BY Numbers DEF CallRecs, NoCall, Calls, NoCert, Certs

\* A call that writes the pair it is given to config.yml first.
LEMMA WriteCall ==
    ASSUME NEW p \in Pairs \cup {Off}, NEW d, d = [Calls(p) EXCEPT !.at = "write"]
    PROVE  d \in CallRecs /\ d.at = "write" /\ d.to = p /\ d.try = Off
  BY Numbers DEF CallRecs, NoCall, Calls, NoCert, Certs

\* One call moves, the others stay where they are.
LEMMA Moves ==
    ASSUME call \in [Callers -> CallRecs], NEW a \in Callers, NEW d \in CallRecs, call' = [call EXCEPT ![a] = d]
    PROVE  call' \in [Callers -> CallRecs] /\ call'[a] = d /\ \A b \in Callers : b # a => call'[b] = call[b]
  OBVIOUS

\* The next place of a call, in place.
LEMMA Goes ==
    ASSUME call \in [Callers -> CallRecs], NEW a \in Callers,
           NEW t \in {"idle", "lock", "write", "set", "load", "store"}, call' = [call EXCEPT ![a].at = t]
    PROVE  /\ call' \in [Callers -> CallRecs] /\ \A b \in Callers : b # a => call'[b] = call[b]
           /\ call'[a].at = t /\ call'[a].to = call[a].to /\ call'[a].try = call[a].try
           /\ call'[a].prev = call[a].prev /\ call'[a].got = call[a].got
<1>1. call[a] \in CallRecs /\ [call[a] EXCEPT !.at = t] \in CallRecs
  BY DEF CallRecs
<1> QED
  BY <1>1 DEF CallRecs

\* A call that has read the files goes on to store them.
LEMMA Reads ==
    ASSUME call \in [Callers -> CallRecs], NEW a \in Callers, NEW g \in Certs,
           call' = [call EXCEPT ![a].at = "store", ![a].got = g]
    PROVE  /\ call' \in [Callers -> CallRecs] /\ \A b \in Callers : b # a => call'[b] = call[b]
           /\ call'[a].at = "store" /\ call'[a].to = call[a].to /\ call'[a].try = call[a].try
           /\ call'[a].prev = call[a].prev /\ call'[a].got = g
<1>1. call[a] \in CallRecs /\ [call[a] EXCEPT !.at = "store", !.got = g] \in CallRecs
  BY DEF CallRecs
<1>2. call' = [call EXCEPT ![a] = [call[a] EXCEPT !.at = "store", !.got = g]]
  BY <1>1 DEF CallRecs
<1> QED
  BY <1>1, <1>2 DEF CallRecs

\* The fields of the Keeper.
LEMMA KeepRec ==
    ASSUME NEW k \in Keepers
    PROVE  /\ k.files \in Pairs \cup {Off} /\ k.cert \in Certs /\ k.stamp \in 0..MaxRewrites + 1 /\ k.dirty \in BOOLEAN
  BY DEF Keepers

\* The fields of a trial.
LEMMA TrialRec ==
    /\ NoTrial \in Trials /\ NoTrial.gen = 0
    /\ \A t \in Trials : t.gen \in 0..MaxTrials /\ t.pair \in Pairs \cup {Off} /\ t.prev \in Pairs \cup {Off}
  BY Numbers DEF Trials, NoTrial

\* What the return of a Keeper's call leads to.
LEMMA ReturnsDoes ==
    ASSUME CertTypeOK, RolesTrue, NEW a \in Callers, NEW failed \in BOOLEAN, Returns(a, failed)
    PROVE  /\ call' \in [Callers -> CallRecs] /\ \A b \in Callers : b # a => call'[b] = call[b]
           /\ gen' \in 0..MaxTrials /\ trial' \in Trials /\ timers' \subseteq Gens
           /\ call'[a].try = Off
           /\ \/ call'[a].at = "idle" /\ call[a].try = Off /\ UNCHANGED <<trial, gen, timers>>
              \/ /\ call[a].try # Off /\ failed /\ call'[a].at = "set" /\ call'[a].to = call[a].prev
                 /\ UNCHANGED <<trial, gen, timers>>
              \/ /\ call[a].try # Off /\ ~failed /\ call'[a].at = "idle" /\ gen' = gen + 1 /\ gen' \in Gens
                 /\ trial'.gen = gen + 1 /\ trial'.pair = call[a].try /\ trial'.prev = call[a].prev
                 /\ ~trial'.late /\ timers' = Armed
<1>0. /\ call \in [Callers -> CallRecs] /\ call[a] \in CallRecs /\ gen \in 0..MaxTrials /\ trial \in Trials
      /\ timers \subseteq Gens /\ call[a].prev \in Pairs \cup {Off} /\ call[a].try \in Pairs \cup {Off}
  BY CallRec DEF CertTypeOK
<1>1. CASE call[a].try = Off
  <2>1. call' = [call EXCEPT ![a] = NoCall] /\ UNCHANGED <<trial, gen, timers>>
    BY <1>1 DEF Returns
  <2>2. call' \in [Callers -> CallRecs] /\ call'[a] = NoCall /\ \A b \in Callers : b # a => call'[b] = call[b]
    BY <1>0, <2>1, Moves, IdleCall
  <2> QED
    BY <1>0, <1>1, <2>1, <2>2, IdleCall
<1>2. CASE call[a].try # Off /\ failed
  <2>1. call' = [call EXCEPT ![a] = Calls(call[a].prev)] /\ UNCHANGED <<trial, gen, timers>>
    BY <1>2 DEF Returns
  <2>2. /\ call' \in [Callers -> CallRecs] /\ call'[a] = Calls(call[a].prev)
        /\ \A b \in Callers : b # a => call'[b] = call[b]
    BY <1>0, <2>1, Moves, SetCall
  <2> QED
    BY <1>0, <1>2, <2>1, <2>2, SetCall
<1>3. CASE call[a].try # Off /\ ~failed
  <2>1. gen + 1 \in Gens
    BY <1>0, <1>3, Numbers DEF RolesTrue
  <2>2. [gen |-> gen + 1, pair |-> call[a].try, prev |-> call[a].prev, late |-> FALSE] \in Trials
    BY <1>0, <2>1, Numbers DEF Trials
  <2>3. /\ call' = [call EXCEPT ![a] = NoCall] /\ gen' = gen + 1 /\ timers' = Armed
        /\ trial' = [gen |-> gen + 1, pair |-> call[a].try, prev |-> call[a].prev, late |-> FALSE]
    BY <1>3 DEF Returns
  <2>4. call' \in [Callers -> CallRecs] /\ call'[a] = NoCall /\ \A b \in Callers : b # a => call'[b] = call[b]
    BY <1>0, <2>3, Moves, IdleCall
  <2>5. gen' \in 0..MaxTrials /\ timers' \subseteq Gens
    BY <1>0, <2>1, <2>3, Numbers DEF Armed
  <2> QED
    BY <1>0, <1>3, <2>1, <2>2, <2>3, <2>4, <2>5, IdleCall
<1> QED
  BY <1>1, <1>2, <1>3

-----------------------------------------------------------------------------
(* What each step does to the callers                                      *)

\* The steps that leave the calls alone.
Still == Handshake \/ WindowCloses \/ TimerFires \/ Claim \/ (\E p \in Pairs : Rewrite(p)) \/ UNCHANGED certVars

\* SetFiles changes the Keeper's paths and the caller's place.
LEMMA SetFilesDoes ==
    ASSUME CertInv, NEW a \in Callers, SetFiles(a)
    PROVE  /\ call' \in [Callers -> CallRecs] /\ \A b \in Callers : b # a => call'[b] = call[b]
           /\ gen' \in 0..MaxTrials /\ trial' \in Trials /\ timers' \subseteq Gens
           /\ a # Shaker /\ keep' \in Keepers /\ keep'.files = call[a].to /\ call[a].at = "set"
           /\ \/ /\ call[a].to = Off /\ call[a].try = Off /\ call'[a].at = "idle" /\ call'[a].try = Off
                 /\ keep'.cert = NoCert /\ keep'.stamp = NoStamp
              \/ /\ call[a].to # Off /\ call'[a].at = "load" /\ call'[a].try = call[a].try
                 /\ call'[a].prev = call[a].prev /\ call'[a].to = call[a].to /\ keep'.dirty
           /\ UNCHANGED <<trial, gen, timers>>
<1>0. /\ call \in [Callers -> CallRecs] /\ call[a].to \in Pairs \cup {Off} /\ keep \in Keepers
      /\ gen \in 0..MaxTrials /\ trial \in Trials /\ timers \subseteq Gens
      /\ CertTypeOK /\ RolesTrue /\ call[a].at = "set" /\ a # Shaker
  BY CallRec, Who DEF CertInv, CertTypeOK, SetFiles, RolesTrue
<1>1. CASE call[a].to = Off
  <2>1. Returns(a, FALSE) /\ keep' = [files |-> Off, cert |-> NoCert, stamp |-> NoStamp, dirty |-> FALSE]
    BY <1>1 DEF SetFiles, Moved
  <2>2. call[a].try = Off
    BY <1>0, <1>1 DEF RolesTrue
  <2>3. keep' \in Keepers /\ keep'.files = Off /\ keep'.cert = NoCert /\ keep'.stamp = NoStamp
    BY <2>1, Numbers DEF Keepers, NoCert, Certs
  <2> QED
    BY <1>0, <1>1, <2>1, <2>2, <2>3, ReturnsDoes
<1>2. CASE call[a].to # Off
  <2>1. /\ call' = [call EXCEPT ![a].at = "load"] /\ UNCHANGED <<trial, gen, timers>>
        /\ keep' = [keep EXCEPT !.files = call[a].to, !.dirty = TRUE]
    BY <1>2 DEF SetFiles, Moved
  <2>2. keep' \in Keepers /\ keep'.files = call[a].to /\ keep'.dirty
    BY <1>0, <2>1 DEF Keepers
  <2> QED
    BY <1>0, <1>2, <2>1, <2>2, Goes
<1> QED
  BY <1>1, <1>2

\* Load reads the files of the paths it finds, or returns.
LEMMA LoadDoes ==
    ASSUME CertInv, NEW a \in Callers, Load(a)
    PROVE  /\ call' \in [Callers -> CallRecs] /\ \A b \in Callers : b # a => call'[b] = call[b]
           /\ call[a].at = "load"
           /\ \/ /\ keep.files \in Pairs /\ call'[a].at = "store" /\ call'[a].try = call[a].try
                 /\ call'[a].prev = call[a].prev /\ call'[a].to = call[a].to
                 /\ call'[a].got = [pair |-> keep.files, v |-> disk[keep.files].v]
                 /\ UNCHANGED <<trial, gen, timers>>
              \/ Returns(a, keep.files # Off)
<1>0. /\ call \in [Callers -> CallRecs] /\ keep.files \in Pairs \cup {Off} /\ CertTypeOK /\ RolesTrue /\ call[a].at = "load"
      /\ \A p \in Pairs : disk[p].v \in 0..MaxRewrites
  BY KeepRec DEF CertInv, CertTypeOK, Load
<1>1. CASE keep.files # Off /\ disk[keep.files].is = "good"
  <2>1. /\ call' = [call EXCEPT ![a].at = "store", ![a].got = [pair |-> keep.files, v |-> disk[keep.files].v]]
        /\ UNCHANGED <<trial, gen, timers>>
    BY <1>1 DEF Load
  <2>2. [pair |-> keep.files, v |-> disk[keep.files].v] \in Certs
    BY <1>0, <1>1 DEF Certs
  <2> QED
    BY <1>0, <1>1, <2>1, <2>2, Reads
<1>2. CASE ~(keep.files # Off /\ disk[keep.files].is = "good")
  <2>1. Returns(a, keep.files # Off) /\ (keep.files # Off) \in BOOLEAN
    BY <1>2 DEF Load
  <2> QED
    BY <1>0, <2>1, ReturnsDoes
<1> QED
  BY <1>1, <1>2

\* What was read is stored only if the paths are still the ones it is from.
LEMMA StoreDoes ==
    ASSUME CertInv, NEW a \in Callers, Store(a)
    PROVE  /\ Returns(a, FALSE) /\ call[a].at = "store" /\ keep' \in Keepers /\ keep'.files = keep.files
           /\ \/ keep' = keep
              \/ /\ keep'.cert = call[a].got /\ keep.files = call[a].got.pair /\ call[a].got.pair \in Pairs
                 /\ keep'.stamp = StatFile(call[a].got.pair)
<1>0. /\ call[a].got \in Certs /\ call[a].at = "store" /\ call[a].got.pair \in Pairs /\ keep \in Keepers
      /\ keep.files \in Pairs \cup {Off} /\ \A p \in Pairs : disk[p].v \in 0..MaxRewrites
  BY CallRec, KeepRec DEF CertInv, CertTypeOK, Store, FilesTrue
<1>1. StatFile(call[a].got.pair) \in 0..MaxRewrites + 1
  BY <1>0, Numbers DEF StatFile
<1>2. CASE StillNamed(call[a].got)
  <2>1. keep' = [files |-> keep.files, cert |-> call[a].got, stamp |-> StatFile(call[a].got.pair), dirty |-> FALSE]
    BY <1>2 DEF Store
  <2>2. /\ keep' \in Keepers /\ keep'.files = keep.files /\ keep'.cert = call[a].got
        /\ keep'.stamp = StatFile(call[a].got.pair)
    BY <1>0, <1>1, <2>1 DEF Keepers
  <2> QED
    BY <1>0, <1>2, <2>2 DEF Store, StillNamed
<1>3. CASE ~StillNamed(call[a].got)
  BY <1>0, <1>3 DEF Store
<1> QED
  BY <1>2, <1>3

\* The calls that are made.
LEMMA ApplyDoes ==
    ASSUME CertTypeOK, NEW p \in Pairs, CertificateApply(p)
    PROVE  /\ call' \in [Callers -> CallRecs] /\ \A b \in Callers : b # Applier => call'[b] = call[b]
           /\ call'[Applier].at = "lock" /\ call'[Applier].to = p /\ call'[Applier].try = p
           /\ call'[Applier].prev = named /\ gen < MaxTrials
<1>1. call' = [call EXCEPT ![Applier] = [Calls(p) EXCEPT !.at = "lock", !.try = p, !.prev = named]]
  BY DEF CertificateApply, PrevPair
<1>2. gen < MaxTrials
  BY CertAssumption DEF CertTypeOK, CertificateApply
<1> DEFINE d == [Calls(p) EXCEPT !.at = "lock", !.try = p, !.prev = named]
<1> HIDE DEF d
<1>3. d \in CallRecs /\ d.at = "lock" /\ d.to = p /\ d.try = p /\ d.prev = named
  <2>1. named \in Pairs \cup {Off}
    BY DEF CertTypeOK
  <2>2. d = [Calls(p) EXCEPT !.at = "lock", !.try = p, !.prev = named]
    BY DEF d
  <2> QED
    BY <2>1, <2>2, Numbers DEF CallRecs, NoCall, Calls, NoCert, Certs
<1>4. /\ call' \in [Callers -> CallRecs] /\ call'[Applier] = d /\ \A b \in Callers : b # Applier => call'[b] = call[b]
  BY <1>1, <1>3, Moves, Who DEF CertTypeOK, d
<1> QED
  BY <1>2, <1>3, <1>4

\* A confirmation goes on to write the trial's pair.
LEMMA ConfirmDoes ==
    ASSUME CertTypeOK, NEW g \in Gens, CertificateConfirm(g)
    PROVE  /\ call' \in [Callers -> CallRecs] /\ \A b \in Callers : b # Confirmer => call'[b] = call[b]
           /\ call'[Confirmer].at = "write" /\ call'[Confirmer].to = trial.pair /\ call'[Confirmer].try = Off
<1> DEFINE d == [Calls(trial.pair) EXCEPT !.at = "write"]
<1>1. call' = [call EXCEPT ![Confirmer] = d]
  BY DEF CertificateConfirm
<1>2. d \in CallRecs /\ d.at = "write" /\ d.to = trial.pair /\ d.try = Off
  BY WriteCall, TrialRec DEF CertTypeOK
<1> HIDE DEF d
<1>3. /\ call' \in [Callers -> CallRecs] /\ call'[Confirmer] = d
      /\ \A b \in Callers : b # Confirmer => call'[b] = call[b]
  BY <1>1, <1>2, Moves, Who DEF CertTypeOK
<1> QED
  BY <1>2, <1>3

\* The end of a trial goes on to set the pair of before.
LEMMA RestoresDoes ==
    ASSUME CertTypeOK, NEW g \in Gens, Restores(g)
    PROVE  /\ call' \in [Callers -> CallRecs] /\ \A b \in Callers : b # Undo(g) => call'[b] = call[b]
           /\ call'[Undo(g)].at = "set" /\ call'[Undo(g)].to = trial.prev /\ call'[Undo(g)].try = Off
<1>1. call' = [call EXCEPT ![Undo(g)] = Calls(trial.prev)]
  BY DEF Restores
<1>2. /\ Calls(trial.prev) \in CallRecs /\ Calls(trial.prev).at = "set" /\ Calls(trial.prev).to = trial.prev
      /\ Calls(trial.prev).try = Off
  BY SetCall, TrialRec DEF CertTypeOK
<1>3. /\ call' \in [Callers -> CallRecs] /\ call'[Undo(g)] = Calls(trial.prev)
      /\ \A b \in Callers : b # Undo(g) => call'[b] = call[b]
  BY <1>1, <1>2, Moves, Who DEF CertTypeOK
<1> QED
  BY <1>2, <1>3

\* A write of config.yml names the pair, and its caller goes on to set it.
LEMMA WritesDoes ==
    ASSUME CertTypeOK, NEW a \in Callers, NEW p \in Pairs \cup {Off}, Writes(a, p)
    PROVE  /\ call' \in [Callers -> CallRecs] /\ \A b \in Callers : b # a => call'[b] = call[b]
           /\ call'[a].try = Off /\ named' = p
           /\ (p = named /\ call'[a].at = "idle") \/ (p # named /\ call'[a].at = "set" /\ call'[a].to = p)
<1>0. call \in [Callers -> CallRecs] /\ named' = p
  BY DEF CertTypeOK, Writes
<1>1. CASE p = named
  <2>1. call' = [call EXCEPT ![a] = NoCall]
    BY <1>1 DEF Writes
  <2> QED
    BY <1>0, <1>1, <2>1, Moves, IdleCall
<1>2. CASE p # named
  <2>1. call' = [call EXCEPT ![a] = Calls(p)]
    BY <1>2 DEF Writes
  <2> QED
    BY <1>0, <1>2, <2>1, Moves, SetCall
<1> QED
  BY <1>1, <1>2

\* A cancel, or an expiry that owns the trial, restores the pair of before.
LEMMA Answered ==
    ASSUME CertTypeOK, NEW g \in Gens, CertificateCancel(g) \/ (Expire(g) /\ Mine(g))
    PROVE  Restores(g) /\ UNCHANGED <<disk, keep, gen, named, claimed, could, torn>> /\ trial # NoTrial /\ trial.gen = g
           /\ (CertificateCancel(g) => timers' = timers \ {g} /\ fired' = fired /\ ~trial.late)
           /\ (Expire(g) => fired' = fired \ {g} /\ timers' = timers /\ g \in fired)
  BY DEF CertificateCancel, Expire, Mine, Answers

-----------------------------------------------------------------------------
(* Types and roles                                                         *)

\* The steps, action by action.
LEMMA CertSteps ==
    ASSUME CertNext \/ UNCHANGED certVars
    PROVE  \/ \E a \in Callers : SetFiles(a) \/ Load(a) \/ Store(a)
           \/ GetCertificate \/ Begin \/ SetTLSFiles \/ WriteRefused \/ RestartTLS
           \/ \E p \in Pairs : CertificateApply(p)
           \/ \E g \in Gens : CertificateConfirm(g) \/ CertificateCancel(g) \/ Expire(g)
           \/ \E p \in Pairs \cup {Off} : EditTLS(p)
           \/ Still
  BY DEF CertNext, KeeperStep, TrialStep, Still

\* What a step may do to a call, whoever makes it.
LEMMA CallsStep ==
    ASSUME CertInv, CertNext \/ UNCHANGED certVars
    PROVE  call' \in [Callers -> CallRecs] /\ RolesTrue'
<1>0. /\ CertTypeOK /\ RolesTrue /\ call \in [Callers -> CallRecs] /\ gen \in 0..MaxTrials /\ named \in Pairs \cup {Off}
  BY DEF CertInv, CertTypeOK
<1>1. ASSUME NEW a \in Callers, SetFiles(a) PROVE call' \in [Callers -> CallRecs] /\ RolesTrue'
  BY <1>0, <1>1, SetFilesDoes, Who DEF RolesTrue, Busy
<1>2. ASSUME NEW a \in Callers, NEW failed \in BOOLEAN, Returns(a, failed),
             call[a].at \in {"load", "store"}
      PROVE call' \in [Callers -> CallRecs] /\ RolesTrue'
  <2>1. \A b \in Callers : b # a => call[b].try = Off \/ call[a].try = Off
    BY <1>0 DEF RolesTrue
  <2> QED
    BY <1>0, <1>2, <2>1, ReturnsDoes, Who DEF RolesTrue, Busy
<1>3. ASSUME NEW a \in Callers, Load(a) PROVE call' \in [Callers -> CallRecs] /\ RolesTrue'
  <2>1. CASE call'[a].at = "store" /\ call'[a].try = call[a].try /\ UNCHANGED gen
    BY <1>0, <1>3, <2>1, LoadDoes, Who DEF RolesTrue, Busy
  <2>2. CASE Returns(a, keep.files # Off)
    BY <1>2, <1>3, <2>2, LoadDoes
  <2> QED
    BY <1>3, <2>1, <2>2, LoadDoes
<1>4. ASSUME NEW a \in Callers, Store(a) PROVE call' \in [Callers -> CallRecs] /\ RolesTrue'
  BY <1>2, <1>4, StoreDoes
<1>5. ASSUME GetCertificate PROVE call' \in [Callers -> CallRecs] /\ RolesTrue'
  <2>1. call' = [call EXCEPT ![Shaker].at = "load"] /\ UNCHANGED gen
    BY <1>5 DEF GetCertificate
  <2>2. /\ call' \in [Callers -> CallRecs] /\ \A b \in Callers : b # Shaker => call'[b] = call[b]
        /\ call'[Shaker].at = "load" /\ call'[Shaker].to = call[Shaker].to /\ call'[Shaker].try = call[Shaker].try
    BY <1>0, <2>1, Goes, Who
  <2> QED
    BY <1>0, <2>1, <2>2, Who DEF RolesTrue, Busy
<1>6. ASSUME Begin PROVE call' \in [Callers -> CallRecs] /\ RolesTrue'
  <2>1. call' = [call EXCEPT ![Applier].at = "set"] /\ UNCHANGED gen /\ call[Applier].at = "lock"
    BY <1>6 DEF Begin
  <2>2. /\ call' \in [Callers -> CallRecs] /\ \A b \in Callers : b # Applier => call'[b] = call[b]
        /\ call'[Applier].at = "set" /\ call'[Applier].to = call[Applier].to /\ call'[Applier].try = call[Applier].try
    BY <1>0, <2>1, Goes, Who
  <2> QED
    BY <1>0, <2>1, <2>2, Who DEF RolesTrue, Busy
<1>7. ASSUME SetTLSFiles PROVE call' \in [Callers -> CallRecs] /\ RolesTrue'
  <2>1. Writes(Confirmer, call[Confirmer].to) /\ call[Confirmer].to \in Pairs \cup {Off} /\ UNCHANGED gen
    BY <1>0, <1>7, CallRec, Who DEF SetTLSFiles, Writes
  <2> QED
    BY <1>0, <2>1, WritesDoes, Who DEF RolesTrue, Busy
<1>8. ASSUME NEW p \in Pairs \cup {Off}, EditTLS(p)
      PROVE  call' \in [Callers -> CallRecs] /\ RolesTrue'
  <2>1. Writes(Editor, p) /\ UNCHANGED gen
    BY <1>8 DEF EditTLS, Writes
  <2> QED
    BY <1>0, <2>1, WritesDoes, Who DEF RolesTrue, Busy
<1>9. ASSUME WriteRefused PROVE call' \in [Callers -> CallRecs] /\ RolesTrue'
  <2>1. call' = [call EXCEPT ![Confirmer] = NoCall] /\ UNCHANGED gen
    BY <1>9 DEF WriteRefused
  <2> QED
    BY <1>0, <2>1, Moves, IdleCall, Who DEF RolesTrue, Busy
<1>10. ASSUME RestartTLS PROVE call' \in [Callers -> CallRecs] /\ RolesTrue'
  <2>1. call' = [a \in Callers |-> NoCall] /\ UNCHANGED gen
    BY <1>10 DEF RestartTLS
  <2> QED
    BY <2>1, IdleCall, Who DEF RolesTrue, Busy
<1>11. ASSUME NEW p \in Pairs, CertificateApply(p)
       PROVE  call' \in [Callers -> CallRecs] /\ RolesTrue'
  <2>1. UNCHANGED gen
    BY <1>11 DEF CertificateApply
  <2> QED
    BY <1>0, <1>11, <2>1, ApplyDoes, Who, Numbers DEF RolesTrue, Busy
<1>12. ASSUME NEW g \in Gens, CertificateConfirm(g)
       PROVE  call' \in [Callers -> CallRecs] /\ RolesTrue'
  <2>1. UNCHANGED gen
    BY <1>12 DEF CertificateConfirm
  <2> QED
    BY <1>0, <1>12, <2>1, ConfirmDoes, Who DEF RolesTrue, Busy
<1>13. ASSUME NEW g \in Gens, Restores(g), UNCHANGED gen
       PROVE  call' \in [Callers -> CallRecs] /\ RolesTrue'
  BY <1>0, <1>13, RestoresDoes, Who DEF RolesTrue, Busy
<1>14. ASSUME NEW g \in Gens, CertificateCancel(g) \/ Expire(g)
       PROVE  call' \in [Callers -> CallRecs] /\ RolesTrue'
  <2>1. UNCHANGED gen /\ (Restores(g) \/ UNCHANGED call)
    BY <1>14 DEF CertificateCancel, Expire
  <2> QED
    BY <1>0, <1>13, <2>1 DEF RolesTrue, Busy
<1>15. ASSUME Still PROVE call' \in [Callers -> CallRecs] /\ RolesTrue'
  <2>1. UNCHANGED <<gen, call>>
    BY <1>15 DEF Still, Handshake, WindowCloses, TimerFires, Claim, Rewrite, certVars
  <2> QED
    BY <1>0, <2>1 DEF RolesTrue, Busy
<1> QED
  BY <1>1, <1>3, <1>4, <1>5, <1>6, <1>7, <1>8, <1>9, <1>10, <1>11, <1>12, <1>14, <1>15, CertSteps

-----------------------------------------------------------------------------
(* The files, and what the Keeper holds of them                            *)

\* A restarted Keeper has what config.yml names.
LEMMA BootedDoes ==
    ASSUME CertTypeOK, NEW k, k = Booted(named)
    PROVE  /\ k \in Keepers /\ k.files = named /\ k.cert.pair = named
           /\ named # Off => k.stamp = k.cert.v
           /\ k.cert = NoCert \/ k.cert.pair \in Pairs
<1>1. named \in Pairs \cup {Off} /\ \A p \in Pairs : disk[p].v \in 0..MaxRewrites
  BY DEF CertTypeOK
<1>2. CASE named = Off
  BY <1>2, Numbers DEF Booted, Keepers, NoCert, Certs
<1>3. CASE named # Off
  BY <1>1, <1>3, Numbers DEF Booted, Keepers, Certs
<1> QED
  BY <1>2, <1>3

\* The only actions that write the Keeper.
LEMMA KeepWriters ==
    ASSUME CertNext \/ UNCHANGED certVars
    PROVE  UNCHANGED keep \/ RestartTLS \/ \E a \in Callers : SetFiles(a) \/ Store(a)
  BY CertSteps DEF Load, GetCertificate, Begin, SetTLSFiles, WriteRefused, CertificateApply,
     CertificateConfirm,
       CertificateCancel, Expire, EditTLS, Writes, Still, Handshake, WindowCloses, TimerFires, Claim, Rewrite, certVars

\* Every step keeps the pair that is believed current the one named.
LEMMA KeepStep ==
    ASSUME CertInv, CertNext \/ UNCHANGED certVars
    PROVE  keep' \in Keepers /\ BelievedIsNamed'
<1>0. keep \in Keepers /\ BelievedIsNamed /\ CertTypeOK
  BY DEF CertInv, CertTypeOK
<1>1. ASSUME NEW a \in Callers, SetFiles(a) PROVE keep' \in Keepers /\ BelievedIsNamed'
  <2>1. NoCert.pair = Off
    BY DEF NoCert
  <2> QED
    BY <1>1, <2>1, SetFilesDoes DEF BelievedIsNamed
<1>2. ASSUME NEW a \in Callers, Store(a) PROVE keep' \in Keepers /\ BelievedIsNamed'
  BY <1>0, <1>2, StoreDoes DEF BelievedIsNamed
<1>3. ASSUME RestartTLS PROVE keep' \in Keepers /\ BelievedIsNamed'
  BY <1>0, <1>3, BootedDoes DEF RestartTLS, BelievedIsNamed
<1> QED
  BY <1>0, <1>1, <1>2, <1>3, KeepWriters DEF BelievedIsNamed

\* Who reads files: whoever goes on to store, and no one else.
LEMMA StoreReaders ==
    ASSUME CertInv, CertNext \/ UNCHANGED certVars, NEW a \in Callers, call'[a].at = "store"
    PROVE  \/ /\ call[a].at = "store" /\ call'[a].got = call[a].got
           \/ /\ keep.files \in Pairs /\ call'[a].got = [pair |-> keep.files, v |-> disk[keep.files].v] /\ UNCHANGED disk
<1>0. CertTypeOK /\ RolesTrue /\ call \in [Callers -> CallRecs] /\ named \in Pairs \cup {Off}
  BY DEF CertInv, CertTypeOK
<1> DEFINE Goal == \/ /\ call[a].at = "store" /\ call'[a].got = call[a].got
                   \/ /\ keep.files \in Pairs /\ call'[a].got = [pair |-> keep.files, v |-> disk[keep.files].v]
                      /\ UNCHANGED disk
<1>1. ASSUME NEW b \in Callers, SetFiles(b) PROVE Goal
  BY <1>1, SetFilesDoes
<1>2. ASSUME NEW b \in Callers, NEW failed \in BOOLEAN, Returns(b, failed) PROVE Goal
  BY <1>0, <1>2, ReturnsDoes
<1>3. ASSUME NEW b \in Callers, Load(b) PROVE Goal
  <2>1. UNCHANGED disk
    BY <1>3 DEF Load
  <2>2. CASE Returns(b, keep.files # Off)
    BY <1>2, <2>2
  <2> QED
    BY <1>3, <2>1, <2>2, LoadDoes
<1>4. ASSUME NEW b \in Callers, Store(b) PROVE Goal
  BY <1>2, <1>4, StoreDoes
<1>5. ASSUME GetCertificate \/ Begin \/ WriteRefused \/ RestartTLS PROVE Goal
  <2>1. NoCall.at = "idle"
    BY IdleCall
  <2> QED
    BY <1>0, <1>5, <2>1, Who DEF GetCertificate, Begin, WriteRefused, RestartTLS, CallRecs
<1>6. ASSUME NEW p \in Pairs, CertificateApply(p) PROVE Goal
  BY <1>0, <1>6, ApplyDoes
<1>7. ASSUME NEW g \in Gens, CertificateConfirm(g) PROVE Goal
  BY <1>0, <1>7, ConfirmDoes
<1>8. ASSUME NEW g \in Gens, CertificateCancel(g) \/ Expire(g) PROVE Goal
  <2>1. Restores(g) \/ UNCHANGED call
    BY <1>8 DEF CertificateCancel, Expire
  <2> QED
    BY <1>0, <2>1, RestoresDoes
<1>9. ASSUME SetTLSFiles PROVE Goal
  <2>1. Writes(Confirmer, call[Confirmer].to) /\ call[Confirmer].to \in Pairs \cup {Off}
    BY <1>0, <1>9, CallRec, Who DEF SetTLSFiles
  <2> QED
    BY <1>0, <2>1, WritesDoes, Who
<1>10. ASSUME NEW p \in Pairs \cup {Off}, EditTLS(p) PROVE Goal
  <2>1. Writes(Editor, p)
    BY <1>10 DEF EditTLS
  <2> QED
    BY <1>0, <2>1, WritesDoes, Who
<1>11. ASSUME Still PROVE Goal
  BY <1>11 DEF Still, Handshake, WindowCloses, TimerFires, Claim, Rewrite, certVars
<1> QED
  BY <1>1, <1>3, <1>4, <1>5, <1>6, <1>7, <1>8, <1>9, <1>10, <1>11, CertSteps

\* The only actions that write the certificate files.
LEMMA DiskWriters ==
    ASSUME CertNext \/ UNCHANGED certVars
    PROVE  \/ UNCHANGED <<disk, torn>>
           \/ RestartTLS
           \/ \E p \in Pairs : Rewrite(p)
  BY CertSteps DEF SetFiles, Load, Store, GetCertificate, Begin, SetTLSFiles, WriteRefused,
     CertificateApply,
       CertificateConfirm, CertificateCancel, Expire, EditTLS, Writes, Still, Handshake, WindowCloses, TimerFires, Claim,
       certVars

\* The files keep their type.
LEMMA DiskType ==
    ASSUME CertTypeOK, CertNext \/ UNCHANGED certVars
    PROVE  disk' \in [Pairs -> [v : 0..MaxRewrites, is : {"good", "half", "absent"}]] /\ torn' \in BOOLEAN
<1>1. ASSUME NEW p \in Pairs, Rewrite(p)
      PROVE disk' \in [Pairs -> [v : 0..MaxRewrites, is : {"good", "half", "absent"}]]
  <2>1. disk[p].v + 1 \in 0..MaxRewrites
    BY <1>1, CertAssumption DEF CertTypeOK, Rewrite
  <2> QED
    BY <1>1, <2>1 DEF CertTypeOK, Rewrite
<1> QED
  BY <1>1, DiskWriters DEF CertTypeOK, RestartTLS, Rewrite

\* Every step keeps what was read, and the stamp, in line with the files.
LEMMA FilesStep ==
    ASSUME CertInv, CertNext \/ UNCHANGED certVars
    PROVE  FilesTrue'
<1>0. CertTypeOK /\ FilesTrue /\ BelievedIsNamed /\ keep \in Keepers
  BY DEF CertInv, CertTypeOK
<1>1. \A a \in Callers : call'[a].at = "store" => call'[a].got.pair \in Pairs
  BY <1>0, StoreReaders DEF FilesTrue
<1>c. keep'.cert = NoCert \/ keep'.cert.pair \in Pairs
  <2>1. ASSUME NEW a \in Callers, SetFiles(a) PROVE keep'.cert = NoCert \/ keep'.cert = keep.cert
    BY <1>0, <2>1 DEF SetFiles, Moved, Keepers
  <2> QED
    BY <1>0, <2>1, KeepWriters, StoreDoes, BootedDoes DEF RestartTLS, FilesTrue
<1>2. CASE UNCHANGED <<disk, torn>>
  <2>1. ~torn' => \A a \in Callers : call'[a].at = "store" => call'[a].got.v = disk'[call'[a].got.pair].v
    BY <1>0, <1>2, StoreReaders DEF FilesTrue
  <2>2. ~torn' /\ ~keep'.dirty /\ keep'.files # Off /\ keep'.stamp # NoStamp => keep'.cert.v = keep'.stamp
    <3>1. ASSUME NEW a \in Callers, SetFiles(a), ~keep'.dirty PROVE keep'.files = Off
      BY <3>1, SetFilesDoes
    <3>2. ASSUME NEW a \in Callers, Store(a), ~torn, ~keep'.dirty, keep'.files # Off,
                 keep'.stamp # NoStamp
          PROVE  keep'.cert.v = keep'.stamp
      BY <1>0, <3>2, StoreDoes DEF FilesTrue, StatFile
    <3>3. ASSUME RestartTLS, keep'.files # Off PROVE keep'.cert.v = keep'.stamp
      BY <1>0, <3>3, BootedDoes DEF RestartTLS
    <3> QED
      BY <1>0, <1>2, <3>1, <3>2, <3>3, KeepWriters DEF FilesTrue
  <2> QED
    BY <1>1, <1>c, <2>1, <2>2 DEF FilesTrue
<1>3. CASE RestartTLS
  <2>1. \A a \in Callers : call'[a].at # "store"
    BY <1>3, IdleCall DEF RestartTLS
  <2>2. keep'.files # Off => keep'.cert.v = keep'.stamp
    BY <1>0, <1>3, BootedDoes DEF RestartTLS
  <2> QED
    BY <1>c, <2>1, <2>2 DEF FilesTrue
<1>4. ASSUME NEW p \in Pairs, Rewrite(p) PROVE FilesTrue'
  <2>1. UNCHANGED <<call, keep>> /\ \A q \in Pairs : q # p => disk'[q] = disk[q]
    BY <1>0, <1>4 DEF Rewrite, CertTypeOK
  <2>2. ~torn' => ~torn /\ \A a \in Callers : call[a].at = "store" => call[a].got.pair # p
    BY <1>0, <1>4 DEF Rewrite, CertTypeOK
  <2> QED
    BY <1>0, <1>1, <1>c, <2>1, <2>2 DEF FilesTrue
<1> QED
  BY <1>2, <1>3, <1>4, DiskWriters

-----------------------------------------------------------------------------
(* Trials and timers                                                       *)

\* The only actions that write the trial and its timers.
LEMMA TrialWriters ==
    ASSUME CertNext \/ UNCHANGED certVars
    PROVE  \/ UNCHANGED <<trial, gen, timers, fired>>
           \/ \E a \in Callers : SetFiles(a) \/ Load(a) \/ Store(a)
           \/ RestartTLS \/ WindowCloses \/ TimerFires
           \/ \E g \in Gens : CertificateConfirm(g) \/ CertificateCancel(g) \/ Expire(g)
  BY CertSteps DEF GetCertificate, Begin, SetTLSFiles, WriteRefused, CertificateApply, EditTLS,
     Writes, Still,
       Handshake, Claim, Rewrite, certVars

\* Every step keeps the callback of a live trial to a closed window.
LEMMA TimersStep ==
    ASSUME CertInv, CertNext \/ UNCHANGED certVars
    PROVE  gen' \in 0..MaxTrials /\ trial' \in Trials /\ timers' \subseteq Gens /\ fired' \subseteq Gens /\ TimersTrue'
<1> DEFINE Goal == /\ gen' \in 0..MaxTrials /\ trial' \in Trials /\ timers' \subseteq Gens /\ fired' \subseteq Gens
                   /\ TimersTrue'
<1>0. /\ CertTypeOK /\ TimersTrue /\ RolesTrue /\ gen \in 0..MaxTrials /\ trial \in Trials /\ timers \subseteq Gens
      /\ fired \subseteq Gens /\ Gens \subseteq Nat /\ 0..MaxTrials \subseteq Nat /\ 0 \notin Gens
      /\ trial.gen \in 0..MaxTrials /\ NoTrial \in Trials /\ NoTrial.gen = 0 /\ ~NoTrial.late
  BY TrialRec, CertAssumption DEF CertInv, CertTypeOK, Gens, NoTrial
<1>1. ASSUME NEW a \in Callers, NEW failed \in BOOLEAN, Returns(a, failed), UNCHANGED fired
      PROVE  Goal
  <2>1. CASE UNCHANGED <<trial, gen, timers>>
    BY <1>0, <1>1, <2>1 DEF TimersTrue
  <2>2. CASE /\ gen' = gen + 1 /\ gen' \in Gens /\ trial'.gen = gen + 1 /\ timers' = Armed
    <3>1. trial' # NoTrial /\ trial' \in Trials /\ timers' \subseteq Gens
      BY <1>0, <1>1, <2>2, ReturnsDoes
    <3>2. gen + 1 \notin fired
      BY <1>0 DEF TimersTrue
    <3>3. \A g \in timers' : g \in timers \/ g = gen + 1
      BY <2>2 DEF Armed
    <3>4. \A g \in timers \cup fired : g <= gen /\ g \in Nat
      BY <1>0 DEF TimersTrue
    <3>5. \A g \in timers' \cup fired' : g <= gen'
      <4>1. gen \in Nat /\ gen' = gen + 1 /\ fired' = fired
        BY <1>0, <1>1, <2>2
      <4> QED
        BY <3>3, <3>4, <4>1
    <3> QED
      BY <1>0, <1>1, <2>2, <3>1, <3>2, <3>5, ReturnsDoes DEF TimersTrue
  <2> QED
    BY <1>0, <1>1, <2>1, <2>2, ReturnsDoes
<1>2. ASSUME NEW a \in Callers, SetFiles(a) \/ Load(a) \/ Store(a) PROVE Goal
  <2>1. UNCHANGED fired
    BY <1>2 DEF SetFiles, Load, Store
  <2>2. UNCHANGED <<trial, gen, timers>> \/ \E failed \in BOOLEAN : Returns(a, failed)
    BY <1>2 DEF SetFiles, Load, Store
  <2> QED
    BY <1>0, <1>1, <2>1, <2>2 DEF TimersTrue
<1>3. ASSUME RestartTLS PROVE Goal
  BY <1>0, <1>3 DEF RestartTLS, TimersTrue
<1>4. ASSUME WindowCloses PROVE Goal
  <2>1. trial' = [trial EXCEPT !.late = TRUE] /\ UNCHANGED <<gen, timers, fired>> /\ trial # NoTrial
    BY <1>4 DEF WindowCloses
  <2>2. trial' \in Trials /\ trial'.gen = trial.gen /\ trial'.late
    BY <1>0, <2>1 DEF Trials
  <2> QED
    BY <1>0, <2>1, <2>2 DEF TimersTrue
<1>5. ASSUME TimerFires PROVE Goal
  BY <1>0, <1>5 DEF TimerFires, TimersTrue
<1>6. ASSUME NEW g \in Gens, CertificateConfirm(g) \/ CertificateCancel(g) \/ Expire(g) PROVE Goal
  <2>1. /\ trial' \in {trial, NoTrial} /\ timers' \subseteq timers /\ fired' \subseteq fired /\ UNCHANGED gen
    BY <1>6 DEF CertificateConfirm, CertificateCancel, Expire, Restores
  <2> QED
    BY <1>0, <2>1 DEF TimersTrue
<1> QED
  BY <1>0, <1>2, <1>3, <1>4, <1>5, <1>6, TrialWriters DEF TimersTrue

\* Every step keeps the types.
LEMMA CertTypeStep ==
    ASSUME CertInv, CertNext \/ UNCHANGED certVars
    PROVE  CertTypeOK'
<1>0. CertTypeOK /\ call \in [Callers -> CallRecs]
  BY DEF CertInv, CertTypeOK
<1>1. named' \in Pairs \cup {Off}
  <2>1. call[Confirmer].to \in Pairs \cup {Off}
    BY <1>0, CallRec, Who
  <2> QED
    BY <1>0, <2>1, CertSteps DEF CertTypeOK, SetFiles, Load, Store, GetCertificate, Begin,
       SetTLSFiles, WriteRefused,
       CertificateApply, CertificateConfirm, CertificateCancel, Expire, EditTLS, Writes, Still, Handshake, WindowCloses,
       TimerFires, Claim, Rewrite, RestartTLS, certVars
<1>2. could' = could /\ claimed' \in BOOLEAN
  BY <1>0, CertSteps DEF CertTypeOK, SetFiles, Load, Store, GetCertificate, Begin, SetTLSFiles,
     WriteRefused,
     CertificateApply, CertificateConfirm, CertificateCancel, Expire, EditTLS, Writes, Still, Handshake, WindowCloses,
     TimerFires, Claim, Rewrite, RestartTLS, certVars
<1>3. crossed' \in BOOLEAN
  BY <1>0, CertSteps DEF CertTypeOK, SetFiles, Load, Store, GetCertificate, Begin, SetTLSFiles,
     WriteRefused,
     CertificateApply, CertificateConfirm, CertificateCancel, Expire, EditTLS, Writes, Still, Handshake, WindowCloses,
     TimerFires, Claim, Rewrite, RestartTLS, Restores, certVars
<1>4. opened' \subseteq Pairs
  <2>1. ASSUME Handshake PROVE keep.cert.pair \in Pairs
    BY <2>1 DEF Handshake, CertInv, FilesTrue
  <2> QED
    BY <1>0, <2>1, CertSteps DEF CertTypeOK, SetFiles, Load, Store, GetCertificate, Begin,
       SetTLSFiles, WriteRefused,
     CertificateApply, CertificateConfirm, CertificateCancel, Expire, EditTLS, Writes, Still, Handshake, WindowCloses,
     TimerFires, Claim, Rewrite, RestartTLS, certVars
<1> QED
  BY <1>0, <1>1, <1>2, <1>3, <1>4, CallsStep, KeepStep, TimersStep, DiskType DEF CertTypeOK

-----------------------------------------------------------------------------
(* The paths                                                               *)

\* The callers that are in the middle of a change.
LEMMA WriterIs == Writers = {a \in Writing : call[a].at # "idle"}
  BY DEF Writers, Writing, Busy

\* The same after a step.
LEMMA WriterIsNext == Writers' = {a \in Writing : call'[a].at # "idle"}
  BY DEF Writers, Writing, Busy

\* Every step keeps the paths true, unless two changes have crossed.
LEMMA PathsStep ==
    ASSUME CertInv, CertNext \/ UNCHANGED certVars, ~crossed'
    PROVE  PathsTrue'
<1>0. /\ CertTypeOK /\ RolesTrue /\ call \in [Callers -> CallRecs] /\ named \in Pairs \cup {Off}
      /\ (~crossed => PathsTrue) /\ TimersTrue /\ trial \in Trials /\ call' \in [Callers -> CallRecs] /\ RolesTrue'
      /\ Off \notin Pairs /\ (\A a \in Callers : call[a].try \in Pairs \cup {Off})
  BY CallsStep, Numbers, CallRec DEF CertInv, CertTypeOK
<1> USE WriterIs, WriterIsNext, Who
<1>1. ASSUME RestartTLS PROVE PathsTrue'
  <2>1. call' = [a \in Callers |-> NoCall] /\ trial' = NoTrial /\ keep'.files = named /\ named' = named
    BY <1>0, <1>1, BootedDoes DEF RestartTLS
  <2>2. Writers' = {} /\ call'[Applier].at = "idle"
    BY <2>1, IdleCall
  <2> QED
    BY <2>1, <2>2 DEF PathsTrue
<1>2. ASSUME ~RestartTLS PROVE PathsTrue
  BY <1>0, <1>2, CertSteps DEF SetFiles, Load, Store, GetCertificate, Begin, SetTLSFiles,
     WriteRefused,
     CertificateApply, CertificateConfirm, CertificateCancel, Expire, EditTLS, Writes, Still, Handshake, WindowCloses,
     TimerFires, Claim, Rewrite, Restores, certVars
<1>3. ASSUME NEW a \in Callers, SetFiles(a), PathsTrue PROVE PathsTrue'
  <2>1. UNCHANGED named
    BY <1>3 DEF SetFiles
  <2>2. a \in Writers /\ \A b \in Writers : b = a
    BY <1>3, SetFilesDoes DEF PathsTrue
  <2> QED
    BY <1>0, <1>3, <2>1, <2>2, SetFilesDoes DEF PathsTrue, RolesTrue
<1>4. ASSUME NEW a \in Callers, NEW failed \in BOOLEAN, Returns(a, failed),
             call[a].at \in {"load", "store"},
             UNCHANGED named, keep'.files = keep.files, PathsTrue
      PROVE  PathsTrue'
  <2>1. CASE a = Shaker
    <3>1. call[a].try = Off
      BY <1>0, <2>1 DEF RolesTrue
    <3>2. UNCHANGED trial /\ (\A b \in Writing : call'[b] = call[b])
      BY <1>0, <1>4, <2>1, <3>1, ReturnsDoes DEF Writing
    <3> QED
      BY <1>0, <1>4, <3>2 DEF PathsTrue
  <2>2. CASE a # Shaker
    <3>1. a \in Writers /\ \A b \in Writers : b = a
      BY <1>4, <2>2 DEF PathsTrue
    <3>2. CASE call[a].try = Off
      <4>1. UNCHANGED trial /\ call'[a].at = "idle" /\ Writers' = {}
        BY <1>0, <1>4, <3>1, <3>2, ReturnsDoes
      <4> QED
        BY <1>0, <1>4, <3>1, <3>2, <4>1 DEF PathsTrue
    <3>3. CASE call[a].try # Off /\ failed
      <4>0. /\ UNCHANGED trial /\ call'[a].at = "set" /\ call'[a].to = call[a].prev /\ call'[a].try = Off
            /\ \A b \in Callers : b # a => call'[b] = call[b]
        BY <1>0, <1>4, <3>3, ReturnsDoes
      <4>1. UNCHANGED trial /\ call'[a].at = "set" /\ call'[a].to = call[a].prev /\ call'[a].try = Off /\ Writers' = {a}
        BY <3>1, <4>0
      <4>2. a = Applier
        BY <1>0, <3>3 DEF RolesTrue
      <4> QED
        BY <1>0, <1>4, <3>1, <3>3, <4>1, <4>2 DEF PathsTrue
    <3>4. CASE call[a].try # Off /\ ~failed
      <4>1. /\ trial'.pair = call[a].try /\ trial'.prev = call[a].prev /\ trial' # NoTrial /\ call'[a].at = "idle"
            /\ Writers' = {}
        <5>1. gen + 1 # 0
          BY <1>0 DEF CertTypeOK
        <5> QED
          BY <1>0, <1>4, <3>1, <3>4, <5>1, ReturnsDoes, TrialRec
      <4> QED
        BY <1>0, <1>4, <3>1, <3>4, <4>1 DEF PathsTrue
    <3> QED
      BY <3>2, <3>3, <3>4
  <2> QED
    BY <2>1, <2>2
<1>5. ASSUME NEW a \in Callers, Load(a), PathsTrue PROVE PathsTrue'
  <2>1. UNCHANGED <<named, keep>> /\ call[a].at = "load"
    BY <1>5 DEF Load
  <2>2. CASE Returns(a, keep.files # Off)
    BY <1>4, <1>5, <2>1, <2>2
  <2>3. CASE /\ call'[a].at = "store" /\ call'[a].try = call[a].try
             /\ call'[a].prev = call[a].prev /\ call'[a].to = call[a].to /\ UNCHANGED <<trial, gen, timers>>
    <3>1. Writers' = Writers
      BY <1>0, <1>5, <2>1, <2>3, LoadDoes
    <3> QED
      BY <1>0, <1>5, <2>1, <2>3, <3>1, LoadDoes DEF PathsTrue
  <2> QED
    BY <1>5, <2>2, <2>3, LoadDoes
<1>6. ASSUME NEW a \in Callers, Store(a), PathsTrue PROVE PathsTrue'
  <2>1. UNCHANGED named
    BY <1>6 DEF Store
  <2> QED
    BY <1>4, <1>6, <2>1, StoreDoes
<1>7. ASSUME GetCertificate, PathsTrue PROVE PathsTrue'
  <2>1. UNCHANGED <<named, keep, trial>> /\ \A b \in Writing : call'[b] = call[b]
    BY <1>0, <1>7 DEF GetCertificate, Writing
  <2> QED
    BY <1>7, <2>1 DEF PathsTrue
<1>8. ASSUME Begin, PathsTrue PROVE PathsTrue'
  <2>1. call' = [call EXCEPT ![Applier].at = "set"] /\ UNCHANGED <<named, keep, trial>> /\ call[Applier].at = "lock"
    BY <1>8 DEF Begin
  <2>2. /\ call'[Applier].at = "set" /\ call'[Applier].to = call[Applier].to /\ call'[Applier].try = call[Applier].try
        /\ call'[Applier].prev = call[Applier].prev /\ \A b \in Callers : b # Applier => call'[b] = call[b]
    BY <1>0, <2>1, Goes
  <2>3. Writers' = {Applier} /\ Writers = {Applier} /\ call[Applier].try # Off
    BY <1>0, <1>8, <2>1, <2>2 DEF PathsTrue, RolesTrue
  <2> QED
    BY <1>8, <2>1, <2>2, <2>3 DEF PathsTrue
<1>9. ASSUME SetTLSFiles, PathsTrue PROVE PathsTrue'
  <2>1. /\ Writes(Confirmer, call[Confirmer].to) /\ call[Confirmer].to \in Pairs \cup {Off}
        /\ call[Confirmer].at = "write" /\ UNCHANGED <<keep, trial>>
    BY <1>0, <1>9, CallRec DEF SetTLSFiles, Writes
  <2>2. Writers = {Confirmer} /\ trial = NoTrial /\ keep.files \in {call[Confirmer].to, named}
    BY <1>9, <2>1 DEF PathsTrue
  <2>3. Writers' \subseteq {Confirmer}
    BY <1>0, <2>1, <2>2, WritesDoes
  <2> QED
    BY <1>0, <1>9, <2>1, <2>2, <2>3, WritesDoes DEF PathsTrue, RolesTrue
<1>10. ASSUME NEW p \in Pairs \cup {Off}, EditTLS(p), PathsTrue PROVE PathsTrue'
  <2>1. Writes(Editor, p) /\ p # named /\ Writers = {} /\ trial = NoTrial /\ UNCHANGED <<keep, trial>>
    BY <1>10 DEF EditTLS, Writes
  <2>2. Writers' = {Editor}
    BY <1>0, <2>1, WritesDoes
  <2> QED
    BY <1>0, <2>1, <2>2, WritesDoes DEF PathsTrue, RolesTrue
<1>11. ASSUME NEW p \in Pairs, CertificateApply(p), PathsTrue PROVE PathsTrue'
  <2>1. Writers = {} /\ UNCHANGED <<keep, trial, named>>
    BY <1>11 DEF CertificateApply
  <2>2. Writers' = {Applier}
    BY <1>0, <1>11, <2>1, ApplyDoes
  <2> QED
    BY <1>0, <1>11, <2>1, <2>2, ApplyDoes DEF PathsTrue
<1>12. ASSUME NEW g \in Gens, CertificateConfirm(g), PathsTrue PROVE PathsTrue'
  <2>1. Writers = {} /\ UNCHANGED <<keep, named>> /\ trial' = NoTrial /\ trial # NoTrial
    BY <1>12 DEF CertificateConfirm, Answers
  <2>2. Writers' = {Confirmer}
    BY <1>0, <1>12, <2>1, ConfirmDoes
  <2> QED
    BY <1>0, <1>12, <2>1, <2>2, ConfirmDoes DEF PathsTrue, RolesTrue
<1>13. ASSUME NEW g \in Gens, CertificateCancel(g) \/ Expire(g), PathsTrue PROVE PathsTrue'
  <2>1. CASE Restores(g) /\ trial # NoTrial
    <3>1. Writers = {} /\ UNCHANGED <<keep, named>> /\ trial' = NoTrial
      BY <1>13, <2>1 DEF CertificateCancel, Expire, Restores
    <3>2. Writers' = {Undo(g)}
      BY <1>0, <2>1, <3>1, RestoresDoes
    <3> QED
      BY <1>0, <1>13, <2>1, <3>1, <3>2, RestoresDoes DEF PathsTrue, RolesTrue
  <2>2. CASE UNCHANGED <<trial, call, keep, named>>
    BY <1>13, <2>2 DEF PathsTrue
  <2> QED
    BY <1>13, <2>1, <2>2 DEF CertificateCancel, Expire, Answers, Mine
<1>14. ASSUME Still, PathsTrue PROVE PathsTrue'
  <2>1. UNCHANGED <<call, keep, named>>
    BY <1>14 DEF Still, Handshake, WindowCloses, TimerFires, Claim, Rewrite, certVars
  <2>2. UNCHANGED trial \/ (trial # NoTrial /\ trial' = [trial EXCEPT !.late = TRUE])
    BY <1>14 DEF Still, Handshake, WindowCloses, TimerFires, Claim, Rewrite, certVars
  <2>3. trial' # NoTrial <=> trial # NoTrial
    BY <1>0, <2>2 DEF Trials, NoTrial, TimersTrue
  <2>4. trial'.prev = trial.prev /\ trial'.pair = trial.pair
    BY <1>0, <2>2 DEF Trials
  <2> QED
    BY <1>14, <2>1, <2>3, <2>4 DEF PathsTrue
<1> QED
  BY <1>1, <1>2, <1>3, <1>5, <1>6, <1>7, <1>8, <1>9, <1>10, <1>11, <1>12, <1>13, <1>14, CertSteps
     DEF WriteRefused

-----------------------------------------------------------------------------
(* The certificate trial: theorems                                         *)

\* The invariant holds at start-up.
LEMMA CertStart == CertInit(CertMixes) => CertInv
<1> SUFFICES ASSUME CertInit(CertMixes) PROVE CertInv
  OBVIOUS
<1>1. /\ named \in Pairs \cup {Off} /\ disk \in [Pairs -> [v : 0..MaxRewrites, is : {"good", "half", "absent"}]]
  BY Numbers DEF CertInit
<1>2. could.trials \in 0..MaxTrials
  BY CertAssumption DEF CertInit
<1>3. /\ keep \in Keepers /\ keep.files = named /\ keep.cert.pair = named /\ (keep.files # Off => keep.stamp = keep.cert.v)
      /\ keep.cert = NoCert \/ keep.cert.pair \in Pairs
  <2>1. CASE named = Off
    BY <2>1, Numbers DEF CertInit, Booted, Keepers, NoCert, Certs
  <2>2. CASE named # Off
    BY <1>1, <2>2, Numbers DEF CertInit, Booted, Keepers, Certs
  <2> QED
    BY <2>1, <2>2
<1>4. call \in [Callers -> CallRecs] /\ \A a \in Callers : call[a].at = "idle" /\ call[a].try = Off
  BY IdleCall DEF CertInit
<1>5. CertTypeOK
  BY <1>1, <1>2, <1>3, <1>4, TrialRec, Numbers DEF CertInit, CertTypeOK
<1>6. Writers = {}
  BY <1>4 DEF Writers, Busy
<1> QED
  BY <1>1, <1>3, <1>4, <1>5, <1>6, TrialRec, Who
    DEF CertInit, CertInv, BelievedIsNamed, FilesTrue, RolesTrue, TimersTrue, PathsTrue

\* Every step keeps the invariant.
LEMMA CertStep == CertInv /\ [CertNext]_certVars => CertInv'
  BY CertTypeStep, KeepStep, FilesStep, CallsStep, TimersStep, PathsStep DEF CertInv

\* The calls under way, the trial and its timers, the files and the document
\* agree after every step of the API, the timers and the operator.
THEOREM CertInductive == CertSpec => []CertInv
  BY CertStart, CertStep, PTL DEF CertSpec

\* What the Keeper believes is named, is named; with no call under way and no
\* trial it serves what config.yml names, unless two changes crossed; and a
\* renewed file it does not hold yet is one it will notice.
THEOREM KeeperServesConfig == CertSpec => []KeeperTrue
<1>1. ASSUME CertInv PROVE BelievedIsNamed /\ KeeperFollowsConfig
  BY <1>1 DEF CertInv, KeeperFollowsConfig, PathsTrue
<1>2. ASSUME CertInv PROVE RenewalNoticed
  <2> SUFFICES ASSUME keep.files # Off, disk[keep.files].is = "good", ~torn, ~Changed
               PROVE  keep.cert = [pair |-> keep.files, v |-> disk[keep.files].v]
    BY DEF RenewalNoticed
  <2>1. keep \in Keepers /\ keep.files \in Pairs /\ keep.cert \in Certs /\ disk[keep.files].v \in 0..MaxRewrites
    BY <1>2, KeepRec DEF CertInv, CertTypeOK
  <2>2. ~keep.dirty /\ disk[keep.files].v = keep.stamp /\ keep.stamp # NoStamp
    BY <2>1, Numbers DEF Changed, StatFile
  <2>3. keep.cert.pair = keep.files /\ keep.cert.v = keep.stamp
    BY <1>2, <2>2 DEF CertInv, BelievedIsNamed, FilesTrue
  <2> QED
    BY <2>1, <2>2, <2>3 DEF Certs
<1>3. CertInv => KeeperTrue
  BY <1>1, <1>2 DEF KeeperTrue
<1> QED
  BY <1>3, CertInductive, PTL

\* A trial whose window is open ends only by an answer that carries its token or
\* with the process: no late callback of an earlier trial takes it down.
THEOREM OpenTrialsAreKept == CertSpec => OpenTrialKept
<1>1. ASSUME CertInv, CertNext, trial # NoTrial, ~trial.late, trial' = NoTrial
      PROVE  CertificateConfirm(trial.gen) \/ CertificateCancel(trial.gen) \/ RestartTLS
  <2>0. CertTypeOK /\ RolesTrue /\ TimersTrue /\ trial \in Trials /\ gen \in Nat
    BY <1>1, CertAssumption DEF CertInv, CertTypeOK
  <2>1. ASSUME NEW a \in Callers, SetFiles(a) \/ Load(a) \/ Store(a) PROVE FALSE
    <3>1. UNCHANGED trial \/ \E failed \in BOOLEAN : Returns(a, failed)
      BY <2>1 DEF SetFiles, Load, Store
    <3> QED
      BY <1>1, <2>0, <3>1, ReturnsDoes, TrialRec
  <2>2. ASSUME NEW g \in Gens, Expire(g) PROVE FALSE
    BY <1>1, <2>0, <2>2 DEF Expire, Mine, TimersTrue
  <2>3. ASSUME WindowCloses PROVE FALSE
    BY <1>1, <2>0, <2>3 DEF WindowCloses, TimersTrue, Trials, NoTrial
  <2>4. ASSUME NEW g \in Gens, CertificateConfirm(g) \/ CertificateCancel(g) PROVE g = trial.gen
    BY <2>4 DEF CertificateConfirm, CertificateCancel, Answers
  <2> QED
    BY <1>1, <2>1, <2>2, <2>3, <2>4, TrialWriters DEF TimerFires
<1>2. CertInv /\ [CertNext]_certVars =>
        [trial # NoTrial /\ ~trial.late /\ trial' = NoTrial
           => CertificateConfirm(trial.gen) \/ CertificateCancel(trial.gen) \/ RestartTLS]_certVars
  BY <1>1
<1> QED
  BY <1>2, CertInductive, PTL DEF CertSpec, OpenTrialKept
=============================================================================
