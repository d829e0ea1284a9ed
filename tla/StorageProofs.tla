---------------------------- MODULE StorageProofs ----------------------------
(***************************************************************************)
(* Proofs about StorageSlots and ZFSCommit.                                *)
(*                                                                         *)
(* The slots: for any storages, paths, documents, rechecks in flight and   *)
(* mix of requests and faults.  A recheck that nothing overtook writes     *)
(* back the root the list already has; that is what keeps the list and     *)
(* the configuration together (CallsTrue, ListTrue).                       *)
(*                                                                         *)
(* The zfs store: for any number of backups and any names snapshots take.  *)
(* That a snapshot is whole rests on commands that answer what they did;   *)
(* PlaceTrue and ResetRestores need no such assumption.                    *)
(***************************************************************************)
EXTENDS StorageSlots, ZFSCommit, TLAPS, WellFoundedInduction

USE DEF cfgVars, diskVars, workVars, dataset, sidecars, commands, asked

-----------------------------------------------------------------------------
(* Documents, calls and steps                                              *)

Ops == {"none", "put", "add", "default", "section", "forget", "reload"}

\* The fields of a document, and the two contents that are none.
LEMMA DocFields ==
    /\ Default \in Docs /\ Bad \notin Docs /\ Absent \notin Docs /\ Bad # Absent
    /\ \A d \in Docs : /\ d.at \in [Names -> Paths \cup {"none"}] /\ d.def \in Names \cup {"none"}
                       /\ d.knob \in BOOLEAN
  BY DEF Docs, Default, Bad, Absent

\* A document with one storage added, moved, removed or made the default.
LEMMA DocEdits ==
    ASSUME NEW d \in Docs, NEW n \in Names
    PROVE  /\ \A p \in Paths \cup {"none"} : [d EXCEPT !.at[n] = p] \in Docs
           /\ \A p \in Paths : [d EXCEPT !.at[n] = p, !.def = IF Declared(d) = {} THEN n ELSE @] \in Docs
           /\ [d EXCEPT !.def = n] \in Docs
  BY DEF Docs

\* A document with its knob turned.
LEMMA DocKnob ==
    ASSUME NEW d \in Docs, NEW v \in BOOLEAN
    PROVE  [d EXCEPT !.knob = v] \in Docs
  BY DEF Docs

\* Identities are numbered, and zero is none.
LEMMA Ids0 == 0 \in Ids /\ Ids \subseteq Nat /\ \A i \in 1..MaxIds + 1 : i <= MaxIds => i \in Ids /\ i + 1 \in 1..MaxIds + 1 /\ i # 0
  BY SlotsAssumption DEF Ids

\* The blank records are records.
LEMMA Blank ==
    /\ NoSlot \in Slot /\ Rest \in Resolving /\ Free \in Writer
    /\ Rest.at = "idle" /\ Free.at = "free" /\ NoSlot.root = "none"
  BY Ids0, DocFields DEF Slot, Resolving, Writer, NoSlot, Rest, Free

Saving(op, d) == Save(op, d) /\ UNCHANGED forget /\ (op = "forget" => forget.at = "checked")
ForgetEnds == /\ Unlocked /\ forget' = NoForget
              /\ UNCHANGED <<cfgVars, w, knob, slots, diskVars, res, jobs, versions, raced>>

\* Every step that saves comes down to one Save.
LEMMA Steps ==
    ASSUME TypeOK, Next
    PROVE  \/ \E a \in Actors : ReadRow(a) \/ ProbePath(a) \/ Mint(a) \/ UpsertStorage(a)
           \/ \E op \in Ops, d \in Docs : Saving(op, d)
           \/ WriteFile \/ Adopt \/ ReloadLoad \/ ReloadRead
           \/ ApplierResolves \/ ApplierResolved \/ ApplyStorages \/ FinishWrite
           \/ \E n \in Names :
                 ForgetCheck(n) \/ BindJobStorage(n) \/ \E a \in Rechecks : Recheck(a, n)
           \/ \E i \in jobs : JobEnds(i)
           \/ \E d \in Docs \cup {Bad, Absent} : EditFile(d)
           \/ \E p \in Paths, how \in {"disk", "bare", "gone"} : Mount(p, how)
           \/ ForgetEnds
           \/ ForgetRow
           \/ \E a \in Rechecks : RecheckWrite(a)
<1>0. Edits \subseteq Docs /\ Puts \subseteq Docs /\ cfg \in Docs /\ cfg.knob \in BOOLEAN
  BY SlotsAssumption, DocFields DEF TypeOK
<1>1. ASSUME NEW d \in Puts, Replace(d) PROVE \E op \in Ops, e \in Docs : Saving(op, e)
  BY <1>0, <1>1 DEF Replace, Ops, Saving
<1>2. ASSUME NEW n \in Names, NEW p \in Paths, AddStorage(n, p)
      PROVE  \E op \in Ops, e \in Docs : Saving(op, e)
  BY <1>0, <1>2, DocEdits DEF AddStorage, Ops, Saving
<1>3. ASSUME NEW n \in Names, SetDefaultStorage(n) PROVE \E op \in Ops, e \in Docs : Saving(op, e)
  BY <1>0, <1>3, DocEdits DEF SetDefaultStorage, Ops, Saving
<1>4. ASSUME SetSection(~cfg.knob) PROVE \E op \in Ops, e \in Docs : Saving(op, e)
  <2>1. [cfg EXCEPT !.knob = ~cfg.knob] \in Docs
    BY <1>0, DocKnob
  <2> QED
    BY <1>4, <2>1 DEF SetSection, Ops, Saving
<1>5. ASSUME ForgetStorage
      PROVE \/ \E op \in Ops, e \in Docs : Saving(op, e)
            \/ ForgetEnds
  <2>1. CASE cfg.at[forget.name] # "none" /\ cfg.def # forget.name /\ ~JobsRunningOn(forget.name)
    <3>1. Save("forget", [cfg EXCEPT !.at[forget.name] = "none"]) /\ UNCHANGED forget
      BY <1>5, <2>1 DEF ForgetStorage
    <3>2. [cfg EXCEPT !.at[forget.name] = "none"] \in Docs
      <4>1. CASE forget.name \in Names
        BY <1>0, <4>1, DocEdits
      <4>2. CASE forget.name \notin Names
        BY <1>0, <4>2 DEF Docs
      <4> QED
        BY <4>1, <4>2
    <3> QED
      BY <1>5, <3>1, <3>2 DEF ForgetStorage, Ops, Saving
  <2> QED
    BY <1>5, <2>1 DEF ForgetStorage, ForgetEnds
<1> QED
  BY <1>0, <1>1, <1>2, <1>3, <1>4, <1>5 DEF Next, Resolve, Writing, Asking, Outside

-----------------------------------------------------------------------------
(* Who writes what                                                         *)

\* The only actions that write resolutions, slots and registry rows.
LEMMA CallWriters ==
    ASSUME TypeOK, Next \/ UNCHANGED vars
    PROVE  \/ UNCHANGED <<res, slots, rows, raced>>
           \/ \E a \in Actors : ReadRow(a) \/ ProbePath(a) \/ Mint(a) \/ UpsertStorage(a)
           \/ ApplierResolves \/ ApplierResolved \/ ApplyStorages \/ ForgetRow
           \/ \E n \in Names, a \in Rechecks : Recheck(a, n)
           \/ \E a \in Rechecks : RecheckWrite(a)
  BY Steps DEF vars, Saving, Save, ForgetEnds, WriteFile, Adopt, ReloadLoad, ReloadRead,
     FinishWrite, ForgetCheck, BindJobStorage,
               JobEnds, EditFile, Mount

\* The only actions that write the running document and the writer.
LEMMA DocWriters ==
    ASSUME TypeOK, Next \/ UNCHANGED vars
    PROVE  \/ UNCHANGED <<cfg, last, discarded, w, knob>>
           \/ \E op \in Ops, d \in Docs : Saving(op, d)
           \/ WriteFile \/ Adopt \/ ReloadLoad \/ ReloadRead
           \/ ApplierResolves \/ ApplierResolved \/ ApplyStorages \/ FinishWrite
  BY Steps DEF vars, ReadRow, ProbePath, Mint, UpsertStorage, ForgetCheck, BindJobStorage, Recheck,
     RecheckWrite,
               JobEnds, EditFile, Mount, ForgetRow, ForgetEnds

\* The only actions that write markers.
LEMMA DiskWriters ==
    ASSUME TypeOK, Next \/ UNCHANGED vars
    PROVE  \/ UNCHANGED diskVars
           \/ \E a \in Actors : Mint(a) \/ UpsertStorage(a)
           \/ ForgetRow
           \/ \E p \in Paths, how \in {"disk", "bare", "gone"} : Mount(p, how)
  BY Steps DEF vars, ReadRow, ProbePath, ForgetCheck, BindJobStorage, Recheck, RecheckWrite,
     JobEnds, EditFile,
               Saving, Save, ForgetEnds, WriteFile, Adopt, ReloadLoad, ReloadRead, ApplierResolves, ApplierResolved, ApplyStorages, FinishWrite

\* The only actions that write the file, the forget and the jobs.
LEMMA WorkWriters ==
    ASSUME TypeOK, Next \/ UNCHANGED vars
    PROVE  \/ UNCHANGED <<file, forget, jobs, versions>>
           \/ WriteFile \/ FinishWrite \/ ForgetRow
           \/ \E n \in Names : ForgetCheck(n) \/ BindJobStorage(n)
           \/ \E i \in jobs : JobEnds(i)
           \/ \E d \in Docs \cup {Bad, Absent} : EditFile(d)
           \/ ForgetEnds
  BY Steps DEF vars, ReadRow, ProbePath, Mint, UpsertStorage, Recheck, RecheckWrite, Mount,
               Saving, Save, Adopt, ReloadLoad, ReloadRead, ApplierResolves, ApplierResolved, ApplyStorages

-----------------------------------------------------------------------------
(* Types                                                                   *)

\* The applier and the rechecks resolve for themselves.
LEMMA Callers == "apply" \in Actors /\ Rechecks \subseteq Actors /\ "apply" \notin Rechecks
  BY SlotsAssumption DEF Actors

\* Writing one resolution leaves the others alone.
LEMMA SetFields ==
    ASSUME NEW a \in Actors, NEW r \in Resolving, res \in [Actors -> Resolving], Set(a, r)
    PROVE  /\ res' \in [Actors -> Resolving] /\ res'[a] = r
           /\ \A b \in Actors : b # a => res'[b] = res[b]
  BY DEF Set

\* A call under way keeps its name and its path, and what it read of the row.
Onward(a) ==
    /\ res[a].at # "idle" /\ res' \in [Actors -> Resolving] /\ \A b \in Actors : b # a => res'[b] = res[b]
    /\ res'[a].at # "idle" /\ res'[a].name = res[a].name /\ res'[a].path = res[a].path

\* A resolution that is refused is done.
LEMMA RefusedDoes ==
    ASSUME TypeOK, NEW a \in Actors, res[a].at # "idle", Refused(a)
    PROVE  Onward(a) /\ res'[a].at = "done" /\ ~res'[a].ok
<1> DEFINE q == [res[a] EXCEPT !.at = "done", !.ok = FALSE]
<1>1. q \in Resolving /\ q.at = "done" /\ ~q.ok /\ q.name = res[a].name /\ q.path = res[a].path
  BY DEF TypeOK, Resolving
<1> HIDE DEF q
<1> QED
  BY <1>1, SetFields DEF TypeOK, Refused, Onward, q

\* A resolution knows the identity that was on record when it looked.
LEMMA ReadRowDoes ==
    ASSUME SlotsInv, NEW a \in Actors, ReadRow(a)
    PROVE  Onward(a) /\ res'[a].at = "probe" /\ res'[a].known = rows[res[a].name]
<1> DEFINE q == [res[a] EXCEPT !.at = "probe", !.known = rows[res[a].name], !.id = rows[res[a].name]]
<1>1. rows[res[a].name] \in Ids /\ res[a] \in Resolving /\ res \in [Actors -> Resolving]
  BY DEF SlotsInv, TypeOK, CallsTrue, ReadRow
<1>2. q \in Resolving /\ q.at = "probe" /\ q.name = res[a].name /\ q.path = res[a].path /\ q.known = rows[res[a].name]
  BY <1>1 DEF Resolving
<1>3. Set(a, q) /\ res[a].at = "known"
  BY DEF ReadRow
<1> HIDE DEF q
<1> QED
  BY <1>1, <1>2, <1>3, SetFields DEF Onward

\* Only a path with no marker and no record goes on to be minted.
LEMMA ProbePathDoes ==
    ASSUME SlotsInv, NEW a \in Actors, ProbePath(a)
    PROVE  /\ Onward(a) /\ res'[a].at \in {"done", "upsert", "mint"}
           /\ res'[a].at = "mint" => res'[a].known = res[a].known /\ res'[a].known = 0
           /\ res'[a].at = "upsert" => res'[a].id # 0
           /\ res'[a].at = "done" => ~res'[a].ok
<1>1. /\ Marker(res[a].path) \in Ids /\ res[a] \in Resolving /\ res \in [Actors -> Resolving]
      /\ res[a].at = "probe"
  BY DEF SlotsInv, TypeOK, CallsTrue, ProbePath, Marker, Media
<1>2. ASSUME Refused(a) PROVE Onward(a) /\ res'[a].at = "done" /\ ~res'[a].ok
  BY <1>1, <1>2, RefusedDoes DEF SlotsInv
<1>3. ASSUME Set(a, [res[a] EXCEPT !.at = "upsert", !.id = Marker(res[a].path)]), Marker(res[a].path) # 0
      PROVE  Onward(a) /\ res'[a].at = "upsert" /\ res'[a].id # 0
  <2> DEFINE q == [res[a] EXCEPT !.at = "upsert", !.id = Marker(res[a].path)]
  <2>1. q \in Resolving /\ q.at = "upsert" /\ q.id = Marker(res[a].path) /\ q.name = res[a].name /\ q.path = res[a].path
    BY <1>1 DEF Resolving
  <2> HIDE DEF q
  <2> QED
    BY <1>1, <1>3, <2>1, SetFields DEF Onward, q
<1>4. ASSUME Set(a, [res[a] EXCEPT !.at = "mint"]), CreationMoment(res[a].known)
      PROVE  Onward(a) /\ res'[a].at = "mint" /\ res'[a].known = res[a].known /\ res'[a].known = 0
  <2> DEFINE q == [res[a] EXCEPT !.at = "mint"]
  <2>1. /\ q \in Resolving /\ q.at = "mint" /\ q.name = res[a].name /\ q.path = res[a].path
        /\ q.known = res[a].known
    BY <1>1 DEF Resolving
  <2> HIDE DEF q
  <2> QED
    BY <1>1, <1>4, <2>1, SetFields DEF Onward, q, CreationMoment
<1> QED
  BY <1>1, <1>2, <1>3, <1>4 DEF ProbePath

\* Minting writes the marker and goes on to the record.
LEMMA MintDoes ==
    ASSUME SlotsInv, NEW a \in Actors, Mint(a)
    PROVE  /\ Onward(a) /\ res'[a].at \in {"done", "upsert"}
           /\ res'[a].at = "upsert" => res'[a].id # 0
           /\ res'[a].at = "done" => ~res'[a].ok
<1>1. res[a] \in Resolving /\ res \in [Actors -> Resolving] /\ res[a].at = "mint" /\ nextId \in 1..MaxIds + 1
  BY DEF SlotsInv, TypeOK, Mint
<1>2. CASE Refused(a)
  BY <1>1, <1>2, RefusedDoes DEF SlotsInv
<1>3. CASE Set(a, [res[a] EXCEPT !.at = "upsert", !.id = nextId]) /\ nextId <= MaxIds
  <2> DEFINE q == [res[a] EXCEPT !.at = "upsert", !.id = nextId]
  <2>1. q \in Resolving /\ q.at = "upsert" /\ q.id = nextId /\ nextId # 0 /\ q.name = res[a].name /\ q.path = res[a].path
    BY <1>1, <1>3, Ids0 DEF Resolving
  <2> HIDE DEF q
  <2> QED
    BY <1>1, <1>3, <2>1, SetFields DEF Onward, q
<1> QED
  BY <1>2, <1>3 DEF Mint

\* Recording the identity ends the resolution.
LEMMA UpsertDoes ==
    ASSUME SlotsInv, NEW a \in Actors, UpsertStorage(a)
    PROVE  /\ Onward(a) /\ res'[a].at = "done"
           /\ res'[a].ok => rows' = [rows EXCEPT ![res[a].name] = Recorded(@, res[a].id)]
           /\ rows' = rows \/ rows' = [rows EXCEPT ![res[a].name] = Recorded(@, res[a].id)]
<1>1. res[a] \in Resolving /\ res \in [Actors -> Resolving] /\ res[a].at = "upsert"
  BY DEF SlotsInv, TypeOK, UpsertStorage
<1>2. CASE Refused(a) /\ UNCHANGED rows
  BY <1>1, <1>2, RefusedDoes DEF SlotsInv
<1>3. CASE Set(a, [res[a] EXCEPT !.at = "done", !.ok = TRUE]) /\ rows' = [rows EXCEPT ![res[a].name] = Recorded(@, res[a].id)]
  <2> DEFINE q == [res[a] EXCEPT !.at = "done", !.ok = TRUE]
  <2>1. q \in Resolving /\ q.at = "done" /\ q.name = res[a].name /\ q.path = res[a].path
    BY <1>1 DEF Resolving
  <2> HIDE DEF q
  <2> QED
    BY <1>1, <1>3, <2>1, SetFields DEF Onward, q
<1> QED
  BY <1>2, <1>3 DEF UpsertStorage, UpsertFails

\* The two ways a call starts, and the two ways its result is taken.
LEMMA StartDoes ==
    ASSUME TypeOK, NEW a \in Actors, NEW n \in Names, NEW p \in Paths, Start(a, n, p)
    PROVE  /\ res' \in [Actors -> Resolving] /\ \A b \in Actors : b # a => res'[b] = res[b]
           /\ res'[a].at = "known" /\ res'[a].name = n /\ res'[a].path = p
<1> DEFINE q == [Rest EXCEPT !.at = "known", !.name = n, !.path = p]
<1>1. q \in Resolving /\ q.at = "known" /\ q.name = n /\ q.path = p
  BY Ids0 DEF Rest, Resolving
<1> HIDE DEF q
<1> QED
  BY <1>1, SetFields DEF Start, q, TypeOK

\* A resolution that is taken leaves its actor idle.
LEMMA TakeDoes ==
    ASSUME TypeOK, NEW a \in Actors, Set(a, Rest)
    PROVE  /\ res' \in [Actors -> Resolving] /\ \A b \in Actors : b # a => res'[b] = res[b]
           /\ res'[a].at = "idle"
  BY SetFields, Blank DEF TypeOK

\* A slot is made at the path that was resolved.
LEMMA SlotShape ==
    ASSUME NEW r \in Resolving
    PROVE  SlotOf(r) \in Slot /\ SlotOf(r).root = r.path /\ SlotOf(r).ok = r.ok
  BY DEF Resolving, Slot, SlotOf

\* The applier resolves a declared name at its declared path.
LEMMA ApplierStarts ==
    ASSUME SlotsInv, ApplierResolves
    PROVE  \E n \in w.todo : /\ n \in Names /\ w.next.at[n] \in Paths
                             /\ Start("apply", n, w.next.at[n]) /\ w' = [w EXCEPT !.todo = @ \ {n}]
<1>1. PICK n \in w.todo : Start("apply", n, w.next.at[n]) /\ w' = [w EXCEPT !.todo = @ \ {n}]
  BY DEF ApplierResolves
<1>2. n \in Declared(w.next) /\ w.next \in Docs
  BY DEF SlotsInv, BuiltTrue, ApplierResolves, TypeOK, Writer
<1> QED
  BY <1>1, <1>2, DocFields DEF Declared

\* A recheck resolves its name where the running document has it.
LEMMA RecheckStarts ==
    ASSUME SlotsInv, NEW n \in Names, NEW a \in Rechecks, Recheck(a, n)
    PROVE  cfg.at[n] \in Paths /\ Start(a, n, cfg.at[n])
  BY DocFields DEF SlotsInv, TypeOK, Recheck

\* Resolutions keep their types.
LEMMA CallType ==
    ASSUME SlotsInv, Next \/ UNCHANGED vars
    PROVE  res' \in [Actors -> Resolving]
<1>0. TypeOK
  BY DEF SlotsInv
<1>1. ASSUME NEW a \in Actors, ReadRow(a) \/ ProbePath(a) \/ Mint(a) \/ UpsertStorage(a)
      PROVE  res' \in [Actors -> Resolving]
  BY <1>1, ReadRowDoes, ProbePathDoes, MintDoes, UpsertDoes DEF Onward
<1>2. ASSUME ApplierResolves PROVE res' \in [Actors -> Resolving]
  BY <1>0, <1>2, ApplierStarts, StartDoes, Callers
<1>3. ASSUME NEW n \in Names, NEW a \in Rechecks, Recheck(a, n) PROVE res' \in [Actors -> Resolving]
  BY <1>0, <1>3, RecheckStarts, StartDoes, Callers
<1>4. ASSUME ApplierResolved \/ \E a \in Rechecks : RecheckWrite(a)
      PROVE  res' \in [Actors -> Resolving]
  BY <1>0, <1>4, TakeDoes, Callers DEF ApplierResolved, RecheckWrite
<1> QED
  BY <1>0, <1>1, <1>2, <1>3, <1>4, CallWriters DEF ApplyStorages, ForgetRow, TypeOK

\* Slots keep their types, and a race stays recorded.
LEMMA SlotType ==
    ASSUME SlotsInv, Next \/ UNCHANGED vars
    PROVE  slots' \in [Names -> Slot] /\ raced' \subseteq Names /\ raced \subseteq raced'
<1> USE DEF TypeOK, SlotsInv
<1>1. Rechecking \subseteq Names
  BY Callers DEF Rechecking, CallsTrue
<1>2. ASSUME ApplyStorages PROVE slots' \in [Names -> Slot]
  BY <1>2 DEF ApplyStorages, Writer
<1>3. ASSUME NEW a \in Rechecks, RecheckWrite(a) PROVE slots' \in [Names -> Slot]
  <2>1. SlotOf(res[a]) \in Slot
    BY Callers, SlotShape
  <2> QED
    BY <1>3, <2>1 DEF RecheckWrite
<1>4. ASSUME ForgetRow PROVE forget.name \in Names
  BY <1>4 DEF ForgetRow, ForgetTrue
<1> QED
  BY <1>1, <1>2, <1>3, <1>4, CallWriters
    DEF ReadRow, ProbePath, Mint, UpsertStorage, ApplierResolves, ApplierResolved, ApplyStorages, ForgetRow, Recheck,
        RecheckWrite, Mark

\* Registry rows and markers keep their types.
LEMMA DiskType ==
    ASSUME SlotsInv, Next \/ UNCHANGED vars
    PROVE  /\ rows' \in [Names -> Ids] /\ media' \in [Paths -> Media] /\ nextId' \in 1..MaxIds + 1
           /\ dropped' \subseteq Names /\ dropped \subseteq dropped'
<1> USE DEF TypeOK, SlotsInv
<1>1. ASSUME NEW a \in Actors, Mint(a)
      PROVE  media' \in [Paths -> Media] /\ nextId' \in 1..MaxIds + 1
  BY <1>1, Ids0 DEF Mint, Media
<1>2. ASSUME NEW a \in Actors, UpsertStorage(a) PROVE rows' \in [Names -> Ids]
  BY <1>2 DEF UpsertStorage, Recorded, Resolving
<1>3. ASSUME NEW p \in Paths, NEW how \in {"disk", "bare", "gone"}, Mount(p, how)
      PROVE  media' \in [Paths -> Media]
  BY <1>3 DEF Mount, Media
<1>4. ASSUME ForgetRow
      PROVE  rows' \in [Names -> Ids] /\ dropped' \subseteq Names /\ dropped \subseteq dropped'
  BY <1>4, Ids0 DEF ForgetRow, ForgetTrue
<1> QED
  BY <1>1, <1>2, <1>3, <1>4, DiskWriters, Ids0 DEF Mint, UpsertStorage, ForgetRow, Mount

\* The file, the forget and the jobs keep their types.
LEMMA WorkType ==
    ASSUME SlotsInv, Next \/ UNCHANGED vars
    PROVE  /\ file' \in Docs \cup {Bad, Absent}
           /\ forget' \in [at : {"idle", "checked", "row"}, name : Names \cup {"none"}]
           /\ jobs' \subseteq Ids /\ versions' \subseteq Ids /\ mix' \in Mixes
<1> USE DEF TypeOK, SlotsInv
<1>1. ASSUME NEW n \in Names, BindJobStorage(n) PROVE jobs' \subseteq Ids
  BY <1>1 DEF BindJobStorage, Slot
<1>2. mix' = mix
  BY DEF Next, vars
<1>3. ASSUME WriteFile PROVE file' \in Docs \cup {Bad, Absent}
  BY <1>3 DEF WriteFile, Writer
<1> QED
  BY <1>1, <1>2, <1>3, WorkWriters
    DEF WriteFile, FinishWrite, ForgetRow, ForgetCheck, BindJobStorage, JobEnds, EditFile, NoForget, ForgetEnds

-----------------------------------------------------------------------------
(* The holder of writeMu                                                   *)

\* The writer with nothing to do.
LEMMA FreeFields ==
    /\ Free \in Writer /\ Free.at = "free" /\ Free.op = "none" /\ Free.todo = {}
    /\ \A n \in Names : Free.built[n].root = "none" /\ ~Free.built[n].ok
  BY DocFields, Blank DEF Free, Writer, NoSlot

\* A save takes the writer's lock with the document to be written.
LEMMA SaveDoes ==
    ASSUME NEW op \in Ops, NEW d \in Docs, TypeOK, Save(op, d)
    PROVE  w' \in Writer /\ w'.at = "write" /\ w'.op = op /\ w'.old = cfg /\ w'.next = d /\ w.at = "free"
  BY FreeFields DEF TypeOK, Save, Unlocked, Writer, Free, Ops

\* A reload takes the writer's lock to read the file.
LEMMA ReloadReadDoes ==
    ASSUME TypeOK, ReloadRead
    PROVE  w' \in Writer /\ w'.at = "load" /\ w'.op = "reload" /\ w.at = "free"
<1>1. (IF file = Bad THEN cfg ELSE file) \in Docs
  BY DEF TypeOK, ReloadRead
<1> QED
  BY <1>1, FreeFields DEF TypeOK, ReloadRead, Unlocked, Writer, Free

\* Applying begins at the first applier the change concerns.
LEMMA ApplyDoes ==
    ASSUME NEW old \in Docs, NEW next \in Docs, TypeOK, Apply(old, next)
    PROVE  /\ w' \in Writer /\ w'.at = FirstApplier(old, next) /\ w'.op = w.op /\ w'.next = next
           /\ w'.todo = Declared(next) /\ w'.at \in {"slots", "knob"}
           /\ \A n \in Names : w'.built[n].root = "none" /\ ~w'.built[n].ok
<1>1. FirstApplier(old, next) \in {"slots", "knob"} /\ Declared(next) \subseteq Names /\ w.op \in Ops
  BY DEF FirstApplier, Declared, TypeOK, Writer, Ops
<1> QED
  BY <1>1, FreeFields DEF Apply, Writer, Ops, Free

\* The rest of what the holder does changes where it is, its list and its to-do.
LEMMA HolderMoves ==
    ASSUME TypeOK, w' # w, WriteFile \/ ApplyStorages \/ FinishWrite \/ ApplierResolves \/ ApplierResolved
    PROVE  /\ w' = Free \/ (w'.op = w.op /\ w'.old = w.old /\ w'.next = w.next)
           /\ w' = Free => WriteFile \/ FinishWrite
           /\ w' \in Writer
<1>1. CASE WriteFile
  BY <1>1, FreeFields DEF TypeOK, WriteFile, Release, Writer
<1>2. CASE ApplyStorages
  BY <1>2, FreeFields DEF TypeOK, ApplyStorages, Writer
<1>3. CASE FinishWrite
  BY <1>3, FreeFields DEF FinishWrite, Release
<1>4. CASE ApplierResolves
  BY <1>4, FreeFields DEF TypeOK, ApplierResolves, Writer
<1>5. CASE ApplierResolved
  <2>1. SlotOf(res["apply"]) \in Slot
    BY SlotShape, Callers DEF TypeOK
  <2> QED
    BY <1>5, <2>1, FreeFields DEF TypeOK, ApplierResolved, Writer
<1> QED
  BY <1>1, <1>2, <1>3, <1>4, <1>5

\* A reload discards what is invalid, or goes on to apply it.
LEMMA LoadDoes ==
    ASSUME TypeOK, ReloadLoad
    PROVE  \/ w' = Free /\ discarded' = TRUE /\ cfg' = cfg /\ last' = Bad
           \/ /\ cfg' \in Docs /\ Apply(cfg, cfg') /\ last' \in Docs \cup {Absent}
              /\ last' \in Docs => last' = cfg'
  BY DocFields DEF TypeOK, ReloadLoad, Refuses, Remembered, Release

\* The writer and the running document keep their types.
LEMMA HolderType ==
    ASSUME TypeOK, Next \/ UNCHANGED vars
    PROVE  /\ w' \in Writer /\ cfg' \in Docs /\ last' \in Docs \cup {Bad, Absent}
           /\ discarded' \in BOOLEAN /\ knob' \in BOOLEAN
<1>1. ASSUME NEW op \in Ops, NEW d \in Docs, Saving(op, d) PROVE w' \in Writer
  BY <1>1, SaveDoes DEF Saving
<1>2. ASSUME ReloadRead PROVE w' \in Writer
  BY <1>2, ReloadReadDoes
<1>3. ASSUME WriteFile \/ ApplyStorages \/ FinishWrite \/ ApplierResolves \/ ApplierResolved
      PROVE  w' \in Writer
  BY <1>3, HolderMoves DEF TypeOK
<1>4. ASSUME Adopt PROVE w' \in Writer /\ cfg' \in Docs /\ last' \in Docs
  BY <1>4, ApplyDoes DEF Adopt, TypeOK, Writer
<1>5. ASSUME ReloadLoad PROVE w' \in Writer /\ cfg' \in Docs /\ last' \in Docs \cup {Bad, Absent}
  BY <1>5, LoadDoes, ApplyDoes, FreeFields DEF TypeOK
<1>6. ASSUME FinishWrite PROVE knob' \in BOOLEAN
  BY <1>6, DocFields DEF FinishWrite, ApplyKnob, TypeOK, Writer
<1>7. w' \in Writer /\ cfg' \in Docs /\ last' \in Docs \cup {Bad, Absent}
  BY <1>1, <1>2, <1>3, <1>4, <1>5, DocWriters
    DEF TypeOK, Saving, Save, WriteFile, ReloadRead, ApplierResolves, ApplierResolved, ApplyStorages, FinishWrite
<1>8. discarded' \in BOOLEAN /\ knob' \in BOOLEAN
  BY <1>6, DocWriters
    DEF TypeOK, Saving, Save, WriteFile, Adopt, ReloadLoad, ReloadRead, ApplierResolves, ApplierResolved, ApplyStorages,
        FinishWrite, Undiscard
<1> QED
  BY <1>7, <1>8

\* Every step keeps the types.
LEMMA TypeStep ==
    ASSUME SlotsInv, Next \/ UNCHANGED vars
    PROVE  TypeOK'
  BY CallType, SlotType, DiskType, WorkType, HolderType DEF TypeOK, SlotsInv

\* Every step keeps the running document in line with what was read.
LEMMA ConfigStep ==
    ASSUME TypeOK, ConfigTrue, Next \/ UNCHANGED vars
    PROVE  ConfigTrue'
<1> USE DEF ConfigTrue
<1>1. ASSUME NEW op \in Ops, NEW d \in Docs, Saving(op, d) PROVE ConfigTrue'
  BY <1>1, SaveDoes DEF Saving, Save
<1>2. ASSUME ReloadRead PROVE ConfigTrue'
  BY <1>2, ReloadReadDoes DEF ReloadRead
<1>3. ASSUME WriteFile PROVE ConfigTrue'
  BY <1>3, FreeFields DEF WriteFile, Release, TypeOK, Writer
<1>4. ASSUME Adopt PROVE ConfigTrue'
  BY <1>4, ApplyDoes DEF Adopt, TypeOK, Writer
<1>5. ASSUME ReloadLoad PROVE ConfigTrue'
  <2>1. w.at = "load" /\ UNCHANGED knob /\ Bad \notin Docs
    BY <1>5, DocFields DEF ReloadLoad
  <2> QED
    BY <1>5, <2>1, LoadDoes, ApplyDoes, FreeFields DEF TypeOK
<1>6. ASSUME ApplyStorages \/ ApplierResolves \/ ApplierResolved PROVE ConfigTrue'
  BY <1>6 DEF ApplyStorages, ApplierResolves, ApplierResolved, TypeOK, Writer
<1>7. ASSUME FinishWrite PROVE ConfigTrue'
  BY <1>7, FreeFields DEF FinishWrite, ApplyKnob, Release
<1> QED
  BY <1>1, <1>2, <1>3, <1>4, <1>5, <1>6, <1>7, DocWriters

\* Every step keeps a forget with the write that carries it.
LEMMA ForgetStep ==
    ASSUME TypeOK, ForgetTrue, ConfigTrue, Next \/ UNCHANGED vars
    PROVE  ForgetTrue'
<1> USE DEF ForgetTrue
<1>1. ASSUME NEW op \in Ops, NEW d \in Docs, Saving(op, d) PROVE ForgetTrue'
  BY <1>1, SaveDoes DEF Saving
<1>2. ASSUME ReloadRead PROVE ForgetTrue'
  BY <1>2, ReloadReadDoes DEF ReloadRead
<1>3. ASSUME WriteFile \/ FinishWrite PROVE ForgetTrue'
  BY <1>3, FreeFields DEF WriteFile, FinishWrite, Release, TypeOK, Writer, NoForget
<1>4. ASSUME Adopt PROVE ForgetTrue'
  BY <1>4, ApplyDoes DEF Adopt, TypeOK, Writer
<1>5. ASSUME ReloadLoad PROVE ForgetTrue'
  <2>1. UNCHANGED forget
    BY <1>5 DEF ReloadLoad
  <2> QED
    BY <1>5, <2>1, LoadDoes, ApplyDoes, FreeFields DEF TypeOK
<1>6. ASSUME ApplyStorages \/ ApplierResolves \/ ApplierResolved PROVE ForgetTrue'
  BY <1>6 DEF ApplyStorages, ApplierResolves, ApplierResolved, TypeOK, Writer
<1>7. ASSUME ForgetRow \/ (\E n \in Names : ForgetCheck(n)) \/ ForgetEnds PROVE ForgetTrue'
  BY <1>7 DEF ForgetRow, ForgetCheck, ForgetEnds, NoForget, Unlocked, TypeOK
<1> QED
  BY <1>1, <1>2, <1>3, <1>4, <1>5, <1>6, <1>7, DocWriters, WorkWriters
    DEF BindJobStorage, JobEnds, EditFile

-----------------------------------------------------------------------------
(* The list                                                                *)

\* Every step keeps the list being built at the paths of its document.
LEMMA BuiltStep ==
    ASSUME SlotsInv, Next \/ UNCHANGED vars
    PROVE  BuiltTrue'
<1>0. TypeOK /\ BuiltTrue /\ CallsTrue /\ ConfigTrue /\ "apply" \in Actors /\ "apply" \notin Rechecks
  BY Callers DEF SlotsInv
<1>1. ASSUME NEW op \in Ops, NEW d \in Docs, Saving(op, d) PROVE BuiltTrue'
  BY <1>0, <1>1, SaveDoes DEF Saving, Save, BuiltTrue
<1>2. ASSUME ReloadRead PROVE BuiltTrue'
  BY <1>0, <1>2, ReloadReadDoes DEF ReloadRead, BuiltTrue
<1>3. ASSUME WriteFile \/ FinishWrite PROVE BuiltTrue'
  BY <1>0, <1>3, FreeFields DEF WriteFile, FinishWrite, Release, TypeOK, Writer, BuiltTrue
<1>4. ASSUME NEW old \in Docs, NEW next \in Docs, Apply(old, next), UNCHANGED res, w.at # "slots"
      PROVE  BuiltTrue'
  <2>1. /\ w'.todo = Declared(w'.next) /\ w'.next \in Docs /\ w'.at \in {"slots", "knob"}
        /\ \A n \in Names : w'.built[n].root = "none"
    BY <1>0, <1>4, ApplyDoes
  <2>2. \A n \in Names : w'.next.at[n] = "none" \/ n \in w'.todo
    BY <2>1 DEF Declared
  <2> QED
    BY <1>0, <1>4, <2>1, <2>2 DEF BuiltTrue
<1>5. ASSUME Adopt \/ ReloadLoad PROVE BuiltTrue'
  <2>1. UNCHANGED res /\ w.at # "slots"
    BY <1>5 DEF Adopt, ReloadLoad
  <2>2. CASE Adopt
    BY <1>0, <1>4, <2>1, <2>2 DEF Adopt, TypeOK, Writer
  <2>3. CASE ReloadLoad
    BY <1>0, <1>4, <2>1, <2>3, LoadDoes, FreeFields DEF TypeOK, BuiltTrue
  <2> QED
    BY <1>5, <2>2, <2>3
<1>6. ASSUME ApplyStorages PROVE BuiltTrue'
  BY <1>0, <1>6 DEF ApplyStorages, BuiltTrue, TypeOK, Writer
<1>7. ASSUME ApplierResolves PROVE BuiltTrue'
  <2>1. PICK n \in w.todo : /\ n \in Names /\ w.next.at[n] \in Paths
                            /\ Start("apply", n, w.next.at[n]) /\ w' = [w EXCEPT !.todo = @ \ {n}]
    BY <1>7, ApplierStarts
  <2>2. res'["apply"].at = "known" /\ res'["apply"].name = n /\ res'["apply"].path = w.next.at[n]
    BY <1>0, <2>1, StartDoes
  <2>3. /\ w'.at = w.at /\ w'.todo = w.todo \ {n} /\ w'.next = w.next /\ w'.built = w.built
    BY <1>0, <2>1 DEF TypeOK, Writer
  <2> QED
    BY <1>0, <1>7, <2>1, <2>2, <2>3 DEF BuiltTrue, ApplierResolves
<1>8. ASSUME ApplierResolved PROVE BuiltTrue'
  <2> DEFINE m == res["apply"].name
  <2>1. /\ m \in Names /\ res["apply"] \in Resolving /\ SlotOf(res["apply"]).root = w.next.at[m]
        /\ w.at = "slots" /\ res["apply"].at # "idle"
    BY <1>0, <1>8, SlotShape DEF TypeOK, ApplierResolved, CallsTrue, BuiltTrue
  <2>2. res'["apply"].at = "idle"
    BY <1>0, <1>8, TakeDoes DEF ApplierResolved
  <2>3. /\ w'.at = w.at /\ w'.todo = w.todo /\ w'.next = w.next
        /\ w'.built[m].root = w.next.at[m]
        /\ \A n \in Names : n # m => w'.built[n] = w.built[n]
    BY <1>0, <1>8, <2>1 DEF TypeOK, Writer, ApplierResolved
  <2> QED
    BY <1>0, <2>1, <2>2, <2>3 DEF BuiltTrue
<1>9. ASSUME UNCHANGED w, ~(ApplierResolves \/ ApplierResolved \/ ApplyStorages) PROVE BuiltTrue'
  <2>1. \/ res'["apply"] = res["apply"]
        \/ Onward("apply")
    <3>1. ASSUME NEW a \in Actors, ReadRow(a) \/ ProbePath(a) \/ Mint(a) \/ UpsertStorage(a)
          PROVE res'["apply"] = res["apply"] \/ Onward("apply")
      <4>1. Onward(a)
        BY <3>1, ReadRowDoes, ProbePathDoes, MintDoes, UpsertDoes
      <4> QED
        BY <1>0, <4>1 DEF Onward
    <3>2. ASSUME NEW n \in Names, NEW a \in Rechecks, Recheck(a, n)
          PROVE  res'["apply"] = res["apply"]
      BY <1>0, <3>2, RecheckStarts, StartDoes, Callers
    <3>3. ASSUME NEW a \in Rechecks, RecheckWrite(a) PROVE res'["apply"] = res["apply"]
      BY <1>0, <3>3, TakeDoes, Callers DEF RecheckWrite
    <3> QED
      BY <1>0, <1>9, <3>1, <3>2, <3>3, CallWriters DEF ForgetRow
  <2> QED
    BY <1>0, <1>9, <2>1 DEF BuiltTrue, Onward
<1> QED
  BY <1>0, <1>1, <1>2, <1>3, <1>5, <1>6, <1>7, <1>8, <1>9, DocWriters

\* A recheck's result, unless its name raced, is the root the list has.
LEMMA RecheckWriteDoes ==
    ASSUME SlotsInv, NEW a \in Rechecks, RecheckWrite(a)
    PROVE  /\ \A n \in Names \ raced : slots'[n].root = slots[n].root
           /\ \A n \in Names : slots[n].root # "none" => slots'[n].root # "none"
<1>1. /\ a \in Actors /\ res[a].at = "done" /\ res[a].name \in Names /\ res[a].path \in Paths
      /\ SlotOf(res[a]).root = res[a].path /\ slots \in [Names -> Slot] /\ "none" \notin Paths
      /\ res[a].name \notin raced => res[a].path = slots[res[a].name].root
  BY Callers, SlotShape, SlotsAssumption DEF SlotsInv, TypeOK, CallsTrue, RecheckWrite
<1>2. slots' = slots \/ slots' = [slots EXCEPT ![res[a].name] = SlotOf(res[a])]
  BY DEF RecheckWrite
<1> QED
  BY <1>1, <1>2

\* Every step keeps the resolutions in flight true or recorded as raced.
LEMMA CallsStep ==
    ASSUME SlotsInv, Next \/ UNCHANGED vars
    PROVE  CallsTrue'
<1>0. /\ TypeOK /\ CallsTrue /\ ListTrue /\ "apply" \in Actors /\ Rechecks \subseteq Actors /\ "apply" \notin Rechecks
      /\ raced \subseteq raced' /\ Actors = {"apply"} \cup Rechecks
  BY Callers, SlotType DEF SlotsInv, Actors
<1>1. ASSUME NEW a \in Actors, ReadRow(a) PROVE CallsTrue'
  <2>1. Onward(a) /\ res'[a].at = "probe" /\ res'[a].known = rows[res[a].name] /\ UNCHANGED <<rows, slots>>
    BY <1>1, ReadRowDoes DEF ReadRow
  <2> QED
    BY <1>0, <2>1 DEF CallsTrue, Onward
<1>2. ASSUME NEW a \in Actors, ProbePath(a) PROVE CallsTrue'
  <2>1. /\ Onward(a) /\ res'[a].at \in {"done", "upsert", "mint"} /\ UNCHANGED <<rows, slots>> /\ res[a].at = "probe"
        /\ res'[a].at = "mint" => res'[a].known = res[a].known /\ res'[a].known = 0
    BY <1>2, ProbePathDoes DEF ProbePath
  <2> QED
    BY <1>0, <2>1 DEF CallsTrue, Onward
<1>3. ASSUME NEW a \in Actors, Mint(a) PROVE CallsTrue'
  <2>1. Onward(a) /\ res'[a].at \in {"done", "upsert"} /\ UNCHANGED <<rows, slots>>
    BY <1>3, MintDoes DEF Mint
  <2> QED
    BY <1>0, <2>1 DEF CallsTrue, Onward
<1>4. ASSUME NEW a \in Actors, UpsertStorage(a) PROVE CallsTrue'
  <2>1. Onward(a) /\ res'[a].at = "done" /\ UNCHANGED slots /\ Mark
    BY <1>4, UpsertDoes DEF UpsertStorage
  <2>2. \A n \in Names : n # res[a].name => rows'[n] = rows[n]
    BY <1>0, <1>4 DEF UpsertStorage, TypeOK
  <2>3. ASSUME NEW b \in Actors, b # a, res[b].at # "idle", res[b].name = res[a].name
        PROVE  res[b].name \in raced'
    BY <1>0, <2>1, <2>3 DEF Mark, Overlap, Onward, CallsTrue
  <2> QED
    BY <1>0, <2>1, <2>2, <2>3 DEF CallsTrue, Onward
<1>5. ASSUME ApplierResolves PROVE CallsTrue'
  <2>1. PICK n \in w.todo : n \in Names /\ w.next.at[n] \in Paths /\ Start("apply", n, w.next.at[n])
    BY <1>5, ApplierStarts
  <2>2. /\ \A b \in Actors : b # "apply" => res'[b] = res[b]
        /\ res'["apply"].at = "known" /\ res'["apply"].name = n /\ res'["apply"].path = w.next.at[n]
        /\ UNCHANGED <<rows, slots>>
    BY <1>0, <1>5, <2>1, StartDoes DEF ApplierResolves
  <2> QED
    BY <1>0, <2>1, <2>2 DEF CallsTrue
<1>6. ASSUME ApplierResolved PROVE CallsTrue'
  <2>1. /\ \A b \in Actors : b # "apply" => res'[b] = res[b]
        /\ res'["apply"].at = "idle" /\ UNCHANGED <<rows, slots>>
    BY <1>0, <1>6, TakeDoes DEF ApplierResolved
  <2> QED
    BY <1>0, <2>1 DEF CallsTrue
<1>7. ASSUME ApplyStorages PROVE CallsTrue'
  BY <1>0, <1>7 DEF CallsTrue, ApplyStorages, Rechecking
<1>8. ASSUME ForgetRow PROVE CallsTrue'
  <2>1. \A n \in Names : n # forget.name => rows'[n] = rows[n]
    BY <1>0, <1>8 DEF ForgetRow, TypeOK
  <2>2. ASSUME NEW b \in Actors, res[b].at # "idle", res[b].name = forget.name
        PROVE  res[b].name \in raced' \/ rows'[res[b].name] = rows[res[b].name]
    BY <1>0, <1>8, <2>2 DEF ForgetRow, Rechecking, InUse
  <2>3. UNCHANGED <<res, slots>>
    BY <1>8 DEF ForgetRow
  <2> QED
    BY <1>0, <2>1, <2>2, <2>3, SlotType DEF CallsTrue
<1>9. ASSUME NEW n \in Names, NEW a \in Rechecks, Recheck(a, n) PROVE CallsTrue'
  <2>1. /\ \A b \in Actors : b # a => res'[b] = res[b] /\ cfg.at[n] \in Paths
        /\ res'[a].at = "known" /\ res'[a].name = n /\ res'[a].path = cfg.at[n]
        /\ UNCHANGED <<rows, slots>>
    BY <1>0, <1>9, RecheckStarts, StartDoes DEF Recheck
  <2>2. n \notin raced' => slots[n].root = cfg.at[n]
    BY <1>0, <1>9 DEF Recheck, ListTrue, Declared
  <2>3. cfg.at[n] \in Paths
    BY <1>9, RecheckStarts
  <2> QED
    BY <1>0, <2>1, <2>2, <2>3 DEF CallsTrue
<1>10. ASSUME NEW a \in Rechecks, RecheckWrite(a) PROVE CallsTrue'
  <2>1. \A n \in Names \ raced : slots'[n].root = slots[n].root
    BY <1>10, RecheckWriteDoes
  <2>2. /\ \A b \in Actors : b # a => res'[b] = res[b]
        /\ res'[a].at = "idle" /\ UNCHANGED rows
    BY <1>0, <1>10, TakeDoes DEF RecheckWrite
  <2> QED
    BY <1>0, <2>1, <2>2 DEF CallsTrue
<1> QED
  BY <1>0, <1>1, <1>2, <1>3, <1>4, <1>5, <1>6, <1>7, <1>8, <1>9, <1>10, CallWriters DEF CallsTrue

\* Every step keeps the served list in line with the document.
LEMMA ListStep ==
    ASSUME SlotsInv, Next \/ UNCHANGED vars
    PROVE  ListTrue'
<1>0. TypeOK /\ ListTrue /\ BuiltTrue /\ ConfigTrue /\ raced \subseteq raced'
  BY SlotType DEF SlotsInv
<1>1. ASSUME NEW op \in Ops, NEW d \in Docs, Saving(op, d) PROVE ListTrue'
  BY <1>0, <1>1, SaveDoes DEF Saving, Save, ListTrue, Declared
<1>2. ASSUME ReloadRead PROVE ListTrue'
  BY <1>0, <1>2, ReloadReadDoes DEF ReloadRead, ListTrue, Declared
<1>3. ASSUME WriteFile \/ FinishWrite PROVE ListTrue'
  BY <1>0, <1>3 DEF WriteFile, FinishWrite, TypeOK, Writer, ListTrue, Declared
<1>4. ASSUME NEW next \in Docs, Apply(cfg, next), cfg' = next, UNCHANGED slots, w.at # "slots"
      PROVE  ListTrue'
  <2>1. CASE cfg.at # next.at
    BY <1>0, <1>4, <2>1, ApplyDoes DEF FirstApplier, ListTrue, TypeOK
  <2>2. CASE cfg.at = next.at
    BY <1>0, <1>4, <2>2 DEF ListTrue, Declared
  <2> QED
    BY <2>1, <2>2
<1>5. ASSUME Adopt PROVE ListTrue'
  BY <1>0, <1>4, <1>5 DEF Adopt, ConfigTrue, TypeOK, Writer
<1>6. ASSUME ReloadLoad PROVE ListTrue'
  <2>1. UNCHANGED slots /\ w.at # "slots"
    BY <1>6 DEF ReloadLoad
  <2> QED
    BY <1>0, <1>4, <1>6, <2>1, LoadDoes, FreeFields DEF ListTrue, Declared
<1>7. ASSUME ApplierResolves \/ ApplierResolved PROVE ListTrue'
  <2>1. w'.at = "slots"
    BY <1>0, <1>7 DEF ApplierResolves, ApplierResolved, TypeOK, Writer
  <2> QED
    BY <2>1 DEF ListTrue
<1>8. ASSUME ApplyStorages PROVE ListTrue'
  BY <1>0, <1>8 DEF ApplyStorages, ListTrue, BuiltTrue, ConfigTrue, KeepsServing, Declared
<1>9. ASSUME UNCHANGED <<cfg, w>>, ~ApplyStorages PROVE ListTrue'
  <2>1. \A n \in Names \ raced : slots'[n].root = slots[n].root
    BY <1>0, <1>9, CallWriters, RecheckWriteDoes
      DEF ReadRow, ProbePath, Mint, UpsertStorage, ApplierResolves, ApplierResolved, ForgetRow, Recheck
  <2> QED
    BY <1>0, <1>9, <2>1 DEF ListTrue, Declared
<1> QED
  BY <1>0, <1>1, <1>2, <1>3, <1>5, <1>6, <1>7, <1>8, <1>9, DocWriters

-----------------------------------------------------------------------------
(* Identities on record                                                    *)

\* A row is dropped only by a forget, and under a name that is neither declared,
\* served nor being resolved, or else recorded.
LEMMA RowsStay ==
    ASSUME SlotsInv, RecordedTrue, Next \/ UNCHANGED vars, NEW n \in Names, rows[n] # 0, n \notin dropped'
    PROVE  \/ rows'[n] # 0
           \/ /\ ForgetRow /\ cfg.at[n] = "none" /\ slots[n].root = "none"
              /\ \A a \in Actors : res[a].at # "idle" => res[a].name # n
<1>0. TypeOK /\ Actors = {"apply"} \cup Rechecks
  BY DEF SlotsInv, Actors
<1>1. ASSUME NEW a \in Actors, UpsertStorage(a) PROVE rows'[n] # 0
  BY <1>0, <1>1, UpsertDoes DEF Recorded, TypeOK
<1>2. ASSUME ForgetRow, n # forget.name PROVE rows'[n] # 0
  BY <1>0, <1>2 DEF ForgetRow, TypeOK
<1>3. ASSUME ForgetRow, n = forget.name, rows'[n] = 0
      PROVE  /\ cfg.at[n] = "none" /\ slots[n].root = "none"
             /\ \A a \in Actors : res[a].at # "idle" => res[a].name # n
  BY <1>0, <1>3 DEF ForgetRow, Rechecking, InUse
<1>4. ASSUME ~ForgetRow, \A a \in Actors : ~UpsertStorage(a) PROVE rows' = rows
  BY <1>0, <1>4, DiskWriters DEF Mint, Mount
<1> QED
  BY <1>1, <1>2, <1>3, <1>4

\* What one call has come to is right, whoever took the step.
CallRecorded(a) ==
    /\ res[a].at = "upsert" => res[a].id # 0
    /\ res[a].at = "done" /\ res[a].ok /\ res[a].name \notin dropped => rows[res[a].name] # 0

\* Calls stay right.
LEMMA CallsRecorded ==
    ASSUME SlotsInv, RecordedTrue, Next \/ UNCHANGED vars, NEW a \in Actors
    PROVE  CallRecorded(a)'
<1>0. /\ TypeOK /\ dropped \subseteq dropped' /\ (res[a].at # "idle" => res[a].name \in Names)
      /\ CallRecorded(a) /\ "apply" \in Actors /\ Rechecks \subseteq Actors
  BY SlotType, DiskType, Callers DEF SlotsInv, CallsTrue, RecordedTrue, CallRecorded
<1>1. CASE res'[a] = res[a]
  <2>1. ASSUME res[a].at = "done", res[a].ok, res[a].name \notin dropped' PROVE rows'[res[a].name] # 0
    BY <1>0, <1>1, <2>1, RowsStay DEF CallRecorded
  <2> QED
    BY <1>0, <1>1, <2>1 DEF CallRecorded
<1>2. CASE ReadRow(a)
  BY <1>2, ReadRowDoes DEF CallRecorded
<1>3. CASE ProbePath(a)
  BY <1>3, ProbePathDoes DEF CallRecorded
<1>4. CASE Mint(a)
  BY <1>4, MintDoes DEF CallRecorded
<1>5. CASE UpsertStorage(a)
  <2>1. res[a].at = "upsert" /\ res[a].id # 0 /\ res[a].name \in Names
    BY <1>5 DEF UpsertStorage, RecordedTrue, SlotsInv, CallsTrue
  <2>2. Recorded(rows[res[a].name], res[a].id) # 0
    BY <2>1 DEF Recorded
  <2>3. res'[a].at = "done" /\ res'[a].name = res[a].name
        /\ (res'[a].ok => rows' = [rows EXCEPT ![res[a].name] = Recorded(@, res[a].id)])
    BY <1>5, UpsertDoes DEF Onward
  <2> QED
    BY <1>0, <2>1, <2>2, <2>3 DEF CallRecorded, TypeOK
<1>6. CASE res'[a].at \in {"known", "idle"}
  BY <1>6 DEF CallRecorded
<1>7. ASSUME NEW b \in Actors, b # a, ReadRow(b) \/ ProbePath(b) \/ Mint(b) \/ UpsertStorage(b)
      PROVE  res'[a] = res[a]
  BY <1>7, ReadRowDoes, ProbePathDoes, MintDoes, UpsertDoes DEF Onward
<1>8. ASSUME ApplierResolves PROVE res'[a] = res[a] \/ res'[a].at = "known"
  BY <1>0, <1>8, ApplierStarts, StartDoes
<1>9. ASSUME NEW n \in Names, NEW b \in Rechecks, Recheck(b, n) PROVE res'[a] = res[a] \/ res'[a].at = "known"
  BY <1>0, <1>9, RecheckStarts, StartDoes
<1>10. ASSUME ApplierResolved \/ \E b \in Rechecks : RecheckWrite(b) PROVE res'[a] = res[a] \/ res'[a].at = "idle"
  BY <1>0, <1>10, TakeDoes DEF ApplierResolved, RecheckWrite
<1> QED
  BY <1>0, <1>1, <1>2, <1>3, <1>4, <1>5, <1>6, <1>7, <1>8, <1>9, <1>10, CallWriters DEF ApplyStorages, ForgetRow

Ready(s, n) == s.ok => s.root # "none" /\ (n \in dropped \/ rows[n] # 0)

\* The slot a finished call makes is ready only with a row.
LEMMA MadeReady ==
    ASSUME SlotsInv, RecordedTrue, NEW a \in Actors, res[a].at = "done"
    PROVE  Ready(SlotOf(res[a]), res[a].name)
  BY SlotShape, SlotsAssumption DEF SlotsInv, TypeOK, CallsTrue, RecordedTrue, Ready

\* The lists stay right.
LEMMA ListsRecorded ==
    ASSUME SlotsInv, RecordedTrue, Next \/ UNCHANGED vars, NEW n \in Names
    PROVE  Ready(slots[n], n)' /\ (w'.at = "slots" => Ready(w.built[n], n)')
<1>0. /\ TypeOK /\ dropped \subseteq dropped' /\ "apply" \in Actors /\ Rechecks \subseteq Actors
      /\ Ready(slots[n], n) /\ (w.at = "slots" => Ready(w.built[n], n))
  BY SlotType, DiskType, Callers DEF SlotsInv, RecordedTrue, Ready
<1>1. ASSUME slots'[n] = slots[n] PROVE Ready(slots[n], n)'
  BY <1>0, <1>1, RowsStay DEF Ready
<1>2. ASSUME w.at = "slots", w'.built[n] = w.built[n] PROVE Ready(w.built[n], n)'
  <2>1. CASE ~w.built[n].ok \/ n \in dropped' \/ rows'[n] # 0
    BY <1>0, <1>2, <2>1 DEF Ready
  <2>2. CASE w.built[n].ok /\ n \notin dropped' /\ rows'[n] = 0
    <3>1. rows[n] # 0 /\ w.built[n].root # "none"
      BY <1>0, <1>2, <2>2 DEF Ready
    <3>2. cfg.at[n] = "none" /\ \A a \in Actors : res[a].at # "idle" => res[a].name # n
      BY <2>2, <3>1, RowsStay
    <3>3. w.next = cfg /\ n \notin w.todo
      BY <1>2, <3>2 DEF SlotsInv, ConfigTrue, BuiltTrue, Declared
    <3>4. w.built[n].root = w.next.at[n]
      BY <1>0, <1>2, <3>2, <3>3 DEF SlotsInv, BuiltTrue
    <3> QED
      BY <3>1, <3>2, <3>3, <3>4
  <2> QED
    BY <2>1, <2>2
<1>3. CASE ApplyStorages
  <2>1. UNCHANGED rows /\ slots'[n] \in {slots[n], w.built[n]} /\ w.at = "slots" /\ w'.at = "knob"
    BY <1>0, <1>3 DEF ApplyStorages, TypeOK, Writer
  <2> QED
    BY <1>0, <2>1 DEF Ready
<1>4. ASSUME NEW a \in Rechecks, RecheckWrite(a)
      PROVE  Ready(slots[n], n)' /\ (w'.at = "slots" => Ready(w.built[n], n)')
  <2>1. slots'[n] = slots[n] \/ (n = res[a].name /\ slots'[n] = SlotOf(res[a]))
    BY <1>0, <1>4 DEF RecheckWrite, TypeOK
  <2>2. UNCHANGED <<rows, w>> /\ a \in Actors /\ res[a].at = "done"
    BY <1>0, <1>4 DEF RecheckWrite
  <2>3. Ready(SlotOf(res[a]), res[a].name)
    BY <2>2, MadeReady
  <2> QED
    BY <1>0, <2>1, <2>2, <2>3 DEF Ready
<1>5. CASE ApplierResolved
  <2>1. UNCHANGED <<rows, slots>> /\ res["apply"].at = "done" /\ w.at = "slots"
    BY <1>5 DEF ApplierResolved
  <2>2. w'.built[n] = w.built[n] \/ (n = res["apply"].name /\ w'.built[n] = SlotOf(res["apply"]))
    BY <1>0, <1>5 DEF ApplierResolved, TypeOK, Writer
  <2>3. Ready(SlotOf(res["apply"]), res["apply"].name)
    BY <1>0, <2>1, MadeReady
  <2> QED
    BY <1>0, <2>1, <2>2, <2>3 DEF Ready
<1>6. ASSUME NEW d \in Docs, NEW e \in Docs, Apply(d, e) PROVE ~w'.built[n].ok
  BY <1>0, <1>6, ApplyDoes
<1>7. ASSUME Adopt \/ ReloadLoad PROVE w'.at = "slots" => ~w'.built[n].ok
  BY <1>0, <1>6, <1>7, LoadDoes, FreeFields DEF Adopt, TypeOK, Writer
<1>8. ASSUME ~ApplyStorages, ~ApplierResolved, ~Adopt, ~ReloadLoad
      PROVE  w'.at = "slots" => w.at = "slots" /\ w'.built[n] = w.built[n]
  <2>1. ASSUME NEW op \in Ops, NEW d \in Docs, Saving(op, d) PROVE w'.at # "slots"
    BY <1>0, <2>1, SaveDoes DEF Saving
  <2>2. ASSUME ReloadRead \/ FinishWrite \/ WriteFile PROVE w'.at # "slots"
    BY <1>0, <2>2, ReloadReadDoes, FreeFields DEF FinishWrite, WriteFile, Release, TypeOK, Writer
  <2>3. ASSUME ApplierResolves PROVE w.at = "slots" /\ w'.built[n] = w.built[n]
    BY <1>0, <2>3 DEF ApplierResolves, TypeOK, Writer
  <2> QED
    BY <1>0, <1>8, <2>1, <2>2, <2>3, DocWriters
<1>9. ASSUME ~ApplyStorages, \A a \in Rechecks : ~RecheckWrite(a) PROVE slots'[n] = slots[n]
  BY <1>0, <1>9, CallWriters DEF ReadRow, ProbePath, Mint, UpsertStorage, ApplierResolves, ApplierResolved,
     ForgetRow, Recheck
<1>10. CASE Adopt \/ ReloadLoad
  <2>1. slots'[n] = slots[n]
    BY <1>10 DEF Adopt, ReloadLoad
  <2> QED
    BY <1>1, <1>7, <1>10, <2>1 DEF Ready
<1> QED
  BY <1>1, <1>2, <1>3, <1>4, <1>5, <1>8, <1>9, <1>10

-----------------------------------------------------------------------------
(* The slots: theorems                                                     *)

\* The invariant holds at start-up.
LEMMA SlotsInit == Init => SlotsInv
<1> SUFFICES ASSUME Init PROVE SlotsInv
  OBVIOUS
<1>1. cfg \in Docs /\ file \in Docs \cup {Absent} /\ (file \in Docs => cfg = file)
  BY SlotsAssumption, DocFields DEF Init
<1>2. /\ slots \in [Names -> Slot] /\ media \in [Paths -> Media] /\ rows \in [Names -> Ids]
      /\ \A n \in Names : slots[n].root = cfg.at[n]
  BY <1>1, DocFields, Ids0 DEF Init, Slot, Media
<1>3. res \in [Actors -> Resolving] /\ \A a \in Actors : res[a].at = "idle"
  BY Blank DEF Init
<1>4. TypeOK
  <2>1. discarded \in BOOLEAN /\ knob \in BOOLEAN /\ w \in Writer
    BY <1>1, FreeFields, DocFields DEF Init
  <2>2. nextId \in 1..MaxIds + 1
    BY SlotsAssumption DEF Init
  <2>3. /\ forget \in [at : {"idle", "checked", "row"}, name : Names \cup {"none"}]
        /\ jobs \subseteq Ids /\ versions \subseteq Ids /\ raced \subseteq Names /\ dropped \subseteq Names /\ mix \in Mixes
    BY DEF Init, NoForget
  <2>4. last \in Docs \cup {Bad, Absent}
    BY <1>1 DEF Init
  <2> QED
    BY <1>1, <1>2, <1>3, <2>1, <2>2, <2>3, <2>4 DEF TypeOK
<1> QED
  BY <1>1, <1>2, <1>3, <1>4, FreeFields, Callers
    DEF Init, SlotsInv, ConfigTrue, BuiltTrue, CallsTrue, ForgetTrue, ListTrue, NoForget

\* The document that runs, the list under construction, the calls in flight and
\* the list served agree after every step of the writer, the rechecks, the
\* forgets and the operator.
THEOREM SlotsInductive == Spec => []SlotsInv
<1>1. SlotsInv /\ [Next]_vars => SlotsInv'
  BY TypeStep, ConfigStep, BuiltStep, CallsStep, ForgetStep, ListStep DEF SlotsInv
<1> QED
  BY <1>1, SlotsInit, PTL DEF Spec

\* With nobody writing, the manager serves every declared storage where it is
\* declared, whatever rechecks, saves and reloads interleaved, except for a name
\* a recheck straddled a write of.
THEOREM ListFollowsConfig == Spec => []SlotsFollowConfig
<1>1. SlotsInv => SlotsFollowConfig
  BY DEF SlotsInv, ListTrue, SlotsFollowConfig
<1> QED
  BY <1>1, SlotsInductive, PTL

\* With nobody writing, what runs is what was read last, and the appliers have
\* it: saves and reloads reach no subsystem out of order.
THEOREM ConfigIsOneDocument == Spec => [](RunningIsRead /\ AppliedIsCurrent)
<1>1. SlotsInv => RunningIsRead /\ AppliedIsCurrent
  BY DEF SlotsInv, ConfigTrue, RunningIsRead, AppliedIsCurrent
<1> QED
  BY <1>1, SlotsInductive, PTL

\* A storage that takes backups has an identity on record, so that a mountpoint
\* with nothing mounted on it is not taken for a new one: the row is written
\* before the slot is shown ready, and no forget drops the row of a slot that is
\* served, unless the name was declared again or resolved before the row went.
THEOREM IdentitiesAreRecorded == Spec => []IdentityRecorded
<1>1. Init => RecordedTrue
  BY Blank, FreeFields DEF Init, RecordedTrue
<1>2. SlotsInv /\ RecordedTrue /\ [Next]_vars => RecordedTrue'
  BY CallsRecorded, ListsRecorded DEF RecordedTrue, CallRecorded, Ready
<1>3. RecordedTrue => IdentityRecorded
  BY DEF RecordedTrue, IdentityRecorded
<1> QED
  BY <1>1, <1>2, <1>3, SlotsInductive, PTL DEF Spec

\* Once a storage is served there is always one, whatever is edited or saved.
THEOREM ServesOnceServing == Spec => AlwaysServing
<1>1. ASSUME SlotsInv, Next \/ UNCHANGED vars, NEW n \in Names, slots[n].root # "none"
      PROVE  \E m \in Names : slots'[m].root # "none"
  <2>1. CASE ApplyStorages
    BY <1>1, <2>1 DEF ApplyStorages, KeepsServing, SlotsInv, BuiltTrue, Declared
  <2>2. CASE ~ApplyStorages
    BY <1>1, <2>2, CallWriters, RecheckWriteDoes
      DEF SlotsInv, ReadRow, ProbePath, Mint, UpsertStorage, ApplierResolves, ApplierResolved, ForgetRow, Recheck
  <2> QED
    BY <2>1, <2>2
<1>2. SlotsInv /\ [Next]_vars => [(\E n \in Names : slots[n].root # "none")
                                  => (\E n \in Names : slots'[n].root # "none")]_vars
  BY <1>1
<1> QED
  BY <1>2, SlotsInductive, PTL DEF Spec, AlwaysServing

-----------------------------------------------------------------------------
(* The zfs store: places and types                                         *)

\* Backups are numbered from one; zero is a snapshot of the host's.
LEMMA Sizes == /\ Backups \subseteq Or0 /\ 0 \in Or0 /\ 0 \notin Backups
               /\ \A v \in Or0 : v # 0 => v \in Backups
  BY ZFSAssumption DEF Backups, Or0

\* No tree and every version are trees.
LEMMA Trees0 == NoTree \in Trees /\ NoSnap \in Trees /\ \A v \in Backups : Version(v) \in Trees /\ Version(v) # NoSnap
  BY Sizes DEF Trees, NoTree, NoSnap, Version

\* A set of natural numbers that is not empty has a least one.
LEMMA Least ==
    ASSUME NEW S, S \subseteq Nat, S # {}
    PROVE  \E n \in S : \A m \in S : n <= m
<1>1. IsWellFoundedOn(OpToRel(<, Nat), Nat)
  BY NatLessThanWellFounded
<1>2. PICK n \in S : \A m \in S : ~(<<m, n>> \in OpToRel(<, Nat))
  BY <1>1, WFMin
<1>3. \A m \in S : ~(m < n)
  BY <1>2 DEF OpToRel
<1> QED
  BY <1>3

\* With a snapshot there is a newest one.
LEMMA NewestSome ==
    ASSUME ~\A v \in Backups : snaps[v] = NoSnap
    PROVE  NewestSnap \in Backups /\ snaps[NewestSnap] # NoSnap
<1> DEFINE Have == {v \in Backups : snaps[v] # NoSnap}
           Early == {MaxBackups - SnapTime[v] : v \in Have}
<1>1. Early \subseteq Nat /\ Early # {} /\ SnapTime \in [Backups -> Backups]
  BY ZFSAssumption DEF Backups
<1> HIDE DEF Early
<1>2. PICK t \in Early : \A x \in Early : t <= x
  BY <1>1, Least
<1>3. PICK z \in Have : t = MaxBackups - SnapTime[z]
  BY <1>2 DEF Early
<1> DEFINE Same == {v \in Have : SnapTime[v] = SnapTime[z]}
           Low == {MaxBackups - v : v \in Same}
<1>4. Low \subseteq Nat /\ Low # {}
  BY <1>3, ZFSAssumption DEF Backups
<1> HIDE DEF Low
<1>5. PICK s \in Low : \A x \in Low : s <= x
  BY <1>4, Least
<1>6. PICK v \in Same : s = MaxBackups - v
  BY <1>5 DEF Low
<1>7. ASSUME NEW u \in Have PROVE SnapTime[u] < SnapTime[v] \/ (SnapTime[u] = SnapTime[v] /\ u <= v)
  <2>0. /\ MaxBackups - SnapTime[u] \in Early /\ SnapTime[u] \in 1..MaxBackups /\ SnapTime[z] \in 1..MaxBackups
        /\ MaxBackups \in Nat /\ u \in 1..MaxBackups /\ v \in 1..MaxBackups /\ SnapTime[v] = SnapTime[z]
    BY <1>1, <1>3, <1>6, ZFSAssumption DEF Backups, Early
  <2>1. SnapTime[u] <= SnapTime[z]
    BY <1>2, <1>3, <2>0
  <2>2. ASSUME SnapTime[u] = SnapTime[z] PROVE u <= v
    <3>1. MaxBackups - u \in Low
      BY <2>2 DEF Low
    <3> QED
      BY <1>5, <1>6, <2>0, <3>1
  <2> QED
    BY <2>0, <2>1, <2>2
<1>8. \E x \in Backups : /\ snaps[x] # NoSnap
         /\ \A u \in Backups : snaps[u] # NoSnap => SnapTime[u] < SnapTime[x] \/ (SnapTime[u] = SnapTime[x] /\ u <= x)
  BY <1>6, <1>7
<1> QED
  BY <1>8 DEF NewestSnap

\* Taking a snapshot keeps the head under its name, once.
LEMMA TakeFields ==
    ASSUME ZFSTypeOK, NEW v \in Backups, Take(v)
    PROVE  /\ snaps' \in [Backups -> Trees] /\ ever' \subseteq Backups
           /\ \/ snaps[v] # NoSnap /\ snaps' = snaps /\ ever' = ever
              \/ snaps[v] = NoSnap /\ snaps' = [snaps EXCEPT ![v] = head] /\ ever' = ever \cup {v}
  BY DEF ZFSTypeOK, Take

\* A crash or a host's snapshot uses one up and changes nothing else.
LEMMA MixFields ==
    ASSUME zmix \in ZMixes,
           \/ zmix.crashes > 0 /\ zmix' = [zmix EXCEPT !.crashes = @ - 1]
           \/ zmix.host > 0 /\ zmix' = [zmix EXCEPT !.host = @ - 1]
    PROVE  zmix' \in ZMixes /\ zmix'.may = zmix.may
  BY DEF ZMixes

\* A step of a reset touches the head, the sentinel and its own state.
LEMMA ResetFields ==
    ASSUME ZFSTypeOK, PlaceTrue, RepairHead
    PROVE  /\ head' \in Trees /\ dirty' \in BOOLEAN /\ lateBack' \in Or0
           /\ resetting' \in [at : {"none", "rollback", "empty", "clean"}, ver : Or0]
           /\ resetting'.at = "rollback" => resetting'.ver # 0
           /\ UNCHANGED <<snaps, order, commitLog, known, pc, live, cur, verdict, late, deleting, condemned, ever, zmix>>
<1>u. UNCHANGED <<snaps, order, commitLog, known, pc, live, cur, verdict, late, deleting, condemned, ever, zmix>>
  BY DEF RepairHead
<1>n. NoReset \in [at : {"none", "rollback", "empty", "clean"}, ver : Or0] /\ NoReset.at = "none"
  BY Sizes DEF NoReset
<1>c. /\ [resetting EXCEPT !.at = "clean"] \in [at : {"none", "rollback", "empty", "clean"}, ver : Or0]
      /\ [resetting EXCEPT !.at = "clean"].at = "clean"
  BY DEF ZFSTypeOK
<1>1. CASE ResetLists
  <2>1. CASE \A v \in Backups : snaps[v] = NoSnap
    BY <1>1, <1>u, <2>1, Sizes DEF ResetLists, ZFSTypeOK
  <2>2. CASE ~\A v \in Backups : snaps[v] = NoSnap
    <3>1. NewestSnap \in Backups
      BY <2>2, NewestSome
    <3>2. resetting' = [at |-> "rollback", ver |-> NewestSnap] /\ UNCHANGED <<head, dirty, lateBack>>
      BY <1>1, <2>2 DEF ResetLists
    <3> QED
      BY <1>u, <3>1, <3>2, Sizes DEF ZFSTypeOK
  <2> QED
    BY <2>1, <2>2
<1>2. CASE ResetRollback
  <2>1. resetting.ver \in Backups /\ snaps[resetting.ver] \in Trees
    BY <1>2, Sizes DEF ResetRollback, PlaceTrue, ZFSTypeOK
  <2> QED
    BY <1>2, <1>u, <1>n, <1>c, <2>1, Sizes DEF ResetRollback, ZFSTypeOK
<1>3. CASE RollbackLate
  <2>1. lateBack \in Backups /\ snaps[lateBack] \in Trees
    BY <1>3, Sizes DEF RollbackLate, ZFSTypeOK
  <2> QED
    BY <1>3, <1>u, <2>1, Sizes DEF RollbackLate, ZFSTypeOK, PlaceTrue
<1>4. CASE EmptyPartly
  <2>1. PICK m \in {0, head.marker} : head' = [head EXCEPT !.whole = FALSE, !.marker = m]
    BY <1>4 DEF EmptyPartly
  <2>2. head' \in Trees
    BY <2>1, Sizes DEF ZFSTypeOK, Trees
  <2> QED
    BY <1>4, <1>u, <1>n, <2>2 DEF EmptyPartly, ZFSTypeOK, PlaceTrue
<1>5. CASE EmptyHead
  BY <1>5, <1>u, <1>c, Trees0 DEF EmptyHead, ZFSTypeOK
<1>6. CASE ResetCleans
  BY <1>6, <1>u, <1>n DEF ResetCleans, ZFSTypeOK
<1> QED
  BY <1>1, <1>2, <1>3, <1>4, <1>5, <1>6 DEF RepairHead

\* The types hold at start-up.
LEMMA ZTypeInit == ZFSInit(ZFSMixes) => ZFSTypeOK
<1> SUFFICES ASSUME ZFSInit(ZFSMixes) PROVE ZFSTypeOK
  OBVIOUS
<1>1. zmix \in ZFSMixes
  BY DEF ZFSInit
<1>2. zmix \in ZMixes
  BY <1>1, ZFSAssumption
<1> QED
  BY <1>2, Sizes, Trees0 DEF ZFSInit, ZFSTypeOK, NoLog, NoDelete, NoReset

\* Every step keeps the types.
LEMMA ZTypeStep ==
    ASSUME ZFSTypeOK, PlaceTrue, [ZFSNext]_zfsVars
    PROVE  ZFSTypeOK'
<1>t. \A x \in Trees : /\ \A b \in Or0, g \in BOOLEAN : [x EXCEPT !.by = b, !.whole = g] \in Trees
                       /\ \A g \in BOOLEAN : [x EXCEPT !.whole = g] \in Trees
                       /\ \A b \in Or0 : [x EXCEPT !.marker = b] \in Trees
  BY DEF Trees
<1>1. ASSUME NEW j \in Backups, PrepareWork(j) PROVE ZFSTypeOK'
  BY <1>1, <1>t, Sizes, Trees0 DEF PrepareWork, Step, ZFSTypeOK
<1>2. ASSUME NEW j \in Backups, DeleteRead(j) PROVE ZFSTypeOK'
  BY <1>2, <1>t, Sizes, Trees0 DEF DeleteRead, NoDelete, ZFSTypeOK
<1>3. ASSUME Transfer PROVE ZFSTypeOK'
  BY <1>3, <1>t, Sizes, Trees0 DEF Transfer, ZFSTypeOK
<1>4. ASSUME NEW whole \in BOOLEAN, ToolExits(whole) PROVE ZFSTypeOK'
  BY <1>4, <1>t, Sizes, Trees0 DEF ToolExits, Step, ZFSTypeOK
<1>5. ASSUME JobFails PROVE ZFSTypeOK'
  BY <1>5, <1>t, Sizes, Trees0 DEF JobFails, Ends, Discard, ZFSTypeOK
<1>6. ASSUME VerifyHead PROVE ZFSTypeOK'
  BY <1>6, <1>t, Sizes, Trees0 DEF VerifyHead, Verify, Ends, Discard, ZFSTypeOK
<1>7. ASSUME WriteMarker PROVE ZFSTypeOK'
  BY <1>7, <1>t, Sizes, Trees0 DEF WriteMarker, Step, ZFSTypeOK
<1>8. ASSUME WriteJournal PROVE ZFSTypeOK'
  BY <1>8, <1>t, Sizes, Trees0 DEF WriteJournal, Step, ZFSTypeOK
<1>9. ASSUME Snapshot PROVE ZFSTypeOK'
  <2>1. cur \in Backups /\ Take(cur)
    BY <1>9, Sizes DEF Snapshot, Step, PlaceTrue, ZFSTypeOK
  <2> QED
    BY <1>9, <2>1, TakeFields DEF Snapshot, Step, ZFSTypeOK
<1>10. ASSUME AdvanceJournal PROVE ZFSTypeOK'
  BY <1>10, <1>t, Sizes, Trees0 DEF AdvanceJournal, Step, ZFSTypeOK
<1>11. ASSUME RemoveSentinel PROVE ZFSTypeOK'
  BY <1>11, <1>t, Sizes, Trees0 DEF RemoveSentinel, Step, ZFSTypeOK
<1>12. ASSUME RemoveJournal PROVE ZFSTypeOK'
  BY <1>12, <1>t, Sizes, Trees0 DEF RemoveJournal, Step, NoLog, ZFSTypeOK
<1>13. ASSUME RegisterVersion PROVE ZFSTypeOK'
  BY <1>13, <1>t, Sizes, Trees0 DEF RegisterVersion, Ends, PlaceTrue, ZFSTypeOK
<1>14. ASSUME NEW how \in {"fault", "late"}, SnapshotFails(how) PROVE ZFSTypeOK'
  BY <1>14, <1>t, Sizes, Trees0 DEF SnapshotFails, Ends, ZFSTypeOK
<1>15. ASSUME SnapshotLate PROVE ZFSTypeOK'
  <2>1. late \in Backups /\ Take(late)
    BY <1>15, Sizes DEF SnapshotLate, ZFSTypeOK
  <2> QED
    BY <1>15, <2>1, TakeFields, Sizes DEF SnapshotLate, ZFSTypeOK
<1>16. ASSUME ZFSCrash PROVE ZFSTypeOK'
  <2>1. zmix' \in ZMixes
    BY <1>16, MixFields DEF ZFSCrash, ZFSTypeOK
  <2> QED
    BY <1>16, <2>1, Sizes DEF ZFSCrash, NoDelete, NoReset, ZFSTypeOK
<1>17. ASSUME RollForward PROVE ZFSTypeOK'
  BY <1>17, <1>t, Sizes, Trees0 DEF RollForward, Step, ResumeAt, ZFSTypeOK
<1>18. ASSUME JudgeOrphans PROVE ZFSTypeOK'
  BY <1>18, <1>t, Sizes, Trees0 DEF JudgeOrphans, Step, ZFSTypeOK
<1>19. ASSUME ScanDevice PROVE ZFSTypeOK'
  BY <1>19, <1>t, Sizes, Trees0 DEF ScanDevice, ScanRows, Scanned, ZFSTypeOK
<1>20. ASSUME DestroySnapshot PROVE ZFSTypeOK'
  BY <1>20, <1>t, Sizes, Trees0 DEF DestroySnapshot, Victim, NoSnap, ZFSTypeOK
<1>21. ASSUME DeleteRow PROVE ZFSTypeOK'
  BY <1>21, <1>t, Sizes, Trees0 DEF DeleteRow, NoDelete, ZFSTypeOK
<1>22. ASSUME HostSnapshot PROVE ZFSTypeOK'
  <2>1. zmix' \in ZMixes
    BY <1>22, MixFields DEF HostSnapshot, ZFSTypeOK
  <2> QED
    BY <1>22, <2>1 DEF HostSnapshot, ZFSTypeOK
<1>23. ASSUME RepairHead PROVE ZFSTypeOK'
  BY <1>23, ResetFields DEF ZFSTypeOK
<1>u. ASSUME UNCHANGED zfsVars PROVE ZFSTypeOK'
  BY <1>u, <1>t, Sizes, Trees0 DEF zfsVars, ZFSTypeOK
<1> QED
  BY <1>1, <1>2, <1>3, <1>4, <1>5, <1>6, <1>7, <1>8, <1>9, <1>10, <1>11, <1>12, <1>13, <1>14, <1>15,
     <1>16, <1>17, <1>18, <1>19, <1>20, <1>21, <1>22, <1>23, <1>u DEF ZFSNext, ToolRuns, Committing,
     Booting

\* Every step keeps the journal in line with the place of the commit.
LEMMA PlaceStep ==
    ASSUME ZFSTypeOK, PlaceTrue, [ZFSNext]_zfsVars
    PROVE  PlaceTrue'
<1>1. ASSUME NEW j \in Backups, PrepareWork(j) PROVE PlaceTrue'
  BY <1>1, Sizes DEF PrepareWork, Step, PlaceTrue, ZFSTypeOK
<1>2. ASSUME NEW j \in Backups, DeleteRead(j) PROVE PlaceTrue'
  BY <1>2, Sizes DEF DeleteRead, NoDelete, PlaceTrue, ZFSTypeOK
<1>3. ASSUME Transfer PROVE PlaceTrue'
  BY <1>3, Sizes DEF Transfer, PlaceTrue, ZFSTypeOK
<1>4. ASSUME NEW whole \in BOOLEAN, ToolExits(whole) PROVE PlaceTrue'
  BY <1>4, Sizes DEF ToolExits, Step, PlaceTrue, ZFSTypeOK
<1>5. ASSUME JobFails PROVE PlaceTrue'
  BY <1>5, Sizes DEF JobFails, Ends, Discard, PlaceTrue, ZFSTypeOK
<1>6. ASSUME VerifyHead PROVE PlaceTrue'
  BY <1>6, Sizes DEF VerifyHead, Verify, Ends, Discard, PlaceTrue, ZFSTypeOK
<1>7. ASSUME WriteMarker PROVE PlaceTrue'
  BY <1>7, Sizes DEF WriteMarker, Step, PlaceTrue, ZFSTypeOK
<1>8. ASSUME WriteJournal PROVE PlaceTrue'
  BY <1>8, Sizes DEF WriteJournal, Step, PlaceTrue, ZFSTypeOK
<1>9. ASSUME Snapshot PROVE PlaceTrue'
  BY <1>9, Sizes DEF Snapshot, Step, Take, PlaceTrue, ZFSTypeOK
<1>10. ASSUME AdvanceJournal PROVE PlaceTrue'
  BY <1>10, Sizes DEF AdvanceJournal, Step, PlaceTrue, ZFSTypeOK
<1>11. ASSUME RemoveSentinel PROVE PlaceTrue'
  BY <1>11, Sizes DEF RemoveSentinel, Step, PlaceTrue, ZFSTypeOK
<1>12. ASSUME RemoveJournal PROVE PlaceTrue'
  BY <1>12, Sizes DEF RemoveJournal, Step, NoLog, PlaceTrue, ZFSTypeOK
<1>13. ASSUME RegisterVersion PROVE PlaceTrue'
  BY <1>13, Sizes DEF RegisterVersion, Ends, PlaceTrue, ZFSTypeOK
<1>14. ASSUME NEW how \in {"fault", "late"}, SnapshotFails(how) PROVE PlaceTrue'
  BY <1>14, Sizes DEF SnapshotFails, Ends, PlaceTrue, ZFSTypeOK
<1>15. ASSUME SnapshotLate PROVE PlaceTrue'
  BY <1>15, Sizes DEF SnapshotLate, Take, PlaceTrue, ZFSTypeOK
<1>16. ASSUME ZFSCrash PROVE PlaceTrue'
  BY <1>16, Sizes DEF ZFSCrash, NoDelete, NoReset, PlaceTrue, ZFSTypeOK
<1>17. ASSUME RollForward PROVE PlaceTrue'
  BY <1>17, Sizes DEF RollForward, Step, ResumeAt, PlaceTrue, ZFSTypeOK
<1>18. ASSUME JudgeOrphans PROVE PlaceTrue'
  BY <1>18, Sizes DEF JudgeOrphans, Step, PlaceTrue, ZFSTypeOK
<1>19. ASSUME ScanDevice PROVE PlaceTrue'
  BY <1>19, Sizes DEF ScanDevice, ScanRows, Scanned, PlaceTrue, ZFSTypeOK
<1>20. ASSUME DestroySnapshot PROVE PlaceTrue'
  BY <1>20, Sizes DEF DestroySnapshot, Victim, NoSnap, PlaceTrue, ZFSTypeOK
<1>21. ASSUME DeleteRow PROVE PlaceTrue'
  BY <1>21, Sizes DEF DeleteRow, NoDelete, PlaceTrue, ZFSTypeOK
<1>22. ASSUME HostSnapshot PROVE PlaceTrue'
  BY <1>22, Sizes DEF HostSnapshot, PlaceTrue, ZFSTypeOK
<1>23. ASSUME RepairHead PROVE PlaceTrue'
  BY <1>23, ResetFields DEF PlaceTrue
<1>u. ASSUME UNCHANGED zfsVars PROVE PlaceTrue'
  BY <1>u, Sizes DEF zfsVars, PlaceTrue, ZFSTypeOK
<1> QED
  BY <1>1, <1>2, <1>3, <1>4, <1>5, <1>6, <1>7, <1>8, <1>9, <1>10, <1>11, <1>12, <1>13, <1>14, <1>15,
     <1>16, <1>17, <1>18, <1>19, <1>20, <1>21, <1>22, <1>23, <1>u DEF ZFSNext, ToolRuns, Committing,
     Booting

-----------------------------------------------------------------------------
(* The zfs store: what a step does to each part                            *)

\* A whole tree marked for its writer is that version.
LEMMA HeadIs ==
    ASSUME NEW x \in Trees, NEW v, x.by = v, x.whole, x.marker = v
    PROVE  x = Version(v)
  BY DEF Trees, Version

\* A version is whole.
LEMMA VersionWhole == \A v : Version(v).whole
  BY DEF Version

DirtyTrue == ~dirty => head.whole \/ \A v \in Backups : snaps[v] = NoSnap
Sound == late = 0 /\ SnapshotsWhole /\ JobTrue /\ LogTrue /\ HistoryTrue /\ ResetTrue /\ DirtyTrue

\* With every command answered, a step of a reset finds the daemon idle: it
\* leaves the head alone, guts or empties one that has no version, puts the last
\* snapshot back, or takes the sentinel from a whole head.
LEMMA ResetDoes ==
    ASSUME ZFSTypeOK, PlaceTrue, Sound, Answered, RepairHead
    PROVE  /\ pc = "idle" /\ ResetTrue'
           /\ \/ head' = head /\ dirty' = dirty
              \/ dirty' = dirty /\ (head' = NoTree \/ ~head'.whole) /\ \A v \in Backups : snaps[v] = NoSnap
              \/ dirty' = dirty /\ \E v \in Backups : snaps[v] # NoSnap /\ head' = snaps[v] /\ Last(order) = v
              \/ head' = head /\ head.whole
<1>0. /\ lateBack = 0 /\ (resetting.at # "none" => pc = "idle") /\ snaps' = snaps /\ pc' = pc
      /\ resetting.at = "empty" => \A v \in Backups : snaps[v] = NoSnap
      /\ resetting.at = "clean" => head.whole
  BY DEF Sound, ResetTrue, RepairHead
<1>n. NoReset.at = "none"
  BY DEF NoReset
<1>c. [resetting EXCEPT !.at = "clean"].at = "clean"
  BY DEF ZFSTypeOK
<1>1. CASE ResetLists
  BY <1>0, <1>1 DEF ResetLists, ResetTrue
<1>2. CASE ResetRollback
  <2>1. resetting.ver \in Backups /\ resetting.at = "rollback"
    BY <1>2, Sizes DEF ResetRollback, PlaceTrue, ZFSTypeOK
  <2>2. snaps[resetting.ver] # NoSnap => snaps[resetting.ver].whole
    BY <2>1, VersionWhole DEF Sound, SnapshotsWhole
  <2>3. CASE Back(resetting.ver) /\ head' = snaps[resetting.ver] /\ resetting' = [resetting EXCEPT !.at = "clean"]
             /\ UNCHANGED <<lateBack, dirty>>
    BY <1>0, <1>c, <2>1, <2>2, <2>3 DEF Back, ResetTrue
  <2>4. CASE resetting' = NoReset /\ UNCHANGED <<head, lateBack, dirty>>
    BY <1>0, <1>n, <2>1, <2>4 DEF ResetTrue
  <2> QED
    BY <1>2, <2>3, <2>4 DEF ResetRollback, Sound, Answered
<1>3. CASE RollbackLate
  BY <1>0, <1>3 DEF RollbackLate
<1>4. CASE EmptyPartly
  <2>1. PICK m \in {0, head.marker} : head' = [head EXCEPT !.whole = FALSE, !.marker = m]
    BY <1>4 DEF EmptyPartly
  <2>2. ~head'.whole
    BY <2>1 DEF ZFSTypeOK, Trees
  <2> QED
    BY <1>0, <1>n, <1>4, <2>2 DEF EmptyPartly, ResetTrue
<1>5. CASE EmptyHead
  BY <1>0, <1>c, <1>5 DEF EmptyHead, ResetTrue, NoTree
<1>6. CASE ResetCleans
  BY <1>0, <1>n, <1>6 DEF ResetCleans, ResetTrue
<1> QED
  BY <1>1, <1>2, <1>3, <1>4, <1>5, <1>6 DEF RepairHead

\* Every step keeps snapshots whole.
LEMMA SnapshotsWholeStep ==
    ASSUME ZFSTypeOK, PlaceTrue, Sound, Answered, [ZFSNext]_zfsVars
    PROVE  SnapshotsWhole'
<1>1. ASSUME NEW j \in Backups, PrepareWork(j) PROVE SnapshotsWhole'
  BY <1>1, Sizes, Trees0 DEF PrepareWork, Step, ZFSTypeOK, PlaceTrue, Sound, Answered, JobTrue,
     LogTrue, HistoryTrue, DirtyTrue, Prepared, Taken, Unknown, SnapshotsWhole, Version
<1>2. ASSUME NEW j \in Backups, DeleteRead(j) PROVE SnapshotsWhole'
  BY <1>2, Sizes, Trees0 DEF DeleteRead, NoDelete, ZFSTypeOK, PlaceTrue, Sound, Answered, JobTrue,
     LogTrue, HistoryTrue, DirtyTrue, Prepared, Taken, Unknown, SnapshotsWhole, Version
<1>3. ASSUME Transfer PROVE SnapshotsWhole'
  BY <1>3, Sizes, Trees0 DEF Transfer, ZFSTypeOK, PlaceTrue, Sound, Answered, JobTrue, LogTrue,
     HistoryTrue, DirtyTrue, Prepared, Taken, Unknown, SnapshotsWhole, Version
<1>4. ASSUME NEW whole \in BOOLEAN, ToolExits(whole) PROVE SnapshotsWhole'
  BY <1>4, Sizes, Trees0 DEF ToolExits, Step, ZFSTypeOK, PlaceTrue, Sound, Answered, JobTrue,
     LogTrue, HistoryTrue, DirtyTrue, Prepared, Taken, Unknown, SnapshotsWhole, Version
<1>5. ASSUME JobFails PROVE SnapshotsWhole'
  BY <1>5, Sizes, Trees0 DEF JobFails, Ends, Discard, ZFSTypeOK, PlaceTrue, Sound, Answered,
     JobTrue, LogTrue, HistoryTrue, DirtyTrue, Prepared, Taken, Unknown, SnapshotsWhole, Version
<1>6. ASSUME VerifyHead PROVE SnapshotsWhole'
  BY <1>6, Sizes, Trees0 DEF VerifyHead, Verify, Ends, Discard, ZFSTypeOK, PlaceTrue, Sound,
     Answered, JobTrue, LogTrue, HistoryTrue, DirtyTrue, Prepared, Taken, Unknown, SnapshotsWhole,
     Version
<1>7. ASSUME WriteMarker PROVE SnapshotsWhole'
  BY <1>7, Sizes, Trees0 DEF WriteMarker, Step, ZFSTypeOK, PlaceTrue, Sound, Answered, JobTrue,
     LogTrue, HistoryTrue, DirtyTrue, Prepared, Taken, Unknown, SnapshotsWhole, Version
<1>8. ASSUME WriteJournal PROVE SnapshotsWhole'
  BY <1>8, Sizes, Trees0 DEF WriteJournal, Step, ZFSTypeOK, PlaceTrue, Sound, Answered, JobTrue,
     LogTrue, HistoryTrue, DirtyTrue, Prepared, Taken, Unknown, SnapshotsWhole, Version
<1>9. ASSUME Snapshot PROVE SnapshotsWhole'
  BY <1>9, Sizes, Trees0, TakeFields DEF Snapshot, Step, ZFSTypeOK, PlaceTrue, Sound, Answered,
     JobTrue, LogTrue, HistoryTrue, DirtyTrue, Prepared, Taken, Unknown, SnapshotsWhole
<1>10. ASSUME AdvanceJournal PROVE SnapshotsWhole'
  BY <1>10, Sizes, Trees0 DEF AdvanceJournal, Step, ZFSTypeOK, PlaceTrue, Sound, Answered, JobTrue,
     LogTrue, HistoryTrue, DirtyTrue, Prepared, Taken, Unknown, SnapshotsWhole, Version
<1>11. ASSUME RemoveSentinel PROVE SnapshotsWhole'
  BY <1>11, Sizes, Trees0 DEF RemoveSentinel, Step, ZFSTypeOK, PlaceTrue, Sound, Answered, JobTrue,
     LogTrue, HistoryTrue, DirtyTrue, Prepared, Taken, Unknown, SnapshotsWhole, Version
<1>12. ASSUME RemoveJournal PROVE SnapshotsWhole'
  BY <1>12, Sizes, Trees0 DEF RemoveJournal, Step, NoLog, ZFSTypeOK, PlaceTrue, Sound, Answered,
     JobTrue, LogTrue, HistoryTrue, DirtyTrue, Prepared, Taken, Unknown, SnapshotsWhole, Version
<1>13. ASSUME RegisterVersion PROVE SnapshotsWhole'
  BY <1>13, Sizes, Trees0 DEF RegisterVersion, Ends, ZFSTypeOK, PlaceTrue, Sound, Answered, JobTrue,
     LogTrue, HistoryTrue, DirtyTrue, Prepared, Taken, Unknown, SnapshotsWhole, Version
<1>14. ASSUME NEW how \in {"fault", "late"}, SnapshotFails(how) PROVE SnapshotsWhole'
  BY <1>14 DEF SnapshotFails, Answered
<1>15. ASSUME SnapshotLate PROVE SnapshotsWhole'
  BY <1>15 DEF SnapshotLate, Sound
<1>16. ASSUME ZFSCrash PROVE SnapshotsWhole'
  BY <1>16, Sizes, Trees0 DEF ZFSCrash, NoDelete, ZFSTypeOK, PlaceTrue, Sound, Answered, JobTrue,
     LogTrue, HistoryTrue, DirtyTrue, Prepared, Taken, Unknown, SnapshotsWhole, Version
<1>17. ASSUME RollForward PROVE SnapshotsWhole'
  BY <1>17, Sizes, Trees0 DEF RollForward, Step, ResumeAt, ZFSTypeOK, PlaceTrue, Sound, Answered,
     JobTrue, LogTrue, HistoryTrue, DirtyTrue, Prepared, Taken, Unknown, SnapshotsWhole, Version
<1>18. ASSUME JudgeOrphans PROVE SnapshotsWhole'
  BY <1>18, Sizes, Trees0 DEF JudgeOrphans, Step, ZFSTypeOK, PlaceTrue, Sound, Answered, JobTrue,
     LogTrue, HistoryTrue, DirtyTrue, Prepared, Taken, Unknown, SnapshotsWhole, Version
<1>19. ASSUME ScanDevice PROVE SnapshotsWhole'
  BY <1>19, Sizes, Trees0 DEF ScanDevice, ScanRows, Scanned, ZFSTypeOK, PlaceTrue, Sound, Answered,
     JobTrue, LogTrue, HistoryTrue, DirtyTrue, Prepared, Taken, Unknown, SnapshotsWhole, Version
<1>20. ASSUME DestroySnapshot PROVE SnapshotsWhole'
  BY <1>20, Sizes, Trees0 DEF DestroySnapshot, Victim, NoSnap, ZFSTypeOK, PlaceTrue, Sound,
     Answered, JobTrue, LogTrue, HistoryTrue, DirtyTrue, Prepared, Taken, Unknown, SnapshotsWhole,
     Version
<1>21. ASSUME DeleteRow PROVE SnapshotsWhole'
  BY <1>21, Sizes, Trees0 DEF DeleteRow, NoDelete, ZFSTypeOK, PlaceTrue, Sound, Answered, JobTrue,
     LogTrue, HistoryTrue, DirtyTrue, Prepared, Taken, Unknown, SnapshotsWhole, Version
<1>22. ASSUME HostSnapshot PROVE SnapshotsWhole'
  BY <1>22, Sizes, Trees0 DEF HostSnapshot, ZFSTypeOK, PlaceTrue, Sound, Answered, JobTrue, LogTrue,
     HistoryTrue, DirtyTrue, Prepared, Taken, Unknown, SnapshotsWhole, Version
<1>23. ASSUME RepairHead PROVE SnapshotsWhole'
  BY <1>23, ResetFields, ResetDoes DEF Sound, SnapshotsWhole, NoDelete, Prepared, Taken, Unknown
<1>u. ASSUME UNCHANGED zfsVars PROVE SnapshotsWhole'
  BY <1>u, Sizes, Trees0 DEF zfsVars, ZFSTypeOK, PlaceTrue, Sound, Answered, JobTrue, LogTrue,
     HistoryTrue, DirtyTrue, Prepared, Taken, Unknown, SnapshotsWhole, Version
<1> QED
  BY <1>1, <1>2, <1>3, <1>4, <1>5, <1>6, <1>7, <1>8, <1>9, <1>10, <1>11, <1>12, <1>13, <1>14, <1>15,
     <1>16, <1>17, <1>18, <1>19, <1>20, <1>21, <1>22, <1>23, <1>u DEF ZFSNext, ToolRuns, Committing,
     Booting

\* Every step keeps the head with the job that writes it.
LEMMA JobTrueStep ==
    ASSUME ZFSTypeOK, PlaceTrue, Sound, Answered, [ZFSNext]_zfsVars
    PROVE  JobTrue'
<1>1. ASSUME NEW j \in Backups, PrepareWork(j) PROVE JobTrue'
  BY <1>1, Sizes, Trees0 DEF PrepareWork, Step, ZFSTypeOK, PlaceTrue, Sound, Answered, JobTrue,
     LogTrue, HistoryTrue, DirtyTrue, Prepared, Taken, Unknown, SnapshotsWhole, Version
<1>2. ASSUME NEW j \in Backups, DeleteRead(j) PROVE JobTrue'
  BY <1>2, Sizes, Trees0 DEF DeleteRead, NoDelete, ZFSTypeOK, PlaceTrue, Sound, Answered, JobTrue,
     LogTrue, HistoryTrue, DirtyTrue, Prepared, Taken, Unknown, SnapshotsWhole, Version
<1>3. ASSUME Transfer PROVE JobTrue'
  BY <1>3, Sizes, Trees0 DEF Transfer, ZFSTypeOK, PlaceTrue, Sound, Answered, JobTrue, LogTrue,
     HistoryTrue, DirtyTrue, Prepared, Taken, Unknown, SnapshotsWhole, Version
<1>4. ASSUME NEW whole \in BOOLEAN, ToolExits(whole) PROVE JobTrue'
  BY <1>4, Sizes, Trees0 DEF ToolExits, Step, ZFSTypeOK, PlaceTrue, Sound, Answered, JobTrue,
     LogTrue, HistoryTrue, DirtyTrue, Prepared, Taken, Unknown, SnapshotsWhole, Version
<1>5. ASSUME JobFails PROVE JobTrue'
  BY <1>5, Sizes, Trees0 DEF JobFails, Ends, Discard, ZFSTypeOK, PlaceTrue, Sound, Answered,
     JobTrue, LogTrue, HistoryTrue, DirtyTrue, Prepared, Taken, Unknown, SnapshotsWhole, Version
<1>6. ASSUME VerifyHead PROVE JobTrue'
  BY <1>6, Sizes, Trees0 DEF VerifyHead, Verify, Ends, Discard, ZFSTypeOK, PlaceTrue, Sound,
     Answered, JobTrue, LogTrue, HistoryTrue, DirtyTrue, Prepared, Taken, Unknown, SnapshotsWhole,
     Version
<1>7. ASSUME WriteMarker PROVE JobTrue'
  BY <1>7, Sizes, Trees0 DEF WriteMarker, Step, ZFSTypeOK, PlaceTrue, Sound, Answered, JobTrue,
     LogTrue, HistoryTrue, DirtyTrue, Prepared, Taken, Unknown, SnapshotsWhole, Version
<1>8. ASSUME WriteJournal PROVE JobTrue'
  BY <1>8, Sizes, Trees0 DEF WriteJournal, Step, ZFSTypeOK, PlaceTrue, Sound, Answered, JobTrue,
     LogTrue, HistoryTrue, DirtyTrue, Prepared, Taken, Unknown, SnapshotsWhole, Version
<1>9. ASSUME Snapshot PROVE JobTrue'
  BY <1>9, Sizes, Trees0, TakeFields DEF Snapshot, Step, ZFSTypeOK, PlaceTrue, Sound, Answered,
     JobTrue, LogTrue, HistoryTrue, DirtyTrue, Prepared, Taken, Unknown, SnapshotsWhole
<1>10. ASSUME AdvanceJournal PROVE JobTrue'
  BY <1>10, Sizes, Trees0 DEF AdvanceJournal, Step, ZFSTypeOK, PlaceTrue, Sound, Answered, JobTrue,
     LogTrue, HistoryTrue, DirtyTrue, Prepared, Taken, Unknown, SnapshotsWhole, Version
<1>11. ASSUME RemoveSentinel PROVE JobTrue'
  BY <1>11, Sizes, Trees0 DEF RemoveSentinel, Step, ZFSTypeOK, PlaceTrue, Sound, Answered, JobTrue,
     LogTrue, HistoryTrue, DirtyTrue, Prepared, Taken, Unknown, SnapshotsWhole, Version
<1>12. ASSUME RemoveJournal PROVE JobTrue'
  BY <1>12, Sizes, Trees0 DEF RemoveJournal, Step, NoLog, ZFSTypeOK, PlaceTrue, Sound, Answered,
     JobTrue, LogTrue, HistoryTrue, DirtyTrue, Prepared, Taken, Unknown, SnapshotsWhole, Version
<1>13. ASSUME RegisterVersion PROVE JobTrue'
  BY <1>13, Sizes, Trees0 DEF RegisterVersion, Ends, ZFSTypeOK, PlaceTrue, Sound, Answered, JobTrue,
     LogTrue, HistoryTrue, DirtyTrue, Prepared, Taken, Unknown, SnapshotsWhole, Version
<1>14. ASSUME NEW how \in {"fault", "late"}, SnapshotFails(how) PROVE JobTrue'
  BY <1>14 DEF SnapshotFails, Answered
<1>15. ASSUME SnapshotLate PROVE JobTrue'
  BY <1>15 DEF SnapshotLate, Sound
<1>16. ASSUME ZFSCrash PROVE JobTrue'
  BY <1>16, Sizes, Trees0 DEF ZFSCrash, NoDelete, ZFSTypeOK, PlaceTrue, Sound, Answered, JobTrue,
     LogTrue, HistoryTrue, DirtyTrue, Prepared, Taken, Unknown, SnapshotsWhole, Version
<1>17. ASSUME RollForward PROVE JobTrue'
  BY <1>17, Sizes, Trees0 DEF RollForward, Step, ResumeAt, ZFSTypeOK, PlaceTrue, Sound, Answered,
     JobTrue, LogTrue, HistoryTrue, DirtyTrue, Prepared, Taken, Unknown, SnapshotsWhole, Version
<1>18. ASSUME JudgeOrphans PROVE JobTrue'
  BY <1>18, Sizes, Trees0 DEF JudgeOrphans, Step, ZFSTypeOK, PlaceTrue, Sound, Answered, JobTrue,
     LogTrue, HistoryTrue, DirtyTrue, Prepared, Taken, Unknown, SnapshotsWhole, Version
<1>19. ASSUME ScanDevice PROVE JobTrue'
  BY <1>19, Sizes, Trees0 DEF ScanDevice, ScanRows, Scanned, ZFSTypeOK, PlaceTrue, Sound, Answered,
     JobTrue, LogTrue, HistoryTrue, DirtyTrue, Prepared, Taken, Unknown, SnapshotsWhole, Version
<1>20. ASSUME DestroySnapshot PROVE JobTrue'
  BY <1>20 DEF DestroySnapshot, NoDelete, Sound, JobTrue
<1>21. ASSUME DeleteRow PROVE JobTrue'
  BY <1>21, Sizes, Trees0 DEF DeleteRow, NoDelete, ZFSTypeOK, PlaceTrue, Sound, Answered, JobTrue,
     LogTrue, HistoryTrue, DirtyTrue, Prepared, Taken, Unknown, SnapshotsWhole, Version
<1>22. ASSUME HostSnapshot PROVE JobTrue'
  BY <1>22, Sizes, Trees0 DEF HostSnapshot, ZFSTypeOK, PlaceTrue, Sound, Answered, JobTrue, LogTrue,
     HistoryTrue, DirtyTrue, Prepared, Taken, Unknown, SnapshotsWhole, Version
<1>23. ASSUME RepairHead PROVE JobTrue'
  BY <1>23, ResetFields, ResetDoes DEF Sound, JobTrue, NoDelete, Prepared, Taken, Unknown
<1>u. ASSUME UNCHANGED zfsVars PROVE JobTrue'
  BY <1>u, Sizes, Trees0 DEF zfsVars, ZFSTypeOK, PlaceTrue, Sound, Answered, JobTrue, LogTrue,
     HistoryTrue, DirtyTrue, Prepared, Taken, Unknown, SnapshotsWhole, Version
<1> QED
  BY <1>1, <1>2, <1>3, <1>4, <1>5, <1>6, <1>7, <1>8, <1>9, <1>10, <1>11, <1>12, <1>13, <1>14, <1>15,
     <1>16, <1>17, <1>18, <1>19, <1>20, <1>21, <1>22, <1>23, <1>u DEF ZFSNext, ToolRuns, Committing,
     Booting

\* Every step keeps the journal with the head it describes.
LEMMA LogTrueStep ==
    ASSUME ZFSTypeOK, PlaceTrue, Sound, Answered, [ZFSNext]_zfsVars
    PROVE  LogTrue'
<1>1. ASSUME NEW j \in Backups, PrepareWork(j) PROVE LogTrue'
  BY <1>1, Sizes, Trees0 DEF PrepareWork, Step, ZFSTypeOK, PlaceTrue, Sound, Answered, JobTrue,
     LogTrue, HistoryTrue, DirtyTrue, Prepared, Taken, Unknown, SnapshotsWhole, Version
<1>2. ASSUME NEW j \in Backups, DeleteRead(j) PROVE LogTrue'
  BY <1>2, Sizes, Trees0 DEF DeleteRead, NoDelete, ZFSTypeOK, PlaceTrue, Sound, Answered, JobTrue,
     LogTrue, HistoryTrue, DirtyTrue, Prepared, Taken, Unknown, SnapshotsWhole, Version
<1>3. ASSUME Transfer PROVE LogTrue'
  BY <1>3, Sizes, Trees0 DEF Transfer, ZFSTypeOK, PlaceTrue, Sound, Answered, JobTrue, LogTrue,
     HistoryTrue, DirtyTrue, Prepared, Taken, Unknown, SnapshotsWhole, Version
<1>4. ASSUME NEW whole \in BOOLEAN, ToolExits(whole) PROVE LogTrue'
  BY <1>4, Sizes, Trees0 DEF ToolExits, Step, ZFSTypeOK, PlaceTrue, Sound, Answered, JobTrue,
     LogTrue, HistoryTrue, DirtyTrue, Prepared, Taken, Unknown, SnapshotsWhole, Version
<1>5. ASSUME JobFails PROVE LogTrue'
  BY <1>5, Sizes, Trees0 DEF JobFails, Ends, Discard, ZFSTypeOK, PlaceTrue, Sound, Answered,
     JobTrue, LogTrue, HistoryTrue, DirtyTrue, Prepared, Taken, Unknown, SnapshotsWhole, Version
<1>6. ASSUME VerifyHead PROVE LogTrue'
  BY <1>6, Sizes, Trees0 DEF VerifyHead, Verify, Ends, Discard, ZFSTypeOK, PlaceTrue, Sound,
     Answered, JobTrue, LogTrue, HistoryTrue, DirtyTrue, Prepared, Taken, Unknown, SnapshotsWhole,
     Version
<1>7. ASSUME WriteMarker PROVE LogTrue'
  BY <1>7, Sizes, Trees0 DEF WriteMarker, Step, ZFSTypeOK, PlaceTrue, Sound, Answered, JobTrue,
     LogTrue, HistoryTrue, DirtyTrue, Prepared, Taken, Unknown, SnapshotsWhole, Version
<1>8. ASSUME WriteJournal PROVE LogTrue'
  <2>1. /\ pc = "journal" /\ pc' = "snapshot" /\ commitLog' = [phase |-> "prepared", ver |-> cur]
        /\ UNCHANGED <<head, snaps, known, cur, verdict, deleting, ever>>
    BY <1>8 DEF WriteJournal, Step
  <2>2. cur \in Backups \ ever /\ known[cur] = "none" /\ verdict[cur] = "running" /\ deleting.ver # cur
    BY <2>1, Sizes DEF Sound, JobTrue, HistoryTrue
  <2>3. head = Version(cur)
    BY <2>1, HeadIs DEF Sound, JobTrue, ZFSTypeOK
  <2>4. Prepared(cur)'
    BY <2>1, <2>2, <2>3 DEF Prepared, Unknown
  <2> QED
    BY <2>1, <2>4 DEF LogTrue
<1>9. ASSUME Snapshot PROVE LogTrue'
  BY <1>9, Sizes, Trees0, TakeFields DEF Snapshot, Step, ZFSTypeOK, PlaceTrue, Sound, Answered,
     JobTrue, LogTrue, HistoryTrue, DirtyTrue, Prepared, Taken, Unknown, SnapshotsWhole
<1>10. ASSUME AdvanceJournal PROVE LogTrue'
  BY <1>10, Sizes, Trees0 DEF AdvanceJournal, Step, ZFSTypeOK, PlaceTrue, Sound, Answered, JobTrue,
     LogTrue, HistoryTrue, DirtyTrue, Prepared, Taken, Unknown, SnapshotsWhole, Version
<1>11. ASSUME RemoveSentinel PROVE LogTrue'
  BY <1>11, Sizes, Trees0 DEF RemoveSentinel, Step, ZFSTypeOK, PlaceTrue, Sound, Answered, JobTrue,
     LogTrue, HistoryTrue, DirtyTrue, Prepared, Taken, Unknown, SnapshotsWhole, Version
<1>12. ASSUME RemoveJournal PROVE LogTrue'
  BY <1>12, Sizes, Trees0 DEF RemoveJournal, Step, NoLog, ZFSTypeOK, PlaceTrue, Sound, Answered,
     JobTrue, LogTrue, HistoryTrue, DirtyTrue, Prepared, Taken, Unknown, SnapshotsWhole, Version
<1>13. ASSUME RegisterVersion PROVE LogTrue'
  BY <1>13, Sizes, Trees0 DEF RegisterVersion, Ends, ZFSTypeOK, PlaceTrue, Sound, Answered, JobTrue,
     LogTrue, HistoryTrue, DirtyTrue, Prepared, Taken, Unknown, SnapshotsWhole, Version
<1>14. ASSUME NEW how \in {"fault", "late"}, SnapshotFails(how) PROVE LogTrue'
  BY <1>14 DEF SnapshotFails, Answered
<1>15. ASSUME SnapshotLate PROVE LogTrue'
  BY <1>15 DEF SnapshotLate, Sound
<1>16. ASSUME ZFSCrash PROVE LogTrue'
  <2>1. pc' = "down" /\ deleting' = NoDelete /\ UNCHANGED <<head, snaps, commitLog, known, verdict, ever>>
    BY <1>16 DEF ZFSCrash
  <2>2. ASSUME NEW v, Unknown(v) PROVE Unknown(v)'
    BY <2>1, <2>2, Sizes DEF Unknown, NoDelete
  <2>3. ASSUME commitLog.phase = "prepared" PROVE Prepared(commitLog.ver)
    BY <2>3, Trees0 DEF Sound, LogTrue, PlaceTrue, ZFSTypeOK, NoLog, Prepared, Taken, Unknown
  <2>4. ASSUME commitLog.phase = "snapshot_created" PROVE Taken(commitLog.ver)
    BY <2>4 DEF Sound, LogTrue, PlaceTrue, ZFSTypeOK, NoLog
  <2> QED
    BY <2>1, <2>2, <2>3, <2>4 DEF LogTrue, Prepared, Taken
<1>17. ASSUME RollForward PROVE LogTrue'
  <2>1. /\ pc = "down" /\ pc' = ResumeAt(commitLog.phase) /\ cur' = commitLog.ver
        /\ UNCHANGED <<head, snaps, commitLog, known, verdict, deleting, ever>>
    BY <1>17 DEF RollForward, Step
  <2>2. CASE commitLog.phase = "none"
    <3>1. pc' = "judge"
      BY <2>1, <2>2 DEF ResumeAt
    <3>2. commitLog = NoLog
      BY <2>2 DEF NoLog, ZFSTypeOK, PlaceTrue
    <3> QED
      BY <2>1, <3>1, <3>2 DEF LogTrue
  <2>3. CASE commitLog.phase = "prepared"
    <3>1. pc' = "snapshot"
      BY <2>1, <2>3 DEF ResumeAt
    <3> QED
      BY <2>1, <2>3, <3>1 DEF LogTrue, Sound, Prepared, Unknown
  <2>4. CASE commitLog.phase = "snapshot_created"
    <3>1. pc' = "clean" /\ commitLog = [phase |-> "snapshot_created", ver |-> commitLog.ver]
      BY <2>1, <2>4 DEF ResumeAt, ZFSTypeOK
    <3> QED
      BY <2>1, <2>4, <3>1 DEF LogTrue, Sound, Taken, Unknown
  <2> QED
    BY <2>2, <2>3, <2>4 DEF ZFSTypeOK
<1>18. ASSUME JudgeOrphans PROVE LogTrue'
  BY <1>18, Sizes, Trees0 DEF JudgeOrphans, Step, ZFSTypeOK, PlaceTrue, Sound, Answered, JobTrue,
     LogTrue, HistoryTrue, DirtyTrue, Prepared, Taken, Unknown, SnapshotsWhole, Version
<1>19. ASSUME ScanDevice PROVE LogTrue'
  BY <1>19, Sizes, Trees0 DEF ScanDevice, ScanRows, Scanned, ZFSTypeOK, PlaceTrue, Sound, Answered,
     JobTrue, LogTrue, HistoryTrue, DirtyTrue, Prepared, Taken, Unknown, SnapshotsWhole, Version
<1>20. ASSUME DestroySnapshot PROVE LogTrue'
  BY <1>20, Sizes, Trees0 DEF DestroySnapshot, Victim, NoSnap, ZFSTypeOK, PlaceTrue, Sound,
     Answered, JobTrue, LogTrue, HistoryTrue, DirtyTrue, Prepared, Taken, Unknown, SnapshotsWhole,
     Version
<1>21. ASSUME DeleteRow PROVE LogTrue'
  BY <1>21, Sizes, Trees0 DEF DeleteRow, NoDelete, ZFSTypeOK, PlaceTrue, Sound, Answered, JobTrue,
     LogTrue, HistoryTrue, DirtyTrue, Prepared, Taken, Unknown, SnapshotsWhole, Version
<1>22. ASSUME HostSnapshot PROVE LogTrue'
  BY <1>22, Sizes, Trees0 DEF HostSnapshot, ZFSTypeOK, PlaceTrue, Sound, Answered, JobTrue, LogTrue,
     HistoryTrue, DirtyTrue, Prepared, Taken, Unknown, SnapshotsWhole, Version
<1>23. ASSUME RepairHead PROVE LogTrue'
  BY <1>23, ResetFields, ResetDoes DEF Sound, LogTrue, NoDelete, Prepared, Taken, Unknown
<1>u. ASSUME UNCHANGED zfsVars PROVE LogTrue'
  BY <1>u, Sizes, Trees0 DEF zfsVars, ZFSTypeOK, PlaceTrue, Sound, Answered, JobTrue, LogTrue,
     HistoryTrue, DirtyTrue, Prepared, Taken, Unknown, SnapshotsWhole, Version
<1> QED
  BY <1>1, <1>2, <1>3, <1>4, <1>5, <1>6, <1>7, <1>8, <1>9, <1>10, <1>11, <1>12, <1>13, <1>14, <1>15,
     <1>16, <1>17, <1>18, <1>19, <1>20, <1>21, <1>22, <1>23, <1>u DEF ZFSNext, ToolRuns, Committing,
     Booting

\* Every step keeps registry and requests to versions that were taken.
LEMMA HistoryTrueStep ==
    ASSUME ZFSTypeOK, PlaceTrue, Sound, Answered, [ZFSNext]_zfsVars
    PROVE  HistoryTrue'
<1>1. ASSUME NEW j \in Backups, PrepareWork(j) PROVE HistoryTrue'
  BY <1>1, Sizes, Trees0 DEF PrepareWork, Step, ZFSTypeOK, PlaceTrue, Sound, Answered, JobTrue,
     LogTrue, HistoryTrue, DirtyTrue, Prepared, Taken, Unknown, SnapshotsWhole, Version
<1>2. ASSUME NEW j \in Backups, DeleteRead(j) PROVE HistoryTrue'
  BY <1>2, Sizes, Trees0 DEF DeleteRead, NoDelete, ZFSTypeOK, PlaceTrue, Sound, Answered, JobTrue,
     LogTrue, HistoryTrue, DirtyTrue, Prepared, Taken, Unknown, SnapshotsWhole, Version
<1>3. ASSUME Transfer PROVE HistoryTrue'
  BY <1>3, Sizes, Trees0 DEF Transfer, ZFSTypeOK, PlaceTrue, Sound, Answered, JobTrue, LogTrue,
     HistoryTrue, DirtyTrue, Prepared, Taken, Unknown, SnapshotsWhole, Version
<1>4. ASSUME NEW whole \in BOOLEAN, ToolExits(whole) PROVE HistoryTrue'
  BY <1>4, Sizes, Trees0 DEF ToolExits, Step, ZFSTypeOK, PlaceTrue, Sound, Answered, JobTrue,
     LogTrue, HistoryTrue, DirtyTrue, Prepared, Taken, Unknown, SnapshotsWhole, Version
<1>5. ASSUME JobFails PROVE HistoryTrue'
  BY <1>5, Sizes, Trees0 DEF JobFails, Ends, Discard, ZFSTypeOK, PlaceTrue, Sound, Answered,
     JobTrue, LogTrue, HistoryTrue, DirtyTrue, Prepared, Taken, Unknown, SnapshotsWhole, Version
<1>6. ASSUME VerifyHead PROVE HistoryTrue'
  BY <1>6, Sizes, Trees0 DEF VerifyHead, Verify, Ends, Discard, ZFSTypeOK, PlaceTrue, Sound,
     Answered, JobTrue, LogTrue, HistoryTrue, DirtyTrue, Prepared, Taken, Unknown, SnapshotsWhole,
     Version
<1>7. ASSUME WriteMarker PROVE HistoryTrue'
  BY <1>7, Sizes, Trees0 DEF WriteMarker, Step, ZFSTypeOK, PlaceTrue, Sound, Answered, JobTrue,
     LogTrue, HistoryTrue, DirtyTrue, Prepared, Taken, Unknown, SnapshotsWhole, Version
<1>8. ASSUME WriteJournal PROVE HistoryTrue'
  BY <1>8, Sizes, Trees0 DEF WriteJournal, Step, ZFSTypeOK, PlaceTrue, Sound, Answered, JobTrue,
     LogTrue, HistoryTrue, DirtyTrue, Prepared, Taken, Unknown, SnapshotsWhole, Version
<1>9. ASSUME Snapshot PROVE HistoryTrue'
  BY <1>9, Sizes, Trees0, TakeFields DEF Snapshot, Step, ZFSTypeOK, PlaceTrue, Sound, Answered,
     JobTrue, LogTrue, HistoryTrue, DirtyTrue, Prepared, Taken, Unknown, SnapshotsWhole
<1>10. ASSUME AdvanceJournal PROVE HistoryTrue'
  BY <1>10, Sizes, Trees0 DEF AdvanceJournal, Step, ZFSTypeOK, PlaceTrue, Sound, Answered, JobTrue,
     LogTrue, HistoryTrue, DirtyTrue, Prepared, Taken, Unknown, SnapshotsWhole, Version
<1>11. ASSUME RemoveSentinel PROVE HistoryTrue'
  BY <1>11, Sizes, Trees0 DEF RemoveSentinel, Step, ZFSTypeOK, PlaceTrue, Sound, Answered, JobTrue,
     LogTrue, HistoryTrue, DirtyTrue, Prepared, Taken, Unknown, SnapshotsWhole, Version
<1>12. ASSUME RemoveJournal PROVE HistoryTrue'
  BY <1>12, Sizes, Trees0 DEF RemoveJournal, Step, NoLog, ZFSTypeOK, PlaceTrue, Sound, Answered,
     JobTrue, LogTrue, HistoryTrue, DirtyTrue, Prepared, Taken, Unknown, SnapshotsWhole, Version
<1>13. ASSUME RegisterVersion PROVE HistoryTrue'
  BY <1>13, Sizes, Trees0 DEF RegisterVersion, Ends, ZFSTypeOK, PlaceTrue, Sound, Answered, JobTrue,
     LogTrue, HistoryTrue, DirtyTrue, Prepared, Taken, Unknown, SnapshotsWhole, Version
<1>14. ASSUME NEW how \in {"fault", "late"}, SnapshotFails(how) PROVE HistoryTrue'
  BY <1>14 DEF SnapshotFails, Answered
<1>15. ASSUME SnapshotLate PROVE HistoryTrue'
  BY <1>15 DEF SnapshotLate, Sound
<1>16. ASSUME ZFSCrash PROVE HistoryTrue'
  BY <1>16, Sizes, Trees0 DEF ZFSCrash, NoDelete, ZFSTypeOK, PlaceTrue, Sound, Answered, JobTrue,
     LogTrue, HistoryTrue, DirtyTrue, Prepared, Taken, Unknown, SnapshotsWhole, Version
<1>17. ASSUME RollForward PROVE HistoryTrue'
  BY <1>17, Sizes, Trees0 DEF RollForward, Step, ResumeAt, ZFSTypeOK, PlaceTrue, Sound, Answered,
     JobTrue, LogTrue, HistoryTrue, DirtyTrue, Prepared, Taken, Unknown, SnapshotsWhole, Version
<1>18. ASSUME JudgeOrphans PROVE HistoryTrue'
  BY <1>18, Sizes, Trees0 DEF JudgeOrphans, Step, ZFSTypeOK, PlaceTrue, Sound, Answered, JobTrue,
     LogTrue, HistoryTrue, DirtyTrue, Prepared, Taken, Unknown, SnapshotsWhole, Version
<1>19. ASSUME ScanDevice PROVE HistoryTrue'
  BY <1>19, Sizes, Trees0 DEF ScanDevice, ScanRows, Scanned, ZFSTypeOK, PlaceTrue, Sound, Answered,
     JobTrue, LogTrue, HistoryTrue, DirtyTrue, Prepared, Taken, Unknown, SnapshotsWhole, Version
<1>20. ASSUME DestroySnapshot PROVE HistoryTrue'
  BY <1>20, Sizes, Trees0 DEF DestroySnapshot, Victim, NoSnap, ZFSTypeOK, PlaceTrue, Sound,
     Answered, JobTrue, LogTrue, HistoryTrue, DirtyTrue, Prepared, Taken, Unknown, SnapshotsWhole,
     Version
<1>21. ASSUME DeleteRow PROVE HistoryTrue'
  BY <1>21, Sizes, Trees0 DEF DeleteRow, NoDelete, ZFSTypeOK, PlaceTrue, Sound, Answered, JobTrue,
     LogTrue, HistoryTrue, DirtyTrue, Prepared, Taken, Unknown, SnapshotsWhole, Version
<1>22. ASSUME HostSnapshot PROVE HistoryTrue'
  BY <1>22, Sizes, Trees0 DEF HostSnapshot, ZFSTypeOK, PlaceTrue, Sound, Answered, JobTrue, LogTrue,
     HistoryTrue, DirtyTrue, Prepared, Taken, Unknown, SnapshotsWhole, Version
<1>23. ASSUME RepairHead PROVE HistoryTrue'
  BY <1>23, ResetFields, ResetDoes DEF Sound, HistoryTrue, NoDelete, Prepared, Taken, Unknown
<1>u. ASSUME UNCHANGED zfsVars PROVE HistoryTrue'
  BY <1>u, Sizes, Trees0 DEF zfsVars, ZFSTypeOK, PlaceTrue, Sound, Answered, JobTrue, LogTrue,
     HistoryTrue, DirtyTrue, Prepared, Taken, Unknown, SnapshotsWhole, Version
<1> QED
  BY <1>1, <1>2, <1>3, <1>4, <1>5, <1>6, <1>7, <1>8, <1>9, <1>10, <1>11, <1>12, <1>13, <1>14, <1>15,
     <1>16, <1>17, <1>18, <1>19, <1>20, <1>21, <1>22, <1>23, <1>u DEF ZFSNext, ToolRuns, Committing,
     Booting

\* Every step keeps a head without a sentinel whole.
LEMMA DirtyTrueStep ==
    ASSUME ZFSTypeOK, PlaceTrue, Sound, Answered, [ZFSNext]_zfsVars
    PROVE  DirtyTrue'
<1>1. ASSUME NEW j \in Backups, PrepareWork(j) PROVE DirtyTrue'
  BY <1>1, Sizes, Trees0 DEF PrepareWork, Step, ZFSTypeOK, PlaceTrue, Sound, Answered, JobTrue,
     LogTrue, HistoryTrue, DirtyTrue, Prepared, Taken, Unknown, SnapshotsWhole, Version
<1>2. ASSUME NEW j \in Backups, DeleteRead(j) PROVE DirtyTrue'
  BY <1>2, Sizes, Trees0 DEF DeleteRead, NoDelete, ZFSTypeOK, PlaceTrue, Sound, Answered, JobTrue,
     LogTrue, HistoryTrue, DirtyTrue, Prepared, Taken, Unknown, SnapshotsWhole, Version
<1>3. ASSUME Transfer PROVE DirtyTrue'
  BY <1>3, Sizes, Trees0 DEF Transfer, ZFSTypeOK, PlaceTrue, Sound, Answered, JobTrue, LogTrue,
     HistoryTrue, DirtyTrue, Prepared, Taken, Unknown, SnapshotsWhole, Version
<1>4. ASSUME NEW whole \in BOOLEAN, ToolExits(whole) PROVE DirtyTrue'
  BY <1>4, Sizes, Trees0 DEF ToolExits, Step, ZFSTypeOK, PlaceTrue, Sound, Answered, JobTrue,
     LogTrue, HistoryTrue, DirtyTrue, Prepared, Taken, Unknown, SnapshotsWhole, Version
<1>5. ASSUME JobFails PROVE DirtyTrue'
  BY <1>5, Sizes, Trees0 DEF JobFails, Ends, Discard, ZFSTypeOK, PlaceTrue, Sound, Answered,
     JobTrue, LogTrue, HistoryTrue, DirtyTrue, Prepared, Taken, Unknown, SnapshotsWhole, Version
<1>6. ASSUME VerifyHead PROVE DirtyTrue'
  BY <1>6, Sizes, Trees0 DEF VerifyHead, Verify, Ends, Discard, ZFSTypeOK, PlaceTrue, Sound,
     Answered, JobTrue, LogTrue, HistoryTrue, DirtyTrue, Prepared, Taken, Unknown, SnapshotsWhole,
     Version
<1>7. ASSUME WriteMarker PROVE DirtyTrue'
  BY <1>7, Sizes, Trees0 DEF WriteMarker, Step, ZFSTypeOK, PlaceTrue, Sound, Answered, JobTrue,
     LogTrue, HistoryTrue, DirtyTrue, Prepared, Taken, Unknown, SnapshotsWhole, Version
<1>8. ASSUME WriteJournal PROVE DirtyTrue'
  BY <1>8, Sizes, Trees0 DEF WriteJournal, Step, ZFSTypeOK, PlaceTrue, Sound, Answered, JobTrue,
     LogTrue, HistoryTrue, DirtyTrue, Prepared, Taken, Unknown, SnapshotsWhole, Version
<1>9. ASSUME Snapshot PROVE DirtyTrue'
  <2>1. head' = head /\ head = Version(cur)
    BY <1>9 DEF Snapshot, Step, Sound, LogTrue, Prepared
  <2> QED
    BY <2>1, VersionWhole DEF DirtyTrue
<1>10. ASSUME AdvanceJournal PROVE DirtyTrue'
  BY <1>10, Sizes, Trees0 DEF AdvanceJournal, Step, ZFSTypeOK, PlaceTrue, Sound, Answered, JobTrue,
     LogTrue, HistoryTrue, DirtyTrue, Prepared, Taken, Unknown, SnapshotsWhole, Version
<1>11. ASSUME RemoveSentinel PROVE DirtyTrue'
  BY <1>11, Sizes, Trees0 DEF RemoveSentinel, Step, ZFSTypeOK, PlaceTrue, Sound, Answered, JobTrue,
     LogTrue, HistoryTrue, DirtyTrue, Prepared, Taken, Unknown, SnapshotsWhole, Version
<1>12. ASSUME RemoveJournal PROVE DirtyTrue'
  BY <1>12, Sizes, Trees0 DEF RemoveJournal, Step, NoLog, ZFSTypeOK, PlaceTrue, Sound, Answered,
     JobTrue, LogTrue, HistoryTrue, DirtyTrue, Prepared, Taken, Unknown, SnapshotsWhole, Version
<1>13. ASSUME RegisterVersion PROVE DirtyTrue'
  BY <1>13, Sizes, Trees0 DEF RegisterVersion, Ends, ZFSTypeOK, PlaceTrue, Sound, Answered, JobTrue,
     LogTrue, HistoryTrue, DirtyTrue, Prepared, Taken, Unknown, SnapshotsWhole, Version
<1>14. ASSUME NEW how \in {"fault", "late"}, SnapshotFails(how) PROVE DirtyTrue'
  BY <1>14 DEF SnapshotFails, Answered
<1>15. ASSUME SnapshotLate PROVE DirtyTrue'
  BY <1>15 DEF SnapshotLate, Sound
<1>16. ASSUME ZFSCrash PROVE DirtyTrue'
  BY <1>16, Sizes, Trees0 DEF ZFSCrash, NoDelete, ZFSTypeOK, PlaceTrue, Sound, Answered, JobTrue,
     LogTrue, HistoryTrue, DirtyTrue, Prepared, Taken, Unknown, SnapshotsWhole, Version
<1>17. ASSUME RollForward PROVE DirtyTrue'
  BY <1>17, Sizes, Trees0 DEF RollForward, Step, ResumeAt, ZFSTypeOK, PlaceTrue, Sound, Answered,
     JobTrue, LogTrue, HistoryTrue, DirtyTrue, Prepared, Taken, Unknown, SnapshotsWhole, Version
<1>18. ASSUME JudgeOrphans PROVE DirtyTrue'
  BY <1>18, Sizes, Trees0 DEF JudgeOrphans, Step, ZFSTypeOK, PlaceTrue, Sound, Answered, JobTrue,
     LogTrue, HistoryTrue, DirtyTrue, Prepared, Taken, Unknown, SnapshotsWhole, Version
<1>19. ASSUME ScanDevice PROVE DirtyTrue'
  BY <1>19, Sizes, Trees0 DEF ScanDevice, ScanRows, Scanned, ZFSTypeOK, PlaceTrue, Sound, Answered,
     JobTrue, LogTrue, HistoryTrue, DirtyTrue, Prepared, Taken, Unknown, SnapshotsWhole, Version
<1>20. ASSUME DestroySnapshot PROVE DirtyTrue'
  BY <1>20, Sizes, Trees0 DEF DestroySnapshot, Victim, NoSnap, ZFSTypeOK, PlaceTrue, Sound,
     Answered, JobTrue, LogTrue, HistoryTrue, DirtyTrue, Prepared, Taken, Unknown, SnapshotsWhole,
     Version
<1>21. ASSUME DeleteRow PROVE DirtyTrue'
  BY <1>21, Sizes, Trees0 DEF DeleteRow, NoDelete, ZFSTypeOK, PlaceTrue, Sound, Answered, JobTrue,
     LogTrue, HistoryTrue, DirtyTrue, Prepared, Taken, Unknown, SnapshotsWhole, Version
<1>22. ASSUME HostSnapshot PROVE DirtyTrue'
  BY <1>22, Sizes, Trees0 DEF HostSnapshot, ZFSTypeOK, PlaceTrue, Sound, Answered, JobTrue, LogTrue,
     HistoryTrue, DirtyTrue, Prepared, Taken, Unknown, SnapshotsWhole, Version
<1>23. ASSUME RepairHead PROVE DirtyTrue'
  <2>1. \A v \in Backups : snaps[v] # NoSnap => snaps[v].whole
    BY VersionWhole DEF Sound, SnapshotsWhole
  <2> QED
    BY <1>23, <2>1, ResetFields, ResetDoes DEF Sound, DirtyTrue
<1>u. ASSUME UNCHANGED zfsVars PROVE DirtyTrue'
  BY <1>u, Sizes, Trees0 DEF zfsVars, ZFSTypeOK, PlaceTrue, Sound, Answered, JobTrue, LogTrue,
     HistoryTrue, DirtyTrue, Prepared, Taken, Unknown, SnapshotsWhole, Version
<1> QED
  BY <1>1, <1>2, <1>3, <1>4, <1>5, <1>6, <1>7, <1>8, <1>9, <1>10, <1>11, <1>12, <1>13, <1>14, <1>15,
     <1>16, <1>17, <1>18, <1>19, <1>20, <1>21, <1>22, <1>23, <1>u DEF ZFSNext, ToolRuns, Committing,
     Booting

\* Every step leaves a reset under way alone with the head.
LEMMA ResetTrueStep ==
    ASSUME ZFSTypeOK, PlaceTrue, Sound, Answered, [ZFSNext]_zfsVars
    PROVE  ResetTrue'
<1>1. CASE RepairHead
  BY <1>1, ResetDoes
<1>2. CASE resetting.at = "none" /\ UNCHANGED <<resetting, lateBack>>
  BY <1>2 DEF Sound, ResetTrue
<1>3. CASE resetting' = NoReset /\ UNCHANGED lateBack
  BY <1>3 DEF Sound, ResetTrue, NoReset
<1>4. CASE pc = "idle" /\ pc' = "idle" /\ UNCHANGED <<resetting, lateBack, head>>
           /\ \A v \in Backups : snaps[v] = NoSnap => snaps'[v] = NoSnap
  BY <1>4 DEF Sound, ResetTrue
<1>5. ASSUME ~RepairHead, resetting.at # "none" PROVE pc = "idle"
  BY <1>5 DEF Sound, ResetTrue
<1>6. ASSUME NEW j \in Backups, PrepareWork(j) PROVE resetting.at = "none" /\ UNCHANGED <<resetting, lateBack>>
  BY <1>6 DEF PrepareWork, Answered, NoReset
<1>7. ASSUME DestroySnapshot PROVE \A v \in Backups : snaps[v] = NoSnap => snaps'[v] = NoSnap
  BY <1>7 DEF DestroySnapshot, ZFSTypeOK
<1>8. ASSUME ~RepairHead, pc = "idle", ~\E j \in Backups : PrepareWork(j), ~DestroySnapshot
      PROVE  \/ resetting' = NoReset /\ UNCHANGED lateBack
             \/ pc' = "idle" /\ UNCHANGED <<resetting, lateBack, head, snaps>>
  BY <1>8 DEF Sound, Answered, ZFSNext, ToolRuns, Committing, Booting, zfsVars, DeleteRead,
     Transfer, ToolExits, JobFails, Step,
     VerifyHead, WriteMarker, WriteJournal, Snapshot, AdvanceJournal, RemoveSentinel, RemoveJournal, RegisterVersion,
     SnapshotFails, SnapshotLate, ZFSCrash, RollForward, JudgeOrphans, ScanDevice, DeleteRow, HostSnapshot
<1>9. ASSUME ~RepairHead, pc # "idle"
      PROVE  UNCHANGED lateBack /\ (UNCHANGED resetting \/ resetting' = NoReset)
  BY <1>9 DEF ZFSNext, ToolRuns, Committing, Booting, zfsVars, PrepareWork, DeleteRead,
     Transfer, ToolExits, JobFails, Step,
     VerifyHead, WriteMarker, WriteJournal, Snapshot, AdvanceJournal, RemoveSentinel, RemoveJournal, RegisterVersion,
     SnapshotFails, SnapshotLate, ZFSCrash, RollForward, JudgeOrphans, ScanDevice, DestroySnapshot, DeleteRow,
     HostSnapshot
<1>10. DestroySnapshot => UNCHANGED <<resetting, lateBack, head, pc>>
  BY DEF DestroySnapshot
<1> QED
  BY <1>1, <1>2, <1>3, <1>4, <1>5, <1>6, <1>7, <1>8, <1>9, <1>10

-----------------------------------------------------------------------------
(* The zfs store: theorems                                                 *)

\* What may fail does not change while the system runs.
LEMMA AnsweredKept ==
    ASSUME ZFSTypeOK, [ZFSNext]_zfsVars
    PROVE  Answered' <=> Answered
<1>1. zmix' = zmix \/ zmix'.may = zmix.may
  BY MixFields DEF ZFSNext, ToolRuns, Committing, Booting, zfsVars, ZFSTypeOK, PrepareWork,
     DeleteRead, Transfer, ToolExits, JobFails,
     VerifyHead, WriteMarker, WriteJournal, Snapshot, AdvanceJournal, RemoveSentinel, RemoveJournal, RegisterVersion,
     SnapshotFails, SnapshotLate, ZFSCrash, RollForward, JudgeOrphans, ScanDevice, DestroySnapshot, DeleteRow,
     HostSnapshot, RepairHead
<1> QED
  BY <1>1 DEF Answered

\* Where no command takes effect late, none is outstanding.
LEMMA LateKept ==
    ASSUME Sound, Answered, [ZFSNext]_zfsVars
    PROVE  late' = 0
  BY DEF Sound, Answered, ZFSNext, ToolRuns, Committing, Booting, zfsVars, PrepareWork, DeleteRead,
     Transfer, ToolExits, JobFails,
     VerifyHead, WriteMarker, WriteJournal, Snapshot, AdvanceJournal, RemoveSentinel, RemoveJournal, RegisterVersion,
     SnapshotFails, SnapshotLate, ZFSCrash, RollForward, JudgeOrphans, ScanDevice, DestroySnapshot, DeleteRow,
     HostSnapshot, RepairHead

\* Every step keeps the invariant.
LEMMA ZInvStep == ZFSTypeOK /\ ZFSInv /\ [ZFSNext]_zfsVars => ZFSTypeOK' /\ ZFSInv'
<1> SUFFICES ASSUME ZFSTypeOK, ZFSInv, [ZFSNext]_zfsVars PROVE ZFSTypeOK' /\ ZFSInv'
  OBVIOUS
<1>1. PlaceTrue /\ (Answered => Sound)
  BY DEF ZFSInv, Sound, DirtyTrue
<1>2. ZFSTypeOK' /\ PlaceTrue'
  BY <1>1, ZTypeStep, PlaceStep
<1>3. ASSUME Answered' PROVE Sound'
  <2>1. Answered /\ Sound
    BY <1>1, <1>3, AnsweredKept
  <2> QED
    BY <1>1, <2>1, LateKept, SnapshotsWholeStep, JobTrueStep, LogTrueStep, HistoryTrueStep,
       ResetTrueStep, DirtyTrueStep DEF Sound
<1> QED
  BY <1>2, <1>3 DEF ZFSInv, Sound, DirtyTrue

\* The invariant holds at start-up.
LEMMA ZInvInit == ZFSInit(ZFSMixes) => ZFSInv
<1> SUFFICES ASSUME ZFSInit(ZFSMixes) PROVE ZFSInv
  OBVIOUS
<1>1. PlaceTrue
  BY DEF ZFSInit, PlaceTrue, NoLog, NoReset
<1>2. SnapshotsWhole /\ JobTrue /\ LogTrue /\ HistoryTrue /\ ResetTrue /\ late = 0
  BY DEF ZFSInit, SnapshotsWhole, JobTrue, LogTrue, HistoryTrue, ResetTrue, NoLog, NoDelete, NoReset
<1>3. head.whole
  BY DEF ZFSInit, NoTree
<1> QED
  BY <1>1, <1>2, <1>3 DEF ZFSInv

\* Types, where each snapshot and marker can be, and, when every command answers
\* what it did, what the job, the registry and the history know.
THEOREM ZFSInvariant == ZFSSpec => [](ZFSTypeOK /\ ZFSInv)
  BY ZTypeInit, ZInvInit, ZInvStep, PTL DEF ZFSSpec

\* As long as no command fails or takes effect late and no job meets a reset, a
\* snapshot under a version's name is that backup, whole, over any crashes, resets
\* cut short anywhere, and clocks.
THEOREM SnapshotsAreWhole == ZFSSpec => [](Answered => SnapshotsWhole)
<1>1. ZFSInv => (Answered => SnapshotsWhole)
  BY DEF ZFSInv
<1> QED
  BY <1>1, ZFSInvariant, PTL

\* Under the same condition a dataset that has a version and is not marked dirty
\* holds a whole backup: the next backup may go on from it.
THEOREM CleanHeadIsWhole == ZFSSpec => [](Answered => CleanIsWhole)
<1>1. ZFSInv => (Answered => CleanIsWhole)
  BY DEF ZFSInv, CleanIsWhole
<1> QED
  BY <1>1, ZFSInvariant, PTL

\* Between backups only a reset writes the head.
LEMMA HeadWriters ==
    ASSUME [ZFSNext]_zfsVars, pc = "idle"
    PROVE  UNCHANGED head \/ RepairHead
  BY DEF ZFSNext, ToolRuns, Committing, Booting, zfsVars, PrepareWork, DeleteRead, Transfer,
     ToolExits, JobFails, Step,
     VerifyHead, WriteMarker, WriteJournal, Snapshot, AdvanceJournal, RemoveSentinel, RemoveJournal, RegisterVersion,
     SnapshotFails, SnapshotLate, ZFSCrash, RollForward, JudgeOrphans, ScanDevice, DestroySnapshot, DeleteRow,
     HostSnapshot

\* A reset that changes the head puts back the snapshot taken last, or empties
\* one that has none, whatever the clock in the names says, what is deleted
\* between its list and its rollback and what the host snapshots itself
\* (RepairWorkingCopy), when commands are answered and no job meets it.
THEOREM ResetsRestore == ZFSSpec /\ Answered => ResetRestores
<1> DEFINE Restores == /\ snaps' = snaps
                       /\ \/ (head' = NoTree \/ ~head'.whole) /\ \A v \in Backups : snaps[v] = NoSnap
                          \/ \E v \in Backups : head' = snaps[v] /\ Last(order) = v
<1>1. ASSUME ZFSTypeOK, ZFSInv, Answered, [ZFSNext]_zfsVars, pc = "idle", head' # head
      PROVE  Restores
  <2>1. RepairHead /\ PlaceTrue /\ Sound
    BY <1>1, HeadWriters DEF ZFSInv, Sound, DirtyTrue
  <2> QED
    BY <1>1, <2>1, ResetDoes, ResetFields
<1>2. ZFSTypeOK /\ ZFSInv /\ Answered /\ [ZFSNext]_zfsVars => [pc = "idle" /\ head' # head => Restores]_zfsVars
  BY <1>1
<1>3. ZFSTypeOK /\ Answered /\ [ZFSNext]_zfsVars => Answered'
  BY AnsweredKept
<1> QED
  BY <1>2, <1>3, ZFSInvariant, PTL DEF ZFSSpec, ResetRestores

-----------------------------------------------------------------------------
Kept == {v \in Backups : snaps[v] = Version(v)}

\* Every step of the store is a step of the ledger, or none.
LEMMA ZLedgerStep ==
    ASSUME ZFSTypeOK, ZFSInv, Answered, [ZFSNext]_zfsVars
    PROVE  [ZFSLedger!Next]_(ZFSLedger!ledgerVars)
<1>s. Sound /\ PlaceTrue
  BY DEF ZFSInv, Sound, DirtyTrue
<1>n. ASSUME UNCHANGED <<snaps, ever, condemned>> PROVE UNCHANGED <<Kept, ever, condemned>>
  BY <1>n DEF Kept
<1>1. ASSUME Snapshot
      PROVE  UNCHANGED <<Kept, ever, condemned>> \/ \E v \in Backups : ZFSLedger!Commit(v)
  <2>1. cur \in Backups /\ Take(cur) /\ Prepared(cur) /\ UNCHANGED condemned
    BY <1>1, <1>s DEF Snapshot, Step, Sound, LogTrue, Prepared, Unknown
  <2>2. CASE snaps' = snaps /\ ever' = ever
    BY <2>1, <2>2 DEF Kept
  <2>3. CASE snaps[cur] = NoSnap /\ snaps' = [snaps EXCEPT ![cur] = head] /\ ever' = ever \cup {cur}
    <3>1. cur \notin ever /\ head = Version(cur)
      BY <2>1, <2>3 DEF Prepared
    <3>2. Kept' = Kept \cup {cur}
      BY <2>1, <2>3, <3>1 DEF Kept, ZFSTypeOK
    <3> QED
      BY <2>1, <2>3, <3>1, <3>2 DEF ZFSLedger!Commit, Kept
  <2> QED
    BY <2>1, <2>2, <2>3, TakeFields
<1>2. ASSUME NEW v \in Backups, DeleteRead(v) PROVE \E S \in SUBSET Backups : ZFSLedger!Condemn(S)
  <2>1. condemned' = condemned \cup {v} /\ UNCHANGED <<snaps, ever>> /\ {v} \in SUBSET Backups
    BY <1>2 DEF DeleteRead
  <2> QED
    BY <2>1 DEF ZFSLedger!Condemn
<1>3. ASSUME DestroySnapshot
      PROVE  UNCHANGED <<Kept, ever, condemned>> \/ \E v \in Backups : ZFSLedger!Drop(v)
  <2> DEFINE v == deleting.ver
  <2>1. /\ v \in Backups /\ v \in condemned /\ snaps' = [snaps EXCEPT ![v] = NoSnap] /\ UNCHANGED <<ever, condemned>>
    BY <1>3, <1>s, Sizes DEF DestroySnapshot, Victim, Sound, HistoryTrue, ZFSTypeOK
  <2> HIDE DEF v
  <2>2. Kept' = Kept \ {v}
    BY <2>1, Trees0 DEF Kept, ZFSTypeOK
  <2>3. CASE v \in Kept
    BY <2>1, <2>2, <2>3 DEF ZFSLedger!Drop, Kept
  <2> QED
    BY <2>1, <2>2, <2>3
<1>4. ASSUME ~Snapshot, ~DestroySnapshot, ~\E v \in Backups : DeleteRead(v)
      PROVE  UNCHANGED <<snaps, ever, condemned>>
  BY <1>4, <1>s DEF Sound, Answered, ZFSNext, ToolRuns, Committing, Booting, zfsVars, PrepareWork,
     Transfer, ToolExits, JobFails,
     VerifyHead, WriteMarker, WriteJournal, AdvanceJournal, RemoveSentinel, RemoveJournal, RegisterVersion,
     SnapshotFails, SnapshotLate, ZFSCrash, RollForward, JudgeOrphans, ScanDevice, DeleteRow,
     HostSnapshot, RepairHead
<1> QED
  BY <1>n, <1>1, <1>2, <1>3, <1>4 DEF ZFSLedger!Next, ZFSLedger!ledgerVars, Kept

\* The zfs store implements the ledger of versions the engine relies on: a
\* version is recorded once, whole, and only a deletion removes it.
THEOREM ZFSImplementsLedger == ZFSSpec /\ Answered => ZFSLedgerSpec
<1>1. ZFSInit(ZFSMixes) => ZFSLedger!Init
  BY Trees0 DEF ZFSInit, ZFSLedger!Init
<1>2. ZFSTypeOK /\ Answered /\ [ZFSNext]_zfsVars => Answered'
  BY AnsweredKept
<1>3. ZFSTypeOK /\ ZFSInv /\ Answered /\ [ZFSNext]_zfsVars => [ZFSLedger!Next]_(ZFSLedger!ledgerVars)
  BY ZLedgerStep
<1> QED
  BY <1>1, <1>2, <1>3, ZFSInvariant, PTL DEF ZFSSpec, ZFSLedgerSpec, ZFSLedger!Spec
=============================================================================
