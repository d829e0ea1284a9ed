---------------------------- MODULE StorageSlots ----------------------------
(***************************************************************************)
(* config.yml and the storages it declares, as the process lives with      *)
(* them: the document on disk, which an operator edits by hand; the        *)
(* running configuration, written by requests and by the poller under      *)
(* writeMu; the appliers run before writeMu is released; the slot list the *)
(* storage manager serves; the storages rows and the identity markers on   *)
(* the media; and the recheck and forget requests that work on them        *)
(* outside writeMu.                                                        *)
(*                                                                         *)
(* A document is the storages it declares, its default and one more        *)
(* setting, which stands for every section with an applier of its own.     *)
(* Text, comments and undeclared keys are left out.                        *)
(***************************************************************************)
EXTENDS Naturals

CONSTANTS
    Names, Paths,  \* storages that can be declared, and where
    Removable,     \* the paths whose media come and go
    Edits,         \* documents the operator writes by hand
    Puts,          \* documents clients send whole
    Rechecks,      \* bound: recheck requests in flight
    MaxIds,        \* bound: identities ever minted
    Mixes          \* the sets of requests and faults that may meet in one behaviour

Docs == [kind : {"doc"}, at : [Names -> Paths \cup {"none"}], def : Names \cup {"none"}, knob : BOOLEAN]
Declared(d) == {n \in Names : d.at[n] # "none"}
Default == [kind |-> "doc", at |-> [n \in Names |-> "none"], def |-> "none", knob |-> FALSE]
Bad == [Default EXCEPT !.kind = "bad"]        \* a file that does not parse or validate
Absent == [Default EXCEPT !.kind = "absent"]  \* no file

\* Validate and ResolveStorages: one default among what is declared, no path twice.
Validate(d) ==
    /\ IF Declared(d) = {} THEN d.def = "none" ELSE d.def \in Declared(d)
    /\ \A n, o \in Declared(d) : d.at[n] = d.at[o] => n = o

\* What may happen: the requests; "edit", "break" and "vanish" of the file by
\* hand; AtomicWrite, and the writes of a row, failing; media coming and going.
Kinds == {"put", "add", "default", "section", "forget", "recheck", "job",
          "edit", "break", "vanish", "write", "row", "media"}

ASSUME SlotsAssumption ==
    /\ MaxIds \in Nat \ {0} /\ Mixes \subseteq SUBSET Kinds
    /\ "none" \notin Names \cup Paths /\ "apply" \notin Rechecks
    /\ Removable \subseteq Paths /\ Edits \subseteq Docs /\ Puts \subseteq Docs /\ \A d \in Edits : Validate(d)

VARIABLES
    file,             \* config.yml: a document, Bad or Absent
    cfg, last,        \* Service.cfg, and the bytes it last adopted or refused
    discarded,        \* Service.discarded: the last file read was refused
    w,                \* the holder of writeMu
    knob,             \* what the other subsystem's applier last set
    slots,            \* Manager.slots
    rows, media,      \* the storages table; the file systems at each path
    nextId,
    dropped,          \* history: names whose row went while they were in use
    res,              \* calls of resolveSlot in flight
    forget,           \* a DELETE /api/config/storage/{name}
    jobs, versions,   \* storage ids jobs are bound to; ids with a committed version
    raced,            \* history: names whose row or slot two calls worked on at once
    mix               \* the kinds of step of this behaviour

cfgVars == <<file, cfg, last, discarded>>
diskVars == <<rows, media, nextId, dropped>>
workVars == <<forget, jobs, versions>>
vars == <<cfgVars, w, knob, slots, diskVars, res, workVars, raced, mix>>

Actors == {"apply"} \cup Rechecks
NoSlot == [root |-> "none", id |-> 0, ok |-> FALSE]
Rest == [at |-> "idle", name |-> "none", path |-> "none", known |-> 0, id |-> 0, ok |-> FALSE]
Free == [at |-> "free", op |-> "none", old |-> Default, next |-> Default, todo |-> {},
         built |-> [n \in Names |-> NoSlot]]
NoForget == [at |-> "idle", name |-> "none"]

Ids == 0..MaxIds
Slot == [root : Paths \cup {"none"}, id : Ids, ok : BOOLEAN]
Media == [at : {"disk", "bare", "gone"}, disk : Ids, under : Ids]
Resolving == [at : {"idle", "known", "probe", "mint", "upsert", "done"}, name : Names \cup {"none"},
              path : Paths \cup {"none"}, known : Ids, id : Ids, ok : BOOLEAN]
Writer == [at : {"free", "load", "write", "set", "slots", "knob"},
           op : {"none", "put", "add", "default", "section", "forget", "reload"},
           old : Docs, next : Docs, todo : SUBSET Names, built : [Names -> Slot]]

TypeOK ==
    /\ file \in Docs \cup {Bad, Absent} /\ cfg \in Docs /\ last \in Docs \cup {Bad, Absent}
    /\ discarded \in BOOLEAN /\ knob \in BOOLEAN
    /\ w \in Writer /\ slots \in [Names -> Slot] /\ media \in [Paths -> Media]
    /\ rows \in [Names -> Ids] /\ nextId \in 1..MaxIds + 1
    /\ res \in [Actors -> Resolving]
    /\ forget \in [at : {"idle", "checked", "row"}, name : Names \cup {"none"}]
    /\ jobs \subseteq Ids /\ versions \subseteq Ids /\ raced \subseteq Names /\ dropped \subseteq Names /\ mix \in Mixes

Init ==
    /\ file \in {d \in Edits : Declared(d) # {}} \cup {Absent}
    /\ cfg = (IF file = Absent THEN Default ELSE file) /\ last = file
    /\ discarded = FALSE /\ w = Free /\ knob = cfg.knob
    /\ slots = [n \in Names |-> [root |-> cfg.at[n], id |-> 0, ok |-> FALSE]]
    /\ rows = [n \in Names |-> 0] /\ nextId = 1
    /\ media = [p \in Paths |-> [at |-> "disk", disk |-> 0, under |-> 0]]
    /\ res = [a \in Actors |-> Rest] /\ forget = NoForget
    /\ jobs = {} /\ versions = {} /\ raced = {} /\ dropped = {} /\ mix \in Mixes

-----------------------------------------------------------------------------
(* resolveSlot: the row, the marker, and the creation moment               *)

Set(a, r) == res' = [res EXCEPT ![a] = r]
Start(a, n, p) == Set(a, [Rest EXCEPT !.at = "known", !.name = n, !.path = p])
Refused(a) == Set(a, [res[a] EXCEPT !.at = "done", !.ok = FALSE])
Overlap(n) == \E a, b \in Actors : a # b /\ res[a].name = n /\ res[b].name = n
              /\ res[a].at # "idle" /\ res[b].at # "idle"
Mark == raced' = raced \cup {n \in Names : Overlap(n)}

ReadRow(a) ==
    /\ res[a].at = "known"
    /\ Set(a, [res[a] EXCEPT !.at = "probe", !.known = rows[res[a].name], !.id = rows[res[a].name]])
    /\ Mark /\ UNCHANGED <<cfgVars, w, knob, slots, diskVars, workVars>>

Marker(p) == IF media[p].at = "disk" THEN media[p].disk ELSE media[p].under

\* A bare mountpoint under a known storage is not taken for a new one.
CreationMoment(known) == known = 0

ProbePath(a) ==
    /\ res[a].at = "probe"
    /\ LET p == res[a].path IN
       \/ media[p].at = "gone" /\ Refused(a)
       \/ /\ media[p].at # "gone" /\ Marker(p) # 0
          /\ Set(a, [res[a] EXCEPT !.at = "upsert", !.id = Marker(p)])
       \/ /\ media[p].at # "gone" /\ Marker(p) = 0
          /\ IF CreationMoment(res[a].known) THEN Set(a, [res[a] EXCEPT !.at = "mint"]) ELSE Refused(a)
       \/ "media" \in mix /\ Refused(a)    \* another backend's medium, a marker that fails its checksum
    /\ Mark /\ UNCHANGED <<cfgVars, w, knob, slots, diskVars, workVars>>

\* WriteStorageMarker, on whatever is mounted there now.
Mint(a) ==
    /\ res[a].at = "mint"
    /\ LET p == res[a].path IN
       \/ (media[p].at = "gone" \/ nextId > MaxIds) /\ Refused(a) /\ UNCHANGED <<media, nextId>>
       \/ /\ media[p].at # "gone" /\ nextId <= MaxIds
          /\ media' = [media EXCEPT ![p] = IF @.at = "disk" THEN [@ EXCEPT !.disk = nextId]
                                                             ELSE [@ EXCEPT !.under = nextId]]
          /\ nextId' = nextId + 1
          /\ Set(a, [res[a] EXCEPT !.at = "upsert", !.id = nextId])
    /\ Mark /\ UNCHANGED <<cfgVars, w, knob, slots, rows, dropped, workVars>>

\* Mutation: a storage whose row did not persist is opened all the same.
UpsertFailsOpen(a) == Set(a, [res[a] EXCEPT !.at = "done", !.ok = TRUE])
UpsertFails(a) == Refused(a)

\* COALESCE: an identity on record is never replaced.
Recorded(row, id) == IF row = 0 THEN id ELSE row

UpsertStorage(a) ==
    /\ res[a].at = "upsert"
    /\ \/ /\ rows' = [rows EXCEPT ![res[a].name] = Recorded(@, res[a].id)]
          /\ Set(a, [res[a] EXCEPT !.at = "done", !.ok = TRUE])
       \/ "row" \in mix /\ UpsertFails(a) /\ UNCHANGED rows
    /\ Mark /\ UNCHANGED <<cfgVars, w, knob, slots, media, nextId, dropped, workVars>>

SlotOf(r) == [root |-> r.path, id |-> r.id, ok |-> r.ok]

-----------------------------------------------------------------------------
(* The writers of the configuration, one at a time under writeMu           *)

Unlocked == w.at = "free"
Release == w' = Free

\* Mutation: a storage that moved is not a change.
FirstApplierDefault(old, next) == IF old.def # next.def THEN "slots" ELSE "knob"
\* The two appliers, in the order they subscribed; each looks at its own section.
FirstApplier(old, next) ==
    IF old.at # next.at \/ old.def # next.def THEN "slots" ELSE "knob"
Apply(old, next) ==
    w' = [Free EXCEPT !.at = FirstApplier(old, next), !.op = w.op, !.old = old, !.next = next,
                      !.todo = Declared(next)]

\* replaceLocked up to the write: the last storage is never saved away.
Save(op, next) ==
    /\ Unlocked /\ Validate(next)
    /\ Declared(cfg) # {} => Declared(next) # {}
    /\ w' = [Free EXCEPT !.at = "write", !.op = op, !.old = cfg, !.next = next]
    /\ UNCHANGED <<cfgVars, knob, slots, diskVars, res, jobs, versions, raced>>

Replace(d) == Save("put", d) /\ UNCHANGED forget

AddStorage(n, p) ==
    /\ ~discarded /\ cfg.at[n] = "none" /\ \A o \in Names : cfg.at[o] # p
    /\ Save("add", [cfg EXCEPT !.at[n] = p, !.def = IF Declared(cfg) = {} THEN n ELSE @])
    /\ UNCHANGED forget

SetDefaultStorage(n) ==
    /\ cfg.at[n] # "none" /\ Save("default", [cfg EXCEPT !.def = n]) /\ UNCHANGED forget

\* SetAllowInsecureTransport and SetTLSFiles: one section, over what is running.
SetSection(v) ==
    /\ ~discarded /\ Save("section", [cfg EXCEPT !.knob = v]) /\ UNCHANGED forget

\* AtomicWrite: the file is replaced or left alone.
WriteFile ==
    /\ w.at = "write"
    /\ \/ file' = w.next /\ w' = [w EXCEPT !.at = "set"] /\ UNCHANGED forget
       \/ /\ "write" \in mix /\ Release /\ UNCHANGED file
          /\ forget' = IF w.op = "forget" THEN NoForget ELSE forget
    /\ UNCHANGED <<cfg, last, discarded, knob, slots, diskVars, res, jobs, versions, raced>>

\* Mutation: the banner of a refused file stays.
UndiscardNever == UNCHANGED discarded
Undiscard == discarded' = FALSE

Adopt ==
    /\ w.at = "set"
    /\ cfg' = w.next /\ last' = w.next /\ Undiscard
    /\ Apply(w.old, w.next)
    /\ UNCHANGED <<file, knob, slots, diskVars, res, workVars, raced>>

\* Loaded.Raw: the bytes the adopted document was parsed from.
Remembered(doc) == doc

\* The poller: read, and compare with what was adopted last ...
ReloadRead ==
    /\ Unlocked /\ file # Absent /\ file # last
    /\ w' = [Free EXCEPT !.at = "load", !.op = "reload", !.old = cfg,
                         !.next = IF file = Bad THEN cfg ELSE file]
    /\ UNCHANGED <<cfgVars, knob, slots, diskVars, res, workVars, raced>>

Refuses(d) == d = Bad

\* ... then Load, which reads the file again: no file is the defaults.
ReloadLoad ==
    /\ w.at = "load"
    /\ \/ /\ Refuses(file) /\ last' = file /\ discarded' = TRUE /\ Release /\ UNCHANGED cfg
       \/ /\ file # Absent /\ ~Refuses(file) /\ cfg' = file /\ last' = Remembered(file) /\ Undiscard
          /\ Apply(cfg, file)
       \/ /\ file = Absent /\ cfg' = Default /\ last' = Absent /\ Undiscard
          /\ Apply(cfg, Default)
    /\ UNCHANGED <<file, knob, slots, diskVars, res, workVars, raced>>

-----------------------------------------------------------------------------
(* The appliers                                                            *)

ApplierResolves ==
    /\ w.at = "slots" /\ res["apply"].at = "idle" /\ w.todo # {}
    /\ \E n \in w.todo : Start("apply", n, w.next.at[n]) /\ w' = [w EXCEPT !.todo = @ \ {n}]
    /\ Mark /\ UNCHANGED <<cfgVars, knob, slots, diskVars, workVars>>

ApplierResolved ==
    /\ w.at = "slots" /\ res["apply"].at = "done"
    /\ w' = [w EXCEPT !.built[res["apply"].name] = SlotOf(res["apply"])]
    /\ Set("apply", Rest)
    /\ Mark /\ UNCHANGED <<cfgVars, knob, slots, diskVars, workVars>>

Rechecking == {res[a].name : a \in {b \in Rechecks : res[b].at # "idle"}}

KeepsServing(next) == Declared(next) = {}

\* ApplyStorages swaps the list, except for an empty one.
ApplyStorages ==
    /\ w.at = "slots" /\ w.todo = {} /\ res["apply"].at = "idle"
    /\ slots' = IF KeepsServing(w.next) THEN slots ELSE w.built
    /\ w' = [w EXCEPT !.at = "knob"]
    /\ raced' = raced \cup Rechecking
    /\ UNCHANGED <<cfgVars, knob, diskVars, res, workVars>>

ApplyKnob == knob' = w.next.knob

\* The last applier returns and writeMu is released; a forget goes on to its row.
FinishWrite ==
    /\ w.at = "knob" /\ ApplyKnob /\ Release
    /\ forget' = IF w.op = "forget" THEN [forget EXCEPT !.at = "row"] ELSE forget
    /\ UNCHANGED <<cfgVars, slots, diskVars, res, jobs, versions, raced>>

-----------------------------------------------------------------------------
(* Requests that work outside writeMu                                      *)

\* RecheckStorage: known to the list, resolved from the running configuration
\* with no lock held ...
Recheck(a, n) ==
    /\ a \in Rechecks /\ res[a].at = "idle" /\ slots[n].root # "none" /\ cfg.at[n] # "none"
    /\ Start(a, n, cfg.at[n])
    /\ raced' = IF w.at = "slots" THEN raced \cup {n} ELSE raced
    /\ UNCHANGED <<cfgVars, w, knob, slots, diskVars, workVars>>

\* ... and written back by name, if the name is still in the list.
RecheckWrite(a) ==
    /\ a \in Rechecks /\ res[a].at = "done"
    /\ LET n == res[a].name IN
       slots' = IF slots[n].root # "none" THEN [slots EXCEPT ![n] = SlotOf(res[a])] ELSE slots
    /\ Set(a, Rest)
    /\ Mark /\ UNCHANGED <<cfgVars, w, knob, diskVars, workVars>>

\* versionsBlockingForget, before and outside writeMu.
BlocksForget(n) == rows[n] # 0 /\ rows[n] \in versions
JobsRunningOn(n) == slots[n].root # "none" /\ slots[n].id \in jobs

ForgetCheck(n) ==
    /\ forget.at = "idle" /\ ~BlocksForget(n)
    /\ forget' = [at |-> "checked", name |-> n]
    /\ UNCHANGED <<cfgVars, w, knob, slots, diskVars, res, jobs, versions, raced>>

\* ForgetStorage: not the default, and nobody writing to it now.
ForgetStorage ==
    /\ forget.at = "checked" /\ Unlocked
    /\ LET n == forget.name IN
       IF cfg.at[n] # "none" /\ cfg.def # n /\ ~JobsRunningOn(n)
       THEN Save("forget", [cfg EXCEPT !.at[n] = "none"]) /\ UNCHANGED forget
       ELSE /\ forget' = NoForget
            /\ UNCHANGED <<cfgVars, w, knob, slots, diskVars, res, jobs, versions, raced>>

InUse(n) == cfg.at[n] # "none" \/ slots[n].root # "none" \/ n \in Rechecking \/ res["apply"].name = n

\* DeleteStorage, after writeMu is released; a failure is a warning in the answer.
ForgetRow ==
    /\ forget.at = "row"
    /\ LET n == forget.name
           used == {m \in {n} : InUse(m)} IN
       \/ /\ rows' = [rows EXCEPT ![n] = 0]
          /\ raced' = raced \cup used /\ dropped' = dropped \cup used
       \/ "row" \in mix /\ UNCHANGED <<rows, raced, dropped>>
    /\ forget' = NoForget
    /\ UNCHANGED <<cfgVars, w, knob, slots, media, nextId, res, jobs, versions>>

\* BindJobStorage, and what becomes of the job: jobSlot resolves the id again.
BindJobStorage(n) ==
    /\ slots[n].ok /\ slots[n].id \notin jobs /\ jobs' = jobs \cup {slots[n].id}
    /\ UNCHANGED <<cfgVars, w, knob, slots, diskVars, res, forget, versions, raced>>
JobEnds(i) ==
    /\ i \in jobs /\ jobs' = jobs \ {i}
    /\ \/ UNCHANGED versions
       \/ (\E n \in Names : slots[n].ok /\ slots[n].id = i) /\ versions' = versions \cup {i}
    /\ UNCHANGED <<cfgVars, w, knob, slots, diskVars, res, forget, raced>>

-----------------------------------------------------------------------------
(* The operator                                                            *)

EditFile(d) ==
    /\ file # d /\ file' = d
    /\ UNCHANGED <<cfg, last, discarded, w, knob, slots, diskVars, res, workVars, raced>>

Mount(p, how) ==
    /\ "media" \in mix /\ p \in Removable /\ media[p].at # how /\ media' = [media EXCEPT ![p].at = how]
    /\ UNCHANGED <<cfgVars, w, knob, slots, rows, nextId, dropped, res, workVars, raced>>

Resolve(a) == ReadRow(a) \/ ProbePath(a) \/ Mint(a) \/ UpsertStorage(a)
Writing == WriteFile \/ Adopt \/ ReloadLoad \/ ApplierResolves \/ ApplierResolved
           \/ ApplyStorages \/ FinishWrite
Asking ==
    \/ "put" \in mix /\ \E d \in Puts : Replace(d)
    \/ "add" \in mix /\ \E n \in Names, p \in Paths : AddStorage(n, p)
    \/ "default" \in mix /\ \E n \in Names : SetDefaultStorage(n)
    \/ "forget" \in mix /\ \E n \in Names : ForgetCheck(n)
    \/ "job" \in mix /\ \E n \in Names : BindJobStorage(n)
    \/ "recheck" \in mix /\ \E n \in Names, a \in Rechecks : Recheck(a, n)
    \/ "section" \in mix /\ SetSection(~cfg.knob)
    \/ \E i \in jobs : JobEnds(i)
Outside ==
    \/ "edit" \in mix /\ \E d \in Edits : EditFile(d)
    \/ "break" \in mix /\ EditFile(Bad)
    \/ "vanish" \in mix /\ EditFile(Absent)
    \/ \E p \in Paths, how \in {"disk", "bare", "gone"} : Mount(p, how)

Next == /\ mix' = mix
        /\ \/ (\E a \in Actors : Resolve(a)) \/ Writing \/ ReloadRead \/ Asking \/ Outside
           \/ ForgetStorage \/ ForgetRow \/ \E a \in Rechecks : RecheckWrite(a)

\* A call under way goes on, and the ticker fires: nothing else is owed.
Fairness == /\ (\A a \in Actors : WF_vars(mix' = mix /\ Resolve(a)))
            /\ WF_vars(mix' = mix /\ Writing)
            /\ SF_vars(mix' = mix /\ ReloadRead)

Spec == Init /\ [][Next]_vars /\ Fairness

-----------------------------------------------------------------------------
(* Properties                                                              *)

\* With nobody writing, what runs is what the file last said, a refused file
\* left aside: a reader of the file and of GET /api/config sees one document.
RunningIsRead == w.at = "free" /\ last \in Docs /\ ~discarded => cfg = last

\* Before writeMu is released every applier has the configuration that runs:
\* saves and reloads cannot reach a subsystem out of order.
AppliedIsCurrent == w.at = "free" => knob = cfg.knob

\* The manager serves what is declared, where it is declared, except for a name
\* a recheck straddled a write of, and the list an empty document did not replace.
SlotsFollowConfig ==
    w.at = "free" /\ Declared(cfg) # {} =>
        \A n \in Names \ raced : slots[n].root = cfg.at[n]

\* A slot that takes backups has an identity on record, so that a later start with
\* the medium away can tell it from a new storage: whatever resolutions of the
\* name, media, failing writes of the row and forgets interleave (resolveSlot,
\* UpsertStorage's COALESCE).  Only a forget whose row goes after the name was
\* declared again, or is being resolved, escapes it.
IdentityRecorded == \A n \in Names \ dropped : slots[n].ok => rows[n] # 0

\* Once there is a storage to serve there is always one, whatever is edited.
AlwaysServing == [][(\E n \in Names : slots[n].root # "none")
                    => (\E n \in Names : slots'[n].root # "none")]_vars

\* A valid edit left alone takes effect without a restart: the poller of
\* cmd/quince calls Reload.  The contract, AddStorage's warning and an end-to-end
\* test still say that it needs one.
EditTakesEffect == \A d \in Edits : <>[](file = d) => <>[](cfg = d /\ ~discarded)

\* What versionsBlockingForget is for: no storage is forgotten while backups
\* reference it.
ForgetSparesBackups ==
    [][w.at = "write" /\ w.op = "forget" /\ w'.at = "set" /\ forget.name \notin raced
        => ~(rows[forget.name] # 0 /\ rows[forget.name] \in versions)]_vars

\* What Reload's warning promises: a file that goes away leaves the running
\* configuration alone.
LossKeepsRunning == [][file = Absent => cfg' = cfg \/ w.op # "reload"]_vars

\* What RecheckStorage's comment promises: it writes no marker.
RecheckWritesNoMarker ==
    [][\A a \in Rechecks : ~(res[a].at = "mint" /\ res'[a].at = "upsert")]_vars

-----------------------------------------------------------------------------
(* Why they hold                                                           *)

\* What the holder of writeMu knows of the running configuration.
ConfigTrue ==
    /\ last \in Docs /\ ~discarded => cfg = last
    /\ w.at \in {"write", "set"} => w.old = cfg
    /\ w.at \in {"slots", "knob"} => w.next = cfg
    /\ w.at \notin {"slots", "knob"} => knob = cfg.knob

\* The list under construction: what is declared, but for what is still to do.
BuiltTrue ==
    /\ w.at # "slots" => res["apply"].at = "idle"
    /\ w.at = "slots" => w.todo \subseteq Declared(w.next)
    /\ w.at = "slots" => \A n \in Names :
          \/ w.built[n].root = w.next.at[n]
          \/ n \in w.todo
          \/ res["apply"].at # "idle" /\ res["apply"].name = n
    /\ res["apply"].at # "idle" => res["apply"].path = w.next.at[res["apply"].name]

\* What a call of resolveSlot still knows after its reads, while its name is its
\* own.  A recheck knows the root in the list; the configuration may be ahead.
CallsTrue ==
    /\ \A a \in Actors : res[a].at # "idle" => res[a].name \in Names /\ res[a].path \in Paths
    /\ \A a \in Rechecks : res[a].at # "idle" /\ res[a].name \notin raced
                            => res[a].path = slots[res[a].name].root
    /\ \A a \in Actors : res[a].at \in {"probe", "mint"} /\ res[a].name \notin raced
                          => res[a].known = rows[res[a].name]
    /\ \A a \in Actors : res[a].at = "mint" => res[a].known = 0

\* A forget stays at its check until its save is over.
ForgetTrue ==
    /\ forget.at # "idle" => forget.name \in Names
    /\ w.op = "forget" => w.at # "free" /\ forget.at = "checked"

\* Whenever no list is being built, the list follows the configuration.
ListTrue ==
    w.at # "slots" /\ Declared(cfg) # {} =>
        \A n \in Names \ raced : slots[n].root = cfg.at[n]

SlotsInv == TypeOK /\ ConfigTrue /\ BuiltTrue /\ CallsTrue /\ ForgetTrue /\ ListTrue

\* An identity is on record before a slot can be ready, in the list or in the one
\* under construction.
RecordedTrue ==
    /\ \A a \in Actors : res[a].at = "upsert" => res[a].id # 0
    /\ \A a \in Actors : res[a].at = "done" /\ res[a].ok /\ res[a].name \notin dropped
                           => rows[res[a].name] # 0
    /\ \A n \in Names : slots[n].ok => slots[n].root # "none" /\ (n \in dropped \/ rows[n] # 0)
    /\ w.at = "slots" => \A n \in Names : w.built[n].ok =>
          w.built[n].root # "none" /\ (n \in dropped \/ rows[n] # 0)
=============================================================================
