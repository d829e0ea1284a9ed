----------------------------- MODULE CertTrial -----------------------------
(***************************************************************************)
(* The certificate the daemon serves, and the trial of a new one before    *)
(* anybody has signed in.  tlsx.Keeper holds the paths it was last given,  *)
(* the pair it last read and the stamps of the files it read it from; the  *)
(* trial holds the pair being tried and the pair to go back to; config.yml *)
(* holds what was confirmed or edited.  Three locks guard them (the        *)
(* Keeper's, the trial's, the config writer's), and the Keeper reads files *)
(* under none.                                                             *)
(*                                                                         *)
(* A pair of files is its path and the number of its last rewrite, which   *)
(* stands for the (mtime, size) stamp: two pairs may carry the same one.   *)
(* A confirm token is the number of the trial it was minted for.           *)
(***************************************************************************)
EXTENDS Naturals

CONSTANTS
    Pairs,        \* certificate and key pairs that may be named
    MaxTrials,    \* bound: trials ever begun
    MaxRewrites,  \* bound: rewrites of each pair's files
    CertMixes     \* bound: the trials of one behaviour, and what else may happen in it

Off == "off"      \* both paths empty
NoCert == [pair |-> Off, v |-> 0]
NoStamp == MaxRewrites + 1   \* no file has it
NoTrial == [gen |-> 0, pair |-> Off, prev |-> Off, late |-> FALSE]
NoCall == [at |-> "idle", to |-> Off, try |-> Off, prev |-> Off, got |-> NoCert]
Gens == 1..MaxTrials
Confirmer == <<"confirm", 0>>
Editor == <<"edit", 0>>
Applier == <<"apply", 0>>
Shaker == <<"handshake", 0>>
Undo(g) == <<"undo", g>>
Callers == {Confirmer, Editor, Applier, Shaker} \cup {Undo(g) : g \in Gens}

ASSUME CertAssumption ==
    /\ Off \notin Pairs
    /\ MaxTrials \in Nat /\ MaxRewrites \in Nat
    /\ CertMixes \subseteq [trials : 0..MaxTrials,
                        may : SUBSET {"edit", "rewrite", "unsaved", "claim", "restart"}]

VARIABLES
    disk,             \* per pair: its rewrites so far, and good, half or absent
    keep,             \* Keeper: the paths, the pair read, its stamp, dirty
    trial, gen,       \* certTrial.live and its counter
    timers, fired,    \* trials whose timer is armed; whose callback is running
    call,             \* the callers of SetFiles and reload
    named,            \* config.yml's tls section, and the copy in memory
    claimed,          \* auth.Configured
    opened,           \* pairs some open connection was made under
    could,            \* what may happen in this behaviour; never changes
    crossed, torn     \* history: see KeeperFollowsConfig and RenewalNoticed

certVars == <<disk, keep, trial, gen, timers, fired, call, named, claimed, opened, could, crossed, torn>>

Certs == [pair : Pairs \cup {Off}, v : 0..MaxRewrites]
Keepers == [files : Pairs \cup {Off}, cert : Certs, stamp : 0..MaxRewrites + 1, dirty : BOOLEAN]
Trials == [gen : 0..MaxTrials, pair : Pairs \cup {Off}, prev : Pairs \cup {Off}, late : BOOLEAN]
CallRecs == [at : {"idle", "lock", "write", "set", "load", "store"}, to : Pairs \cup {Off},
             try : Pairs \cup {Off}, prev : Pairs \cup {Off}, got : Certs]

CertTypeOK ==
    /\ disk \in [Pairs -> [v : 0..MaxRewrites, is : {"good", "half", "absent"}]]
    /\ keep \in Keepers /\ trial \in Trials
    /\ gen \in 0..MaxTrials /\ timers \subseteq Gens /\ fired \subseteq Gens
    /\ call \in [Callers -> CallRecs]
    /\ named \in Pairs \cup {Off} /\ claimed \in BOOLEAN /\ opened \subseteq Pairs
    /\ could.trials \in 0..MaxTrials /\ crossed \in BOOLEAN /\ torn \in BOOLEAN

\* CheckTLS: a start-up loads the pair config.yml names, or refuses to serve.
Booted(p) == [files |-> p, cert |-> IF p = Off THEN NoCert ELSE [pair |-> p, v |-> disk[p].v],
              stamp |-> IF p = Off THEN NoStamp ELSE disk[p].v, dirty |-> FALSE]

CertInit(mixes) ==
    /\ disk \in [Pairs -> {[v |-> 0, is |-> "good"], [v |-> 0, is |-> "absent"]}]
    /\ named \in {p \in Pairs : disk[p].is = "good"} \cup {Off} /\ keep = Booted(named)
    /\ trial = NoTrial /\ gen = 0 /\ timers = {} /\ fired = {}
    /\ call = [a \in Callers |-> NoCall]
    /\ claimed = FALSE /\ opened = {} /\ could \in mixes
    /\ crossed = FALSE /\ torn = FALSE

-----------------------------------------------------------------------------
(* The Keeper                                                              *)

Busy(a) == call[a].at # "idle"

\* SetFiles(p): what call a does next; the paths and `dirty' move under the lock.
Calls(p) == [NoCall EXCEPT !.at = "set", !.to = p]

\* Mutation: a superseding trial goes on under the timer it found.
ArmedOnce == IF trial = NoTrial THEN timers \cup {gen + 1} ELSE timers
\* begin stops the timer of the trial it supersedes and starts its own.
Armed == (timers \ {trial.gen}) \cup {gen + 1}

\* What the return of a's SetFiles or reload leads to: begin records the trial,
\* or puts the previous pair back when the one it tried did not load.
Returns(a, failed) ==
    LET c == call[a] IN
    IF c.try = Off
    THEN call' = [call EXCEPT ![a] = NoCall] /\ UNCHANGED <<trial, gen, timers>>
    ELSE IF failed
    THEN call' = [call EXCEPT ![a] = Calls(c.prev)] /\ UNCHANGED <<trial, gen, timers>>
    ELSE /\ call' = [call EXCEPT ![a] = NoCall]
         /\ gen' = gen + 1
         /\ trial' = [gen |-> gen + 1, pair |-> c.try, prev |-> c.prev, late |-> FALSE]
         /\ timers' = Armed

Moved(p) == IF p = Off THEN [files |-> Off, cert |-> NoCert, stamp |-> NoStamp, dirty |-> FALSE]
                       ELSE [keep EXCEPT !.files = p, !.dirty = TRUE]

SetFiles(a) ==
    /\ call[a].at = "set" /\ keep' = Moved(call[a].to)
    /\ IF call[a].to = Off
       THEN Returns(a, FALSE)
       ELSE call' = [call EXCEPT ![a].at = "load"] /\ UNCHANGED <<trial, gen, timers>>
    /\ UNCHANGED <<disk, fired, named, claimed, opened, could, crossed, torn>>

\* reload takes the paths as they are now, and reads the files without a lock.
Load(a) ==
    /\ call[a].at = "load"
    /\ LET p == keep.files IN
       IF p # Off /\ disk[p].is = "good"
       THEN /\ call' = [call EXCEPT ![a].at = "store", ![a].got = [pair |-> p, v |-> disk[p].v]]
            /\ UNCHANGED <<trial, gen, timers>>
       ELSE Returns(a, p # Off)
    /\ UNCHANGED <<disk, keep, fired, named, claimed, opened, could, crossed, torn>>

StatFile(p) == IF disk[p].is = "absent" THEN NoStamp ELSE disk[p].v

\* Mutation: what was read is kept although the paths have moved.
StillNamedAlways(c) == TRUE
StillNamed(c) == keep.files = c.pair

\* ... stats them afterwards, and keeps what it read if the paths have not moved.
Store(a) ==
    /\ call[a].at = "store"
    /\ LET c == call[a].got IN
       keep' = IF StillNamed(c)
               THEN [files |-> keep.files, cert |-> c, stamp |-> StatFile(c.pair), dirty |-> FALSE]
               ELSE keep
    /\ Returns(a, FALSE)
    /\ UNCHANGED <<disk, fired, named, claimed, opened, could, crossed, torn>>

\* changed(): files that can be read and are not those of the pair held.
Changed ==
    /\ keep.files # Off /\ disk[keep.files].is # "absent"
    /\ keep.dirty \/ StatFile(keep.files) # keep.stamp

\* GetCertificate: a handshake re-reads a pair that changed, ...
GetCertificate ==
    /\ ~Busy(Shaker) /\ Changed
    /\ call' = [call EXCEPT ![Shaker].at = "load"]
    /\ UNCHANGED <<disk, keep, trial, gen, timers, fired, named, claimed, opened, could, crossed, torn>>

\* ... and is answered with the pair held, if there is one.
Handshake ==
    /\ ~Busy(Shaker) /\ keep.cert # NoCert /\ opened' = opened \cup {keep.cert.pair}
    /\ opened' # opened
    /\ UNCHANGED <<disk, keep, trial, gen, timers, fired, call, named, claimed, could, crossed, torn>>

-----------------------------------------------------------------------------
(* The trial                                                               *)

\* certTrial.mu: begin holds it through both its SetFiles.
TrialFree == call[Applier].at \in {"idle", "lock"}

\* Two writers of the Keeper's paths are under way at once.
Writers == {a \in Callers \ {Shaker} : Busy(a)}

PrevPair == named

\* The verdict `usable', at the moment the files are looked at.
Inspect(p) == disk[p].is = "good"

\* handleCertificateApply: the pair was inspected and is usable; the pair to go
\* back to is read before the trial's lock is taken.
CertificateApply(p) ==
    /\ ~claimed /\ ~Busy(Applier) /\ gen < could.trials /\ Inspect(p)
    /\ call' = [call EXCEPT ![Applier] = [Calls(p) EXCEPT !.at = "lock", !.try = p, !.prev = PrevPair]]
    /\ crossed' = (crossed \/ Writers # {})
    /\ UNCHANGED <<disk, keep, trial, gen, timers, fired, named, claimed, opened, could, torn>>

Begin ==
    /\ call[Applier].at = "lock"
    /\ call' = [call EXCEPT ![Applier].at = "set"]
    /\ UNCHANGED <<disk, keep, trial, gen, timers, fired, named, claimed, opened, could, crossed, torn>>

\* Either clock passes the deadline; the timer's callback starts, sooner or later.
WindowCloses ==
    /\ trial # NoTrial /\ ~trial.late /\ trial' = [trial EXCEPT !.late = TRUE]
    /\ UNCHANGED <<disk, keep, gen, timers, fired, call, named, claimed, opened, could, crossed, torn>>

TimerFires ==
    /\ trial # NoTrial /\ trial.late /\ trial.gen \in timers
    /\ timers' = timers \ {trial.gen} /\ fired' = fired \cup {trial.gen}
    /\ UNCHANGED <<disk, keep, trial, gen, call, named, claimed, opened, could, crossed, torn>>

\* confirm and abandon: the token names the live trial, and its window is open.
Answers(g) == trial # NoTrial /\ ~trial.late /\ g = trial.gen

\* handleCertificateConfirm, over some TLS connection: the trial ends, and the
\* handler goes on to write the pair.
CertificateConfirm(g) ==
    /\ ~claimed /\ opened # {} /\ TrialFree /\ Answers(g) /\ ~Busy(Confirmer)
    /\ trial' = NoTrial /\ timers' = timers \ {g}
    /\ call' = [call EXCEPT ![Confirmer] = [Calls(trial.pair) EXCEPT !.at = "write"]]
    /\ crossed' = (crossed \/ Writers # {})
    /\ UNCHANGED <<disk, keep, gen, fired, named, claimed, opened, could, torn>>

\* abandon and expire drop the trial under its lock, and put the previous pair
\* back after they have let go of it.
Restores(g) ==
    /\ trial' = NoTrial
    /\ call' = [call EXCEPT ![Undo(g)] = Calls(trial.prev)]
    /\ crossed' = (crossed \/ Writers # {})

CertificateCancel(g) ==
    /\ ~claimed /\ opened # {} /\ TrialFree /\ Answers(g)
    /\ Restores(g) /\ timers' = timers \ {g}
    /\ UNCHANGED <<disk, keep, gen, fired, named, claimed, opened, could, torn>>

Mine(g) == trial # NoTrial /\ trial.gen = g

Expire(g) ==
    /\ g \in fired /\ TrialFree /\ fired' = fired \ {g}
    /\ IF Mine(g) THEN Restores(g) ELSE UNCHANGED <<trial, call, crossed>>
    /\ UNCHANGED <<disk, keep, gen, timers, named, claimed, opened, could, torn>>

-----------------------------------------------------------------------------
(* config.yml                                                              *)

\* Service.writeMu is held through the write and the appliers.
WriteFree == \A a \in {Confirmer, Editor} : call[a].at \in {"idle", "write"}

\* The section is written, and subscribeTLS hands a changed one to the Keeper.
Writes(a, p) ==
    /\ WriteFree /\ named' = p
    /\ call' = [call EXCEPT ![a] = IF p = named THEN NoCall ELSE Calls(p)]
    /\ UNCHANGED <<disk, keep, trial, gen, timers, fired, claimed, opened, could, torn>>

SetTLSFiles ==
    /\ call[Confirmer].at = "write" /\ Writes(Confirmer, call[Confirmer].to) /\ UNCHANGED crossed

\* A confirmed pair that cannot be written stays served until the next start.
WriteRefused ==
    /\ "unsaved" \in could.may /\ call[Confirmer].at = "write" /\ WriteFree
    /\ call' = [call EXCEPT ![Confirmer] = NoCall] /\ crossed' = TRUE
    /\ UNCHANGED <<disk, keep, trial, gen, timers, fired, named, claimed, opened, could, torn>>

\* Any other write of the section: PUT /api/config, an edit of the file.
EditTLS(p) ==
    /\ "edit" \in could.may /\ p # named /\ Writes(Editor, p)
    /\ crossed' = (crossed \/ Writers # {} \/ trial # NoTrial)

-----------------------------------------------------------------------------
(* The rest of the world                                                   *)

\* A renewal rewrites a pair in place: whole, half written, or gone for a while.
Rewrite(p) ==
    /\ "rewrite" \in could.may /\ disk[p].v < MaxRewrites
    /\ \E is \in {"good", "half", "absent"} : disk' = [disk EXCEPT ![p] = [v |-> @.v + 1, is |-> is]]
    /\ torn' = (torn \/ \E a \in Callers : call[a].at = "store" /\ call[a].got.pair = p)
    /\ UNCHANGED <<keep, trial, gen, timers, fired, call, named, claimed, opened, could, crossed>>

\* First-run setup finishes: the onboarding routes refuse from here on.
Claim ==
    /\ "claim" \in could.may /\ ~claimed /\ claimed' = TRUE
    /\ UNCHANGED <<disk, keep, trial, gen, timers, fired, call, named, opened, could, crossed, torn>>

\* The daemon is restarted; one whose pair does not load does not serve.
RestartTLS ==
    /\ "restart" \in could.may /\ (named # Off => disk[named].is = "good")
    /\ keep' = Booted(named) /\ trial' = NoTrial /\ timers' = {} /\ fired' = {}
    /\ call' = [a \in Callers |-> NoCall] /\ opened' = {} /\ crossed' = FALSE /\ torn' = FALSE
    /\ UNCHANGED <<disk, gen, named, claimed, could>>

KeeperStep(a) == SetFiles(a) \/ Load(a) \/ Store(a)
TrialStep == WindowCloses \/ TimerFires \/ \E g \in Gens : Expire(g)

CertNext ==
    \/ \E a \in Callers : KeeperStep(a)
    \/ GetCertificate \/ Handshake
    \/ \E p \in Pairs : CertificateApply(p) \/ Rewrite(p)
    \/ Begin \/ TrialStep
    \/ \E g \in Gens : CertificateConfirm(g) \/ CertificateCancel(g)
    \/ SetTLSFiles \/ WriteRefused \/ \E p \in Pairs \cup {Off} : EditTLS(p)
    \/ Claim \/ RestartTLS

\* A goroutine that has a step to take takes it, and a timer fires.  Nobody has
\* to connect, apply, answer, edit or renew anything.
CertFairness ==
    /\ \A a \in Callers : WF_certVars(KeeperStep(a))
    /\ WF_certVars(Begin) /\ WF_certVars(SetTLSFiles \/ WriteRefused)
    /\ WF_certVars(TrialStep)

CertSpec == CertInit(CertMixes) /\ [][CertNext]_certVars /\ CertFairness

-----------------------------------------------------------------------------
(* Properties                                                              *)

\* A pair the Keeper takes for current is the pair it was last told to serve,
\* whichever of the callers' reads finished last and whatever their stamps.
BelievedIsNamed == ~keep.dirty => keep.cert.pair = keep.files

\* With no trial live and no call under way the Keeper is pointed at the pair
\* config.yml names: a failed, superseded, declined or expired trial leaves
\* nothing behind, and a confirmed one is written.  Excused is what `crossed'
\* records until the next start: two changes of the paths under way at once, an
\* edit during a trial, and a confirmed pair that could not be written.
KeeperFollowsConfig ==
    trial = NoTrial /\ Writers = {} /\ ~crossed => keep.files = named

\* A trial whose window is open ends only by an answer that carries its own
\* token, by the next apply, or with the process: no late callback of an
\* earlier trial takes it down.
OpenTrialKept ==
    [][trial # NoTrial /\ ~trial.late /\ trial' = NoTrial
         => CertificateConfirm(trial.gen) \/ CertificateCancel(trial.gen) \/ RestartTLS]_certVars

\* Every trial ends, and what is served then is what config.yml names, unless two
\* wrote the paths at once, config.yml was edited during the trial or a confirmed
\* pair could not be written (`crossed': see KeeperFollowsConfig).
TrialSettles ==
    \A g \in Gens : trial.gen = g ~> (trial = NoTrial /\ keep.files = named) \/ crossed

\* A renewal reaches the next handshake: whenever the files named are whole and
\* not what is held, changed() says so, also after a change of paths that could
\* not be loaded.  Excused: a rewrite between a read and its stat (`torn').
RenewalNoticed ==
    keep.files # Off /\ disk[keep.files].is = "good" /\ ~torn
      => keep.cert = [pair |-> keep.files, v |-> disk[keep.files].v] \/ Changed

\* What is served is what config.yml names, as its files now are, or about to
\* be read again.
KeeperTrue == BelievedIsNamed /\ KeeperFollowsConfig /\ RenewalNoticed

-----------------------------------------------------------------------------
(* What the code's comments say, and TLC refutes                           *)

\* A live trial is what the daemon is pointed at, once no call is under way.
LiveTrialServed == trial # NoTrial /\ Writers = {} => keep.files = trial.pair

\* A trial that is over leaves the Keeper on the pair config.yml names.
EndedFollowsConfig == trial = NoTrial /\ Writers = {} => keep.files = named

\* A confirmation travels over the certificate it confirms.
ConfirmProves == [][\A g \in Gens : CertificateConfirm(g) => opened \subseteq {trial.pair}]_certVars

\* Files that changed are noticed.
ChangeNoticed ==
    keep.files # Off /\ disk[keep.files].is = "good"
      => \/ keep.cert = [pair |-> keep.files, v |-> disk[keep.files].v]
         \/ Changed \/ \E a \in Callers : call[a].at \in {"load", "store"}

-----------------------------------------------------------------------------
(* The inductive invariant behind KeeperTrue and OpenTrialKept             *)

\* What was read is what the files hold, unless they were rewritten before the stat.
FilesTrue ==
    /\ \A a \in Callers : call[a].at = "store" => call[a].got.pair \in Pairs
    /\ ~torn => \A a \in Callers : call[a].at = "store" => call[a].got.v = disk[call[a].got.pair].v
    /\ ~torn /\ ~keep.dirty /\ keep.files # Off /\ keep.stamp # NoStamp => keep.cert.v = keep.stamp
    /\ keep.cert = NoCert \/ keep.cert.pair \in Pairs

\* Only begin tries a pair, and only it waits for the trial's lock; a handshake
\* writes no path; only a confirmation waits for the config writer.
RolesTrue ==
    /\ \A a \in Callers :
          /\ call[a].try # Off => a = Applier /\ Busy(a) /\ gen < MaxTrials
          /\ call[a].at = "lock" => call[a].try # Off
          /\ call[a].at = "write" => a = Confirmer
          /\ call[a].at \in {"lock", "set"} /\ call[a].try # Off => call[a].to = call[a].try
    /\ call[Shaker].at \in {"idle", "load", "store"}

\* A timer and a callback belong to a trial begun, and a live trial is called back
\* only when its window has closed.
TimersTrue ==
    /\ \A g \in timers \cup fired : g <= gen
    /\ trial.gen <= gen /\ (trial.gen = 0 <=> trial = NoTrial)
    /\ trial.gen \in fired => trial.late

\* As long as no two writers of the paths met: where the one under way is going.
PathsTrue ==
    /\ \A a, b \in Writers : a = b
    /\ trial # NoTrial => trial.prev = named
    /\ \A a \in Writers :
          /\ call[a].try # Off => call[a].prev = named
          /\ a # Applier => trial = NoTrial
          /\ call[a].at = "set" /\ call[a].try = Off => call[a].to = named
          /\ call[a].at \in {"load", "store"} =>
                keep.files = (IF call[a].try = Off THEN named ELSE call[a].try)
          /\ call[a].at = "write" => keep.files \in {call[a].to, named}
    /\ (Writers = {} \/ call[Applier].at = "lock") => keep.files = named \/ (trial # NoTrial /\ keep.files = trial.pair)

CertInv == CertTypeOK /\ BelievedIsNamed /\ FilesTrue /\ RolesTrue /\ TimersTrue /\ (~crossed => PathsTrue)
=============================================================================
