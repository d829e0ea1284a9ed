---------------------------- MODULE VaultProofs ----------------------------
(***************************************************************************)
(* Proofs about VaultSessions, VaultReading and MuxSupervisor.             *)
(*                                                                         *)
(* Sessions: for any sessions, requests and mixes of operations.  Where a  *)
(* goroutine is tells what it has in hand (PlacesTrue); who is in a        *)
(* session or ends it has its lock, and one of them answers for an open    *)
(* vault (SessionsTrue, UnlocksTrue); what is cached has its closer        *)
(* (CachesTrue).                                                           *)
(*                                                                         *)
(* Reading: for any version that can be decoded, any limit and any chunk.  *)
(* A page is consecutive rows from its cursor on (ListPages), so a walk    *)
(* has returned rows one to its cursor (WalkTrue); what was read was sent, *)
(* of a file that is there (FileTrue).  Decoded is a recursion: that it    *)
(* keeps every row is shown at the least place where it would not.         *)
(*                                                                         *)
(* The supervisor: for any rescans, threshold, back-off and bounds.  A     *)
(* request that was granted saw a child that is gone (LoopTrue, AsksTrue); *)
(* the count covers the fast exits in a row (CountTrue).                   *)
(***************************************************************************)
EXTENDS VaultSessions, VaultReading, MuxSupervisor, TLAPS, SequenceTheorems, FiniteSetTheorems,
        WellFoundedInduction

-----------------------------------------------------------------------------
(* Sessions: records and what an update does to them                       *)

\* The markers for nobody are not names of sessions or goroutines.
LEMMA Names ==
    /\ "none" \notin Sessions /\ "none" \notin Threads /\ "sweeper" \in Threads /\ Reqs \subseteq Threads
    /\ "sweeper" \notin Reqs /\ Threads \subseteq Holders /\ "none" \in Holders
  BY VaultAssumption DEF Threads, Holders

\* The blank records are records.
LEMMA Blanks ==
    /\ NoEntry \in Entries /\ NoReader \in ReaderRecs /\ Idle \in Goroutines
    /\ Idle.op = "none" /\ Idle.s = "none" /\ Idle.at = "idle" /\ Idle.due = {} /\ Idle.cur = "none"
    /\ ~NoEntry.reg /\ NoEntry.vault = "none" /\ ~NoEntry.scratch /\ NoEntry.derived = << >> /\ NoEntry.busy = "none"
<1>1. NoEntry \in Entries /\ ~NoEntry.reg /\ NoEntry.vault = "none" /\ ~NoEntry.scratch /\ NoEntry.derived = << >> /\ NoEntry.busy = "none"
  BY Names DEF NoEntry, Entries, Closers
<1>2. NoReader \in ReaderRecs
  BY Names DEF NoReader, ReaderRecs
<1>3. Idle \in Goroutines /\ Idle.op = "none" /\ Idle.s = "none" /\ Idle.at = "idle" /\ Idle.due = {} /\ Idle.cur = "none"
  BY DEF Idle, Goroutines, Places
<1> QED
  BY <1>1, <1>2, <1>3

\* Goroutine t moves; the others stay as they are.
Moves(t) == th' \in [Threads -> Goroutines] /\ \A u \in Threads : u # t => th'[u] = th[u]
\* Only t's holds change.
BusyOf(t) == \A s \in Sessions, u \in Threads : u # t => (ent'[s].busy = u <=> ent[s].busy = u)
LocksOf(t) ==
    /\ mu' \in [cap : Holders, msg : Holders]
    /\ \A u \in Threads : u # t => (mu'.cap = u <=> mu.cap = u) /\ (mu'.msg = u <=> mu.msg = u)
\* The sessions stay as they are, but for their locks.
EntriesKept ==
    /\ ent' \in [Sessions -> Entries]
    /\ \A s \in Sessions : /\ ent'[s].reg = ent[s].reg /\ ent'[s].vault = ent[s].vault
                           /\ ent'[s].scratch = ent[s].scratch /\ ent'[s].derived = ent[s].derived
Quietly(t) == Moves(t) /\ EntriesKept /\ BusyOf(t) /\ LocksOf(t) /\ caches' = caches /\ proc' = proc /\ Up
SameGoal(t) == th'[t].op = th[t].op /\ th'[t].s = th[t].s /\ th'[t].due = th[t].due /\ th'[t].cur = th[t].cur

\* A goroutine that moves on keeps its goal and leaves the others alone.
LEMMA GoDoes ==
    ASSUME th \in [Threads -> Goroutines], NEW t \in Threads, NEW p \in Places, Go(t, p)
    PROVE  Moves(t) /\ SameGoal(t) /\ th'[t].at = p
<1> DEFINE o == [th[t] EXCEPT !.at = p]
<1>1. o \in Goroutines /\ o.at = p /\ o.op = th[t].op /\ o.s = th[t].s /\ o.due = th[t].due /\ o.cur = th[t].cur
  BY DEF Goroutines
<1>2. th' = [th EXCEPT ![t] = o]
  BY DEF Go
<1> HIDE DEF o
<1> QED
  BY <1>1, <1>2 DEF Moves, SameGoal

\* Freeing drops the goroutine's own locks only.
LEMMA FreedDoes ==
    ASSUME mu \in [cap : Holders, msg : Holders], NEW t \in Threads, mu' = Freed(t)
    PROVE  LocksOf(t) /\ mu'.cap # t /\ mu'.msg # t
<1>1. mu' = [cap |-> IF mu.cap = t THEN "none" ELSE mu.cap, msg |-> IF mu.msg = t THEN "none" ELSE mu.msg]
  BY DEF Freed
<1>2. mu'.cap = (IF mu.cap = t THEN "none" ELSE mu.cap) /\ mu'.msg = (IF mu.msg = t THEN "none" ELSE mu.msg)
  BY <1>1
<1>3. mu' \in [cap : Holders, msg : Holders]
  BY <1>1, Names
<1> QED
  BY <1>2, <1>3, Names DEF LocksOf

\* A goroutine that returns is idle and holds no lock.
LEMMA ReturnDoes ==
    ASSUME th \in [Threads -> Goroutines], mu \in [cap : Holders, msg : Holders], NEW t \in Threads, Return(t)
    PROVE  Moves(t) /\ th'[t] = Idle /\ LocksOf(t) /\ mu'.cap # t /\ mu'.msg # t
  BY FreedDoes, Blanks DEF Return, Moves

\* Locks nobody touches are kept.
LEMMA LocksKept == ASSUME mu' = mu, mu \in [cap : Holders, msg : Holders], NEW t PROVE LocksOf(t)
  BY DEF LocksOf

\* Entries nobody touches are kept.
LEMMA EntSame ==
    ASSUME ent' = ent, ent \in [Sessions -> Entries], NEW t
    PROVE  EntriesKept /\ BusyOf(t)
  BY DEF EntriesKept, BusyOf

\* Goroutine t takes a session's lock, or lets go of it.
LEMMA EntBusy ==
    ASSUME ent \in [Sessions -> Entries], NEW s \in Sessions, NEW t \in Threads, NEW h \in {t, "none"},
           ent[s].busy \in {t, "none"}, ent' = [ent EXCEPT ![s].busy = h]
    PROVE  EntriesKept /\ BusyOf(t) /\ ent'[s].busy = h
<1> DEFINE e == [ent[s] EXCEPT !.busy = h]
<1>1. /\ e \in Entries /\ e.busy = h /\ e.reg = ent[s].reg /\ e.vault = ent[s].vault /\ e.scratch = ent[s].scratch
      /\ e.derived = ent[s].derived
  BY Names DEF Entries
<1>2. ent' = [ent EXCEPT ![s] = e]
  OBVIOUS
<1> HIDE DEF e
<1> QED
  BY <1>1, <1>2, Names DEF EntriesKept, BusyOf

\* A free lock that is taken is the taker's; the other one is kept.
LEMMA Claims ==
    ASSUME mu \in [cap : Holders, msg : Holders], NEW t \in Threads
    PROVE  /\ mu.cap = "none" /\ mu' = [mu EXCEPT !.cap = t] => LocksOf(t) /\ mu'.cap = t /\ mu'.msg = mu.msg
           /\ mu.msg = "none" /\ mu' = [mu EXCEPT !.msg = t] => LocksOf(t) /\ mu'.msg = t /\ mu'.cap = mu.cap
           /\ mu.msg = t /\ mu' = [mu EXCEPT !.msg = "none"] => LocksOf(t) /\ mu'.msg = "none" /\ mu'.cap = mu.cap
  BY Names DEF LocksOf

-----------------------------------------------------------------------------
(* Goroutines that leave the sessions as they are                          *)

SafeInv == PlacesTrue /\ SessionsTrue /\ UnlocksTrue /\ CachesTrue

\* The request is over.
LEMMA Returns ==
    ASSUME TypeOK, SafeInv, NEW t \in Threads, Quietly(t), th'[t] = Idle, th[t].due = {}, th[t].at # "register",
           mu'.cap # t, mu'.msg # t
    PROVE  SafeInv'
<1>0. /\ \A u \in Threads : u # t => th'[u] = th[u] /\ (mu'.cap = u <=> mu.cap = u) /\ (mu'.msg = u <=> mu.msg = u)
      /\ \A s \in Sessions, u \in Threads : u # t => (ent'[s].busy = u <=> ent[s].busy = u)
      /\ \A s \in Sessions : /\ ent'[s].reg = ent[s].reg /\ ent'[s].vault = ent[s].vault
                             /\ ent'[s].scratch = ent[s].scratch /\ ent'[s].derived = ent[s].derived
      /\ caches' = caches /\ proc' = proc /\ Up
  BY DEF Quietly, Moves, EntriesKept, BusyOf, LocksOf
<1>1. th'[t].op = "none" /\ th'[t].s = "none" /\ th'[t].at = "idle" /\ th'[t].due = {} /\ th'[t].cur = "none"
  BY Blanks
<1>2. PlacesTrue'
  BY <1>0, <1>1, Names DEF SafeInv, PlacesTrue, Sess
<1>3. \A u \in Threads : th[u].at \in {"using", "open", "register", "with", "attach"} => Sess(u) \in Sessions
  BY DEF SafeInv, PlacesTrue, Places
<1>4. \A u \in Threads : th[u].cur # "none" => th[u].cur \in Sessions
  BY DEF TypeOK, Goroutines
<1>5. SessionsTrue'
  <2>1. \A u \in Threads : th'[u].at = "using" => ent'[th'[u].s].busy = u /\ ent'[th'[u].s].vault = "open"
    BY <1>0, <1>1, <1>3 DEF SafeInv, SessionsTrue, Sess
  <2>2. \A u \in Threads : th'[u].cur # "none" => ent'[th'[u].cur].busy = u
    BY <1>0, <1>1, <1>4 DEF SafeInv, SessionsTrue
  <2>3. \A u \in Threads : th'[u].due = th[u].due
    BY <1>0, <1>1
  <2>4. \A u \in Threads : th[u].due \subseteq Sessions
    BY DEF TypeOK, Goroutines
  <2> QED
    BY <1>0, <2>1, <2>2, <2>3, <2>4 DEF SafeInv, SessionsTrue, Sess
<1>6. UnlocksTrue'
  <2>1. \A u \in Threads : th'[u].op = "unlock" => u # t /\ th[u].op = "unlock" /\ th'[u] = th[u] /\ th[u].s \in Sessions
    BY <1>0, <1>1, <1>3 DEF SafeInv, PlacesTrue, Sess
  <2>2. \A u \in Threads : th'[u].at = "register" => u # t /\ th'[u] = th[u] /\ th[u].s \in Sessions
    BY <1>0, <1>1, <1>3 DEF Sess
  <2>3. \A u \in Threads : th[u].at = "register" => th'[u] = th[u]
    BY <1>0
  <2>4. th'["sweeper"].op = "none"
    BY <1>0, <1>1, Names DEF SafeInv, UnlocksTrue
  <2>5. Up' /\ \A s \in Sessions : ent'[s].scratch => ent'[s].vault = "open" \/ \E u \in Threads : th'[u].at = "register" /\ th'[u].s = s
    BY <1>0, <2>3 DEF SafeInv, UnlocksTrue, Up, Sess
  <2> QED
    BY <1>0, <2>1, <2>2, <2>4, <2>5 DEF SafeInv, UnlocksTrue, Sess
<1>7. CachesTrue'
  <2>1. \A u \in Threads : th'[u].at # "idle" => u # t /\ th'[u] = th[u]
    BY <1>0, <1>1
  <2>2. \A u \in Threads : th[u].at = "closing" => th[u].cur \in Sessions
    BY DEF TypeOK, Goroutines, SafeInv, PlacesTrue
  <2> QED
    BY <1>0, <2>1, <2>2 DEF SafeInv, CachesTrue, Sess
<1> QED
  BY <1>2, <1>5, <1>6, <1>7 DEF SafeInv

\* The request goes on.
LEMMA GoesOn ==
    ASSUME TypeOK, SafeInv, NEW t \in Threads, Quietly(t), SameGoal(t),
           th[t].at \in Places \ {"idle", "open", "register"}, th'[t].at \in Places \ {"idle", "open", "register"},
           th[t].at \in {"teardown", "close", "closing"} <=> th'[t].at \in {"teardown", "close", "closing"},
           th'[t].at = "teardown" => th[t].cur = "none",
           th'[t].at \in {"close", "closing"} => th[t].cur \in th[t].due /\ ent'[th[t].cur].busy = t,
           th'[t].at = "using" => ent'[Sess(t)].busy = t /\ ent[Sess(t)].vault = "open",
           th'[t].at = "attach" => th[t].op \in {"overview", "chats", "search"},
           th'[t].at = "capmu" => th[t].op = "overview", th'[t].at # "msgmu",
           th[t].op = "overview" /\ th'[t].at = "attach" => mu'.cap = t,
           th[t].op = "overview" /\ th'[t].at \in {"with", "using", "attach"} /\ mu'.cap = t => Sess(t) \notin caches.cap,
           th[t].op \in {"chats", "search"} /\ th'[t].at \in {"with", "using", "attach"} => mu'.msg = t /\ Sess(t) \notin caches.msg,
           th'[t].at = "closing" => mu'.msg = t /\ ent[th[t].cur].derived \in MsgFirst
    PROVE  SafeInv'
<1>0. /\ \A u \in Threads : u # t => th'[u] = th[u] /\ (mu'.cap = u <=> mu.cap = u) /\ (mu'.msg = u <=> mu.msg = u)
      /\ \A s \in Sessions, u \in Threads : u # t => (ent'[s].busy = u <=> ent[s].busy = u)
      /\ \A s \in Sessions : /\ ent'[s].reg = ent[s].reg /\ ent'[s].vault = ent[s].vault
                             /\ ent'[s].scratch = ent[s].scratch /\ ent'[s].derived = ent[s].derived
      /\ caches' = caches /\ proc' = proc /\ Up
  BY DEF Quietly, Moves, EntriesKept, BusyOf, LocksOf
<1>1. /\ th'[t].op = th[t].op /\ th'[t].s = th[t].s /\ th'[t].due = th[t].due /\ th'[t].cur = th[t].cur
      /\ th[t].op # "unlock"
  BY DEF SameGoal, SafeInv, PlacesTrue
<1>2. PlacesTrue'
  <2>1. /\ th'[t].at # "idle"
        /\ th'[t].at \in Places \ {"idle", "teardown", "close", "closing"} => th'[t].s \in Sessions
        /\ th'[t].op = "unlock" <=> th'[t].at \in {"open", "register"}
        /\ th'[t].at = "attach" => th'[t].op \in {"overview", "chats", "search"}
        /\ (th'[t].at = "capmu" => th'[t].op = "overview") /\ th'[t].at # "msgmu"
        /\ th'[t].due # {} => th'[t].at \in {"teardown", "close", "closing"}
        /\ th'[t].cur # "none" => th'[t].at \in {"close", "closing"}
        /\ th'[t].at \in {"close", "closing"} => th'[t].cur \in th'[t].due
    BY <1>1 DEF SafeInv, PlacesTrue, Sess
  <2> QED
    BY <1>0, <2>1 DEF SafeInv, PlacesTrue, Sess
<1>3. \A u \in Threads : th[u].at \in {"using", "open", "register", "with", "attach"} => Sess(u) \in Sessions
  BY DEF SafeInv, PlacesTrue, Places
<1>4. \A u \in Threads : th[u].cur # "none" => th[u].cur \in Sessions
  BY DEF TypeOK, Goroutines
<1>5. SessionsTrue'
  <2>1. \A u \in Threads : th'[u].at = "using" => ent'[th'[u].s].busy = u /\ ent'[th'[u].s].vault = "open"
    <3>1. th'[t].at = "using" => th[t].s \in Sessions
      BY DEF SafeInv, PlacesTrue, Sess
    <3> QED
      BY <1>0, <1>1, <1>3, <3>1 DEF SafeInv, SessionsTrue, Sess
  <2>2. \A u \in Threads : th'[u].cur # "none" => ent'[th'[u].cur].busy = u
    <3>1. th'[t].cur # "none" => th'[t].at \in {"close", "closing"}
      BY <1>2 DEF PlacesTrue
    <3> QED
      BY <1>0, <1>1, <1>4, <3>1 DEF SafeInv, SessionsTrue
  <2>3. \A u \in Threads : th'[u].due = th[u].due
    BY <1>0, <1>1
  <2>4. \A u \in Threads : th[u].due \subseteq Sessions
    BY DEF TypeOK, Goroutines
  <2> QED
    BY <1>0, <2>1, <2>2, <2>3, <2>4 DEF SafeInv, SessionsTrue, Sess
<1>6. UnlocksTrue'
  <2>1. \A u \in Threads : th'[u].op = "unlock" => u # t /\ th[u].op = "unlock" /\ th'[u] = th[u] /\ th[u].s \in Sessions
    BY <1>0, <1>1, <1>3 DEF SafeInv, PlacesTrue, Sess
  <2>2. \A u \in Threads : th'[u].at = "register" => u # t /\ th'[u] = th[u] /\ th[u].s \in Sessions
    BY <1>0, <1>1, <1>3 DEF Sess
  <2>3. \A u \in Threads : th[u].at = "register" => th'[u] = th[u]
    BY <1>0
  <2>4. th'["sweeper"].op = "none"
    BY <1>0, <1>1, Names DEF SafeInv, UnlocksTrue
  <2>5. Up' /\ \A s \in Sessions : ent'[s].scratch => ent'[s].vault = "open" \/ \E u \in Threads : th'[u].at = "register" /\ th'[u].s = s
    BY <1>0, <2>3 DEF SafeInv, UnlocksTrue, Up, Sess
  <2> QED
    BY <1>0, <2>1, <2>2, <2>4, <2>5 DEF SafeInv, UnlocksTrue, Sess
<1>7. CachesTrue'
  <2>1. \A u \in Threads : (u = t \/ th[u].at = "closing") /\ th'[u].at = "closing" => th[u].cur \in Sessions
    BY <1>4, Names DEF TypeOK, Goroutines, SafeInv, PlacesTrue
  <2>2. \A u \in Threads : u # t => th'[u] = th[u]
    BY <1>0
  <2>3. \A s \in Sessions : ent'[s].derived = ent[s].derived
    BY <1>0
  <2>4. /\ \A s \in Sessions : s \in caches'.cap <=> ent'[s].derived \in WithCap
        /\ \A s \in Sessions : s \in caches'.msg <=> ent'[s].derived \in WithMsg
    BY <1>0 DEF SafeInv, CachesTrue
  <2>5. ASSUME NEW u \in Threads
        PROVE  /\ th'[u].op = "overview" /\ th'[u].at = "attach" => mu'.cap = u
               /\ th'[u].op = "overview" /\ th'[u].at \in {"with", "using", "attach"} /\ mu'.cap = u => th'[u].s \notin caches'.cap
               /\ th'[u].op \in {"chats", "search"} /\ th'[u].at \in {"with", "using", "attach"}
                    => mu'.msg = u /\ th'[u].s \notin caches'.msg
               /\ th'[u].at = "idle" => mu'.cap # u /\ mu'.msg # u
               /\ th'[u].at = "closing" => mu'.msg = u /\ ent'[th'[u].cur].derived \in MsgFirst
    <3>1. CASE u = t
      BY <1>0, <1>1, <2>1, <2>3, <3>1 DEF Sess
    <3>2. CASE u # t
      BY <1>0, <2>1, <2>2, <2>3, <3>2 DEF SafeInv, CachesTrue, Sess
    <3> QED
      BY <3>1, <3>2
  <2> QED
    BY <2>4, <2>5 DEF CachesTrue, Sess
<1> QED
  BY <1>2, <1>5, <1>6, <1>7 DEF SafeInv

-----------------------------------------------------------------------------
(* Each request's steps                                                    *)

\* The variables' types, one by one.
LEMMA Parts ==
    ASSUME TypeOK
    PROVE  /\ ent \in [Sessions -> Entries] /\ reader \in [Sessions -> ReaderRecs] /\ th \in [Threads -> Goroutines]
           /\ mu \in [cap : Holders, msg : Holders] /\ caches \in [cap : SUBSET Sessions, msg : SUBSET Sessions]
           /\ \A t \in Threads : th[t].at \in Places /\ th[t].due \subseteq Sessions
  BY DEF TypeOK, Goroutines

\* Who is inside With is busy with an open session and tears nothing down.
LEMMA UsingIs ==
    ASSUME TypeOK, SafeInv, NEW t \in Threads, th[t].at = "using"
    PROVE  Sess(t) \in Sessions /\ ent[Sess(t)].busy = t /\ ent[Sess(t)].vault = "open" /\ th[t].due = {} /\ th[t].op # "unlock"
  BY DEF SafeInv, PlacesTrue, SessionsTrue, Places

\* Leaving With frees the session's busy lock and nothing else.
LEMMA ReleasedDoes ==
    ASSUME TypeOK, SafeInv, NEW t \in Threads, th[t].at = "using", Released(Sess(t))
    PROVE  EntriesKept /\ BusyOf(t)
<1>1. /\ ent \in [Sessions -> Entries] /\ Sess(t) \in Sessions /\ ent[Sess(t)].busy \in {t, "none"}
      /\ ent' = [ent EXCEPT ![Sess(t)].busy = "none"] /\ "none" \in {t, "none"}
  BY Parts, UsingIs DEF Released
<1> QED
  BY <1>1, EntBusy

\* Only a goroutine that tears down has sessions due.
LEMMA DueOnlyAtEnd ==
    ASSUME SafeInv, NEW t \in Threads, th[t].at \in Places \ {"teardown", "close", "closing"}
    PROVE  th[t].due = {} /\ th[t].cur = "none"
  BY DEF SafeInv, PlacesTrue

\* What a request that ends leaves.
LEMMA EndsQuietly ==
    ASSUME TypeOK, SafeInv, NEW t \in Threads, Up, Return(t), EntriesKept, BusyOf(t), caches' = caches, proc' = proc,
           th[t].at \in Places \ {"teardown", "close", "closing", "register"}
    PROVE  SafeInv'
<1>1. Quietly(t) /\ th'[t] = Idle /\ mu'.cap # t /\ mu'.msg # t
  BY Parts, ReturnDoes DEF Quietly
<1> QED
  BY <1>1, DueOnlyAtEnd, Returns

\* The end of a browse keeps SafeInv.
LEMMA BrowsedSafe == ASSUME TypeOK, SafeInv, NEW t \in Threads, Browsed(t) PROVE SafeInv'
  BY ReleasedDoes, EndsQuietly DEF Browsed, At, Places

\* A failure inside With keeps SafeInv.
LEMMA VaultFailsSafe == ASSUME TypeOK, SafeInv, NEW t \in Threads, VaultFails(t) PROVE SafeInv'
  BY ReleasedDoes, EndsQuietly DEF VaultFails, At, Places

\* The end of a download keeps SafeInv.
LEMMA StreamEndsSafe == ASSUME TypeOK, SafeInv, NEW t \in Threads, StreamEnds(t) PROVE SafeInv'
<1>1. PICK sh \in BOOLEAN :
        ent' = [ent EXCEPT ![Sess(t)].busy = "none", ![Sess(t)].short = @ \/ (sh /\ ent[Sess(t)].reg)]
  BY DEF StreamEnds
<1>2. /\ Sess(t) \in Sessions /\ ent[Sess(t)].busy = t /\ ent \in [Sessions -> Entries] /\ th[t].at = "using" /\ Up
      /\ Return(t) /\ caches' = caches /\ proc' = proc
  BY UsingIs, Parts DEF StreamEnds, At
<1> DEFINE e == [ent[Sess(t)] EXCEPT !.busy = "none", !.short = @ \/ (sh /\ ent[Sess(t)].reg)]
<1>3. /\ e \in Entries /\ e.busy = "none" /\ e.reg = ent[Sess(t)].reg /\ e.vault = ent[Sess(t)].vault
      /\ e.scratch = ent[Sess(t)].scratch /\ e.derived = ent[Sess(t)].derived
  <2>1. (ent[Sess(t)].short \/ (sh /\ ent[Sess(t)].reg)) \in BOOLEAN /\ ent[Sess(t)] \in Entries
    BY <1>1, <1>2
  <2> QED
    BY <2>1, Names DEF Entries
<1>4. ent' = [ent EXCEPT ![Sess(t)] = e]
  BY <1>1, <1>2
<1> HIDE DEF e
<1>5. EntriesKept /\ BusyOf(t)
  BY <1>2, <1>3, <1>4, Names DEF EntriesKept, BusyOf
<1> QED
  BY <1>2, <1>5, EndsQuietly DEF Places

\* The end of a read or a query keeps SafeInv.
LEMMA ReadEndsSafe == ASSUME TypeOK, SafeInv, NEW t \in Threads, ReadEnds(t) \/ Query(t) PROVE SafeInv'
  BY Parts, EntSame, EndsQuietly DEF ReadEnds, Query, At, Places

\* A step to another place, the session's record as it was.
LEMMA GoesQuietly ==
    ASSUME TypeOK, SafeInv, NEW t \in Threads, Up, NEW p \in Places, Go(t, p), EntriesKept, BusyOf(t), LocksOf(t),
           caches' = caches, proc' = proc
    PROVE  Quietly(t) /\ SameGoal(t) /\ th'[t].at = p
  BY Parts, GoDoes DEF Quietly

\* Aggregation inside With keeps SafeInv.
LEMMA AggregatedSafe == ASSUME TypeOK, SafeInv, NEW t \in Threads, Aggregated(t) PROVE SafeInv'
<1>1. /\ th[t].at = "using" /\ Up /\ Go(t, "capmu") /\ EntriesKept /\ BusyOf(t) /\ LocksOf(t) /\ caches' = caches /\ proc' = proc
      /\ "capmu" \in Places /\ th[t].op = "overview"
  BY ReleasedDoes, Parts, LocksKept DEF Aggregated, At, Places
<1>2. Quietly(t) /\ SameGoal(t) /\ th'[t].at = "capmu"
  BY <1>1, GoesQuietly
<1> QED
  BY <1>1, <1>2, GoesOn DEF Places

\* The probe of a vault's capabilities keeps SafeInv.
LEMMA ProbedSafe == ASSUME TypeOK, SafeInv, NEW t \in Threads, Probed(t) PROVE SafeInv'
<1>1. /\ th[t].at = "using" /\ Up /\ Go(t, "attach") /\ EntriesKept /\ BusyOf(t) /\ LocksOf(t) /\ caches' = caches /\ proc' = proc
      /\ "attach" \in Places /\ th[t].op = "overview" /\ mu.cap = t /\ mu' = mu
  BY ReleasedDoes, Parts, LocksKept DEF Probed, At, Places
<1>2. Quietly(t) /\ SameGoal(t) /\ th'[t].at = "attach"
  BY <1>1, GoesQuietly
<1>3. Sess(t) \notin caches.cap
  BY <1>1 DEF SafeInv, CachesTrue
<1> QED
  BY <1>1, <1>2, <1>3, GoesOn DEF Places

\* Building a reader inside With keeps SafeInv.
LEMMA MaterializedSafe == ASSUME TypeOK, SafeInv, NEW t \in Threads, Materialized(t) PROVE SafeInv'
<1>1. /\ th[t].at = "using" /\ Up /\ Go(t, "attach") /\ EntriesKept /\ BusyOf(t) /\ LocksOf(t) /\ caches' = caches /\ proc' = proc
      /\ "attach" \in Places /\ th[t].op \in {"chats", "search"} /\ mu' = mu
  BY ReleasedDoes, Parts, LocksKept DEF Materialized, At, Places
<1>2. Quietly(t) /\ SameGoal(t) /\ th'[t].at = "attach"
  BY <1>1, GoesQuietly
<1>3. mu.msg = t /\ Sess(t) \notin caches.msg
  BY <1>1 DEF SafeInv, CachesTrue
<1> QED
  BY <1>1, <1>2, <1>3, GoesOn DEF Places

\* Looking a report up under capMu keeps SafeInv.
LEMMA CapMuSafe == ASSUME TypeOK, SafeInv, NEW t \in Threads, CapMu(t) PROVE SafeInv'
<1>0. Up /\ th[t].at = "capmu" /\ mu.cap = "none" /\ EntriesKept /\ BusyOf(t) /\ caches' = caches /\ proc' = proc
  BY Parts, EntSame DEF CapMu, At
<1>1. CASE Cached("cap", Sess(t))
  BY <1>0, <1>1, EndsQuietly DEF CapMu, Places
<1>2. CASE ~Cached("cap", Sess(t))
  <2>1. mu' = [mu EXCEPT !.cap = t] /\ Go(t, "with") /\ LocksOf(t) /\ mu'.cap = t /\ "with" \in Places
    BY <1>0, <1>2, Parts, Claims DEF CapMu, Places
  <2>2. Quietly(t) /\ SameGoal(t) /\ th'[t].at = "with"
    BY <1>0, <2>1, GoesQuietly
  <2>3. Sess(t) \notin caches.cap
    BY <1>2 DEF Cached
  <2>4. th[t].op = "overview"
    BY <1>0 DEF SafeInv, PlacesTrue
  <2> QED
    BY <1>0, <2>1, <2>2, <2>3, <2>4, GoesOn DEF Places
<1> QED
  BY <1>1, <1>2

\* Looking a reader up under msgMu keeps SafeInv.
LEMMA MsgMuSafe == ASSUME TypeOK, SafeInv, NEW t \in Threads, MsgMu(t) PROVE SafeInv'
<1>0. Up /\ th[t].at = "msgmu" /\ mu.msg = "none" /\ EntriesKept /\ BusyOf(t) /\ caches' = caches /\ proc' = proc
  BY Parts, EntSame DEF MsgMu, At
<1>1. th[t].op \in {"chats", "search"}
  BY <1>0 DEF SafeInv, PlacesTrue
<1>2. CASE Cached("msg", Sess(t))
  <2>1. mu' = mu /\ Go(t, "read") /\ LocksOf(t) /\ "read" \in Places
    BY <1>0, <1>2, Parts, LocksKept DEF MsgMu, Places
  <2>2. Quietly(t) /\ SameGoal(t) /\ th'[t].at = "read"
    BY <1>0, <2>1, GoesQuietly
  <2> QED
    BY <1>0, <1>1, <2>1, <2>2, GoesOn DEF Places
<1>3. CASE ~Cached("msg", Sess(t))
  <2>1. mu' = [mu EXCEPT !.msg = t] /\ Go(t, "with") /\ LocksOf(t) /\ mu'.msg = t /\ "with" \in Places
    BY <1>0, <1>3, Parts, Claims DEF MsgMu, Places
  <2>2. Quietly(t) /\ SameGoal(t) /\ th'[t].at = "with"
    BY <1>0, <2>1, GoesQuietly
  <2>3. Sess(t) \notin caches.msg
    BY <1>3 DEF Cached
  <2> QED
    BY <1>0, <1>1, <2>1, <2>2, <2>3, GoesOn DEF Places
<1> QED
  BY <1>2, <1>3

\* A read through a cached reader keeps SafeInv.
LEMMA ReadSafe == ASSUME TypeOK, SafeInv, NEW t \in Threads, Read(t) PROVE SafeInv'
<1>0. Up /\ th[t].at = "read" /\ EntriesKept /\ BusyOf(t) /\ caches' = caches /\ proc' = proc
  BY Parts, EntSame DEF Read, At
<1>1. CASE Return(t)
  BY <1>0, <1>1, EndsQuietly DEF Places
<1>2. CASE Go(t, "outside") /\ mu' = mu
  <2>1. Quietly(t) /\ SameGoal(t) /\ th'[t].at = "outside"
    BY <1>0, <1>2, Parts, LocksKept, GoesQuietly DEF Places
  <2> QED
    BY <1>0, <1>2, <2>1, GoesOn DEF Places
<1> QED
  BY <1>1, <1>2 DEF Read

\* Looking for a search's projection keeps SafeInv.
LEMMA EnsureSafe == ASSUME TypeOK, SafeInv, NEW t \in Threads, Ensure(t) PROVE SafeInv'
<1>0. Up /\ th[t].at = "read" /\ EntriesKept /\ BusyOf(t) /\ LocksOf(t) /\ caches' = caches /\ proc' = proc
  BY Parts, EntSame, LocksKept DEF Ensure, At
<1>1. PICK p \in {"query", "building"} : Go(t, p)
  BY DEF Ensure
<1>2. Quietly(t) /\ SameGoal(t) /\ th'[t].at = p
  BY <1>0, <1>1, GoesQuietly DEF Places
<1> QED
  BY <1>0, <1>1, <1>2, GoesOn DEF Places

\* Building a projection keeps SafeInv.
LEMMA BuildSafe == ASSUME TypeOK, SafeInv, NEW t \in Threads, Build(t) PROVE SafeInv'
<1>0. Up /\ th[t].at = "building" /\ EntriesKept /\ BusyOf(t) /\ caches' = caches /\ proc' = proc
  BY Parts, EntSame DEF Build, At
<1>1. CASE Return(t)
  BY <1>0, <1>1, EndsQuietly DEF Places
<1>2. CASE Go(t, "query") /\ mu' = mu
  <2>1. Quietly(t) /\ SameGoal(t) /\ th'[t].at = "query"
    BY <1>0, <1>2, Parts, LocksKept, GoesQuietly DEF Places
  <2> QED
    BY <1>0, <1>2, <2>1, GoesOn DEF Places
<1> QED
  BY <1>1, <1>2 DEF Build

-----------------------------------------------------------------------------
(* Closers                                                                 *)

\* Running the first closer when it is the report's.
LEMMA FirstIsCap ==
    ASSUME NEW d \in Closers, d # << >>, Head(d) = "cap"
    PROVE  Tail(d) \in Closers /\ d \in WithCap /\ d \notin MsgFirst /\ Tail(d) \notin WithCap /\ (Tail(d) \in WithMsg <=> d \in WithMsg)
<1>1. d \in {<<"cap">>, <<"cap", "msg">>}
  BY DEF Closers
<1>3. /\ << >> \notin WithCap /\ << >> \notin WithMsg /\ <<"msg">> \notin WithCap /\ <<"msg">> \in WithMsg
      /\ <<"cap">> \notin WithMsg /\ <<"cap", "msg">> \in WithMsg
  BY DEF WithCap, WithMsg
<1>4. d = <<"cap">> => Tail(d) = << >>
  OBVIOUS
<1>5. d = <<"cap", "msg">> => Tail(d) = <<"msg">>
  OBVIOUS
<1>6. d \notin MsgFirst
  BY <1>1 DEF MsgFirst
<1> QED
  BY <1>1, <1>3, <1>4, <1>5, <1>6 DEF Closers, WithCap

\* Running the first closer when it is the reader's.
LEMMA FirstIsMsg ==
    ASSUME NEW d \in MsgFirst
    PROVE  /\ d \in Closers /\ d \in WithMsg /\ d # << >> /\ Tail(d) \in Closers
           /\ Tail(d) \notin WithMsg /\ (Tail(d) \in WithCap <=> d \in WithCap)
<1>1. d = <<"msg">> => Tail(d) = << >>
  OBVIOUS
<1>2. d = <<"msg", "cap">> => Tail(d) = <<"cap">>
  OBVIOUS
<1>3. /\ << >> \notin WithCap /\ << >> \notin WithMsg /\ <<"cap">> \in WithCap /\ <<"cap">> \notin WithMsg
      /\ <<"msg">> \notin WithCap /\ <<"msg", "cap">> \in WithCap
  BY DEF WithCap, WithMsg
<1> QED
  BY <1>1, <1>2, <1>3 DEF MsgFirst, Closers, WithMsg

\* A first closer that is the reader's.
LEMMA HeadMsg == ASSUME NEW d \in Closers, d # << >>, Head(d) = "msg" PROVE d \in MsgFirst
  BY DEF Closers, MsgFirst

\* Two closers in the order they were attached.
LEMMA PairOf == ASSUME NEW x \in {"cap", "msg"}, NEW y \in {"cap", "msg"} PROVE Append(<<x>>, y) = <<x, y>>
<1> DEFINE a == Append(<<x>>, y)  b == <<x, y>>  K == {"cap", "msg"}
<1>1. <<x>> \in Seq(K) /\ Len(<<x>>) = 1 /\ <<x>>[1] = x
  OBVIOUS
<1>2. a \in Seq(K) /\ Len(a) = 2 /\ a[1] = x /\ a[2] = y
  BY <1>1
<1>3. b \in Seq(K) /\ Len(b) = 2 /\ b[1] = x /\ b[2] = y
  OBVIOUS
<1> HIDE DEF a, b, K
<1>4. \A i \in 1..2 : a[i] = b[i]
  BY <1>2, <1>3
<1>5. a = b
  BY <1>2, <1>3, <1>4, SeqEqual
<1> QED
  BY <1>5 DEF a, b

\* A session has each kind of closer once.
LEMMA Appended ==
    ASSUME NEW d \in Closers
    PROVE  /\ d \notin WithCap => /\ Append(d, "cap") \in Closers /\ Append(d, "cap") \in WithCap
                                  /\ (Append(d, "cap") \in WithMsg <=> d \in WithMsg)
           /\ d \notin WithMsg => /\ Append(d, "msg") \in Closers /\ Append(d, "msg") \in WithMsg
                                  /\ (Append(d, "msg") \in WithCap <=> d \in WithCap)
<1>1. d \notin WithCap => d \in {<< >>, <<"msg">>}
  BY DEF Closers, WithCap
<1>2. d \notin WithMsg => d \in {<< >>, <<"cap">>}
  BY DEF Closers, WithMsg
<1>3. /\ Append(<< >>, "cap") = <<"cap">> /\ Append(<< >>, "msg") = <<"msg">>
      /\ Append(<<"msg">>, "cap") = <<"msg", "cap">> /\ Append(<<"cap">>, "msg") = <<"cap", "msg">>
  <2>1. Append(<< >>, "cap") = <<"cap">>
    OBVIOUS
  <2>2. Append(<< >>, "msg") = <<"msg">>
    OBVIOUS
  <2> QED
    BY <2>1, <2>2, PairOf
<1>4. /\ << >> \notin WithCap /\ << >> \notin WithMsg /\ <<"cap">> \in WithCap /\ <<"cap">> \notin WithMsg
      /\ <<"msg">> \notin WithCap /\ <<"msg">> \in WithMsg /\ <<"cap", "msg">> \in WithCap \cap WithMsg
      /\ <<"msg", "cap">> \in WithCap \cap WithMsg
  BY DEF WithCap, WithMsg
<1>5. {<<"cap">>, <<"msg">>, <<"msg", "cap">>, <<"cap", "msg">>} \subseteq Closers
  BY DEF Closers
<1>6. ASSUME d \notin WithCap
      PROVE  Append(d, "cap") \in Closers /\ Append(d, "cap") \in WithCap /\ (Append(d, "cap") \in WithMsg <=> d \in WithMsg)
  <2>1. CASE d = << >>
    BY <1>3, <1>4, <1>5, <2>1
  <2>2. CASE d = <<"msg">>
    BY <1>3, <1>4, <1>5, <2>2
  <2> QED
    BY <1>1, <1>6, <2>1, <2>2
<1>7. ASSUME d \notin WithMsg
      PROVE  Append(d, "msg") \in Closers /\ Append(d, "msg") \in WithMsg /\ (Append(d, "msg") \in WithCap <=> d \in WithCap)
  <2>1. CASE d = << >>
    BY <1>3, <1>4, <1>5, <2>1
  <2>2. CASE d = <<"cap">>
    BY <1>3, <1>4, <1>5, <2>2
  <2> QED
    BY <1>2, <1>7, <2>1, <2>2
<1> QED
  BY <1>6, <1>7

-----------------------------------------------------------------------------
(* Teardown                                                                *)

\* Who closes a session is alone with it, and it is off the registry.
LEMMA ClosingIs ==
    ASSUME TypeOK, SafeInv, NEW t \in Threads, th[t].at \in {"close", "closing"}
    PROVE  /\ th[t].cur \in Sessions /\ th[t].cur \in th[t].due /\ ent[th[t].cur].busy = t
           /\ ~ent[th[t].cur].reg /\ ent[th[t].cur].vault = "open" /\ th[t].op # "unlock"
           /\ \A u \in Threads : u # t => th[t].cur \notin th[u].due /\ th[u].cur # th[t].cur
           /\ \A u \in Threads : th[u].at = "using" => Sess(u) # th[t].cur
<1>1. th[t].cur \in th[t].due /\ th[t].due \subseteq Sessions /\ th[t].cur # "none"
  BY Names, Parts DEF SafeInv, PlacesTrue
<1>2. ent[th[t].cur].busy = t /\ ~ent[th[t].cur].reg /\ ent[th[t].cur].vault = "open"
  BY <1>1 DEF SafeInv, SessionsTrue
<1>3. \A u \in Threads : u # t => th[t].cur \notin th[u].due
  BY <1>1 DEF SafeInv, SessionsTrue
<1>4. \A u \in Threads : u # t => th[u].cur # th[t].cur
  BY <1>1, <1>2 DEF SafeInv, SessionsTrue
<1>5. \A u \in Threads : th[u].at = "using" => Sess(u) # th[t].cur
  BY <1>2 DEF SafeInv, SessionsTrue
<1>6. th[t].op # "unlock"
  BY DEF SafeInv, PlacesTrue
<1> QED
  BY <1>1, <1>2, <1>3, <1>4, <1>5, <1>6

\* Taking the reader out of the cache keeps SafeInv.
LEMMA CloseMsgSafe == ASSUME TypeOK, SafeInv, NEW t \in Threads, CloseMsg(t) PROVE SafeInv'
<1>0. /\ Up /\ th[t].at = "close" /\ mu.msg = "none" /\ EntriesKept /\ BusyOf(t) /\ caches' = caches /\ proc' = proc
      /\ ent[th[t].cur].derived # << >> /\ Head(ent[th[t].cur].derived) = "msg" /\ mu' = [mu EXCEPT !.msg = t] /\ Go(t, "closing")
      /\ ent' = ent
  BY Parts, EntSame DEF CloseMsg, At
<1>1. LocksOf(t) /\ mu'.msg = t
  BY <1>0, Parts, Claims
<1>2. /\ th[t].cur \in Sessions /\ th[t].cur \in th[t].due /\ ent[th[t].cur].busy = t
  BY <1>0, ClosingIs
<1>3. ent[th[t].cur].derived \in MsgFirst
  BY <1>0, <1>2, Parts, HeadMsg DEF Entries
<1>4. Quietly(t) /\ SameGoal(t) /\ th'[t].at = "closing"
  BY <1>0, <1>1, GoesQuietly DEF Places
<1> QED
  BY <1>0, <1>1, <1>2, <1>3, <1>4, GoesOn DEF Places

\* Picking the next session to tear down keeps SafeInv.
LEMMA TeardownBeginsSafe == ASSUME TypeOK, SafeInv, NEW t \in Threads, TeardownBegins(t) PROVE SafeInv'
<1>0. /\ Up /\ th[t].at = "teardown" /\ caches' = caches /\ proc' = proc /\ mu' = mu
  BY DEF TeardownBegins, At
<1>1. PICK s \in th[t].due :
        /\ ent[s].busy = "none" /\ ent' = [ent EXCEPT ![s].busy = t]
        /\ th' = [th EXCEPT ![t].at = "close", ![t].cur = s]
  BY DEF TeardownBegins
<1>2. s \in Sessions
  BY <1>1, Parts
<1>3. EntriesKept /\ BusyOf(t) /\ ent'[s].busy = t
  BY <1>1, <1>2, Parts, EntBusy
<1> DEFINE o == [th[t] EXCEPT !.at = "close", !.cur = s]
<1>4. o \in Goroutines /\ o.at = "close" /\ o.cur = s /\ o.op = th[t].op /\ o.s = th[t].s /\ o.due = th[t].due
  BY <1>2, Parts DEF Goroutines, Places
<1>5. th' = [th EXCEPT ![t] = o]
  BY <1>1
<1> HIDE DEF o
<1>6. /\ \A u \in Threads : u # t => th'[u] = th[u]
      /\ th'[t].at = "close" /\ th'[t].cur = s /\ th'[t].op = th[t].op /\ th'[t].s = th[t].s /\ th'[t].due = th[t].due
  BY <1>4, <1>5, Parts
<1>7. th[t].op # "unlock" /\ th[t].cur = "none"
  BY <1>0 DEF SafeInv, PlacesTrue
<1>8. PlacesTrue'
  <2>1. /\ th'[t].at = "close" /\ th'[t].cur \in th'[t].due /\ th'[t].op # "unlock"
    BY <1>1, <1>6, <1>7
  <2> QED
    BY <1>6, <2>1 DEF SafeInv, PlacesTrue, Sess
<1>9. /\ \A x \in Sessions : /\ ent'[x].reg = ent[x].reg /\ ent'[x].vault = ent[x].vault
                             /\ ent'[x].scratch = ent[x].scratch /\ ent'[x].derived = ent[x].derived
      /\ \A x \in Sessions, u \in Threads : u # t => (ent'[x].busy = u <=> ent[x].busy = u)
  BY <1>3 DEF EntriesKept, BusyOf
<1>10. SessionsTrue'
  <2>1. \A u \in Threads : th'[u].at = "using" => ent'[th'[u].s].busy = u /\ ent'[th'[u].s].vault = "open"
    BY <1>6, <1>9 DEF SafeInv, SessionsTrue, PlacesTrue, Sess, Places
  <2>2. \A u \in Threads : th'[u].cur # "none" => ent'[th'[u].cur].busy = u
    <3>1. \A u \in Threads : th[u].cur # "none" => th[u].cur \in Sessions
      BY Parts DEF TypeOK, Goroutines
    <3> QED
      BY <1>3, <1>6, <1>9, <3>1 DEF SafeInv, SessionsTrue
  <2>3. \A u \in Threads : th'[u].due = th[u].due /\ th[u].due \subseteq Sessions
    BY <1>6, Parts
  <2> QED
    BY <1>9, <2>1, <2>2, <2>3 DEF SafeInv, SessionsTrue, Sess
<1>11. UnlocksTrue'
  <2>1. \A u \in Threads : th'[u].op = th[u].op /\ th'[u].s = th[u].s
    BY <1>6
  <2>2. \A u \in Threads : th'[u].at = "register" <=> th[u].at = "register"
    BY <1>0, <1>6
  <2>3. \A u \in Threads : th[u].op = "unlock" \/ th[u].at = "register" => th[u].s \in Sessions
    BY DEF SafeInv, PlacesTrue, Sess, Places
  <2> QED
    BY <1>0, <1>9, <2>1, <2>2, <2>3, Names DEF SafeInv, UnlocksTrue, Sess, Up
<1>12. CachesTrue'
  <2>1. \A u \in Threads : th'[u].at \in {"with", "using", "attach", "closing"} => th'[u] = th[u]
    BY <1>6
  <2>2. \A u \in Threads : th[u].at = "closing" => th[u].cur \in Sessions
    BY ClosingIs
  <2>3. \A u \in Threads : th'[u].at = "idle" => mu'.cap # u /\ mu'.msg # u
    BY <1>0, <1>6 DEF SafeInv, CachesTrue
  <2>4. /\ \A x \in Sessions : x \in caches'.cap <=> ent'[x].derived \in WithCap
        /\ \A x \in Sessions : x \in caches'.msg <=> ent'[x].derived \in WithMsg
    BY <1>0, <1>9 DEF SafeInv, CachesTrue
  <2>5. \A u \in Threads : th'[u].at = "closing" => mu'.msg = u /\ ent'[th'[u].cur].derived \in MsgFirst
    BY <1>0, <1>9, <2>1, <2>2 DEF SafeInv, CachesTrue
  <2> QED
    BY <1>0, <2>1, <2>3, <2>4, <2>5 DEF SafeInv, CachesTrue, Sess
<1> QED
  BY <1>8, <1>10, <1>11, <1>12 DEF SafeInv

\* The session's record apart from what was attached to it.
RestKept(x) == /\ ent'[x].reg = ent[x].reg /\ ent'[x].vault = ent[x].vault /\ ent'[x].scratch = ent[x].scratch
               /\ ent'[x].busy = ent[x].busy

\* Writing the closers of one session changes nothing else.
LEMMA DerivedDoes ==
    ASSUME ent \in [Sessions -> Entries], NEW s \in Sessions, NEW d \in Closers, ent' = [ent EXCEPT ![s].derived = d]
    PROVE  /\ ent' \in [Sessions -> Entries] /\ (\A x \in Sessions : RestKept(x)) /\ ent'[s].derived = d
           /\ \A x \in Sessions : x # s => ent'[x].derived = ent[x].derived
<1> DEFINE e == [ent[s] EXCEPT !.derived = d]
<1>1. /\ e \in Entries /\ e.derived = d /\ e.reg = ent[s].reg /\ e.vault = ent[s].vault /\ e.scratch = ent[s].scratch
      /\ e.busy = ent[s].busy
  BY DEF Entries
<1>2. ent' = [ent EXCEPT ![s] = e]
  OBVIOUS
<1> HIDE DEF e
<1> QED
  BY <1>1, <1>2 DEF RestKept

\* The parts that say nothing of what is attached.
LEMMA DerivedApart ==
    ASSUME TypeOK, SafeInv, NEW t \in Threads, Moves(t), SameGoal(t), \A x \in Sessions : RestKept(x), proc' = proc, Up,
           th[t].at \in Places \ {"idle", "open", "register"},
           \/ th'[t].at = th[t].at
           \/ th[t].at = "closing" /\ th'[t].at = "close"
           \/ th[t].at = "attach" /\ th'[t].at = "read"
    PROVE  PlacesTrue' /\ SessionsTrue' /\ UnlocksTrue'
<1>0. /\ \A u \in Threads : u # t => th'[u] = th[u]
      /\ th'[t].op = th[t].op /\ th'[t].s = th[t].s /\ th'[t].due = th[t].due /\ th'[t].cur = th[t].cur
      /\ \A x \in Sessions : /\ ent'[x].reg = ent[x].reg /\ ent'[x].vault = ent[x].vault
                             /\ ent'[x].scratch = ent[x].scratch /\ ent'[x].busy = ent[x].busy
  BY DEF Moves, SameGoal, RestKept
<1>1. th[t].op # "unlock" /\ th'[t].at \in Places \ {"idle", "open", "register"}
  BY DEF SafeInv, PlacesTrue, Places
<1>2. PlacesTrue'
  <2>1. /\ th'[t].at \in Places \ {"idle", "teardown", "close", "closing"} => th'[t].s \in Sessions
        /\ th'[t].at = "attach" => th'[t].op \in {"overview", "chats", "search"}
        /\ (th'[t].at = "capmu" => th'[t].op = "overview") /\ (th'[t].at = "msgmu" => th'[t].op \in {"chats", "search"})
        /\ th'[t].due # {} => th'[t].at \in {"teardown", "close", "closing"}
        /\ th'[t].cur # "none" => th'[t].at \in {"close", "closing"}
        /\ th'[t].at \in {"close", "closing"} => th'[t].cur \in th'[t].due
    BY <1>0 DEF SafeInv, PlacesTrue, Sess
  <2> QED
    BY <1>0, <1>1, <2>1 DEF SafeInv, PlacesTrue, Sess
<1>3. SessionsTrue'
  <2>1. \A u \in Threads : th'[u].at = "using" => th[u].at = "using" /\ th[u].s \in Sessions /\ th'[u].s = th[u].s
    BY <1>0 DEF SafeInv, PlacesTrue, Sess, Places
  <2>2. \A u \in Threads : /\ th'[u].cur = th[u].cur /\ (th[u].cur # "none" => th[u].cur \in Sessions)
                           /\ th'[u].due = th[u].due /\ th[u].due \subseteq Sessions
    BY <1>0, Parts DEF TypeOK, Goroutines
  <2> QED
    BY <1>0, <2>1, <2>2 DEF SafeInv, SessionsTrue, Sess
<1>4. UnlocksTrue'
  <2>1. \A u \in Threads : th'[u].op = th[u].op /\ th'[u].s = th[u].s
    BY <1>0
  <2>2. \A u \in Threads : th'[u].at = "register" <=> th[u].at = "register"
    BY <1>0
  <2>3. \A u \in Threads : th[u].op = "unlock" \/ th[u].at = "register" => th[u].s \in Sessions
    BY DEF SafeInv, PlacesTrue, Sess, Places
  <2> QED
    BY <1>0, <2>1, <2>2, <2>3, Names DEF SafeInv, UnlocksTrue, Sess, Up
<1> QED
  BY <1>2, <1>3, <1>4

\* Dropping the report of a session keeps SafeInv.
LEMMA CloseCapSafe == ASSUME TypeOK, SafeInv, NEW t \in Threads, CloseCap(t) PROVE SafeInv'
<1> DEFINE s == th[t].cur  d == Tail(ent[s].derived)
<1>0. /\ Up /\ th[t].at = "close" /\ mu.cap = "none" /\ ent[s].derived # << >> /\ Head(ent[s].derived) = "cap"
      /\ caches' = [caches EXCEPT !.cap = @ \ {s}] /\ ent' = [ent EXCEPT ![s].derived = d] /\ UNCHANGED <<mu, th, proc>>
  BY DEF CloseCap, At
<1>1. s \in Sessions /\ ent[s].derived \in Closers /\ \A u \in Threads : u # t => th[u].cur # s
  BY <1>0, ClosingIs, Parts DEF Entries
<1>2. /\ d \in Closers /\ ent[s].derived \in WithCap /\ ent[s].derived \notin MsgFirst /\ d \notin WithCap
      /\ (d \in WithMsg <=> ent[s].derived \in WithMsg)
  BY <1>0, <1>1, FirstIsCap
<1>3. ent' = [ent EXCEPT ![s].derived = d] /\ s = th[t].cur
  BY <1>0
<1>4. caches'.cap = caches.cap \ {s} /\ caches'.msg = caches.msg
  BY <1>0, Parts
<1> HIDE DEF s, d
<1>5. /\ (\A x \in Sessions : RestKept(x)) /\ ent'[s].derived = d /\ \A x \in Sessions : x # s => ent'[x].derived = ent[x].derived
  BY <1>1, <1>2, <1>3, Parts, DerivedDoes
<1>6. Moves(t) /\ SameGoal(t) /\ th'[t].at = th[t].at
  BY <1>0, Parts DEF Moves, SameGoal
<1>7. PlacesTrue' /\ SessionsTrue' /\ UnlocksTrue'
  BY <1>0, <1>5, <1>6, DerivedApart DEF Places
<1>8. CachesTrue'
  <2>1. \A x \in Sessions : (x \in caches'.cap <=> ent'[x].derived \in WithCap) /\ (x \in caches'.msg <=> ent'[x].derived \in WithMsg)
    BY <1>1, <1>2, <1>4, <1>5 DEF SafeInv, CachesTrue
  <2>2. \A u \in Threads : th[u].at = "closing" => th[u].cur \in Sessions /\ th[u].cur # s
    BY <1>0, <1>1, ClosingIs
  <2> QED
    BY <1>0, <1>4, <1>5, <2>1, <2>2 DEF SafeInv, CachesTrue, Sess
<1> QED
  BY <1>7, <1>8 DEF SafeInv

\* Closing a reader keeps SafeInv.
LEMMA ReaderCloseSafe == ASSUME TypeOK, SafeInv, NEW t \in Threads, ReaderClose(t) PROVE SafeInv'
<1> DEFINE s == th[t].cur  d == Tail(ent[s].derived)
<1>0. /\ Up /\ th[t].at = "closing" /\ caches' = [caches EXCEPT !.msg = @ \ {s}] /\ ent' = [ent EXCEPT ![s].derived = d]
      /\ mu' = [mu EXCEPT !.msg = "none"] /\ Go(t, "close") /\ proc' = proc
  BY DEF ReaderClose, At, Dropped
<1>1. s \in Sessions /\ ent[s].derived \in MsgFirst /\ mu.msg = t /\ \A u \in Threads : u # t => th[u].cur # s
  BY <1>0, ClosingIs DEF SafeInv, CachesTrue
<1>2. /\ d \in Closers /\ ent[s].derived \in WithMsg /\ d \notin WithMsg /\ (d \in WithCap <=> ent[s].derived \in WithCap)
  BY <1>1, FirstIsMsg
<1>3. ent' = [ent EXCEPT ![s].derived = d] /\ s = th[t].cur
  BY <1>0
<1>4. caches'.msg = caches.msg \ {s} /\ caches'.cap = caches.cap
  BY <1>0, Parts
<1> HIDE DEF s, d
<1>5. /\ (\A x \in Sessions : RestKept(x)) /\ ent'[s].derived = d /\ \A x \in Sessions : x # s => ent'[x].derived = ent[x].derived
  BY <1>1, <1>2, <1>3, Parts, DerivedDoes
<1>6. Moves(t) /\ SameGoal(t) /\ th'[t].at = "close"
  BY <1>0, Parts, GoDoes DEF Places
<1>7. PlacesTrue' /\ SessionsTrue' /\ UnlocksTrue'
  BY <1>0, <1>5, <1>6, DerivedApart DEF Places
<1>8. CachesTrue'
  <2>1. \A x \in Sessions : (x \in caches'.cap <=> ent'[x].derived \in WithCap) /\ (x \in caches'.msg <=> ent'[x].derived \in WithMsg)
    BY <1>1, <1>2, <1>4, <1>5 DEF SafeInv, CachesTrue
  <2>2. \A u \in Threads : th'[u].at = "closing" => u # t /\ th'[u] = th[u] /\ th[u].cur \in Sessions /\ th[u].cur # s
    BY <1>1, <1>6, ClosingIs DEF Moves
  <2>3. \A u \in Threads : u # t => (mu'.msg = u <=> mu.msg = u) /\ (mu'.cap = u <=> mu.cap = u)
    BY <1>0, <1>1, Parts, Claims DEF LocksOf
  <2>4. \A u \in Threads : th'[u].at \in {"with", "using", "attach"} => u # t /\ th'[u] = th[u]
    BY <1>6 DEF Moves
  <2>5. \A u \in Threads : th'[u].at = "idle" => mu'.cap # u /\ mu'.msg # u
    BY <1>6, <2>3 DEF SafeInv, CachesTrue, Moves
  <2>6. \A u \in Threads : th'[u].at = "closing" => mu'.msg = u /\ ent'[th'[u].cur].derived \in MsgFirst
    BY <1>5, <2>2, <2>3 DEF SafeInv, CachesTrue
  <2> QED
    BY <1>0, <1>4, <2>1, <2>3, <2>4, <2>5, <2>6 DEF SafeInv, CachesTrue, Sess
<1> QED
  BY <1>7, <1>8 DEF SafeInv

\* A goroutine returning from Attach keeps what does not concern caches.
LEMMA ReturnApart ==
    ASSUME TypeOK, SafeInv, NEW t \in Threads, Moves(t), th'[t] = Idle, \A x \in Sessions : RestKept(x), proc' = proc, Up,
           th[t].at = "attach"
    PROVE  PlacesTrue' /\ SessionsTrue' /\ UnlocksTrue'
<1>0. /\ \A u \in Threads : u # t => th'[u] = th[u]
      /\ th'[t].op = "none" /\ th'[t].at = "idle" /\ th'[t].due = {} /\ th'[t].cur = "none"
      /\ \A x \in Sessions : /\ ent'[x].reg = ent[x].reg /\ ent'[x].vault = ent[x].vault
                             /\ ent'[x].scratch = ent[x].scratch /\ ent'[x].busy = ent[x].busy
      /\ th[t].due = {} /\ th[t].cur = "none"
  BY Blanks, DueOnlyAtEnd DEF Moves, RestKept, Places
<1>1. PlacesTrue'
  BY <1>0 DEF SafeInv, PlacesTrue, Sess
<1>2. SessionsTrue'
  <2>1. \A u \in Threads : th'[u].at = "using" => th[u].at = "using" /\ th[u].s \in Sessions /\ th'[u].s = th[u].s
    BY <1>0 DEF SafeInv, PlacesTrue, Sess, Places
  <2>2. \A u \in Threads : /\ th'[u].cur = th[u].cur /\ (th[u].cur # "none" => th[u].cur \in Sessions)
                           /\ th'[u].due = th[u].due /\ th[u].due \subseteq Sessions
    BY <1>0, Parts DEF TypeOK, Goroutines
  <2> QED
    BY <1>0, <2>1, <2>2 DEF SafeInv, SessionsTrue, Sess
<1>3. UnlocksTrue'
  <2>1. \A u \in Threads : th'[u].op = "unlock" \/ th'[u].at = "register" => u # t /\ th'[u] = th[u] /\ th[u].s \in Sessions
    BY <1>0 DEF SafeInv, PlacesTrue, Sess, Places
  <2>2. \A u \in Threads : th[u].at = "register" => th'[u] = th[u]
    BY <1>0
  <2>3. th'["sweeper"].op = "none"
    BY <1>0, Names DEF SafeInv, UnlocksTrue
  <2>4. Up' /\ \A s \in Sessions : ent'[s].scratch => ent'[s].vault = "open" \/ \E u \in Threads : th'[u].at = "register" /\ th'[u].s = s
    BY <1>0, <2>2 DEF SafeInv, UnlocksTrue, Up, Sess
  <2> QED
    BY <1>0, <2>1, <2>3, <2>4 DEF SafeInv, UnlocksTrue, Sess
<1> QED
  BY <1>1, <1>2, <1>3

\* Attaching a closer, or finding the session gone, keeps SafeInv.
LEMMA AttachSafe == ASSUME TypeOK, SafeInv, NEW t \in Threads, Attach(t) PROVE SafeInv'
<1> DEFINE s == Sess(t)  kind == IF th[t].op = "overview" THEN "cap" ELSE "msg"
<1>0. Up /\ th[t].at = "attach" /\ proc' = proc /\ s \in Sessions
  BY DEF Attach, At, SafeInv, PlacesTrue, Places
<1>1. CASE ~ent[s].reg
  <2>1. Return(t) /\ ent' = ent /\ caches' = caches
    BY <1>1 DEF Attach, AttachDerived
  <2> QED
    BY <1>0, <2>1, Parts, EntSame, EndsQuietly DEF Places
<1>2. CASE ent[s].reg
  <2> DEFINE d == Append(ent[s].derived, kind)
  <2>1. /\ ent' = [ent EXCEPT ![s].derived = d] /\ caches' = [caches EXCEPT ![kind] = @ \cup {s}]
        /\ IF kind = "cap" THEN Return(t) ELSE Go(t, "read") /\ mu' = Freed(t)
    <3>1. /\ ent' = [ent EXCEPT ![s].derived = IF ent[s].reg THEN Append(@, kind) ELSE @]
          /\ caches' = [caches EXCEPT ![kind] = @ \cup {s}]
          /\ IF kind = "cap" THEN Return(t) ELSE Go(t, "read") /\ mu' = Freed(t)
      BY <1>2 DEF Attach, AttachDerived
    <3> QED
      BY <1>2, <3>1
  <2>2. ent[s].derived \in Closers /\ th[t].op \in {"overview", "chats", "search"} /\ kind \in {"cap", "msg"}
    BY <1>0, Parts DEF Entries, SafeInv, PlacesTrue
  <2>3. /\ kind = "cap" => mu.cap = t /\ s \notin caches.cap /\ ent[s].derived \notin WithCap
        /\ kind = "msg" => mu.msg = t /\ s \notin caches.msg /\ ent[s].derived \notin WithMsg
    BY <1>0, <2>2 DEF SafeInv, CachesTrue
  <2>4. /\ d \in Closers
        /\ kind = "cap" => d \in WithCap /\ (d \in WithMsg <=> ent[s].derived \in WithMsg)
        /\ kind = "msg" => d \in WithMsg /\ (d \in WithCap <=> ent[s].derived \in WithCap)
    BY <2>2, <2>3, Appended
  <2>5. /\ kind = "cap" => caches'.cap = caches.cap \cup {s} /\ caches'.msg = caches.msg
        /\ kind = "msg" => caches'.msg = caches.msg \cup {s} /\ caches'.cap = caches.cap
    BY <2>1, <2>2, Parts
  <2>6. LocksOf(t) /\ mu'.cap # t /\ mu'.msg # t
    BY <2>1, Parts, ReturnDoes, FreedDoes
  <2>7. s = Sess(t) /\ ent' = [ent EXCEPT ![s].derived = d] /\ (kind = "cap" => Return(t)) /\ (kind = "msg" => Go(t, "read"))
    BY <2>1
  <2>8. (kind = "cap" <=> th[t].op = "overview")
    OBVIOUS
  <2> HIDE DEF s, d, kind
  <2>9. /\ (\A x \in Sessions : RestKept(x)) /\ ent'[s].derived = d /\ \A x \in Sessions : x # s => ent'[x].derived = ent[x].derived
    BY <1>0, <2>4, <2>7, Parts, DerivedDoes
  <2>10. Moves(t) /\ th'[t].at \in {"idle", "read"} /\ PlacesTrue' /\ SessionsTrue' /\ UnlocksTrue'
    <3>1. CASE kind = "cap"
      <4>1. Moves(t) /\ th'[t] = Idle
        BY <2>7, <3>1, Parts, ReturnDoes
      <4> QED
        BY <1>0, <2>9, <4>1, ReturnApart, Blanks
    <3>2. CASE kind = "msg"
      <4>1. Moves(t) /\ SameGoal(t) /\ th'[t].at = "read"
        BY <2>7, <3>2, Parts, GoDoes DEF Places
      <4> QED
        BY <1>0, <2>9, <4>1, DerivedApart DEF Places
    <3> QED
      BY <2>2, <3>1, <3>2
  <2>11. CachesTrue'
    <3>1. \A x \in Sessions : (x \in caches'.cap <=> ent'[x].derived \in WithCap) /\ (x \in caches'.msg <=> ent'[x].derived \in WithMsg)
      BY <1>0, <2>2, <2>4, <2>5, <2>9 DEF SafeInv, CachesTrue
    <3>2. \A u \in Threads : th'[u].at \in {"with", "using", "attach", "closing"} => u # t /\ th'[u] = th[u]
      BY <2>10 DEF Moves
    <3>3. \A u \in Threads : u # t => (mu'.msg = u <=> mu.msg = u) /\ (mu'.cap = u <=> mu.cap = u)
      BY <2>6 DEF LocksOf
    <3>4. \A u \in Threads : th[u].at = "closing" => th[u].cur \in Sessions /\ th[u].cur # s
      BY <1>2, ClosingIs DEF s
    <3>5. ASSUME NEW u \in Threads
          PROVE  /\ th'[u].op = "overview" /\ th'[u].at = "attach" => mu'.cap = u
                 /\ th'[u].op = "overview" /\ th'[u].at \in {"with", "using", "attach"} /\ mu'.cap = u => th'[u].s \notin caches'.cap
                 /\ th'[u].op \in {"chats", "search"} /\ th'[u].at \in {"with", "using", "attach"}
                      => mu'.msg = u /\ th'[u].s \notin caches'.msg
                 /\ th'[u].at = "closing" => mu'.msg = u /\ ent'[th'[u].cur].derived \in MsgFirst
                 /\ th'[u].at = "idle" => mu'.cap # u /\ mu'.msg # u
      <4>0. th'[u].at = "idle" => mu'.cap # u /\ mu'.msg # u
        BY <2>6, <2>10, <3>3 DEF SafeInv, CachesTrue, Moves
      <4> SUFFICES ASSUME th'[u].at \in {"with", "using", "attach", "closing"} PROVE
                 /\ th'[u].op = "overview" /\ th'[u].at = "attach" => mu'.cap = u
                 /\ th'[u].op = "overview" /\ th'[u].at \in {"with", "using", "attach"} /\ mu'.cap = u => th'[u].s \notin caches'.cap
                 /\ th'[u].op \in {"chats", "search"} /\ th'[u].at \in {"with", "using", "attach"}
                      => mu'.msg = u /\ th'[u].s \notin caches'.msg
                 /\ th'[u].at = "closing" => mu'.msg = u /\ ent'[th'[u].cur].derived \in MsgFirst
        BY <4>0
      <4>1. u # t /\ th'[u] = th[u] /\ (mu'.msg = u <=> mu.msg = u) /\ (mu'.cap = u <=> mu.cap = u)
        BY <3>2, <3>3
      <4>2. kind = "cap" => mu.cap # u
        BY <2>3, <4>1
      <4>3. kind = "msg" => mu.msg # u
        BY <2>3, <4>1
      <4> QED
        BY <2>2, <2>5, <2>9, <3>4, <4>1, <4>2, <4>3 DEF SafeInv, CachesTrue, Sess
    <3> QED
      BY <3>1, <3>5 DEF CachesTrue, Sess
  <2> QED
    BY <2>10, <2>11 DEF SafeInv
<1> QED
  BY <1>1, <1>2

-----------------------------------------------------------------------------
(* A session ends                                                          *)

\* Sessions leave the map and goroutine t answers for them.
Unlists(t, D) ==
    /\ Moves(t) /\ th'[t].at = "teardown" /\ th'[t].due = D /\ th'[t].cur = "none" /\ th'[t].op # "unlock"
    /\ ent' \in [Sessions -> Entries]
    /\ \A x \in Sessions : /\ (x \in D => ~ent'[x].reg) /\ (x \notin D => ent'[x].reg = ent[x].reg) /\ ent'[x].vault = ent[x].vault
                           /\ ent'[x].scratch = ent[x].scratch /\ ent'[x].busy = ent[x].busy
                           /\ ent'[x].derived = ent[x].derived
    /\ UNCHANGED <<caches, mu, proc>>

\* Taking sessions off the registry changes nothing else of them.
LEMMA UnlistedDoes ==
    ASSUME ent \in [Sessions -> Entries], NEW D \in SUBSET Sessions, Unlisted(D)
    PROVE  /\ ent' \in [Sessions -> Entries]
           /\ \A x \in Sessions : /\ (x \in D => ~ent'[x].reg) /\ (x \notin D => ent'[x].reg = ent[x].reg) /\ ent'[x].vault = ent[x].vault
                                  /\ ent'[x].scratch = ent[x].scratch /\ ent'[x].busy = ent[x].busy
                                  /\ ent'[x].derived = ent[x].derived
<1>1. ASSUME NEW x \in Sessions
      PROVE  LET e == [ent[x] EXCEPT !.reg = FALSE] IN
             e \in Entries /\ ~e.reg /\ e.vault = ent[x].vault /\ e.scratch = ent[x].scratch /\ e.busy = ent[x].busy
             /\ e.derived = ent[x].derived
  BY DEF Entries
<1>2. ent' = [x \in Sessions |-> IF x \in D THEN [ent[x] EXCEPT !.reg = FALSE] ELSE ent[x]]
  BY DEF Unlisted
<1>3. ent' \in [Sessions -> Entries]
  BY <1>1, <1>2
<1>4. ASSUME NEW x \in Sessions
      PROVE  /\ (x \in D => ~ent'[x].reg) /\ (x \notin D => ent'[x].reg = ent[x].reg) /\ ent'[x].vault = ent[x].vault
             /\ ent'[x].scratch = ent[x].scratch /\ ent'[x].busy = ent[x].busy /\ ent'[x].derived = ent[x].derived
  <2>1. CASE x \in D
    <3>1. ent'[x] = [ent[x] EXCEPT !.reg = FALSE]
      BY <1>2, <2>1
    <3>2. ~ent'[x].reg /\ ent'[x].reg \in BOOLEAN
      BY <1>1, <1>3, <3>1 DEF Entries
    <3> QED
      BY <1>1, <2>1, <3>1, <3>2
  <2>2. CASE x \notin D
    BY <1>2, <2>2
  <2> QED
    BY <2>1, <2>2
<1> QED
  BY <1>3, <1>4

\* Sessions taken off the registry have exactly one teardown from then on.
LEMMA UnlistsSafe ==
    ASSUME TypeOK, SafeInv, NEW t \in Threads, NEW D \in SUBSET Sessions, Unlists(t, D), Up, D # {},
           \A x \in D : ent[x].reg, th[t].at \in {"idle", "with"}, t = "sweeper" => th'[t].op = "none"
    PROVE  SafeInv'
<1>0. /\ \A u \in Threads : u # t => th'[u] = th[u]
      /\ th'[t].at = "teardown" /\ th'[t].due = D /\ th'[t].cur = "none" /\ th'[t].op # "unlock"
      /\ \A x \in Sessions : /\ (x \in D => ~ent'[x].reg) /\ (x \notin D => ent'[x].reg = ent[x].reg) /\ ent'[x].vault = ent[x].vault
                             /\ ent'[x].scratch = ent[x].scratch /\ ent'[x].busy = ent[x].busy
                             /\ ent'[x].derived = ent[x].derived
      /\ UNCHANGED <<caches, mu, proc>>
  BY DEF Unlists, Moves
<1>01. /\ \A x \in Sessions : /\ ent'[x].vault = ent[x].vault /\ ent'[x].scratch = ent[x].scratch
                              /\ ent'[x].busy = ent[x].busy /\ ent'[x].derived = ent[x].derived
       /\ caches' = caches /\ mu' = mu /\ proc' = proc
  BY <1>0
<1>1. th[t].due = {} /\ th[t].cur = "none" /\ th[t].op # "unlock"
  BY DueOnlyAtEnd DEF SafeInv, PlacesTrue, Places
<1>2. PlacesTrue'
  BY <1>0 DEF SafeInv, PlacesTrue, Sess
<1>3. SessionsTrue'
  <2>1. \A u \in Threads : th'[u].at = "using" => u # t /\ th'[u] = th[u] /\ th[u].s \in Sessions
    BY <1>0 DEF SafeInv, PlacesTrue, Sess, Places
  <2>2. \A u \in Threads : th'[u].cur = th[u].cur /\ (th[u].cur # "none" => th[u].cur \in Sessions)
    BY <1>0, <1>1, Parts DEF TypeOK, Goroutines
  <2>3. \A u \in Threads : u # t => th'[u].due = th[u].due /\ th[u].due \subseteq Sessions /\ th[u].due \cap D = {}
    <3>1. \A u \in Threads : \A x \in th[u].due : ~ent[x].reg
      BY DEF SafeInv, SessionsTrue
    <3> QED
      BY <1>0, <3>1, Parts
  <2>4. \A x \in D : ent[x].vault = "open"
    BY DEF SafeInv, SessionsTrue
  <2>5. \A u \in Threads : th'[u].at = "using" => ent'[th'[u].s].busy = u /\ ent'[th'[u].s].vault = "open"
    BY <1>01, <2>1 DEF SafeInv, SessionsTrue, Sess
  <2>6. \A u \in Threads : th'[u].cur # "none" => ent'[th'[u].cur].busy = u
    BY <1>01, <2>2 DEF SafeInv, SessionsTrue
  <2>7. \A x \in Sessions : ent'[x].reg => ent'[x].vault = "open"
    BY <1>0 DEF SafeInv, SessionsTrue
  <2>8. \A x \in Sessions : ent'[x].vault = "open" => ent'[x].scratch /\ (ent'[x].reg \/ \E u \in Threads : x \in th'[u].due)
    <3> SUFFICES ASSUME NEW x \in Sessions, ent[x].vault = "open"
                 PROVE  ent[x].scratch /\ (ent'[x].reg \/ \E u \in Threads : x \in th'[u].due)
      BY <1>0
    <3>1. ent[x].scratch /\ (ent[x].reg \/ \E u \in Threads : x \in th[u].due)
      BY DEF SafeInv, SessionsTrue
    <3>2. CASE x \in D
      BY <1>0, <3>1, <3>2
    <3>3. CASE x \notin D
      BY <1>0, <1>1, <3>1, <3>3
    <3> QED
      BY <3>2, <3>3
  <2>9. \A u \in Threads : \A x \in th'[u].due : ~ent'[x].reg /\ ent'[x].vault = "open"
    <3> SUFFICES ASSUME NEW u \in Threads, NEW x \in th'[u].due PROVE ~ent'[x].reg /\ ent'[x].vault = "open"
      OBVIOUS
    <3>1. CASE u = t
      BY <1>0, <2>4, <3>1
    <3>2. CASE u # t
      <4>1. x \in th[u].due /\ x \in Sessions
        BY <2>3, <3>2
      <4>2. ~ent[x].reg /\ ent[x].vault = "open"
        BY <4>1 DEF SafeInv, SessionsTrue
      <4> QED
        BY <1>0, <4>1, <4>2
    <3> QED
      BY <3>1, <3>2
  <2>10. \A u, v \in Threads : u # v => th'[u].due \cap th'[v].due = {}
    BY <1>0, <2>3 DEF SafeInv, SessionsTrue
  <2> QED
    BY <2>5, <2>6, <2>7, <2>8, <2>9, <2>10 DEF SessionsTrue, Sess
<1>4. UnlocksTrue'
  <2>1. \A u \in Threads : th'[u].op = "unlock" \/ th'[u].at = "register" => u # t /\ th'[u] = th[u] /\ th[u].s \in Sessions
    BY <1>0 DEF SafeInv, PlacesTrue, Sess, Places
  <2>2. \A u \in Threads : th[u].at = "register" => th'[u] = th[u]
    BY <1>0
  <2>3. th'["sweeper"].op = "none"
    BY <1>0, Names DEF SafeInv, UnlocksTrue
  <2>4. Up' /\ \A s \in Sessions : ent'[s].scratch => ent'[s].vault = "open" \/ \E u \in Threads : th'[u].at = "register" /\ th'[u].s = s
    BY <1>01, <2>2 DEF SafeInv, UnlocksTrue, Up, Sess
  <2> QED
    BY <1>01, <2>1, <2>3, <2>4 DEF SafeInv, UnlocksTrue, Sess
<1>5. CachesTrue'
  <2>1. \A u \in Threads : th'[u].at # "teardown" => u # t /\ th'[u] = th[u]
    BY <1>0
  <2>2. \A u \in Threads : th[u].at = "closing" => th[u].cur \in Sessions
    BY ClosingIs
  <2> QED
    BY <1>01, <2>1, <2>2 DEF SafeInv, CachesTrue, Sess
<1> QED
  BY <1>2, <1>3, <1>4, <1>5 DEF SafeInv

\* The goroutine's record on its way to a teardown.
LEMMA TeardownsDoes ==
    ASSUME th \in [Threads -> Goroutines], NEW t \in Threads, NEW D \in SUBSET Sessions, Teardowns(t, D)
    PROVE  Moves(t) /\ th'[t].at = "teardown" /\ th'[t].due = D /\ th'[t].cur = th[t].cur /\ th'[t].op = th[t].op
<1> DEFINE o == [th[t] EXCEPT !.at = "teardown", !.due = D]
<1>1. o \in Goroutines /\ o.at = "teardown" /\ o.due = D /\ o.cur = th[t].cur /\ o.op = th[t].op
  BY DEF Goroutines, Places
<1>2. th' = [th EXCEPT ![t] = o]
  BY DEF Teardowns
<1> HIDE DEF o
<1> QED
  BY <1>1, <1>2 DEF Moves

\* The same, from the actions' own terms.
LEMMA UnlistingSafe ==
    ASSUME TypeOK, SafeInv, NEW t \in Threads, NEW D \in SUBSET Sessions, Unlisted(D), Teardowns(t, D), Up, D # {},
           UNCHANGED <<caches, mu, proc>>, \A x \in D : ent[x].reg, th[t].at \in {"idle", "with"}
    PROVE  SafeInv'
<1>1. th[t].cur = "none" /\ th[t].op # "unlock" /\ (t = "sweeper" => th[t].op = "none")
  BY DueOnlyAtEnd DEF SafeInv, PlacesTrue, UnlocksTrue, Places
<1>2. Unlists(t, D) /\ th'[t].op = th[t].op
  BY <1>1, Parts, TeardownsDoes, UnlistedDoes DEF Unlists
<1> QED
  BY <1>1, <1>2, UnlistsSafe

\* With keeps SafeInv, whether it enters, refuses or tears down.
LEMMA WithSafe == ASSUME TypeOK, SafeInv, NEW t \in Threads, With(t) PROVE SafeInv'
<1> DEFINE s == Sess(t)
<1>0. Up /\ th[t].at = "with" /\ caches' = caches /\ proc' = proc /\ s \in Sessions
  BY DEF With, At, SafeInv, PlacesTrue, Places
<1>1. CASE Return(t) /\ ent' = ent
  BY <1>0, <1>1, Parts, EntSame, EndsQuietly DEF Places
<1>2. CASE ent[s].reg /\ Unlisted({s}) /\ Teardowns(t, {s}) /\ mu' = mu
  BY <1>0, <1>2, UnlistingSafe
<1>3. CASE ent[s].reg /\ ent[s].busy = "none" /\ Take(t, s) /\ mu' = mu
  <2>1. EntriesKept /\ BusyOf(t) /\ ent'[s].busy = t /\ LocksOf(t)
    BY <1>0, <1>3, Parts, EntBusy, LocksKept DEF Take
  <2>2. ent[s].vault = "open"
    BY <1>0, <1>3 DEF SafeInv, SessionsTrue
  <2>3. Quietly(t) /\ SameGoal(t) /\ th'[t].at = "using"
    BY <1>0, <1>3, <2>1, GoesQuietly DEF Take, Places
  <2>4. /\ (th[t].op = "overview" /\ mu'.cap = t => s \notin caches.cap)
        /\ (th[t].op \in {"chats", "search"} => mu'.msg = t /\ s \notin caches.msg)
    BY <1>0, <1>3 DEF SafeInv, CachesTrue
  <2> QED
    BY <1>0, <2>1, <2>2, <2>3, <2>4, GoesOn DEF Places
<1> QED
  BY <1>1, <1>2, <1>3 DEF With

\* Lock keeps SafeInv.
LEMMA LockSafe == ASSUME TypeOK, SafeInv, NEW t \in Reqs, NEW s \in Sessions, Lock(t, s) PROVE SafeInv'
<1>0. /\ t \in Threads /\ t # "sweeper" /\ Up /\ th[t].at = "idle" /\ ent[s].reg /\ Unlisted({s}) /\ UNCHANGED <<caches, mu, proc>>
  BY Names DEF Lock
<1> DEFINE o == [op |-> "lock", s |-> s, at |-> "teardown", due |-> {s}, cur |-> "none"]
<1>1. o \in Goroutines /\ o.op = "lock" /\ o.at = "teardown" /\ o.due = {s} /\ o.cur = "none"
  BY DEF Goroutines, Places, Asked
<1>2. th' = [th EXCEPT ![t] = o]
  BY DEF Lock
<1> HIDE DEF o
<1>3. Moves(t) /\ th'[t] = o
  BY <1>0, <1>1, <1>2, Parts DEF Moves
<1>4. Unlists(t, {s})
  BY <1>0, <1>1, <1>3, Parts, UnlistedDoes DEF Unlists
<1> QED
  BY <1>0, <1>4, UnlistsSafe

\* The sweep and the shutdown's CloseAll keep SafeInv.
LEMMA SweepSafe == ASSUME TypeOK, SafeInv, Sweep \/ CloseAll PROVE SafeInv'
<1>1. CASE Sweep
  <2>1. Due \in SUBSET Sessions /\ \A x \in Due : ent[x].reg
    BY DEF Due
  <2> QED
    BY <1>1, <2>1, Names, UnlistingSafe DEF Sweep
<1>2. CASE CloseAll
  <2> DEFINE all == {s \in Sessions : ent[s].reg}
  <2>1. all \in SUBSET Sessions /\ (\A x \in all : ent[x].reg) /\ all # {} /\ Unlisted(all) /\ Teardowns("sweeper", all) /\ Up
    BY <1>2 DEF CloseAll, Up
  <2> HIDE DEF all
  <2> QED
    BY <1>2, <2>1, Names, UnlistingSafe DEF CloseAll
<1> QED
  BY <1>1, <1>2

\* A record of one session is replaced.
LEMMA EntryDoes ==
    ASSUME ent \in [Sessions -> Entries], NEW s \in Sessions, NEW e \in Entries, ent' = [ent EXCEPT ![s] = e]
    PROVE  ent' \in [Sessions -> Entries] /\ ent'[s] = e /\ \A x \in Sessions : x # s => ent'[x] = ent[x]
  OBVIOUS

\* Closing the vault and wiping the scratch directory keep SafeInv.
LEMMA CloseVaultSafe == ASSUME TypeOK, SafeInv, NEW t \in Threads, CloseVault(t) PROVE SafeInv'
<1> DEFINE s == th[t].cur
<1>w. PICK failed \in BOOLEAN :
         ent' = [ent EXCEPT ![s] = [[ent[s] EXCEPT !.busy = "none"] EXCEPT !.vault = "closed", !.scratch = FALSE, !.left = failed]]
  BY DEF CloseVault, Wiped, Wipe
<1> DEFINE e == [[ent[s] EXCEPT !.busy = "none"] EXCEPT !.vault = "closed", !.scratch = FALSE, !.left = failed]
<1>0. /\ Up /\ th[t].at = "close" /\ ent[s].derived = << >> /\ ent' = [ent EXCEPT ![s] = e] /\ caches' = caches /\ proc' = proc
  BY <1>w DEF CloseVault, At
<1>1. /\ s \in Sessions /\ s \in th[t].due /\ ent[s].busy = t /\ ~ent[s].reg /\ ent[s].vault = "open" /\ th[t].op # "unlock"
      /\ \A u \in Threads : u # t => s \notin th[u].due /\ th[u].cur # s
      /\ \A u \in Threads : th[u].at = "using" => Sess(u) # s
  BY <1>0, ClosingIs
<1>2. /\ e \in Entries /\ e.busy = "none" /\ e.vault = "closed" /\ ~e.scratch /\ e.reg = ent[s].reg /\ e.derived = ent[s].derived
  <2>1. ent[s] \in Entries
    BY <1>1, Parts
  <2>2. e \in Entries
    BY <2>1, Names DEF Entries
  <2>3. e.busy = "none" /\ e.vault = "closed" /\ e.scratch = FALSE /\ e.reg = ent[s].reg /\ e.derived = ent[s].derived
    BY <2>1 DEF Entries
  <2> QED
    BY <2>2, <2>3
<1>3. \/ Return(t) /\ th[t].due = {s}
      \/ th' = [th EXCEPT ![t].at = "teardown", ![t].due = @ \ {s}, ![t].cur = "none"] /\ mu' = mu
  BY DEF CloseVault
<1> HIDE DEF e
<1>4. ent'[s] = e /\ \A x \in Sessions : x # s => ent'[x] = ent[x]
  BY <1>0, <1>1, <1>2, Parts, EntryDoes
<1> DEFINE o == [th[t] EXCEPT !.at = "teardown", !.due = @ \ {s}, !.cur = "none"]
<1>5. /\ o \in Goroutines /\ o.at = "teardown" /\ o.due = th[t].due \ {s} /\ o.cur = "none" /\ o.op = th[t].op
  BY Parts DEF Goroutines, Places
<1>6. /\ Moves(t) /\ LocksOf(t) /\ th'[t].at \in {"idle", "teardown"} /\ th'[t].due = th[t].due \ {s} /\ th'[t].cur = "none"
      /\ th'[t].op \in {th[t].op, "none"} /\ (th'[t].at = "idle" => th'[t] = Idle /\ th[t].due = {s} /\ mu'.cap # t /\ mu'.msg # t)
  <2>1. CASE Return(t) /\ th[t].due = {s}
    BY <2>1, Parts, ReturnDoes, Blanks
  <2>2. CASE th' = [th EXCEPT ![t].at = "teardown", ![t].due = @ \ {s}, ![t].cur = "none"] /\ mu' = mu
    <3>1. th' = [th EXCEPT ![t] = o]
      BY <2>2
    <3> HIDE DEF o
    <3> QED
      BY <1>5, <2>2, <3>1, Parts, LocksKept DEF Moves
  <2> QED
    BY <1>3, <2>1, <2>2
<1> HIDE DEF s, o
<1>7. \A u \in Threads : u # t => th'[u] = th[u] /\ (mu'.cap = u <=> mu.cap = u) /\ (mu'.msg = u <=> mu.msg = u)
  BY <1>6 DEF Moves, LocksOf
<1>8. PlacesTrue'
  <2>1. /\ th'[t].at \in {"idle", "teardown"} /\ (th'[t].at = "idle" => th'[t] = Idle /\ th'[t].due = {}) /\ th'[t].op # "unlock"
        /\ th'[t].cur = "none"
    BY <1>1, <1>6
  <2> QED
    BY <1>7, <2>1 DEF SafeInv, PlacesTrue, Sess
<1>9. SessionsTrue'
  <2>1. \A u \in Threads : th'[u].at = "using" => u # t /\ th'[u] = th[u] /\ th[u].s \in Sessions /\ th[u].s # s
    BY <1>1, <1>6, <1>7 DEF SafeInv, PlacesTrue, Sess, Places
  <2>2. \A u \in Threads : th'[u].cur # "none" => u # t /\ th'[u] = th[u] /\ th[u].cur \in Sessions /\ th[u].cur # s
    BY <1>1, <1>6, <1>7, Parts DEF TypeOK, Goroutines
  <2>3. \A u \in Threads : th'[u].due = th[u].due \ {s} /\ th[u].due \subseteq Sessions
    BY <1>1, <1>6, <1>7, Parts
  <2>4. \A u \in Threads : th'[u].at = "using" => ent'[th'[u].s].busy = u /\ ent'[th'[u].s].vault = "open"
    BY <1>4, <2>1 DEF SafeInv, SessionsTrue, Sess
  <2>5. \A u \in Threads : th'[u].cur # "none" => ent'[th'[u].cur].busy = u
    BY <1>4, <2>2 DEF SafeInv, SessionsTrue
  <2>6. \A x \in Sessions : ent'[x].reg => ent'[x].vault = "open"
    BY <1>1, <1>2, <1>4 DEF SafeInv, SessionsTrue
  <2>7. \A x \in Sessions : ent'[x].vault = "open" => ent'[x].scratch /\ (ent'[x].reg \/ \E u \in Threads : x \in th'[u].due)
    BY <1>2, <1>4, <2>3 DEF SafeInv, SessionsTrue
  <2>8. \A u \in Threads : \A x \in th'[u].due : ~ent'[x].reg /\ ent'[x].vault = "open"
    BY <1>4, <2>3 DEF SafeInv, SessionsTrue
  <2>9. \A u, v \in Threads : u # v => th'[u].due \cap th'[v].due = {}
    BY <2>3 DEF SafeInv, SessionsTrue
  <2> QED
    BY <2>4, <2>5, <2>6, <2>7, <2>8, <2>9 DEF SessionsTrue, Sess
<1>10. UnlocksTrue'
  <2>1. \A u \in Threads : th'[u].op = "unlock" \/ th'[u].at = "register" => u # t /\ th'[u] = th[u] /\ th[u].s \in Sessions /\ th[u].op = "unlock"
    BY <1>1, <1>6, <1>7 DEF SafeInv, PlacesTrue, Sess, Places
  <2>2. \A u \in Threads : th[u].op = "unlock" => th[u].s # s
    BY <1>1 DEF SafeInv, UnlocksTrue, Sess
  <2>3. \A u \in Threads : th[u].at = "register" => u # t /\ th'[u] = th[u]
    BY <1>0, <1>7
  <2>4. th'["sweeper"].op = "none"
    BY <1>6, <1>7, Names DEF SafeInv, UnlocksTrue
  <2>5. Up' /\ \A x \in Sessions : ent'[x].scratch => ent'[x].vault = "open" \/ \E u \in Threads : th'[u].at = "register" /\ th'[u].s = x
    BY <1>0, <1>2, <1>4, <2>3 DEF SafeInv, UnlocksTrue, Up, Sess
  <2>6. \A u \in Threads : (th'[u].op = "unlock" => ent'[th'[u].s].vault = "none") /\ (th'[u].at = "register" => ent'[th'[u].s].scratch)
    BY <1>4, <2>1, <2>2 DEF SafeInv, UnlocksTrue, Sess
  <2> QED
    BY <2>1, <2>4, <2>5, <2>6 DEF SafeInv, UnlocksTrue, Sess
<1>11. CachesTrue'
  <2>1. \A u \in Threads : th'[u].at \notin {"idle", "teardown"} => u # t /\ th'[u] = th[u]
    BY <1>6, <1>7
  <2>2. \A u \in Threads : th[u].at = "closing" => th[u].cur \in Sessions
    BY ClosingIs
  <2>3. \A x \in Sessions : ent'[x].derived = ent[x].derived
    BY <1>2, <1>4
  <2>4. \A u \in Threads : th'[u].at = "idle" => mu'.cap # u /\ mu'.msg # u
    BY <1>6, <1>7 DEF SafeInv, CachesTrue
  <2> QED
    BY <1>0, <1>7, <2>1, <2>2, <2>3, <2>4 DEF SafeInv, CachesTrue, Sess
<1> QED
  BY <1>8, <1>9, <1>10, <1>11 DEF SafeInv

-----------------------------------------------------------------------------
(* Unlocking, expiry, the process                                          *)

\* A goroutine that was idle takes a request; nothing else changes.
LEMMA RequestSafe ==
    ASSUME TypeOK, SafeInv, NEW t \in Reqs, NEW op \in mix.ops, NEW s \in Sessions, Request(t, op, s)
    PROVE  SafeInv'
<1>0. /\ t \in Threads /\ t # "sweeper" /\ Up /\ th[t].at = "idle" /\ op \in Asked \ {"lock"}
      /\ (op = "unlock" => ent[s].vault = "none" /\ \A u \in Reqs : ~(th[u].op = "unlock" /\ th[u].s = s))
      /\ UNCHANGED <<ent, caches, mu, proc>>
  BY Names DEF Request, TypeOK
<1> DEFINE o == [Idle EXCEPT !.op = op, !.s = s, !.at = First(op)]
<1>1. First(op) \in {"open", "msgmu", "with"} /\ (op = "unlock" <=> First(op) = "open") /\ (First(op) = "msgmu" <=> op \in {"chats", "search"})
  BY <1>0 DEF First, Asked
<1>2. /\ o \in Goroutines /\ o.at = First(op) /\ o.op = op /\ o.s = s /\ o.due = {} /\ o.cur = "none"
  BY <1>0, <1>1 DEF Idle, Goroutines, Places
<1>3. th' = [th EXCEPT ![t] = o]
  BY DEF Request
<1> HIDE DEF o
<1>4. /\ \A u \in Threads : u # t => th'[u] = th[u]
      /\ th'[t].at = First(op) /\ th'[t].op = op /\ th'[t].s = s /\ th'[t].due = {} /\ th'[t].cur = "none"
  BY <1>0, <1>2, <1>3, Parts
<1>5. th[t].due = {} /\ th[t].cur = "none" /\ th[t].op = "none"
  BY <1>0, Blanks DEF SafeInv, PlacesTrue
<1>6. PlacesTrue'
  BY <1>1, <1>4 DEF SafeInv, PlacesTrue, Sess
<1>7. SessionsTrue'
  <2>1. \A u \in Threads : th'[u].due = th[u].due /\ th'[u].cur = th[u].cur
    BY <1>4, <1>5
  <2>2. \A u \in Threads : th'[u].at = "using" => th'[u] = th[u]
    BY <1>1, <1>4
  <2> QED
    BY <1>0, <2>1, <2>2 DEF SafeInv, SessionsTrue, Sess
<1>8. UnlocksTrue'
  <2>1. \A u \in Threads : th'[u].op = "unlock" => (u = t /\ op = "unlock" /\ th'[u].s = s) \/ (u # t /\ th'[u] = th[u])
    BY <1>4
  <2>2. \A u \in Threads : (th'[u].at = "register" \/ th[u].at = "register") => th'[u] = th[u]
    BY <1>0, <1>1, <1>4
  <2>3. th'["sweeper"].op = "none" /\ th["sweeper"].op = "none"
    BY <1>0, <1>4, Names DEF SafeInv, UnlocksTrue
  <2>4. \A u \in Threads : u # "sweeper" => u \in Reqs
    BY DEF Threads
  <2>5. \A u, v \in Threads : th'[u].op = "unlock" /\ th'[v].op = "unlock" /\ th'[u].s = th'[v].s => u = v
    <3>1. ASSUME NEW u \in Threads, u # t, th'[u].op = "unlock", op = "unlock" PROVE th'[u].s # s
      BY <1>0, <1>4, <2>3, <2>4, <3>1
    <3> QED
      BY <2>1, <3>1 DEF SafeInv, UnlocksTrue, Sess
  <2>6. \A u \in Threads : th'[u].op = "unlock" => ent'[th'[u].s].vault = "none"
    BY <1>0, <2>1 DEF SafeInv, UnlocksTrue, Sess
  <2>7. \A u \in Threads : th'[u].at = "register" => ent'[th'[u].s].scratch
    BY <1>0, <2>2 DEF SafeInv, UnlocksTrue, Sess
  <2>8. Up' /\ \A x \in Sessions : ent'[x].scratch => ent'[x].vault = "open" \/ \E u \in Threads : th'[u].at = "register" /\ th'[u].s = x
    BY <1>0, <2>2 DEF SafeInv, UnlocksTrue, Up, Sess
  <2> QED
    BY <2>3, <2>5, <2>6, <2>7, <2>8 DEF UnlocksTrue, Sess
<1>9. CachesTrue'
  <2>1. mu'.cap # t
    BY <1>0 DEF SafeInv, CachesTrue
  <2>2. /\ th'[t].at \notin {"idle", "attach", "closing"} /\ (th'[t].op \in {"chats", "search"} => th'[t].at = "msgmu")
    BY <1>1, <1>4
  <2>3. ASSUME NEW u \in Threads
        PROVE  /\ th'[u].op = "overview" /\ th'[u].at = "attach" => mu'.cap = u
               /\ th'[u].op = "overview" /\ th'[u].at \in {"with", "using", "attach"} /\ mu'.cap = u => th'[u].s \notin caches'.cap
               /\ th'[u].op \in {"chats", "search"} /\ th'[u].at \in {"with", "using", "attach"}
                    => mu'.msg = u /\ th'[u].s \notin caches'.msg
               /\ th'[u].at = "idle" => mu'.cap # u /\ mu'.msg # u
               /\ th'[u].at = "closing" => mu'.msg = u /\ ent'[th'[u].cur].derived \in MsgFirst
    <3>1. CASE u = t
      BY <2>1, <2>2, <3>1
    <3>2. CASE u # t
      BY <1>0, <1>4, <3>2 DEF SafeInv, CachesTrue, Sess
    <3> QED
      BY <3>1, <3>2
  <2> QED
    BY <1>0, <2>3 DEF SafeInv, CachesTrue, Sess
<1> QED
  BY <1>6, <1>7, <1>8, <1>9 DEF SafeInv

\* What a step that only touches the record of a session nobody has in use, or
\* moves the goroutine that unlocks it, leaves alone.
LEMMA UnlockingIs ==
    ASSUME TypeOK, SafeInv, NEW t \in Threads, th[t].at \in {"open", "register"}
    PROVE  /\ Sess(t) \in Sessions /\ th[t].op = "unlock" /\ ent[Sess(t)].vault = "none" /\ ~ent[Sess(t)].reg
           /\ th[t].due = {} /\ th[t].cur = "none" /\ t # "sweeper"
           /\ \A u \in Threads : Sess(t) \notin th[u].due /\ (u # t => ~(th[u].op = "unlock" /\ Sess(u) = Sess(t)))
<1>1. Sess(t) \in Sessions /\ th[t].op = "unlock" /\ th[t].due = {} /\ th[t].cur = "none"
  BY DEF SafeInv, PlacesTrue, Places
<1>2. ent[Sess(t)].vault = "none" /\ t # "sweeper"
  BY <1>1 DEF SafeInv, UnlocksTrue
<1>3. ~ent[Sess(t)].reg /\ \A u \in Threads : Sess(t) \notin th[u].due
  BY <1>1, <1>2 DEF SafeInv, SessionsTrue
<1> QED
  BY <1>1, <1>2, <1>3 DEF SafeInv, UnlocksTrue

\* Opening a vault into its scratch directory keeps SafeInv.
LEMMA UnlockOpenSafe == ASSUME TypeOK, SafeInv, NEW t \in Threads, UnlockOpen(t) PROVE SafeInv'
<1> DEFINE s == Sess(t)
<1>0. /\ Up /\ th[t].at = "open" /\ ent' = [ent EXCEPT ![s].scratch = TRUE] /\ Go(t, "register")
      /\ UNCHANGED <<caches, mu, proc>>
  BY DEF UnlockOpen, At
<1>1. s \in Sessions /\ s = th[t].s
  BY <1>0, UnlockingIs DEF Sess
<1> DEFINE e == [ent[s] EXCEPT !.scratch = TRUE]
<1>2. /\ e \in Entries /\ e.reg = ent[s].reg /\ e.vault = ent[s].vault /\ e.scratch /\ e.derived = ent[s].derived /\ e.busy = ent[s].busy
  BY <1>1, Parts DEF Entries
<1>3. ent' = [ent EXCEPT ![s] = e]
  BY <1>0
<1> HIDE DEF e, s
<1>4. /\ \A x \in Sessions : /\ ent'[x].reg = ent[x].reg /\ ent'[x].vault = ent[x].vault /\ ent'[x].derived = ent[x].derived
                             /\ ent'[x].busy = ent[x].busy
      /\ ent'[s].scratch /\ \A x \in Sessions : x # s => ent'[x].scratch = ent[x].scratch
      /\ \A x \in Sessions : ent[x].scratch => ent'[x].scratch
  BY <1>1, <1>2, <1>3, Parts
<1>5. /\ \A u \in Threads : u # t => th'[u] = th[u]
      /\ th'[t].at = "register" /\ th'[t].op = th[t].op /\ th'[t].s = th[t].s /\ th'[t].due = th[t].due /\ th'[t].cur = th[t].cur
  BY <1>0, Parts, GoDoes DEF Places, Moves, SameGoal
<1>6. th[t].op = "unlock" /\ th[t].due = {} /\ th[t].cur = "none" /\ t # "sweeper"
  BY <1>0, UnlockingIs
<1>7. PlacesTrue'
  <2>1. th'[t].s \in Sessions /\ th'[t].op = "unlock" /\ th'[t].due = {} /\ th'[t].cur = "none"
    BY <1>1, <1>5, <1>6
  <2> QED
    BY <1>5, <2>1 DEF SafeInv, PlacesTrue, Sess
<1>8. SessionsTrue'
  <2>1. \A u \in Threads : th'[u].due = th[u].due /\ th'[u].cur = th[u].cur /\ th[u].due \subseteq Sessions
    BY <1>5, Parts
  <2>2. \A u \in Threads : th'[u].at = "using" => th'[u] = th[u] /\ th[u].s \in Sessions /\ th[u].at = "using"
    BY <1>5, UsingIs DEF Sess
  <2>3. \A u \in Threads : th[u].cur # "none" => th[u].cur \in Sessions
    BY Parts DEF Goroutines
  <2> QED
    BY <1>4, <2>1, <2>2, <2>3 DEF SafeInv, SessionsTrue, Sess
<1>9. UnlocksTrue'
  <2>1. \A u \in Threads : th'[u].op = th[u].op /\ th'[u].s = th[u].s
    BY <1>5
  <2>2. \A u \in Threads : th[u].op = "unlock" => th[u].s \in Sessions
    BY DEF SafeInv, PlacesTrue, Sess, Places
  <2>3. \A u \in Threads : th'[u].at = "register" => u = t \/ th[u].at = "register"
    BY <1>5
  <2>4. \A u \in Threads : th[u].at = "register" => th'[u].at = "register" /\ th[u].op = "unlock"
    BY <1>0, <1>5 DEF SafeInv, PlacesTrue
  <2>5. \A u \in Threads : th'[u].at = "register" => ent'[th'[u].s].scratch
    BY <1>1, <1>4, <2>1, <2>2, <2>3, <2>4 DEF SafeInv, UnlocksTrue, Sess
  <2>6. Up' /\ \A x \in Sessions : ent'[x].scratch => ent'[x].vault = "open" \/ \E u \in Threads : th'[u].at = "register" /\ th'[u].s = x
    <3>1. ASSUME NEW x \in Sessions, ent'[x].scratch
          PROVE  ent'[x].vault = "open" \/ \E u \in Threads : th'[u].at = "register" /\ th'[u].s = x
      <4>1. CASE x = s
        BY <1>1, <1>5, <4>1
      <4>2. CASE x # s
        BY <1>0, <1>4, <2>1, <2>4, <3>1, <4>2 DEF SafeInv, UnlocksTrue, Sess, Up
      <4> QED
        BY <4>1, <4>2
    <3> QED
      BY <1>0, <3>1 DEF Up
  <2>7. \A u \in Threads : th'[u].op = "unlock" => ent'[th'[u].s].vault = "none"
    BY <1>4, <2>1, <2>2 DEF SafeInv, UnlocksTrue, Sess
  <2>8. th'["sweeper"].op = "none" /\ \A u, v \in Threads : th'[u].op = "unlock" /\ th'[v].op = "unlock" /\ th'[u].s = th'[v].s => u = v
    BY <2>1, Names DEF SafeInv, UnlocksTrue, Sess
  <2> QED
    BY <2>5, <2>6, <2>7, <2>8 DEF UnlocksTrue, Sess
<1>10. CachesTrue'
  <2>1. \A u \in Threads : th'[u].at # "register" => u # t /\ th'[u] = th[u]
    BY <1>5
  <2>2. \A u \in Threads : th[u].at = "closing" => th[u].cur \in Sessions
    BY ClosingIs
  <2> QED
    BY <1>0, <1>4, <2>1, <2>2 DEF SafeInv, CachesTrue, Sess
<1> QED
  BY <1>7, <1>8, <1>9, <1>10 DEF SafeInv

\* Registering an unlocked session keeps SafeInv.
LEMMA UnlockRegisterSafe == ASSUME TypeOK, SafeInv, NEW t \in Threads, UnlockRegister(t) PROVE SafeInv'
<1> DEFINE s == Sess(t)
<1>0. /\ Up /\ th[t].at = "register" /\ Return(t) /\ UNCHANGED <<caches, proc>>
  BY DEF UnlockRegister, At
<1>1. s \in Sessions /\ s = th[t].s
  BY <1>0, UnlockingIs DEF Sess
<1>2. PICK e \in {[ent[s] EXCEPT !.vault = "open", !.reg = TRUE]} \cup Wipe(ent[s]) : ent' = [ent EXCEPT ![s] = e]
  BY DEF UnlockRegister
<1>3. /\ e \in Entries /\ e.derived = ent[s].derived /\ e.busy = ent[s].busy
      /\ (e.vault = "open" /\ e.reg /\ e.scratch = ent[s].scratch) \/ (e.vault = "closed" /\ ~e.scratch /\ e.reg = ent[s].reg)
  <2>1. ent[s] \in Entries
    BY <1>1, Parts
  <2>2. CASE e = [ent[s] EXCEPT !.vault = "open", !.reg = TRUE]
    BY <2>1, <2>2 DEF Entries
  <2>3. CASE e \in Wipe(ent[s])
    <3>1. PICK failed \in BOOLEAN : e = [ent[s] EXCEPT !.vault = "closed", !.scratch = FALSE, !.left = failed]
      BY <2>3 DEF Wipe
    <3>2. e.vault = "closed" /\ ~e.scratch /\ e.derived = ent[s].derived /\ e.busy = ent[s].busy /\ e \in Entries
      BY <2>1, <3>1 DEF Entries
    <3>3. e.reg = ent[s].reg
      BY <2>1, <3>1 DEF Entries
    <3> QED
      BY <3>2, <3>3
  <2> QED
    BY <1>2, <2>2, <2>3
<1> HIDE DEF s
<1>4. /\ \A x \in Sessions : ent'[x].derived = ent[x].derived /\ ent'[x].busy = ent[x].busy
      /\ \A x \in Sessions : x # s => ent'[x] = ent[x]
      /\ ent'[s] = e
  BY <1>1, <1>2, <1>3, Parts
<1>5. /\ th[t].op = "unlock" /\ ent[s].vault = "none" /\ ~ent[s].reg /\ th[t].due = {} /\ th[t].cur = "none" /\ t # "sweeper"
      /\ \A u \in Threads : s \notin th[u].due /\ (u # t => ~(th[u].op = "unlock" /\ th[u].s = s))
      /\ ent[s].scratch
  BY <1>0, UnlockingIs DEF Sess, s, SafeInv, UnlocksTrue
<1>6. (e.vault = "open" /\ e.reg /\ e.scratch) \/ (e.vault = "closed" /\ ~e.scratch /\ ~e.reg)
  BY <1>3, <1>5
<1>7. /\ \A u \in Threads : u # t => th'[u] = th[u]
      /\ th'[t] = Idle /\ th'[t].at = "idle" /\ th'[t].op = "none" /\ th'[t].due = {} /\ th'[t].cur = "none" /\ mu'.cap # t /\ mu'.msg # t
      /\ \A u \in Threads : u # t => (mu'.cap = u <=> mu.cap = u) /\ (mu'.msg = u <=> mu.msg = u)
  BY <1>0, Parts, ReturnDoes, Blanks DEF Moves, LocksOf
<1>8. PlacesTrue'
  BY <1>7 DEF SafeInv, PlacesTrue, Sess
<1>9. SessionsTrue'
  <2>1. \A u \in Threads : th'[u].due = th[u].due /\ th'[u].cur = th[u].cur /\ th[u].due \subseteq Sessions
    BY <1>5, <1>7, Parts
  <2>2. \A u \in Threads : th'[u].at = "using" => th'[u] = th[u] /\ th[u].s \in Sessions /\ th[u].at = "using" /\ th[u].s # s
    <3>1. \A u \in Threads : th[u].at = "using" => ent[th[u].s].vault = "open" /\ th[u].s \in Sessions
      BY UsingIs DEF Sess
    <3> QED
      BY <1>5, <1>7, <3>1
  <2>3. \A u \in Threads : th[u].cur # "none" => th[u].cur \in Sessions
    BY Parts DEF Goroutines
  <2>4. \A u \in Threads : th'[u].at = "using" => ent'[th'[u].s].busy = u /\ ent'[th'[u].s].vault = "open"
    BY <1>4, <2>2 DEF SafeInv, SessionsTrue, Sess
  <2>5. \A u \in Threads : th'[u].cur # "none" => ent'[th'[u].cur].busy = u
    BY <1>4, <2>1, <2>3 DEF SafeInv, SessionsTrue
  <2>6. \A x \in Sessions : /\ ent'[x].reg => ent'[x].vault = "open"
                            /\ ent'[x].vault = "open" => ent'[x].scratch /\ (ent'[x].reg \/ \E u \in Threads : x \in th'[u].due)
    BY <1>4, <1>6, <2>1 DEF SafeInv, SessionsTrue
  <2>7. /\ \A u \in Threads : \A x \in th'[u].due : ~ent'[x].reg /\ ent'[x].vault = "open"
        /\ \A u, v \in Threads : u # v => th'[u].due \cap th'[v].due = {}
    BY <1>4, <1>5, <2>1 DEF SafeInv, SessionsTrue
  <2> QED
    BY <2>4, <2>5, <2>6, <2>7 DEF SessionsTrue, Sess
<1>10. UnlocksTrue'
  <2>1. \A u \in Threads : th'[u].op = "unlock" => u # t /\ th'[u] = th[u] /\ th[u].s \in Sessions /\ th[u].s # s /\ th[u].op = "unlock"
    <3>1. \A u \in Threads : th[u].op = "unlock" => th[u].s \in Sessions
      BY DEF SafeInv, PlacesTrue, Sess, Places
    <3> QED
      BY <1>5, <1>7, <3>1
  <2>2. \A u \in Threads : th'[u].at = "register" => u # t /\ th'[u] = th[u] /\ th[u].op = "unlock" /\ th'[u].op = "unlock"
    BY <1>7 DEF SafeInv, PlacesTrue
  <2>3. \A u \in Threads : th'[u].at = "register" => ent'[th'[u].s].scratch
    BY <1>4, <2>1, <2>2 DEF SafeInv, UnlocksTrue, Sess
  <2>4. Up' /\ \A x \in Sessions : ent'[x].scratch => ent'[x].vault = "open" \/ \E u \in Threads : th'[u].at = "register" /\ th'[u].s = x
    <3>1. ASSUME NEW x \in Sessions, ent'[x].scratch
          PROVE  ent'[x].vault = "open" \/ \E u \in Threads : th'[u].at = "register" /\ th'[u].s = x
      <4>1. CASE x = s
        BY <1>4, <1>6, <3>1, <4>1
      <4>2. CASE x # s
        <5>1. \A u \in Threads : th[u].at = "register" /\ th[u].s = x => th'[u] = th[u]
          BY <1>1, <1>7, <4>2
        <5> QED
          BY <1>0, <1>4, <3>1, <4>2, <5>1 DEF SafeInv, UnlocksTrue, Sess, Up
      <4> QED
        BY <4>1, <4>2
    <3> QED
      BY <1>0, <3>1 DEF Up
  <2>5. \A u \in Threads : th'[u].op = "unlock" => ent'[th'[u].s].vault = "none"
    BY <1>4, <2>1 DEF SafeInv, UnlocksTrue, Sess
  <2>6. th'["sweeper"].op = "none" /\ \A u, v \in Threads : th'[u].op = "unlock" /\ th'[v].op = "unlock" /\ th'[u].s = th'[v].s => u = v
    BY <1>5, <1>7, <2>1, Names DEF SafeInv, UnlocksTrue, Sess
  <2> QED
    BY <2>3, <2>4, <2>5, <2>6 DEF UnlocksTrue, Sess
<1>11. CachesTrue'
  <2>1. \A u \in Threads : th'[u].at # "idle" => u # t /\ th'[u] = th[u]
    BY <1>7
  <2>2. \A u \in Threads : th[u].at = "closing" => th[u].cur \in Sessions
    BY ClosingIs
  <2> QED
    BY <1>0, <1>4, <1>7, <2>1, <2>2 DEF SafeInv, CachesTrue, Sess
<1> QED
  BY <1>8, <1>9, <1>10, <1>11 DEF SafeInv

\* The passing of time keeps SafeInv.
LEMMA ExpireSafe == ASSUME TypeOK, SafeInv, NEW s \in Sessions, Expire(s) PROVE SafeInv'
<1>0. ent' = [ent EXCEPT ![s].expired = TRUE] /\ UNCHANGED <<caches, mu, th, proc>>
  BY DEF Expire
<1>1. \A x \in Sessions : /\ ent'[x].reg = ent[x].reg /\ ent'[x].vault = ent[x].vault /\ ent'[x].derived = ent[x].derived
                          /\ ent'[x].busy = ent[x].busy /\ ent'[x].scratch = ent[x].scratch
  BY <1>0, Parts DEF Entries
<1>2. \A u \in Threads : th[u].cur # "none" => th[u].cur \in Sessions
  BY Parts DEF Goroutines
<1>3. \A u \in Threads : th[u].at = "using" \/ th[u].op = "unlock" \/ th[u].at = "register" => th[u].s \in Sessions
  BY DEF SafeInv, PlacesTrue, Sess, Places
<1>4. \A u \in Threads : th[u].due \subseteq Sessions /\ (th[u].at = "closing" => th[u].cur \in Sessions)
  BY Parts, ClosingIs
<1>5. PlacesTrue' /\ CachesTrue'
  BY <1>0, <1>1, <1>4 DEF SafeInv, PlacesTrue, CachesTrue, Sess
<1>6. SessionsTrue'
  BY <1>0, <1>1, <1>2, <1>3, <1>4 DEF SafeInv, SessionsTrue, Sess
<1>7. UnlocksTrue'
  BY <1>0, <1>1, <1>3 DEF SafeInv, UnlocksTrue, Sess, Up
<1> QED
  BY <1>5, <1>6, <1>7 DEF SafeInv

\* The order to stop keeps SafeInv.
LEMMA StopSafe == ASSUME TypeOK, SafeInv, Stop PROVE SafeInv'
  BY DEF Stop, SafeInv, PlacesTrue, SessionsTrue, UnlocksTrue, CachesTrue, Sess, Up

\* The end of the process keeps SafeInv.
LEMMA ExitSafe == ASSUME TypeOK, SafeInv, Exit PROVE SafeInv'
<1>0. /\ proc' = "down" /\ caches' = [cap |-> {}, msg |-> {}] /\ mu' = [cap |-> "none", msg |-> "none"]
      /\ th' = [t \in Threads |-> Idle]
      /\ ent' = [s \in Sessions |-> [NoEntry EXCEPT !.scratch = ent[s].scratch, !.left = ent[s].left,
                                                  !.vault = IF ent[s].vault = "none" THEN "none" ELSE "closed"]]
  BY DEF Exit
<1>1. \A s \in Sessions : ~ent'[s].reg /\ ent'[s].vault # "open" /\ ent'[s].derived = << >>
  BY <1>0 DEF NoEntry
<1>2. \A t \in Threads : /\ th'[t] = Idle /\ th'[t].op = "none" /\ th'[t].s = "none" /\ th'[t].at = "idle" /\ th'[t].due = {} /\ th'[t].cur = "none"
  BY <1>0, Blanks
<1>3. << >> \notin WithCap /\ << >> \notin WithMsg
  BY DEF WithCap, WithMsg
<1>4. PlacesTrue'
  BY <1>2 DEF PlacesTrue, Sess
<1>5. SessionsTrue'
  BY <1>1, <1>2 DEF SessionsTrue
<1>6. UnlocksTrue'
  BY <1>0, <1>1, <1>2, Names DEF UnlocksTrue, Up
<1>7. CachesTrue'
  BY <1>0, <1>1, <1>2, <1>3, Names DEF CachesTrue
<1> QED
  BY <1>4, <1>5, <1>6, <1>7 DEF SafeInv

\* A restart, which wipes the scratch root, keeps SafeInv.
LEMMA RestartSafe == ASSUME TypeOK, SafeInv, Restart PROVE SafeInv'
<1>0. /\ proc = "down" /\ UNCHANGED <<caches, mu, th>>
      /\ ent' = [s \in Sessions |-> [ent[s] EXCEPT !.scratch = FALSE, !.left = FALSE]]
  BY DEF Restart, WipedRoot
<1>1. \A s \in Sessions : /\ ent'[s].reg = ent[s].reg /\ ent'[s].vault = ent[s].vault /\ ent'[s].derived = ent[s].derived
                          /\ ~ent'[s].scratch
  BY <1>0, Parts DEF Entries
<1>2. (\A t \in Threads : th[t] = Idle) /\ \A s \in Sessions : ent[s].vault # "open"
  BY <1>0 DEF SafeInv, UnlocksTrue, Up
<1>3. \A t \in Threads : /\ th'[t] = Idle /\ th'[t].op = "none" /\ th'[t].s = "none" /\ th'[t].at = "idle" /\ th'[t].due = {} /\ th'[t].cur = "none"
  BY <1>0, <1>2, Blanks
<1>4. PlacesTrue'
  BY <1>3 DEF PlacesTrue, Sess
<1>5. SessionsTrue'
  BY <1>1, <1>2, <1>3 DEF SafeInv, SessionsTrue
<1>6. UnlocksTrue'
  BY <1>1, <1>2, <1>3, Names DEF UnlocksTrue
<1>7. CachesTrue'
  BY <1>0, <1>1, <1>3 DEF SafeInv, CachesTrue
<1> QED
  BY <1>4, <1>5, <1>6, <1>7 DEF SafeInv

-----------------------------------------------------------------------------
(* Types                                                                   *)

\* An entry with one field written is an entry.
LEMMA EntryTypes ==
    ASSUME ent \in [Sessions -> Entries], NEW s \in Sessions
    PROVE  /\ \A h \in Holders : (ent' = [ent EXCEPT ![s].busy = h] => ent' \in [Sessions -> Entries])
           /\ \A d \in Closers : (ent' = [ent EXCEPT ![s].derived = d] => ent' \in [Sessions -> Entries])
           /\ (ent' = [ent EXCEPT ![s].scratch = TRUE] => ent' \in [Sessions -> Entries])
           /\ (ent' = [ent EXCEPT ![s].expired = TRUE] => ent' \in [Sessions -> Entries])
           /\ \A e \in Entries : (ent' = [ent EXCEPT ![s] = e] => ent' \in [Sessions -> Entries])
<1>1. \A e \in Entries : (ent' = [ent EXCEPT ![s] = e] => ent' \in [Sessions -> Entries])
  OBVIOUS
<1>2. \A h \in Holders : (ent' = [ent EXCEPT ![s].busy = h] => ent' \in [Sessions -> Entries])
  BY DEF Entries
<1>3. \A d \in Closers : (ent' = [ent EXCEPT ![s].derived = d] => ent' \in [Sessions -> Entries])
  BY DEF Entries
<1>4. ent' = [ent EXCEPT ![s].scratch = TRUE] => ent' \in [Sessions -> Entries]
  <2>1. [ent[s] EXCEPT !.scratch = TRUE] \in Entries
    BY DEF Entries
  <2> QED
    BY <2>1
<1>5. ent' = [ent EXCEPT ![s].expired = TRUE] => ent' \in [Sessions -> Entries]
  <2>1. [ent[s] EXCEPT !.expired = TRUE] \in Entries
    BY DEF Entries
  <2> QED
    BY <2>1
<1> QED
  BY <1>1, <1>2, <1>3, <1>4, <1>5

\* A goroutine that moves is a goroutine.
LEMMA GoroutineTypes ==
    ASSUME th \in [Threads -> Goroutines], NEW t \in Threads
    PROVE  /\ \A p \in Places : Go(t, p) => th' \in [Threads -> Goroutines]
           /\ \A o \in Goroutines : th' = [th EXCEPT ![t] = o] => th' \in [Threads -> Goroutines]
           /\ \A due \in SUBSET Sessions : Teardowns(t, due) => th' \in [Threads -> Goroutines]
<1>1. "teardown" \in Places
  BY DEF Places
<1> QED
  BY <1>1 DEF Go, Goroutines, Teardowns

\* A reader with one field written is a reader.
LEMMA ReaderTypes ==
    ASSUME reader \in [Sessions -> ReaderRecs], NEW s \in Sessions
    PROVE  /\ \A h \in Holders : (reader' = [reader EXCEPT ![s].mu = h] => reader' \in [Sessions -> ReaderRecs])
           /\ (reader' = [reader EXCEPT ![s].proj = FALSE] => reader' \in [Sessions -> ReaderRecs])
           /\ (reader' = [reader EXCEPT ![s].built = TRUE, ![s].proj = TRUE, ![s].mu = "none"] => reader' \in [Sessions -> ReaderRecs])
           /\ (reader' = [reader EXCEPT ![s].proj = FALSE, ![s].mu = "none"] => reader' \in [Sessions -> ReaderRecs])
           /\ \A m \in BOOLEAN : (reader' = [reader EXCEPT ![s] = [NoReader EXCEPT !.memo = m]] => reader' \in [Sessions -> ReaderRecs])
<1>1. "none" \in Holders
  BY Names
<1>2. \A m \in BOOLEAN : [NoReader EXCEPT !.memo = m] \in ReaderRecs
  BY <1>1 DEF NoReader, ReaderRecs
<1>3. \A h \in Holders : (reader' = [reader EXCEPT ![s].mu = h] => reader' \in [Sessions -> ReaderRecs])
  BY DEF ReaderRecs
<1>4. reader' = [reader EXCEPT ![s].proj = FALSE] => reader' \in [Sessions -> ReaderRecs]
  BY DEF ReaderRecs
<1>5. /\ [reader[s] EXCEPT !.built = TRUE, !.proj = TRUE, !.mu = "none"] \in ReaderRecs
      /\ [reader[s] EXCEPT !.proj = FALSE, !.mu = "none"] \in ReaderRecs
  <2>1. reader[s] \in ReaderRecs
    OBVIOUS
  <2> QED
    BY <1>1, <2>1 DEF ReaderRecs
<1>6. \A r \in ReaderRecs : (reader' = [reader EXCEPT ![s] = r] => reader' \in [Sessions -> ReaderRecs])
  OBVIOUS
<1>7. reader' = [reader EXCEPT ![s].built = TRUE, ![s].proj = TRUE, ![s].mu = "none"]
      => reader' = [reader EXCEPT ![s] = [reader[s] EXCEPT !.built = TRUE, !.proj = TRUE, !.mu = "none"]]
  OBVIOUS
<1>8. reader' = [reader EXCEPT ![s].proj = FALSE, ![s].mu = "none"]
      => reader' = [reader EXCEPT ![s] = [reader[s] EXCEPT !.proj = FALSE, !.mu = "none"]]
  OBVIOUS
<1> QED
  BY <1>2, <1>3, <1>4, <1>5, <1>6, <1>7, <1>8

\* Returning keeps the types.
LEMMA ReturnTypes ==
    ASSUME TypeOK, NEW t \in Threads, Return(t)
    PROVE  th' \in [Threads -> Goroutines] /\ mu' \in [cap : Holders, msg : Holders]
  BY Parts, ReturnDoes DEF Moves, LocksOf

\* Taking and freeing keep the locks' type.
LEMMA LockTypes ==
    ASSUME mu \in [cap : Holders, msg : Holders], NEW h \in Holders
    PROVE  [mu EXCEPT !.cap = h] \in [cap : Holders, msg : Holders] /\ [mu EXCEPT !.msg = h] \in [cap : Holders, msg : Holders]
  OBVIOUS

\* Caching and dropping keep the caches' type.
LEMMA CacheTypes ==
    ASSUME caches \in [cap : SUBSET Sessions, msg : SUBSET Sessions], NEW s \in Sessions
    PROVE  /\ (caches' = [caches EXCEPT !.cap = @ \ {s}] => caches' \in [cap : SUBSET Sessions, msg : SUBSET Sessions])
           /\ (caches' = [caches EXCEPT !.msg = @ \ {s}] => caches' \in [cap : SUBSET Sessions, msg : SUBSET Sessions])
           /\ (caches' = [caches EXCEPT !.cap = @ \cup {s}] => caches' \in [cap : SUBSET Sessions, msg : SUBSET Sessions])
           /\ (caches' = [caches EXCEPT !.msg = @ \cup {s}] => caches' \in [cap : SUBSET Sessions, msg : SUBSET Sessions])
  OBVIOUS

\* Entries taken off the registry are entries.
LEMMA UnlistedTypes == ASSUME ent \in [Sessions -> Entries], NEW due, Unlisted(due) PROVE ent' \in [Sessions -> Entries]
  BY DEF Unlisted, Entries

Typed == /\ ent' \in [Sessions -> Entries] /\ reader' \in [Sessions -> ReaderRecs] /\ th' \in [Threads -> Goroutines]
         /\ caches' \in [cap : SUBSET Sessions, msg : SUBSET Sessions] /\ mu' \in [cap : Holders, msg : Holders]

\* The places the actions name are places.
LEMMA PlaceNames == {"idle", "open", "register", "with", "using", "capmu", "msgmu", "attach", "read", "outside",
           "building", "query", "teardown", "close", "closing"} \subseteq Places
  BY DEF Places

\* The registry's steps keep the types.
LEMMA RegistryTyped ==
    ASSUME TypeOK, SafeInv, NEW t \in Threads, With(t) \/ UnlockOpen(t) \/ UnlockRegister(t) \/ StreamEnds(t)
    PROVE  Typed
<1>0. /\ Sess(t) \in Sessions /\ t \in Holders /\ "none" \in Holders
  BY Names DEF With, UnlockOpen, UnlockRegister, StreamEnds, At, SafeInv, PlacesTrue, Places
<1>1. CASE With(t)
  <2>1. UNCHANGED <<caches, reader>>
    BY <1>1 DEF With
  <2>2. CASE Return(t) /\ UNCHANGED ent
    BY <2>1, <2>2, Parts, ReturnTypes DEF Typed
  <2>3. CASE Unlisted({Sess(t)}) /\ Teardowns(t, {Sess(t)}) /\ UNCHANGED mu
    BY <1>0, <2>1, <2>3, Parts, UnlistedTypes, GoroutineTypes DEF Typed
  <2>4. CASE Take(t, Sess(t)) /\ UNCHANGED mu
    BY <1>0, <2>1, <2>4, Parts, EntryTypes, GoroutineTypes, PlaceNames DEF Typed, Take
  <2> QED
    BY <1>1, <2>2, <2>3, <2>4 DEF With
<1>2. CASE UnlockOpen(t)
  BY <1>0, <1>2, Parts, EntryTypes, GoroutineTypes, PlaceNames DEF UnlockOpen, Typed
<1>3. CASE UnlockRegister(t)
  <2>1. PICK e \in {[ent[Sess(t)] EXCEPT !.vault = "open", !.reg = TRUE]} \cup Wipe(ent[Sess(t)]) : ent' = [ent EXCEPT ![Sess(t)] = e]
    BY <1>3 DEF UnlockRegister
  <2>2. e \in Entries
    <3>1. ent[Sess(t)] \in Entries
      BY <1>0, Parts
    <3>2. [ent[Sess(t)] EXCEPT !.vault = "open", !.reg = TRUE] \in Entries
      BY <3>1 DEF Entries
    <3>3. Wipe(ent[Sess(t)]) \subseteq Entries
      <4>1. \A failed \in BOOLEAN :
               [ent[Sess(t)] EXCEPT !.vault = "closed", !.scratch = FALSE, !.left = failed] \in Entries
        BY <3>1 DEF Entries
      <4> QED
        BY <4>1 DEF Wipe
    <3> QED
      BY <2>1, <3>2, <3>3
  <2> QED
    BY <1>0, <1>3, <2>1, <2>2, Parts, EntryTypes, ReturnTypes DEF UnlockRegister, Typed
<1>4. CASE StreamEnds(t)
  <2>1. PICK sh \in BOOLEAN :
          ent' = [ent EXCEPT ![Sess(t)].busy = "none", ![Sess(t)].short = @ \/ (sh /\ ent[Sess(t)].reg)]
    BY <1>4 DEF StreamEnds
  <2>2. (ent[Sess(t)].short \/ (sh /\ ent[Sess(t)].reg)) \in BOOLEAN
    OBVIOUS
  <2>3. [ent[Sess(t)] EXCEPT !.busy = "none", !.short = @ \/ (sh /\ ent[Sess(t)].reg)] \in Entries
    <3>1. ent[Sess(t)] \in Entries
      BY <1>0, Parts
    <3> QED
      BY <1>0, <2>2, <3>1 DEF Entries
  <2>4. ent' = [ent EXCEPT ![Sess(t)] = [ent[Sess(t)] EXCEPT !.busy = "none", !.short = @ \/ (sh /\ ent[Sess(t)].reg)]]
    BY <1>0, <2>1, Parts
  <2>5. ent' \in [Sessions -> Entries]
    BY <1>0, <2>3, <2>4, Parts, EntryTypes
  <2> QED
    BY <1>4, <2>5, Parts, ReturnTypes DEF StreamEnds, Typed
<1> QED
  BY <1>1, <1>2, <1>3, <1>4

\* The steps inside With keep the types.
LEMMA UseTyped ==
    ASSUME TypeOK, SafeInv, NEW t \in Threads,
           Browsed(t) \/ Aggregated(t) \/ Probed(t) \/ Materialized(t) \/ VaultFails(t)
    PROVE  Typed
<1>0. /\ Sess(t) \in Sessions /\ t \in Holders /\ "none" \in Holders
  BY Names DEF Browsed, Aggregated, Probed, Materialized, VaultFails, At, SafeInv, PlacesTrue,
     Places
<1>1. ent' \in [Sessions -> Entries] /\ caches' = caches
  BY <1>0, Parts, EntryTypes DEF Released, Browsed, Aggregated, Probed, Materialized, VaultFails
<1>2. reader' \in [Sessions -> ReaderRecs]
  BY <1>0, Parts, ReaderTypes DEF Browsed, Aggregated, Probed, Materialized, VaultFails
<1>3. th' \in [Threads -> Goroutines] /\ mu' \in [cap : Holders, msg : Holders]
  BY Parts, ReturnTypes, GoroutineTypes, PlaceNames DEF Browsed, Aggregated, Probed, Materialized,
     VaultFails
<1> QED
  BY <1>1, <1>2, <1>3, Parts DEF Typed

\* The service's steps keep the types.
LEMMA ServiceTyped ==
    ASSUME TypeOK, SafeInv, NEW t \in Threads,
           CapMu(t) \/ MsgMu(t) \/ Attach(t) \/ Read(t) \/ ReadEnds(t) \/ Ensure(t) \/ Build(t) \/ Query(t)
    PROVE  Typed
<1>0. /\ Sess(t) \in Sessions /\ t \in Holders /\ "none" \in Holders
  BY Names DEF CapMu, MsgMu, Attach, Read, ReadEnds, Ensure, Build, Query, At, SafeInv, PlacesTrue,
     Places
<1>1. CASE CapMu(t)
  BY <1>0, <1>1, Parts, ReturnTypes, LockTypes, GoroutineTypes, PlaceNames DEF CapMu, Typed
<1>2. CASE MsgMu(t)
  BY <1>0, <1>2, Parts, ReturnTypes, LockTypes, GoroutineTypes, PlaceNames DEF MsgMu, Typed
<1>3. CASE Attach(t)
  <2> DEFINE s == Sess(t)  kind == IF th[t].op = "overview" THEN "cap" ELSE "msg"
  <2>0. /\ th[t].at = "attach" /\ reader' = reader /\ kind \in {"cap", "msg"}
        /\ \/ Return(t) /\ UNCHANGED <<ent, caches>>
           \/ /\ ent[s].reg /\ ent' = [ent EXCEPT ![s].derived = Append(@, kind)]
              /\ caches' = [caches EXCEPT ![kind] = @ \cup {s}]
              /\ Return(t) \/ (Go(t, "read") /\ mu' = Freed(t))
    BY <1>3 DEF Attach, AttachDerived, At
  <2>1. (kind = "cap" => s \notin caches.cap) /\ (kind = "msg" => s \notin caches.msg)
    BY <2>0 DEF SafeInv, PlacesTrue, CachesTrue
  <2>2. Append(ent[s].derived, kind) \in Closers
    <3>1. /\ ent[s].derived \in Closers /\ (s \in caches.cap <=> ent[s].derived \in WithCap)
          /\ (s \in caches.msg <=> ent[s].derived \in WithMsg)
      BY <1>0, Parts DEF Entries, SafeInv, CachesTrue
    <3> QED
      BY <2>0, <2>1, <3>1, Appended
  <2> HIDE DEF kind, s
  <2>3. s \in Sessions /\ s = Sess(t)
    BY <1>0 DEF s
  <2>4. CASE Return(t) /\ UNCHANGED <<ent, caches>>
    BY <2>0, <2>4, Parts, ReturnTypes DEF Typed
  <2>5. CASE /\ ent[s].reg /\ ent' = [ent EXCEPT ![s].derived = Append(@, kind)]
             /\ caches' = [caches EXCEPT ![kind] = @ \cup {s}]
             /\ Return(t) \/ (Go(t, "read") /\ mu' = Freed(t))
    <3>1. ent' \in [Sessions -> Entries]
      <4>1. ent' = [ent EXCEPT ![s].derived = Append(ent[s].derived, kind)]
        BY <2>5
      <4> QED
        BY <2>2, <2>3, <4>1, Parts, EntryTypes
    <3>2. caches' \in [cap : SUBSET Sessions, msg : SUBSET Sessions]
      BY <2>0, <2>3, <2>5, Parts, CacheTypes
    <3>3. th' \in [Threads -> Goroutines] /\ mu' \in [cap : Holders, msg : Holders]
      BY <2>5, Parts, ReturnTypes, FreedDoes, GoroutineTypes, PlaceNames DEF LocksOf
    <3> QED
      BY <2>0, <3>1, <3>2, <3>3, Parts DEF Typed
  <2> QED
    BY <2>0, <2>4, <2>5
<1>4. CASE Read(t) \/ ReadEnds(t) \/ Query(t)
  BY <1>0, <1>4, Parts, ReturnTypes, GoroutineTypes, PlaceNames DEF Read, ReadEnds, Query, Typed
<1>5. CASE Ensure(t)
  BY <1>0, <1>5, Parts, ReaderTypes, GoroutineTypes, PlaceNames DEF Ensure, Typed
<1>6. CASE Build(t)
  BY <1>0, <1>6, Parts, ReaderTypes, ReturnTypes, GoroutineTypes, PlaceNames DEF Build, Typed
<1> QED
  BY <1>1, <1>2, <1>3, <1>4, <1>5, <1>6

\* Teardown keeps the types.
LEMMA TeardownTyped == ASSUME TypeOK, SafeInv, NEW t \in Threads, Teardown(t) PROVE Typed
<1>0. t \in Holders /\ "none" \in Holders
  BY Names
<1>1. CASE TeardownBegins(t)
  <2>1. PICK s \in th[t].due : ent' = [ent EXCEPT ![s].busy = t] /\ th' = [th EXCEPT ![t].at = "close", ![t].cur = s]
    BY <1>1 DEF TeardownBegins
  <2>2. s \in Sessions
    BY <2>1, Parts
  <2>3. th' \in [Threads -> Goroutines]
    <3>1. th[t] \in Goroutines /\ "close" \in Places
      BY Parts, PlaceNames
    <3>2. [th[t] EXCEPT !.at = "close", !.cur = s] \in Goroutines
      BY <2>2, <3>1 DEF Goroutines
    <3>3. th' = [th EXCEPT ![t] = [th[t] EXCEPT !.at = "close", !.cur = s]]
      BY <2>1
    <3> QED
      BY <3>2, <3>3, Parts
  <2> QED
    BY <1>0, <1>1, <2>1, <2>2, <2>3, Parts, EntryTypes DEF TeardownBegins, Typed
<1>2. CASE CloseCap(t)
  <2>1. th[t].cur \in Sessions /\ Tail(ent[th[t].cur].derived) \in Closers
    BY <1>2, Parts, ClosingIs, FirstIsCap DEF CloseCap, At, Entries, SafeInv, PlacesTrue
  <2>2. ent' = [ent EXCEPT ![th[t].cur].derived = Tail(ent[th[t].cur].derived)]
    BY <1>2 DEF CloseCap
  <2> QED
    BY <1>0, <1>2, <2>1, <2>2, Parts, EntryTypes, CacheTypes DEF CloseCap, Typed
<1>3. CASE CloseMsg(t)
  BY <1>0, <1>3, Parts, LockTypes, GoroutineTypes, PlaceNames DEF CloseMsg, Typed
<1>4. CASE ReaderClose(t)
  <2>1. th[t].cur \in Sessions /\ Tail(ent[th[t].cur].derived) \in Closers
    BY <1>4, ClosingIs, FirstIsMsg DEF ReaderClose, At, SafeInv, CachesTrue
  <2>2. ent' = [ent EXCEPT ![th[t].cur].derived = Tail(ent[th[t].cur].derived)]
    BY <1>4 DEF ReaderClose
  <2> QED
    BY <1>0, <1>4, <2>1, <2>2, Parts, EntryTypes, CacheTypes, ReaderTypes, LockTypes,
       GoroutineTypes, PlaceNames
    DEF ReaderClose, Dropped, Typed
<1>5. CASE CloseVault(t)
  <2>1. th[t].cur \in Sessions
    BY <1>5, Parts DEF CloseVault, At, SafeInv, PlacesTrue
  <2>2. PICK e \in Wiped(ent[th[t].cur]) : ent' = [ent EXCEPT ![th[t].cur] = e]
    BY <1>5 DEF CloseVault
  <2>3. e \in Entries
    <3>1. ent[th[t].cur] \in Entries
      BY <2>1, Parts
    <3>2. PICK failed \in BOOLEAN :
             e = [[ent[th[t].cur] EXCEPT !.busy = "none"] EXCEPT !.vault = "closed", !.scratch = FALSE, !.left = failed]
      BY <2>2 DEF Wiped, Wipe
    <3> QED
      BY <1>0, <3>1, <3>2 DEF Entries
  <2>4. th' \in [Threads -> Goroutines] /\ mu' \in [cap : Holders, msg : Holders]
    <3>1. CASE Return(t)
      BY <3>1, ReturnTypes
    <3>2. CASE th' = [th EXCEPT ![t].at = "teardown", ![t].due = @ \ {th[t].cur}, ![t].cur = "none"] /\ UNCHANGED mu
      <4>1. th[t].due \ {th[t].cur} \in SUBSET Sessions
        BY Parts
      <4> DEFINE o == [th[t] EXCEPT !.at = "teardown", !.due = @ \ {th[t].cur}, !.cur = "none"]
      <4>2. th[t] \in Goroutines /\ "teardown" \in Places
        BY Parts, PlaceNames
      <4>3. o \in Goroutines
        BY <4>1, <4>2 DEF Goroutines
      <4>4. th' = [th EXCEPT ![t] = o]
        BY <3>2
      <4> HIDE DEF o
      <4> QED
        BY <3>2, <4>3, <4>4, Parts
    <3> QED
      BY <1>5, <3>1, <3>2 DEF CloseVault
  <2> QED
    BY <1>5, <2>1, <2>2, <2>3, <2>4, Parts, EntryTypes DEF CloseVault, Typed
<1> QED
  BY <1>1, <1>2, <1>3, <1>4, <1>5 DEF Teardown

\* Requests keep the types.
LEMMA ClientTyped ==
    ASSUME TypeOK, SafeInv, NEW t \in Reqs, NEW s \in Sessions, Lock(t, s) \/ \E op \in mix.ops : Request(t, op, s)
    PROVE  Typed
<1>0. t \in Threads
  BY Names
<1>1. CASE Lock(t, s)
  <2>1. [op |-> "lock", s |-> s, at |-> "teardown", due |-> {s}, cur |-> "none"] \in Goroutines
    BY PlaceNames DEF Goroutines, Asked
  <2> QED
    BY <1>0, <1>1, <2>1, Parts, UnlistedTypes, GoroutineTypes DEF Lock, Typed
<1>2. ASSUME NEW op \in mix.ops, Request(t, op, s) PROVE Typed
  <2>1. op \in Asked
    BY DEF TypeOK
  <2>2. First(op) \in Places
    BY PlaceNames DEF First
  <2>3. [Idle EXCEPT !.op = op, !.s = s, !.at = First(op)] \in Goroutines
    BY <2>1, <2>2 DEF Idle, Goroutines
  <2> QED
    BY <1>0, <1>2, <2>3, Parts, GoroutineTypes DEF Request, Typed
<1> QED
  BY <1>1, <1>2

\* Sweep, shutdown, exit, restart and time keep the types.
LEMMA ProcessTyped ==
    ASSUME TypeOK, SafeInv, Sweep \/ CloseAll \/ Stop \/ Exit \/ Restart \/ \E s \in Sessions : Expire(s)
    PROVE  Typed
<1>1. CASE Sweep \/ CloseAll
  <2>1. PICK due \in SUBSET Sessions : Unlisted(due) /\ Teardowns("sweeper", due) /\ UNCHANGED <<caches, mu, reader>>
    BY <1>1 DEF Sweep, CloseAll, Due
  <2> QED
    BY <2>1, Names, Parts, UnlistedTypes, GoroutineTypes DEF Typed
<1>2. CASE Stop
  BY <1>2, Parts DEF Stop, Typed
<1>3. CASE Exit
  <2>1. ent' \in [Sessions -> Entries]
    BY <1>3, Parts, Blanks DEF Exit, Entries
  <2>2. mu' \in [cap : Holders, msg : Holders] /\ caches' \in [cap : SUBSET Sessions, msg : SUBSET Sessions]
    BY <1>3, Names DEF Exit
  <2> QED
    BY <1>3, <2>1, <2>2, Blanks DEF Exit, Typed
<1>4. CASE Restart
  <2>1. ent' \in [Sessions -> Entries]
    BY <1>4, Parts DEF Restart, WipedRoot, Entries
  <2> QED
    BY <1>4, <2>1, Parts DEF Restart, Typed
<1>5. ASSUME NEW s \in Sessions, Expire(s) PROVE Typed
  BY <1>5, Parts, EntryTypes DEF Expire, Typed
<1> QED
  BY <1>1, <1>2, <1>3, <1>4, <1>5

-----------------------------------------------------------------------------
(* The theorems                                                            *)

\* The invariant holds at start-up.
LEMMA VaultInits == ASSUME Init PROVE VaultInv
<1>0. /\ mix \in Mixes /\ proc = "up" /\ ent = [s \in Sessions |-> NoEntry] /\ reader = [s \in Sessions |-> NoReader]
      /\ caches = [cap |-> {}, msg |-> {}] /\ mu = [cap |-> "none", msg |-> "none"] /\ th = [t \in Threads |-> Idle]
  BY DEF Init
<1>1. TypeOK
  BY <1>0, Blanks, Names, VaultAssumption DEF TypeOK
<1>2. \A s \in Sessions : ~ent[s].reg /\ ent[s].vault = "none" /\ ~ent[s].scratch /\ ent[s].derived = << >>
  BY <1>0, Blanks
<1>3. \A t \in Threads : th[t] = Idle /\ th[t].op = "none" /\ th[t].s = "none" /\ th[t].at = "idle" /\ th[t].due = {} /\ th[t].cur = "none"
  BY <1>0, Blanks
<1>4. << >> \notin WithCap /\ << >> \notin WithMsg
  BY DEF WithCap, WithMsg
<1>5. PlacesTrue
  BY <1>3 DEF PlacesTrue, Sess
<1>6. SessionsTrue
  BY <1>2, <1>3 DEF SessionsTrue
<1>7. UnlocksTrue
  BY <1>0, <1>2, <1>3, Names DEF UnlocksTrue, Up
<1>8. CachesTrue
  BY <1>0, <1>2, <1>3, <1>4, Names DEF CachesTrue
<1> QED
  BY <1>1, <1>5, <1>6, <1>7, <1>8 DEF VaultInv

\* Every step keeps the invariant.
LEMMA VaultSteps == ASSUME VaultInv, [Next]_<<vars, mix>> PROVE VaultInv'
<1>0. TypeOK /\ SafeInv
  BY DEF VaultInv, SafeInv
<1> SUFFICES TypeOK' /\ SafeInv'
  BY DEF VaultInv, SafeInv
<1>1. CASE UNCHANGED <<vars, mix>>
  BY <1>0, <1>1 DEF vars, TypeOK, SafeInv, PlacesTrue, SessionsTrue, UnlocksTrue, CachesTrue, Sess,
     Up
<1>2. Typed /\ proc' \in {"up", "stopping", "down"} /\ mix' \in [sessions : SUBSET Sessions, ends : BOOLEAN, ops : SUBSET Asked] => TypeOK'
  BY DEF Typed, TypeOK
<1>3. ASSUME NEW t \in Threads, Run(t) \/ Teardown(t), mix' = mix PROVE TypeOK' /\ SafeInv'
  <2>1. proc' = proc
    BY <1>3 DEF Run, Teardown, With, UnlockOpen, UnlockRegister, StreamEnds, CapMu, MsgMu, Browsed,
       Aggregated, Probed,
                Materialized, VaultFails, Attach, Read, ReadEnds, Ensure, Build, Query, TeardownBegins, CloseCap, CloseMsg,
                ReaderClose, CloseVault
  <2>2. Typed
    BY <1>0, <1>3, RegistryTyped, UseTyped, ServiceTyped, TeardownTyped DEF Run
  <2>3. SafeInv'
    BY <1>0, <1>3, WithSafe, UnlockOpenSafe, UnlockRegisterSafe, StreamEndsSafe, CapMuSafe,
       MsgMuSafe, BrowsedSafe,
       AggregatedSafe, ProbedSafe, MaterializedSafe, VaultFailsSafe, AttachSafe, ReadSafe, ReadEndsSafe, EnsureSafe,
       BuildSafe, TeardownBeginsSafe, CloseCapSafe, CloseMsgSafe, ReaderCloseSafe, CloseVaultSafe DEF Run, Teardown
  <2> QED
    BY <1>0, <1>2, <1>3, <2>1, <2>2, <2>3 DEF TypeOK
<1>4. ASSUME NEW t \in Reqs, NEW s \in Sessions,
             Lock(t, s) \/ \E op \in mix.ops : Request(t, op, s), mix' = mix
      PROVE  TypeOK' /\ SafeInv'
  <2>1. proc' = proc
    BY <1>4 DEF Lock, Request
  <2>2. SafeInv'
    BY <1>0, <1>4, LockSafe, RequestSafe
  <2> QED
    BY <1>0, <1>2, <1>4, <2>1, <2>2, ClientTyped DEF TypeOK
<1>5. CASE (Sweep \/ CloseAll \/ Stop \/ Exit \/ \E s \in Sessions : Expire(s)) /\ mix' = mix
  <2>1. proc' \in {"up", "stopping", "down"}
    BY <1>0, <1>5 DEF Sweep, CloseAll, Stop, Exit, Expire, TypeOK
  <2>2. SafeInv'
    BY <1>0, <1>5, SweepSafe, StopSafe, ExitSafe, ExpireSafe
  <2>3. Typed
    BY <1>0, <1>5, ProcessTyped
  <2> QED
    BY <1>0, <1>2, <1>5, <2>1, <2>2, <2>3 DEF TypeOK
<1>6. CASE Restart
  <2>1. proc' = "up" /\ mix' \in [sessions : SUBSET Sessions, ends : BOOLEAN, ops : SUBSET Asked]
    BY <1>0, <1>6 DEF Restart, TypeOK
  <2> QED
    BY <1>0, <1>2, <1>6, <2>1, RestartSafe, ProcessTyped
<1> QED
  BY <1>1, <1>3, <1>4, <1>5, <1>6 DEF Next, Steps

\* The places of the goroutines, the locks they hold, the registry and the
\* caches agree after every step, a crash and a restart included.
THEOREM VaultInductive == Spec => []VaultInv
  BY VaultInits, VaultSteps, PTL DEF Spec

\* Whoever got into a session has its vault open and its scratch directory there
\* until it lets go, alone: no teardown and no other request is in it.
THEOREM NoTornReads == Spec => []NoTornRead
<1>1. VaultInv => NoTornRead
  <2> SUFFICES ASSUME VaultInv, NEW t \in Reqs, th[t].at = "using"
               PROVE  /\ ent[Sess(t)].vault = "open" /\ ent[Sess(t)].scratch
                      /\ \A u \in Threads \ {t} : ~(th[u].at = "using" /\ Sess(u) = Sess(t)) /\ th[u].cur # Sess(t)
    BY DEF NoTornRead
  <2>0. TypeOK /\ SafeInv /\ t \in Threads
    BY Names DEF VaultInv, SafeInv
  <2>1. Sess(t) \in Sessions /\ ent[Sess(t)].busy = t /\ ent[Sess(t)].vault = "open"
    BY <2>0, UsingIs
  <2>2. ent[Sess(t)].scratch
    BY <2>0, <2>1 DEF SafeInv, SessionsTrue
  <2>3. ASSUME NEW u \in Threads \ {t}
        PROVE  ~(th[u].at = "using" /\ Sess(u) = Sess(t)) /\ th[u].cur # Sess(t)
    BY <2>0, <2>1, Names DEF SafeInv, SessionsTrue
  <2> QED
    BY <2>1, <2>2, <2>3
<1> QED
  BY <1>1, VaultInductive, PTL

\* Whatever was decrypted has somebody who will drop it: a cached report or
\* reader has its closer, a scratch directory and an open vault have the registry,
\* an unlock or exactly one teardown, but for a directory whose removal failed.
THEOREM NothingIsLeft == Spec => []NothingLeft
<1>1. ASSUME VaultInv PROVE DerivedHasCloser
  <2> SUFFICES ASSUME NEW s \in Sessions
               PROVE  /\ s \in caches.cap => \E i \in DOMAIN ent[s].derived : ent[s].derived[i] = "cap"
                      /\ s \in caches.msg => \E i \in DOMAIN ent[s].derived : ent[s].derived[i] = "msg"
    BY DEF DerivedHasCloser
  <2>1. (s \in caches.cap => ent[s].derived \in WithCap) /\ (s \in caches.msg => ent[s].derived \in WithMsg)
    BY <1>1 DEF VaultInv, CachesTrue
  <2>2. \A d \in WithCap : \E i \in DOMAIN d : d[i] = "cap"
    <3>1. 1 \in DOMAIN <<"cap">> /\ <<"cap">>[1] = "cap"
      OBVIOUS
    <3>2. 1 \in DOMAIN <<"cap", "msg">> /\ <<"cap", "msg">>[1] = "cap"
      OBVIOUS
    <3>3. 2 \in DOMAIN <<"msg", "cap">> /\ <<"msg", "cap">>[2] = "cap"
      OBVIOUS
    <3> QED
      BY <3>1, <3>2, <3>3 DEF WithCap
  <2>3. \A d \in WithMsg : \E i \in DOMAIN d : d[i] = "msg"
    <3>1. 1 \in DOMAIN <<"msg">> /\ <<"msg">>[1] = "msg"
      OBVIOUS
    <3>2. 2 \in DOMAIN <<"cap", "msg">> /\ <<"cap", "msg">>[2] = "msg"
      OBVIOUS
    <3>3. 1 \in DOMAIN <<"msg", "cap">> /\ <<"msg", "cap">>[1] = "msg"
      OBVIOUS
    <3> QED
      BY <3>1, <3>2, <3>3 DEF WithMsg
  <2> QED
    BY <2>1, <2>2, <2>3
<1>2. ASSUME VaultInv PROVE ScratchOwned
  BY <1>2 DEF VaultInv, SessionsTrue, UnlocksTrue, ScratchOwned, OnDisk, EndedBy, Sess
<1>3. ASSUME VaultInv PROVE VaultOwned
  <2> SUFFICES ASSUME NEW s \in Sessions, ent[s].vault = "open"
               PROVE  ent[s].scratch /\ Cardinality({t \in Threads : s \in th[t].due}) = (IF ent[s].reg THEN 0 ELSE 1)
    BY DEF VaultOwned
  <2>1. ent[s].scratch /\ (ent[s].reg \/ \E t \in Threads : s \in th[t].due)
    BY <1>3 DEF VaultInv, SessionsTrue
  <2>2. CASE ent[s].reg
    <3>1. {t \in Threads : s \in th[t].due} = {}
      BY <1>3, <2>2 DEF VaultInv, SessionsTrue
    <3> QED
      BY <2>1, <2>2, <3>1, FS_EmptySet
  <2>3. CASE ~ent[s].reg
    <3>1. PICK t \in Threads : s \in th[t].due
      BY <2>1, <2>3
    <3>2. {u \in Threads : s \in th[u].due} = {t}
      BY <1>3, <3>1 DEF VaultInv, SessionsTrue
    <3> QED
      BY <2>1, <2>3, <3>2, FS_Singleton
  <2> QED
    BY <2>2, <2>3
<1>4. VaultInv => NothingLeft
  BY <1>1, <1>2, <1>3 DEF NothingLeft
<1> QED
  BY <1>4, VaultInductive, PTL

-----------------------------------------------------------------------------
(* The muxer's supervisor                                                  *)

SupRecs == [at : Stages, crashes : Nat, backoff : 0..MaxBackoff, held : Rescans \cup {Nobody}]
AskRecs == [at : Verdicts, gen : Nat]

\* Nobody is not a request, and the first back-off is within bounds.
LEMMA SupNames == Nobody \notin Rescans /\ 0 \in 0..MaxBackoff /\ MaxBackoff \in Nat
  BY SupervisorAssumption DEF Nobody

\* The variables' types, one by one.
LEMMA SupParts ==
    ASSUME SupTypeOK
    PROVE  /\ sup \in SupRecs /\ child \in [up : BOOLEAN, gen : Nat, fast : BOOLEAN] /\ other \in BOOLEAN /\ quit \in BOOLEAN
           /\ asks \in [Rescans -> AskRecs] /\ exits \in Seq(BOOLEAN) /\ left \in [exits : 0..MaxExits, serves : 0..MaxServes]
           /\ health \in {"starting", "running", "degraded", "stopped"}
  BY DEF SupTypeOK, SupRecs, AskRecs

\* Moving on changes the supervisor's place only.
LEMMA MoveToDoes ==
    ASSUME sup \in SupRecs, NEW p \in Stages, MoveTo(p)
    PROVE  sup' \in SupRecs /\ sup'.at = p /\ sup'.crashes = sup.crashes /\ sup'.held = sup.held
  BY DEF MoveTo, SupRecs

\* Starting afresh clears the count of crashes and its history.
LEMMA AfreshDoes ==
    ASSUME NEW p \in Stages, Afresh(p)
    PROVE  /\ sup' \in SupRecs /\ sup'.at = p /\ sup'.crashes = 0 /\ sup'.held = Nobody
           /\ exits' = << >> /\ exits' \in Seq(BOOLEAN) /\ Len(exits') = 0
  BY SupNames DEF Afresh, SupRecs

\* The stages the actions name are stages.
LEMMA StageNames == {"top", "refused", "reprobe", "spawn", "child", "term", "asleep", "stopped"} \subseteq Stages
  BY DEF Stages

\* What a request's record becomes: received, answered, or as it was.
AsksGo == /\ asks' \in [Rescans -> AskRecs]
          /\ \A r \in Rescans : \/ asks'[r] = asks[r]
                                \/ asks'[r].at \notin {"sending", "sent", "accepted"}
                                \/ asks[r].at \in {"sending", "sent"} /\ asks'[r].gen = asks[r].gen /\ asks'[r].at \in {"sent", "accepted"}
NoneGranted == \A r \in Rescans : asks'[r].at = "accepted" => asks'[r] = asks[r]

\* A received request is sent; the others are left alone.
LEMMA ReceivedDoes ==
    ASSUME asks \in [Rescans -> AskRecs], NEW r \in Rescans, Receives(r)
    PROVE  /\ Received(r) \in [Rescans -> AskRecs] /\ Received(r)[r].at = "sent" /\ Received(r)[r].gen = asks[r].gen
           /\ \A q \in Rescans : q # r => Received(r)[q] = asks[q]
           /\ asks' = Received(r) => AsksGo /\ NoneGranted
<1> DEFINE a == [asks[r] EXCEPT !.at = "sent"]
<1>1. a \in AskRecs /\ a.at = "sent" /\ a.gen = asks[r].gen
  BY DEF AskRecs, Verdicts
<1>2. Received(r) = [asks EXCEPT ![r] = a]
  BY DEF Received
<1> HIDE DEF a
<1>3. /\ Received(r) \in [Rescans -> AskRecs] /\ Received(r)[r] = a /\ \A q \in Rescans : q # r => Received(r)[q] = asks[q]
  BY <1>1, <1>2
<1>4. ASSUME asks' = Received(r) PROVE AsksGo /\ NoneGranted
  <2>1. asks[r].at = "sending" /\ asks'[r].at = "sent" /\ asks'[r].gen = asks[r].gen /\ \A q \in Rescans : q # r => asks'[q] = asks[q]
    BY <1>1, <1>3, <1>4 DEF Receives
  <2> QED
    BY <1>3, <1>4, <2>1 DEF AsksGo, NoneGranted
<1> QED
  BY <1>1, <1>3, <1>4

\* A reply goes to one request, and only an acceptance grants.
LEMMA ReplyDoes ==
    ASSUME asks \in [Rescans -> AskRecs], NEW r \in Rescans, NEW v \in {"accepted", "refused"},
           NEW as \in [Rescans -> AskRecs], as = asks \/ (Receives(r) /\ as = Received(r)), Reply(r, as, v)
    PROVE  AsksGo /\ (v = "refused" => NoneGranted)
<1>1. as[r].gen = asks[r].gen /\ (as[r].at = "sent" => asks[r].at \in {"sending", "sent"}) /\ \A q \in Rescans : q # r => as[q] = asks[q]
  BY ReceivedDoes DEF Receives
<1>2. CASE as[r].at = "sent"
  <2> DEFINE a == [as[r] EXCEPT !.at = v]
  <2>1. a \in AskRecs /\ a.at = v /\ a.gen = as[r].gen
    BY DEF AskRecs, Verdicts
  <2>2. asks' = [as EXCEPT ![r] = a]
    BY <1>2 DEF Reply
  <2> HIDE DEF a
  <2>3. asks' \in [Rescans -> AskRecs] /\ asks'[r] = a /\ \A q \in Rescans : q # r => asks'[q] = asks[q]
    BY <1>1, <2>1, <2>2
  <2> QED
    BY <1>1, <1>2, <2>1, <2>3 DEF AsksGo, NoneGranted
<1>3. CASE as[r].at # "sent"
  <2>1. asks' = as /\ as = asks
    BY <1>3, ReceivedDoes DEF Reply
  <2> QED
    BY <2>1 DEF AsksGo, NoneGranted
<1> QED
  BY <1>2, <1>3

\* Requests move while the child stays, or goes: none is granted under it.
LEMMA AsksKept ==
    ASSUME SupTypeOK, AsksTrue, AsksGo, child' \in [up : BOOLEAN, gen : Nat, fast : BOOLEAN], child'.gen = child.gen,
           child'.up => child.up, NoneGranted \/ ~child'.up
    PROVE  AsksTrue'
<1>1. ASSUME NEW r \in Rescans
      PROVE  /\ asks'[r].at \in {"sending", "sent", "accepted"} => asks'[r].gen <= child'.gen
             /\ asks'[r].at = "accepted" /\ child'.up => asks'[r].gen < child'.gen
  BY DEF AsksTrue, AsksGo, NoneGranted
<1> QED
  BY <1>1 DEF AsksTrue

\* Where no request is answered none is granted.
LEMMA SameAsks == ASSUME SupTypeOK, asks' = asks PROVE AsksGo /\ NoneGranted
  BY SupParts DEF AsksGo, NoneGranted

\* The count when a child has exited.
LEMMA ExitedDoes ==
    ASSUME SupInv, NEW fast \in BOOLEAN, Exited(fast), sup.held = Nobody
    PROVE  /\ sup' \in SupRecs /\ sup'.at = "asleep" /\ sup'.held = Nobody /\ exits' \in Seq(BOOLEAN) /\ CountTrue'
           /\ health' \in {"starting", "running", "degraded", "stopped"}
<1>0. sup \in SupRecs /\ exits \in Seq(BOOLEAN) /\ sup.crashes \in Nat /\ CountTrue
  BY SupParts DEF SupInv, SupRecs
<1> DEFINE n == IF fast THEN sup.crashes + 1 ELSE 1
<1>1. n \in Nat /\ sup' = [sup EXCEPT !.at = "asleep", !.crashes = n] /\ exits' = Append(exits, fast)
      /\ health' = IF n >= CrashLoopThreshold THEN "degraded" ELSE health
  BY <1>0 DEF Exited
<1>2. (fast => n = sup.crashes + 1) /\ (~fast => n = 1)
  OBVIOUS
<1> HIDE DEF n
<1>3. sup' \in SupRecs /\ sup'.at = "asleep" /\ sup'.crashes = n /\ sup'.held = Nobody
  BY <1>0, <1>1, StageNames DEF SupRecs
<1>4. /\ exits' \in Seq(BOOLEAN) /\ Len(exits') = Len(exits) + 1 /\ exits'[Len(exits) + 1] = fast
      /\ (\A i \in 1..Len(exits) : exits'[i] = exits[i]) /\ Len(exits) \in Nat
  BY <1>0, <1>1
<1>5. ASSUME NEW k \in 1..Len(exits'), \A i \in Len(exits') - k + 2..Len(exits') : exits'[i]
      PROVE  n >= k
  <2>1. CASE k = 1
    BY <1>0, <1>2, <2>1
  <2>2. CASE k # 1
    <3>1. Len(exits') \in Len(exits') - k + 2..Len(exits') /\ k - 1 \in 1..Len(exits)
      BY <1>4, <2>2
    <3>2. fast
      BY <1>4, <1>5, <3>1
    <3>3. \A i \in Len(exits) - (k - 1) + 2..Len(exits) : exits[i]
      <4>1. ASSUME NEW i \in Len(exits) - (k - 1) + 2..Len(exits) PROVE exits[i]
        <5>1. i \in 1..Len(exits) /\ i \in Len(exits') - k + 2..Len(exits')
          BY <1>4, <3>1
        <5> QED
          BY <1>4, <1>5, <5>1
      <4> QED
        BY <4>1
    <3>4. sup.crashes >= k - 1
      BY <1>0, <3>1, <3>3 DEF CountTrue
    <3> QED
      BY <1>0, <1>2, <3>2, <3>4
  <2> QED
    BY <2>1, <2>2
<1>6. n >= CrashLoopThreshold => health' = "degraded"
  BY <1>1
<1>7. CountTrue'
  BY <1>3, <1>5, <1>6 DEF CountTrue
<1>8. health' \in {"starting", "running", "degraded", "stopped"}
  BY <1>1, SupParts DEF SupInv
<1> QED
  BY <1>3, <1>4, <1>7, <1>8

\* The crash count stays true when nothing exits.
LEMMA CountKept ==
    ASSUME CountTrue, exits' = exits, sup'.crashes = sup.crashes, sup'.at # "asleep"
    PROVE  CountTrue'
  BY DEF CountTrue

\* An empty history has nothing to count.
LEMMA CountEmpty ==
    ASSUME exits' = << >>, sup'.at # "asleep"
    PROVE  CountTrue'
<1>1. 1..Len(exits') = {}
  OBVIOUS
<1> QED
  BY <1>1 DEF CountTrue

\* A stopped supervisor says so.
LEMMA StoppedDoes ==
    ASSUME sup \in SupRecs, Stopped
    PROVE  sup' \in SupRecs /\ sup'.at = "stopped" /\ sup'.crashes = sup.crashes /\ sup'.held = sup.held /\ health' = "stopped"
  BY MoveToDoes, StageNames DEF Stopped

Healths == {"starting", "running", "degraded", "stopped"}

\* What is left to show of a step: the loop's part and the child's.
LEMMA SupAdds ==
    ASSUME SupInv, sup' \in SupRecs, health' \in Healths, child' \in [up : BOOLEAN, gen : Nat, fast : BOOLEAN],
           other' \in BOOLEAN, quit' \in BOOLEAN, asks' \in [Rescans -> AskRecs], exits' \in Seq(BOOLEAN),
           left' \in [exits : 0..MaxExits, serves : 0..MaxServes], LoopTrue', AsksTrue', CountTrue'
    PROVE  SupInv'
  BY DEF SupInv, SupTypeOK, SupRecs, AskRecs, Healths

\* The top of the loop keeps the invariant.
LEMMA TopSafe == ASSUME SupInv, Top PROVE SupInv'
<1>0. /\ sup.at = "top" /\ UNCHANGED <<child, other, quit, asks, exits, left>> /\ SupTypeOK /\ LoopTrue /\ CountTrue /\ AsksTrue
  BY DEF Top, SupInv
<1>1. /\ sup' \in SupRecs /\ health' \in Healths /\ sup'.at \in {"stopped", "refused", "spawn"} /\ sup'.held = sup.held /\ sup'.crashes = sup.crashes
  BY <1>0, SupParts, StoppedDoes, MoveToDoes, StageNames DEF Top, Healths
<1>2. LoopTrue'
  BY <1>0, <1>1 DEF LoopTrue
<1>3. CountTrue' /\ AsksTrue'
  BY <1>0, <1>1, CountKept, SupParts, SameAsks, AsksKept
<1> QED
  BY <1>0, <1>1, <1>2, <1>3, SupParts, SupAdds

\* Waiting beside another server keeps the invariant.
LEMMA WaitRescanSafe == ASSUME SupInv, WaitRescan PROVE SupInv'
<1>0. /\ sup.at = "refused" /\ UNCHANGED <<child, other, quit, exits, left>> /\ SupTypeOK /\ LoopTrue /\ CountTrue /\ AsksTrue
  BY DEF WaitRescan, SupInv
<1>1. CASE Stopped /\ UNCHANGED asks
  <2>1. /\ sup' \in SupRecs /\ health' \in Healths /\ sup'.at = "stopped" /\ sup'.held = sup.held /\ sup'.crashes = sup.crashes
    BY <1>0, <1>1, SupParts, StoppedDoes DEF Healths
  <2>2. LoopTrue'
    BY <1>0, <2>1 DEF LoopTrue
  <2>3. CountTrue' /\ AsksTrue'
    BY <1>0, <1>1, <2>1, CountKept, SupParts, SameAsks, AsksKept
  <2> QED
    BY <1>0, <1>1, <2>1, <2>2, <2>3, SupParts, SupAdds
<1>2. ASSUME NEW r \in Rescans, Receives(r), asks' = Received(r),
             sup' = [sup EXCEPT !.at = "reprobe", !.held = r], health' = health
      PROVE  SupInv'
  <2>1. /\ sup' \in SupRecs /\ health' \in Healths /\ sup'.at = "reprobe" /\ sup'.held = r /\ sup'.crashes = sup.crashes /\ r # Nobody
    BY <1>0, <1>2, SupParts, StageNames, SupNames DEF SupRecs, Healths
  <2>2. LoopTrue'
    BY <1>0, <2>1 DEF LoopTrue
  <2>3. AsksGo /\ NoneGranted
    BY <1>0, <1>2, SupParts, ReceivedDoes
  <2>4. CountTrue' /\ AsksTrue'
    BY <1>0, <2>1, <2>3, CountKept, SupParts, AsksKept
  <2> QED
    BY <1>0, <2>1, <2>2, <2>3, <2>4, SupParts, SupAdds DEF AsksGo
<1> QED
  BY <1>1, <1>2 DEF WaitRescan

\* Probing the address again keeps the invariant.
LEMMA ReprobeSafe == ASSUME SupInv, Reprobe PROVE SupInv'
<1>0. /\ sup.at = "reprobe" /\ UNCHANGED <<health, child, other, quit, left>> /\ SupTypeOK /\ LoopTrue /\ CountTrue /\ AsksTrue
  BY DEF Reprobe, SupInv
<1>1. sup.held \in Rescans /\ ~child.up /\ asks \in [Rescans -> AskRecs]
  BY <1>0, SupParts DEF LoopTrue, SupRecs
<1>2. CASE Reply(sup.held, asks, "refused") /\ sup' = [sup EXCEPT !.at = "top", !.held = Nobody] /\ UNCHANGED exits
  <2>1. /\ sup' \in SupRecs /\ health' \in Healths /\ sup'.at = "top" /\ sup'.held = Nobody /\ sup'.crashes = sup.crashes
    BY <1>0, <1>2, SupParts, StageNames DEF SupRecs, Healths
  <2>2. LoopTrue'
    BY <1>0, <1>1, <2>1 DEF LoopTrue
  <2>3. AsksGo
    BY <1>1, <1>2, ReplyDoes
  <2>4. CountTrue' /\ AsksTrue'
    BY <1>0, <1>1, <1>2, <2>1, <2>3, CountKept, SupParts, AsksKept
  <2> QED
    BY <1>0, <1>2, <2>1, <2>2, <2>3, <2>4, SupParts, SupAdds DEF AsksGo
<1>3. CASE Reply(sup.held, asks, "accepted") /\ Afresh("spawn")
  <2>1. /\ sup' \in SupRecs /\ health' \in Healths /\ sup'.at = "spawn" /\ sup'.held = Nobody /\ exits' = << >> /\ exits' \in Seq(BOOLEAN)
    BY <1>0, <1>3, SupParts, AfreshDoes, StageNames DEF Healths
  <2>2. LoopTrue'
    BY <1>0, <1>1, <2>1 DEF LoopTrue
  <2>3. AsksGo
    BY <1>1, <1>3, ReplyDoes
  <2>4. CountTrue' /\ AsksTrue'
    BY <1>0, <1>1, <2>1, <2>3, CountEmpty, SupParts, AsksKept
  <2> QED
    BY <1>0, <2>1, <2>2, <2>3, <2>4, SupParts, SupAdds DEF AsksGo
<1> QED
  BY <1>2, <1>3 DEF Reprobe

\* A daemon that does not start keeps the invariant.
LEMMA StartFailsSafe == ASSUME SupInv, StartFails PROVE SupInv'
<1>0. /\ sup.at = "spawn" /\ left.exits > 0 /\ left' = [left EXCEPT !.exits = @ - 1] /\ Exited(TRUE)
      /\ UNCHANGED <<child, other, quit, asks>> /\ SupTypeOK /\ LoopTrue /\ AsksTrue
  BY DEF StartFails, SupInv
<1>1. sup.held = Nobody /\ ~child.up
  BY <1>0 DEF LoopTrue
<1>2. sup' \in SupRecs /\ sup'.at = "asleep" /\ sup'.held = Nobody /\ exits' \in Seq(BOOLEAN) /\ CountTrue' /\ health' \in Healths
  BY <1>0, <1>1, ExitedDoes DEF Healths
<1>3. left' \in [exits : 0..MaxExits, serves : 0..MaxServes]
  BY <1>0, SupParts, SupervisorAssumption
<1>4. LoopTrue'
  BY <1>0, <1>1, <1>2 DEF LoopTrue
<1>5. AsksTrue'
  BY <1>0, SupParts, SameAsks, AsksKept
<1> QED
  BY <1>0, <1>2, <1>3, <1>4, <1>5, SupParts, SupAdds

\* A daemon that starts keeps the invariant.
LEMMA StartSafe == ASSUME SupInv, Start PROVE SupInv'
<1>0. /\ sup.at = "spawn" /\ MoveTo("child") /\ health' = "running" /\ child' = [up |-> TRUE, gen |-> child.gen + 1, fast |-> TRUE]
      /\ UNCHANGED <<other, quit, asks, exits, left>> /\ SupTypeOK /\ LoopTrue /\ AsksTrue /\ CountTrue
  BY DEF Start, SupInv
<1>1. /\ sup' \in SupRecs /\ sup'.at = "child" /\ sup'.held = sup.held /\ sup'.crashes = sup.crashes /\ health' \in Healths
  BY <1>0, SupParts, MoveToDoes, StageNames DEF Healths
<1>2. child' \in [up : BOOLEAN, gen : Nat, fast : BOOLEAN] /\ child'.gen = child.gen + 1 /\ child.gen \in Nat
  BY <1>0, SupParts
<1>3. LoopTrue'
  BY <1>0, <1>1 DEF LoopTrue
<1>4. AsksTrue'
  <2>1. ASSUME NEW r \in Rescans, asks[r].at \in {"sending", "sent", "accepted"}
        PROVE  asks'[r].gen < child'.gen
    <3>1. asks[r].gen \in Nat /\ asks[r].gen <= child.gen
      BY <1>0, <2>1, SupParts DEF AsksTrue, AskRecs
    <3> QED
      BY <1>0, <1>2, <3>1
  <2>2. \A r \in Rescans : asks'[r].gen \in Nat /\ asks'[r] = asks[r]
    BY <1>0, SupParts DEF AskRecs
  <2> QED
    BY <1>2, <2>1, <2>2 DEF AsksTrue
<1>5. CountTrue'
  BY <1>0, <1>1, CountKept
<1> QED
  BY <1>0, <1>1, <1>2, <1>3, <1>4, <1>5, SupParts, SupAdds

\* Noticing an exit, a rescan or a shutdown keeps the invariant.
LEMMA SuperviseChildSafe == ASSUME SupInv, SuperviseChild PROVE SupInv'
<1>0. /\ sup.at = "child" /\ UNCHANGED <<child, other, quit, left>> /\ SupTypeOK /\ LoopTrue /\ CountTrue /\ AsksTrue /\ sup.held = Nobody
  BY DEF SuperviseChild, SupInv, LoopTrue
<1>1. CASE Leaves /\ UNCHANGED <<health, asks, exits>>
  <2>1. /\ sup' \in SupRecs /\ sup'.at = "term" /\ sup'.held = sup.held /\ sup'.crashes = sup.crashes
    BY <1>0, <1>1, SupParts, MoveToDoes, StageNames DEF Leaves
  <2>2. LoopTrue' /\ CountTrue' /\ AsksTrue'
    BY <1>0, <1>1, <2>1, CountKept, SupParts, SameAsks, AsksKept DEF LoopTrue
  <2> QED
    BY <1>0, <1>1, <2>1, <2>2, SupParts, SupAdds DEF Healths
<1>2. ASSUME NEW r \in Rescans, Receives(r), Restarts(r), health' = health PROVE SupInv'
  <2>1. /\ sup' \in SupRecs /\ sup'.at = "term" /\ sup'.held = r /\ sup'.crashes = sup.crashes /\ asks' = Received(r) /\ exits' = exits
    BY <1>0, <1>2, SupParts, StageNames, SupNames DEF SupRecs, Restarts
  <2>2. AsksGo /\ NoneGranted
    BY <1>0, <1>2, <2>1, SupParts, ReceivedDoes
  <2>3. LoopTrue' /\ CountTrue' /\ AsksTrue'
    BY <1>0, <2>1, <2>2, CountKept, SupParts, AsksKept DEF LoopTrue
  <2> QED
    BY <1>0, <1>2, <2>1, <2>2, <2>3, SupParts, SupAdds DEF AsksGo, Healths
<1>3. CASE ~child.up /\ Exited(child.fast) /\ UNCHANGED asks
  <2>1. /\ sup' \in SupRecs /\ sup'.at = "asleep" /\ sup'.held = Nobody /\ exits' \in Seq(BOOLEAN) /\ CountTrue' /\ health' \in Healths
    BY <1>0, <1>3, SupParts, ExitedDoes DEF Healths
  <2>2. LoopTrue' /\ AsksTrue'
    BY <1>0, <1>3, <2>1, SupParts, SameAsks, AsksKept DEF LoopTrue
  <2> QED
    BY <1>0, <1>3, <2>1, <2>2, SupParts, SupAdds
<1> QED
  BY <1>1, <1>2, <1>3 DEF SuperviseChild

\* Terminating the daemon for a rescan or shutdown keeps the invariant.
LEMMA TerminateSafe == ASSUME SupInv, Terminate PROVE SupInv'
<1>0. /\ sup.at = "term" /\ child' = [child EXCEPT !.up = FALSE] /\ UNCHANGED <<other, quit, left>>
      /\ SupTypeOK /\ LoopTrue /\ CountTrue /\ AsksTrue
  BY DEF Terminate, Reaped, SupInv
<1>1. child' \in [up : BOOLEAN, gen : Nat, fast : BOOLEAN] /\ child'.gen = child.gen /\ ~child'.up
  BY <1>0, SupParts
<1>2. CASE sup.held = Nobody /\ Stopped /\ UNCHANGED <<asks, exits>>
  <2>1. /\ sup' \in SupRecs /\ sup'.at = "stopped" /\ sup'.held = Nobody /\ sup'.crashes = sup.crashes /\ health' \in Healths
    BY <1>2, SupParts, <1>0, StoppedDoes DEF Healths
  <2>2. LoopTrue' /\ CountTrue' /\ AsksTrue'
    BY <1>0, <1>1, <1>2, <2>1, CountKept, SupParts, SameAsks, AsksKept DEF LoopTrue
  <2> QED
    BY <1>0, <1>1, <1>2, <2>1, <2>2, SupParts, SupAdds
<1>3. CASE sup.held # Nobody /\ Reply(sup.held, asks, "accepted") /\ Afresh("top") /\ UNCHANGED health
  <2>1. /\ sup' \in SupRecs /\ sup'.at = "top" /\ sup'.held = Nobody /\ exits' = << >> /\ exits' \in Seq(BOOLEAN)
    BY <1>3, AfreshDoes, StageNames
  <2>2. sup.held \in Rescans /\ asks \in [Rescans -> AskRecs]
    BY <1>0, <1>3, SupParts DEF SupRecs
  <2>3. AsksGo
    BY <1>3, <2>2, ReplyDoes
  <2>4. LoopTrue' /\ CountTrue' /\ AsksTrue'
    BY <1>0, <1>1, <2>1, <2>3, CountEmpty, AsksKept DEF LoopTrue
  <2> QED
    BY <1>0, <1>1, <1>3, <2>1, <2>3, <2>4, SupParts, SupAdds DEF AsksGo, Healths
<1> QED
  BY <1>2, <1>3 DEF Terminate

\* The back-off, and a rescan that cuts it short, keep the invariant.
LEMMA SleepSafe == ASSUME SupInv, SleepOrRescan PROVE SupInv'
<1>0. /\ sup.at = "asleep" /\ UNCHANGED <<child, other, quit, left>>
      /\ SupTypeOK /\ LoopTrue /\ CountTrue /\ AsksTrue /\ sup.held = Nobody /\ ~child.up
  BY DEF SleepOrRescan, SupInv, LoopTrue
<1>1. CASE Stopped /\ UNCHANGED <<asks, exits>>
  <2>1. /\ sup' \in SupRecs /\ sup'.at = "stopped" /\ sup'.held = Nobody /\ sup'.crashes = sup.crashes /\ health' \in Healths
    BY <1>1, SupParts, <1>0, StoppedDoes DEF Healths
  <2>2. LoopTrue' /\ CountTrue' /\ AsksTrue'
    BY <1>0, <1>1, <2>1, CountKept, SupParts, SameAsks, AsksKept DEF LoopTrue
  <2> QED
    BY <1>0, <1>1, <2>1, <2>2, SupParts, SupAdds
<1>2. CASE sup' = [sup EXCEPT !.at = "top", !.backoff = NextBackoff(@)] /\ UNCHANGED <<health, asks, exits>>
  <2>1. NextBackoff(sup.backoff) \in 0..MaxBackoff
    BY <1>0, SupParts, SupNames DEF SupRecs, NextBackoff
  <2>2. /\ sup' \in SupRecs /\ sup'.at = "top" /\ sup'.held = Nobody /\ sup'.crashes = sup.crashes
    BY <1>0, <1>2, <2>1, SupParts, StageNames DEF SupRecs
  <2>3. LoopTrue' /\ CountTrue' /\ AsksTrue'
    BY <1>0, <1>2, <2>2, CountKept, SupParts, SameAsks, AsksKept DEF LoopTrue
  <2> QED
    BY <1>0, <1>2, <2>2, <2>3, SupParts, SupAdds DEF Healths
<1>3. ASSUME NEW r \in Rescans, Receives(r), Reply(r, Received(r), "accepted"), Afresh("top"),
             health' = health
      PROVE  SupInv'
  <2>1. /\ sup' \in SupRecs /\ sup'.at = "top" /\ sup'.held = Nobody /\ exits' = << >> /\ exits' \in Seq(BOOLEAN)
    BY <1>3, AfreshDoes, StageNames
  <2>2. asks \in [Rescans -> AskRecs] /\ Received(r) \in [Rescans -> AskRecs]
    BY <1>0, <1>3, SupParts, ReceivedDoes
  <2>3. AsksGo
    BY <1>3, <2>2, ReplyDoes
  <2>4. LoopTrue' /\ CountTrue' /\ AsksTrue'
    BY <1>0, <2>1, <2>3, CountEmpty, SupParts, AsksKept DEF LoopTrue
  <2> QED
    BY <1>0, <1>3, <2>1, <2>3, <2>4, SupParts, SupAdds DEF AsksGo, Healths
<1> QED
  BY <1>1, <1>2, <1>3 DEF SleepOrRescan

\* What requests, the daemon and other servers do keeps the invariant.
LEMMA AroundSafe ==
    ASSUME SupInv,
           \/ \E r \in Rescans : Ask(r) \/ TimeOut(r)
           \/ \E fast \in BOOLEAN : ChildExits(fast)
           \/ OtherServes \/ OtherLeaves \/ ShutDown
    PROVE  SupInv'
<1>0. SupTypeOK /\ LoopTrue /\ CountTrue /\ AsksTrue
  BY DEF SupInv
<1>1. ASSUME NEW r \in Rescans, Ask(r) \/ TimeOut(r) PROVE SupInv'
  <2>0. UNCHANGED <<sup, health, child, other, quit, exits, left>>
    BY <1>1 DEF Ask, TimeOut
  <2>1. PICK a \in AskRecs : asks' = [asks EXCEPT ![r] = a] /\ a.gen <= child.gen /\ a.at \in {"sending", "timeout"}
    <3>1. child.gen \in Nat
      BY <1>0, SupParts
    <3>2. CASE Ask(r)
      <4> DEFINE b == [at |-> "sending", gen |-> child.gen]
      <4>1. b \in AskRecs /\ b.gen <= child.gen /\ b.at = "sending"
        BY <3>1 DEF AskRecs, Verdicts
      <4>2. asks' = [asks EXCEPT ![r] = b]
        BY <3>2 DEF Ask
      <4> HIDE DEF b
      <4> QED
        BY <4>1, <4>2
    <3>3. CASE TimeOut(r)
      <4> DEFINE b == [at |-> "timeout", gen |-> 0]
      <4>1. b \in AskRecs /\ b.gen <= child.gen /\ b.at = "timeout"
        BY <3>1 DEF AskRecs, Verdicts
      <4>2. asks' = [asks EXCEPT ![r] = b]
        BY <3>3 DEF TimeOut
      <4> HIDE DEF b
      <4> QED
        BY <4>1, <4>2
    <3> QED
      BY <1>1, <3>2, <3>3
  <2>2. asks' \in [Rescans -> AskRecs] /\ asks'[r] = a /\ \A q \in Rescans : q # r => asks'[q] = asks[q]
    BY <1>0, <2>1, SupParts
  <2>3. AsksTrue'
    BY <1>0, <2>0, <2>1, <2>2 DEF AsksTrue
  <2>4. LoopTrue' /\ CountTrue'
    BY <1>0, <2>0 DEF LoopTrue, CountTrue
  <2> QED
    BY <1>0, <2>0, <2>2, <2>3, <2>4, SupParts, SupAdds DEF Healths
<1>2. ASSUME NEW fast \in BOOLEAN, ChildExits(fast) PROVE SupInv'
  <2>0. /\ left.exits > 0 /\ left' = [left EXCEPT !.exits = @ - 1] /\ child' = [child EXCEPT !.up = FALSE, !.fast = fast]
        /\ UNCHANGED <<sup, health, other, quit, asks, exits>>
    BY <1>2 DEF ChildExits
  <2>1. child' \in [up : BOOLEAN, gen : Nat, fast : BOOLEAN] /\ child'.gen = child.gen /\ ~child'.up
    BY <1>0, <2>0, SupParts
  <2>2. left' \in [exits : 0..MaxExits, serves : 0..MaxServes]
    BY <1>0, <2>0, SupParts, SupervisorAssumption
  <2>3. LoopTrue' /\ CountTrue' /\ AsksTrue'
    BY <1>0, <2>0, <2>1, SameAsks, AsksKept DEF LoopTrue, CountTrue
  <2> QED
    BY <1>0, <2>0, <2>1, <2>2, <2>3, SupParts, SupAdds DEF Healths
<1>3. CASE OtherServes \/ OtherLeaves \/ ShutDown
  <2>0. UNCHANGED <<sup, health, child, asks, exits>>
    BY <1>3 DEF OtherServes, OtherLeaves, ShutDown
  <2>1. other' \in BOOLEAN /\ quit' \in BOOLEAN
    BY <1>0, <1>3, SupParts DEF OtherServes, OtherLeaves, ShutDown
  <2>2. left' \in [exits : 0..MaxExits, serves : 0..MaxServes]
    BY <1>0, <1>3, SupParts, SupervisorAssumption DEF OtherServes, OtherLeaves, ShutDown
  <2>3. LoopTrue' /\ CountTrue' /\ AsksTrue'
    BY <1>0, <2>0 DEF LoopTrue, CountTrue, AsksTrue
  <2> QED
    BY <1>0, <2>0, <2>1, <2>2, <2>3, SupParts, SupAdds DEF Healths
<1> QED
  BY <1>1, <1>2, <1>3

\* The loop, its child, the requests and the count of exits agree after every step.
THEOREM SupervisorInductive == SupSpec => []SupInv
<1>1. SupInit("top") => SupInv
  <2> SUFFICES ASSUME SupInit("top") PROVE SupInv
    OBVIOUS
  <2>1. /\ sup = [at |-> "top", crashes |-> 0, backoff |-> 0, held |-> Nobody] /\ health = "starting"
        /\ child = [up |-> FALSE, gen |-> 0, fast |-> TRUE] /\ other \in BOOLEAN /\ quit = FALSE /\ exits = << >>
        /\ asks = [r \in Rescans |-> [at |-> "idle", gen |-> 0]] /\ left = [exits |-> MaxExits, serves |-> MaxServes]
    BY DEF SupInit
  <2>2. SupTypeOK
    <3>1. sup \in [at : Stages, crashes : Nat, backoff : 0..MaxBackoff, held : Rescans \cup {Nobody}]
      BY <2>1, StageNames, SupNames
    <3>2. asks \in [Rescans -> [at : Verdicts, gen : Nat]] /\ exits \in Seq(BOOLEAN)
      BY <2>1 DEF Verdicts
    <3>3. left \in [exits : 0..MaxExits, serves : 0..MaxServes]
      BY <2>1, SupervisorAssumption
    <3> QED
      BY <2>1, <3>1, <3>2, <3>3 DEF SupTypeOK
  <2>3. LoopTrue /\ AsksTrue
    BY <2>1 DEF LoopTrue, AsksTrue
  <2>4. CountTrue
    BY <2>1 DEF CountTrue
  <2> QED
    BY <2>2, <2>3, <2>4 DEF SupInv
<1>2. SupInv /\ [SupNext]_supVars => SupInv'
  <2> SUFFICES ASSUME SupInv, [SupNext]_supVars PROVE SupInv'
    OBVIOUS
  <2>1. CASE UNCHANGED supVars
    BY <2>1 DEF supVars, SupInv, SupTypeOK, LoopTrue, AsksTrue, CountTrue
  <2>2. CASE Loop
    BY <2>2, TopSafe, WaitRescanSafe, ReprobeSafe, StartFailsSafe, StartSafe, SuperviseChildSafe,
       TerminateSafe, SleepSafe DEF Loop
  <2> QED
    BY <2>1, <2>2, AroundSafe DEF SupNext
<1> QED
  BY <1>1, <1>2, PTL DEF SupSpec

\* A rescan that was granted has replaced the daemon it found, and a supervisor
\* that has stopped leaves no daemon, however requests, exits and the shutdown race.
THEOREM RescansReplace == SupSpec => [](RescanReplaces /\ StopLeavesNone)
<1>1. SupInv => RescanReplaces /\ StopLeavesNone
  <2> SUFFICES ASSUME SupInv PROVE RescanReplaces /\ StopLeavesNone
    OBVIOUS
  <2>1. ASSUME NEW r \in Rescans, asks[r].at = "accepted", child.up PROVE child.gen # asks[r].gen
    BY <2>1, SupParts DEF SupInv, AsksTrue, AskRecs
  <2> QED
    BY <2>1 DEF SupInv, LoopTrue, RescanReplaces, StopLeavesNone
<1> QED
  BY <1>1, SupervisorInductive, PTL

\* A daemon that kept exiting, as often as the threshold says and fast, is shown
\* degraded while the loop waits to start it again, for any threshold.
THEOREM CrashLoopsAreTold == SupSpec => []CrashLoopTold
<1>1. SupInv => CrashLoopTold
  <2> SUFFICES ASSUME SupInv, sup.at = "asleep", Len(exits) >= CrashLoopThreshold, LastFast(CrashLoopThreshold - 1)
               PROVE  health = "degraded"
    BY DEF CrashLoopTold
  <2>0. CrashLoopThreshold \in Nat /\ CrashLoopThreshold >= 1 /\ Len(exits) \in Nat
    BY SupervisorAssumption, SupParts DEF SupInv
  <2>1. CrashLoopThreshold \in 1..Len(exits)
    BY <2>0
  <2>2. Len(exits) - CrashLoopThreshold + 2 = Len(exits) - (CrashLoopThreshold - 1) + 1
    BY <2>0
  <2>3. \A i \in Len(exits) - CrashLoopThreshold + 2..Len(exits) : exits[i]
    BY <2>2 DEF LastFast
  <2> QED
    BY <2>1, <2>3 DEF SupInv, CountTrue
<1> QED
  BY <1>1, SupervisorInductive, PTL

-----------------------------------------------------------------------------
(* Reading: the rows a page returns                                        *)

\* A set of numbers that is not empty has a least one.
LEMMA LeastNumber ==
    ASSUME NEW T, T \subseteq Nat, T # {}
    PROVE  \E x \in T : \A y \in T : x <= y
<1> DEFINE R == {ss \in Nat \X Nat : ss[1] < ss[2]}
<1>1. IsWellFoundedOn(R, Nat)
  BY NatLessThanWellFounded DEF OpToRel
<1>2. \E x \in T : \A y \in T : ~ (<<y, x>> \in R)
  <2> HIDE DEF R
  <2> QED
    BY <1>1, WFMin
<1>3. PICK x \in T : \A y \in T : ~ (<<y, x>> \in R)
  BY <1>2
<1>4. ASSUME NEW y \in T PROVE x <= y
  <2>1. x \in Nat /\ y \in Nat /\ <<y, x>> \in Nat \X Nat /\ <<y, x>>[1] = y /\ <<y, x>>[2] = x
    OBVIOUS
  <2>2. ~ (y < x)
    BY <1>3, <2>1
  <2> QED
    BY <2>1, <2>2
<1> QED
  BY <1>4

\* The scan of Decoded, over the rows s.
Kept(s, f) == f = [i \in 0..Len(s) |-> IF i = 0 THEN << >>
                     ELSE IF look.rows[s[i]].bad THEN f[i - 1] ELSE Append(f[i - 1], s[i])]

\* Where every row can be decoded, every row is kept.
LEMMA DecodedAll ==
    ASSUME NEW s \in Seq(Nat), \A i \in 1..Len(s) : ~look.rows[s[i]].bad
    PROVE  Decoded(s) = s
<1> DEFINE n == Len(s)
           g == [i \in 0..n |-> SubSeq(s, 1, i)]
           f == CHOOSE h : Kept(s, h)
<1>1. n \in Nat /\ \A i \in 1..n : s[i] \in Nat
  OBVIOUS
<1>2. SubSeq(s, 1, 0) = << >> /\ SubSeq(s, 1, n) = s
  OBVIOUS
<1>3. ASSUME NEW i \in 1..n PROVE SubSeq(s, 1, i) = Append(SubSeq(s, 1, i - 1), s[i])
  OBVIOUS
<1>4. Kept(s, g)
  <2>1. ASSUME NEW i \in 0..n
        PROVE  g[i] = IF i = 0 THEN << >> ELSE IF look.rows[s[i]].bad THEN g[i - 1] ELSE Append(g[i - 1], s[i])
    <3>1. CASE i = 0
      BY <1>1, <1>2, <3>1
    <3>2. CASE i # 0
      <4>1. i \in 1..n /\ i - 1 \in 0..n
        BY <1>1, <3>2
      <4>2. g[i] = SubSeq(s, 1, i) /\ g[i - 1] = SubSeq(s, 1, i - 1)
        BY <4>1
      <4>3. ~look.rows[s[i]].bad
        BY <4>1
      <4> HIDE DEF g
      <4> QED
        BY <1>3, <3>2, <4>1, <4>2, <4>3
    <3> QED
      BY <3>1, <3>2
  <2>2. g = [i \in 0..n |-> g[i]]
    OBVIOUS
  <2> HIDE DEF g
  <2> QED
    BY <2>1, <2>2 DEF Kept
<1>5. Kept(s, f)
  <2> HIDE DEF g
  <2> QED
    BY <1>4
<1>6. Decoded(s) = f[n]
  BY DEF Decoded, Kept
<1> HIDE DEF f
<1> DEFINE T == {x \in 0..n : f[x] # g[x]}
<1>7. ASSUME T # {} PROVE FALSE
  <2>1. PICK x \in T : \A y \in T : x <= y
    <3>1. T \subseteq Nat
      OBVIOUS
    <3> HIDE DEF T
    <3> QED
      BY <1>7, <3>1, LeastNumber
  <2>2. x \in 0..n /\ f[x] # g[x]
    BY <2>1
  <2>3. x # 0
    BY <1>1, <1>4, <1>5, <2>2 DEF Kept
  <2>4. x \in 1..n /\ x - 1 \in 0..n /\ x - 1 \notin T
    <3> HIDE DEF T
    <3> QED
      BY <1>1, <2>1, <2>2, <2>3
  <2>5. f[x - 1] = g[x - 1]
    BY <2>4
  <2>6. f[x] = Append(f[x - 1], s[x]) /\ g[x] = Append(g[x - 1], s[x])
    <3> HIDE DEF g
    <3> QED
      BY <1>4, <1>5, <2>4 DEF Kept
  <2> QED
    BY <2>2, <2>5, <2>6
<1>8. f[n] = g[n]
  <2>1. n \in 0..n
    BY <1>1
  <2> HIDE DEF g
  <2> QED
    BY <1>7, <2>1
<1> QED
  BY <1>1, <1>2, <1>6, <1>8

\* The rows after the cursor, as many as asked for.
Span(c, m) == [i \in 1..m |-> c + i]

LEMMA SpanFacts ==
    ASSUME NEW c \in Nat, NEW m \in Nat
    PROVE  /\ Span(c, m) \in Seq(Nat) /\ Len(Span(c, m)) = m /\ \A i \in 1..m : Span(c, m)[i] = c + i
           /\ Ending(Span(c, m)) = IF m = 0 THEN 0 ELSE c + m
<1>1. Span(c, m) \in Seq(Nat) /\ Len(Span(c, m)) = m /\ \A i \in 1..m : Span(c, m)[i] = c + i
  BY DEF Span
<1>2. m = 0 <=> Span(c, m) = << >>
  BY <1>1
<1> HIDE DEF Span
<1> QED
  BY <1>1, <1>2 DEF Ending

LEMMA FirstsSpan ==
    ASSUME NEW c \in Nat, NEW m \in Nat, NEW n \in Nat
    PROVE  Firsts(Span(c, m), n) = Span(c, IF n < m THEN n ELSE m)
<1> DEFINE k == IF n < m THEN n ELSE m
           s == Span(c, m)
<1>1. s \in Seq(Nat) /\ Len(s) = m /\ \A i \in 1..m : s[i] = c + i
  BY SpanFacts
<1>2. k \in Nat /\ k <= m
  OBVIOUS
<1>3. Firsts(s, n) = SubSeq(s, 1, k)
  BY <1>1 DEF Firsts
<1> HIDE DEF s, k
<1>4. SubSeq(s, 1, k) = [i \in 1..k |-> s[i]]
  BY <1>1, <1>2
<1>5. [i \in 1..k |-> s[i]] = [i \in 1..k |-> c + i]
  BY <1>1, <1>2
<1> QED
  BY <1>3, <1>4, <1>5 DEF Span, s, k

\* The page at a cursor: consecutive rows; no cursor on it only if they are the
\* last, and else the cursor is its last row.
Pages(c, page) ==
    \E m \in 0..(Len(look.rows) - c) :
        /\ page.rows = Span(c, m)
        /\ page.next = 0 => m = Len(look.rows) - c
        /\ page.next # 0 => page.next = c + m /\ m # 0

LEMMA ListPages ==
    ASSUME look.arm \in Arms, look.rows \in Seq(RowRecs), Legible(look), NEW c \in Nat, c <= Len(look.rows),
           NEW limit \in Nat \ {0}
    PROVE  Pages(c, List(c, limit))
<1> DEFINE N == Len(look.rows)
           r == N - c
           m == IF limit < r THEN limit ELSE r
           x == IF limit + 1 < r THEN limit + 1 ELSE r
           page == Span(c, m)
<1>1. N \in Nat /\ r \in Nat /\ m \in 0..r /\ x \in Nat /\ limit + 1 \in Nat
  OBVIOUS
<1>2. After(c) = Span(c, r)
  BY DEF After, Span
<1>3. Len(After(c)) = r /\ Len(page) = m /\ Ending(page) = (IF m = 0 THEN 0 ELSE c + m)
  <2>1. m \in Nat
    BY <1>1
  <2> HIDE DEF r, m
  <2>2. Len(Span(c, r)) = r
    BY <1>1, SpanFacts
  <2>3. Len(Span(c, m)) = m /\ Ending(Span(c, m)) = (IF m = 0 THEN 0 ELSE c + m)
    BY <2>1, SpanFacts
  <2> QED
    BY <1>2, <2>2, <2>3
<1>4. Firsts(After(c), limit) = page
  <2> HIDE DEF r
  <2> QED
    BY <1>1, <1>2, FirstsSpan
<1>5. Firsts(After(c), limit + 1) = Span(c, x) /\ Len(Span(c, x)) = x
  <2> DEFINE l == limit + 1
  <2>1. x = IF l < r THEN l ELSE r
    OBVIOUS
  <2> HIDE DEF r, l, x
  <2>2. Firsts(Span(c, r), l) = Span(c, x)
    BY <1>1, <2>1, FirstsSpan DEF l
  <2> QED
    BY <1>1, <1>2, <2>2, SpanFacts DEF l
<1>6. Firsts(Span(c, x), limit) = page
  <2>1. (IF limit < x THEN limit ELSE x) = m
    BY <1>1
  <2> HIDE DEF x, m
  <2> QED
    BY <1>1, <2>1, FirstsSpan
<1>7. x > limit <=> r > limit
  BY <1>1
<1>8. ASSUME NEW p, p.rows = page, p.next = 0 \/ p.next = Ending(page), p.next = 0 => r = m, p.next # 0 => m # 0
      PROVE  Pages(c, p)
  <2>1. /\ p.rows = Span(c, m) /\ (p.next = 0 => m = r) /\ (p.next # 0 => p.next = c + m /\ m # 0) /\ m \in 0..r
    BY <1>1, <1>3, <1>8
  <2> HIDE DEF m
  <2> QED
    BY <2>1 DEF Pages
<1>9. CASE look.arm = "encrypted"
  <2>1. List(c, limit) = [rows |-> page, next |-> IF m = limit THEN Ending(page) ELSE 0]
    BY <1>3, <1>4, <1>9 DEF List, ListEncrypted
  <2> HIDE DEF page
  <2> QED
    BY <1>1, <1>3, <1>8, <2>1
<1>10. CASE look.arm = "unencrypted"
  <2>1. List(c, limit) = [rows |-> page, next |-> IF x > limit THEN Ending(page) ELSE 0]
    BY <1>5, <1>6, <1>10 DEF List, ListUnencrypted
  <2> HIDE DEF page, x
  <2> QED
    BY <1>1, <1>3, <1>7, <1>8, <2>1
<1>11. CASE look.arm = "overview"
  <2>1. List(c, limit) = [rows |-> page, next |-> IF m < r THEN Ending(page) ELSE 0]
    BY <1>3, <1>4, <1>11 DEF List, Overview
  <2> HIDE DEF page
  <2> QED
    BY <1>1, <1>3, <1>8, <2>1
<1>12. CASE look.arm = "thread"
  <2>1. Decoded(Span(c, x)) = Span(c, x)
    <3>1. Span(c, x) \in Seq(Nat) /\ Len(Span(c, x)) = x /\ \A i \in 1..x : Span(c, x)[i] = c + i
      <4> HIDE DEF x
      <4> QED
        BY <1>1, SpanFacts
    <3>2. ASSUME NEW i \in 1..x PROVE ~look.rows[Span(c, x)[i]].bad
      <4>1. c + i \in 1..N
        BY <1>1
      <4> QED
        BY <1>12, <3>1, <4>1 DEF Legible
    <3> DEFINE s == Span(c, x)
    <3> HIDE DEF s, x
    <3> QED
      BY <3>1, <3>2, DecodedAll DEF s
  <2>2. List(c, limit) = [rows |-> page, next |-> IF x > limit THEN Ending(page) ELSE 0]
    BY <1>5, <1>6, <1>12, <2>1 DEF List, Thread
  <2> HIDE DEF page, x
  <2> QED
    BY <1>1, <1>3, <1>7, <1>8, <2>2
<1> QED
  BY <1>9, <1>10, <1>11, <1>12 DEF Arms

-----------------------------------------------------------------------------
(* Reading: the walk and the download                                      *)

LEMMA LimitPositive ==
    ASSUME NEW n \in Nat PROVE ClampLimit(n) \in Nat \ {0}
  BY ReadingAssumption DEF ClampLimit

\* What is looked at is a version.
LEMMA LookType ==
    ASSUME look \in Versions \cup {Off}
    PROVE  /\ look.arm \in Arms /\ look.rows \in Seq(RowRecs) /\ look.want \in Nat /\ look.limit \in Nat
           /\ Len(look.rows) \in Nat
           /\ \A i \in 1..Len(look.rows) : look.rows[i].size \in Nat /\ look.rows[i].disk \in Nat
<1>1. look.arm \in Arms /\ look.rows \in Seq(RowRecs) /\ look.want \in Nat /\ look.limit \in Nat
  <2>1. CASE look \in Versions
    BY <2>1, ReadingAssumption
  <2>2. CASE look = Off
    BY <2>2 DEF Off, Arms
  <2> QED
    BY <2>1, <2>2
<1>2. Len(look.rows) \in Nat /\ \A i \in 1..Len(look.rows) : look.rows[i] \in RowRecs
  BY <1>1
<1> QED
  BY <1>1, <1>2 DEF RowRecs

\* Rows one to k, and on.
LEMMA SpanOn ==
    ASSUME NEW k \in Nat, NEW m \in Nat
    PROVE  Span(0, k) \o Span(k, m) = Span(0, k + m)
<1>1. /\ Span(0, k) \in Seq(Nat) /\ Len(Span(0, k)) = k /\ \A i \in 1..k : Span(0, k)[i] = 0 + i
  BY SpanFacts
<1>2. /\ Span(k, m) \in Seq(Nat) /\ Len(Span(k, m)) = m /\ \A i \in 1..m : Span(k, m)[i] = k + i
  BY SpanFacts
<1> DEFINE a == Span(0, k)
           b == Span(k, m)
           n == k + m
           z == Span(0, n)
<1>3. z \in Seq(Nat) /\ Len(z) = n /\ \A i \in 1..n : z[i] = 0 + i
  <2>1. n \in Nat
    OBVIOUS
  <2> HIDE DEF n
  <2> QED
    BY <2>1, SpanFacts
<1> HIDE DEF a, b, z
<1>4. a \in Seq(Nat) /\ b \in Seq(Nat) /\ Len(a) = k /\ Len(b) = m
  BY <1>1, <1>2 DEF a, b
<1>5. a \o b \in Seq(Nat) /\ Len(a \o b) = n
  BY <1>4
<1>6. ASSUME NEW i \in 1..n PROVE (a \o b)[i] = z[i]
  <2>1. CASE i \in 1..k
    <3>1. (a \o b)[i] = a[i]
      BY <1>4, <2>1
    <3> QED
      BY <1>1, <1>3, <2>1, <3>1 DEF a
  <2>2. CASE i \notin 1..k
    <3>1. i - k \in 1..m /\ (a \o b)[i] = b[i - k]
      BY <1>4, <2>2
    <3> QED
      BY <1>2, <1>3, <3>1 DEF b
  <2> QED
    BY <2>1, <2>2
<1>7. a \o b = z
  BY <1>3, <1>5, <1>6
<1> QED
  BY <1>7 DEF a, b, z

\* What one page adds to a walk.
LEMMA PageAdds ==
    ASSUME ReadTypeOK, Legible(look), WalkTrue, walk.at = "walk", NEW limit \in Nat \ {0}
    PROVE  LET page == List(walk.cursor, limit) IN
           \E m \in Nat :
              /\ Len(walk.seen) + m <= Len(look.rows)
              /\ walk.seen \o page.rows = Span(0, Len(walk.seen) + m)
              /\ page.rows = Span(Len(walk.seen), m)
              /\ page.next = 0 => Len(walk.seen) + m = Len(look.rows)
              /\ page.next # 0 => page.next = Len(walk.seen) + m
<1> DEFINE k == Len(walk.seen)
           page == List(walk.cursor, limit)
<1>1. /\ look.arm \in Arms /\ look.rows \in Seq(RowRecs) /\ Len(look.rows) \in Nat
      /\ walk.seen \in Seq(Nat) /\ k \in Nat /\ k <= Len(look.rows) /\ walk.cursor = k
  BY LookType DEF ReadTypeOK, WalkTrue
<1>2. walk.seen = Span(0, k)
  <2>1. walk.seen = [i \in 1..k |-> i]
    BY DEF WalkTrue
  <2>2. [i \in 1..k |-> i] = [i \in 1..k |-> 0 + i]
    BY <1>1
  <2> QED
    BY <2>1, <2>2 DEF Span
<1>3. Pages(k, page)
  <2> HIDE DEF k
  <2> QED
    BY <1>1, ListPages
<1> HIDE DEF k, page
<1>4. PICK m \in 0..(Len(look.rows) - k) :
         /\ page.rows = Span(k, m)
         /\ page.next = 0 => m = Len(look.rows) - k
         /\ page.next # 0 => page.next = k + m /\ m # 0
  BY <1>3 DEF Pages
<1>5. m \in Nat /\ k + m <= Len(look.rows) /\ (m = Len(look.rows) - k => k + m = Len(look.rows))
  BY <1>1, <1>4
<1>6. Span(0, k) \o Span(k, m) = Span(0, k + m)
  BY <1>1, <1>5, SpanOn
<1>7. walk.seen \o page.rows = Span(0, k + m)
  BY <1>2, <1>4, <1>6
<1> QED
  BY <1>4, <1>5, <1>7 DEF k, page

\* A walk that has returned rows one to n.
LEMMA SeenSpan ==
    ASSUME NEW n \in Nat
    PROVE  Len(Span(0, n)) = n /\ Span(0, n) = [i \in 1..n |-> i] /\ Span(0, n) \in Seq(Nat)
<1>1. Len(Span(0, n)) = n /\ Span(0, n) \in Seq(Nat)
  BY SpanFacts
<1>2. [i \in 1..n |-> 0 + i] = [i \in 1..n |-> i]
  OBVIOUS
<1> QED
  BY <1>1, <1>2 DEF Span

LEMMA NextPageKeeps ==
    ASSUME ReadInv, NextPage PROVE ReadInv'
<1>0. ReadTypeOK /\ Legible(look) /\ WalkTrue /\ FileTrue /\ ResolveTrue /\ DownloadTrue
  BY DEF ReadInv
<1> DEFINE k == Len(walk.seen)
           page == List(walk.cursor, ClampLimit(look.limit))
<1>1. /\ walk.at = "walk" /\ look.want = 0 /\ look' = look /\ file' = file
      /\ walk' = [cursor |-> page.next, seen |-> walk.seen \o page.rows, at |-> IF page.next = 0 THEN "done" ELSE "walk"]
  BY DEF NextPage
<1>2. look.limit \in Nat /\ Len(look.rows) \in Nat
  BY <1>0, LookType DEF ReadTypeOK
<1>3. PICK m \in Nat :
        /\ k + m <= Len(look.rows) /\ walk.seen \o page.rows = Span(0, k + m)
        /\ page.next = 0 => k + m = Len(look.rows)
        /\ page.next # 0 => page.next = k + m
  <2>1. ClampLimit(look.limit) \in Nat \ {0}
    BY <1>2, LimitPositive
  <2> QED
    BY <1>0, <1>1, <2>1, PageAdds
<1>4. k \in Nat
  BY <1>0 DEF ReadTypeOK
<1> DEFINE n == k + m
<1>5. n \in Nat /\ n <= Len(look.rows) /\ (page.next = 0 => n = Len(look.rows)) /\ (page.next # 0 => page.next = n)
      /\ walk'.seen = Span(0, n)
  BY <1>1, <1>3, <1>4
<1>6. Len(walk'.seen) = n /\ walk'.seen = [i \in 1..n |-> i] /\ walk'.seen \in Seq(Nat)
  <2> HIDE DEF n
  <2> QED
    BY <1>5, SeenSpan
<1> HIDE DEF k, page, n
<1>7. walk'.cursor = page.next /\ walk'.at = (IF page.next = 0 THEN "done" ELSE "walk")
      /\ walk' = [cursor |-> walk'.cursor, seen |-> walk'.seen, at |-> walk'.at]
  BY <1>1
<1>8. ReadTypeOK'
  <2>1. walk'.cursor \in Nat /\ walk'.cursor <= Len(look.rows)
    BY <1>2, <1>5, <1>7
  <2>2. walk' \in [cursor : Nat, seen : Seq(Nat), at : {"walk", "done", "stat", "stream", "locked"}]
    BY <1>6, <1>7, <2>1
  <2> QED
    BY <1>0, <1>1, <2>1, <2>2 DEF ReadTypeOK
<1>9. WalkTrue'
  BY <1>1, <1>2, <1>5, <1>6, <1>7 DEF WalkTrue
<1>10. FileTrue' /\ ResolveTrue' /\ DownloadTrue'
  <2>1. file.end = "none" /\ file.mark = "none" /\ file.sent = 0 /\ file.sent = file.read
    BY <1>0, <1>1 DEF FileTrue
  <2>2. look.want \notin 1..Len(look.rows)
    BY <1>1
  <2>3. walk'.at \in {"done", "walk"}
    BY <1>7
  <2>4. FileTrue'
    BY <1>1, <2>1, <2>3 DEF FileTrue
  <2>5. ResolveTrue'
    BY <1>1, <2>1, <2>3 DEF ResolveTrue
  <2>6. DownloadTrue'
    BY <1>1, <2>1, <2>2 DEF DownloadTrue
  <2> QED
    BY <2>4, <2>5, <2>6
<1>11. Legible(look')
  BY <1>0, <1>1
<1> QED
  BY <1>8, <1>9, <1>10, <1>11 DEF ReadInv, Legible

LEMMA ResolvePathKeeps ==
    ASSUME ReadInv, ResolvePath PROVE ReadInv'
<1>0. ReadTypeOK /\ Legible(look) /\ WalkTrue /\ FileTrue /\ ResolveTrue /\ DownloadTrue
  BY DEF ReadInv
<1> DEFINE k == Len(walk.seen)
           page == List(walk.cursor, ClampLimit(0))
           at == IF Found(page) THEN "stat" ELSE IF page.next = 0 THEN "done" ELSE "walk"
<1>1. /\ walk.at = "walk" /\ look.want # 0 /\ look' = look
      /\ file' = IF ~Found(page) /\ page.next = 0 THEN [file EXCEPT !.end = "notFound"] ELSE file
      /\ walk' = [cursor |-> page.next, seen |-> walk.seen \o page.rows, at |-> at]
  BY DEF ResolvePath
<1>2. look.want \in Nat /\ Len(look.rows) \in Nat
  BY <1>0, LookType DEF ReadTypeOK
<1>3. PICK m \in Nat :
        /\ k + m <= Len(look.rows) /\ walk.seen \o page.rows = Span(0, k + m)
        /\ page.rows = Span(k, m)
        /\ page.next = 0 => k + m = Len(look.rows)
        /\ page.next # 0 => page.next = k + m
  <2>1. ClampLimit(0) \in Nat \ {0}
    BY LimitPositive
  <2> QED
    BY <1>0, <1>1, <2>1, PageAdds
<1>4. k \in Nat /\ look.want > k
  BY <1>0, <1>1 DEF ReadTypeOK, WalkTrue
<1> DEFINE n == k + m
<1>5. n \in Nat /\ n <= Len(look.rows) /\ (page.next = 0 => n = Len(look.rows)) /\ (page.next # 0 => page.next = n)
      /\ walk'.seen = Span(0, n)
  <2> HIDE DEF at, page
  <2> QED
    BY <1>1, <1>3, <1>4
<1>6. Len(walk'.seen) = n /\ walk'.seen = [i \in 1..n |-> i] /\ walk'.seen \in Seq(Nat)
  <2> HIDE DEF n
  <2> QED
    BY <1>5, SeenSpan
\* The row looked for is on this page, or further on.
<1>7. Found(page) <=> look.want <= n
  <2>1. Len(page.rows) = m /\ \A i \in 1..m : page.rows[i] = k + i
    <3> HIDE DEF k, page
    <3>1. Len(Span(k, m)) = m /\ \A i \in 1..m : Span(k, m)[i] = k + i
      BY <1>4, SpanFacts
    <3> QED
      BY <1>3, <3>1
  <2>2. ASSUME Found(page) PROVE look.want <= n
    <3>1. PICK i \in 1..Len(page.rows) : page.rows[i] = look.want
      BY <2>2 DEF Found
    <3> HIDE DEF k, page
    <3> QED
      BY <1>3, <1>4, <2>1, <3>1
  <2>3. ASSUME look.want <= n PROVE Found(page)
    <3>1. look.want - k \in 1..m /\ k + (look.want - k) = look.want
      BY <1>2, <1>3, <1>4, <2>3
    <3> HIDE DEF k, page
    <3> QED
      BY <2>1, <3>1 DEF Found
  <2> QED
    BY <2>2, <2>3
<1>8. /\ walk'.cursor = page.next /\ walk'.at = at
      /\ walk' = [cursor |-> walk'.cursor, seen |-> walk'.seen, at |-> walk'.at]
  <2> HIDE DEF page, at
  <2> QED
    BY <1>1
<1>9. file.end = "none" /\ file.mark = "none" /\ file.sent = 0 /\ file.sent = file.read
  BY <1>0, <1>1 DEF FileTrue
<1>10. /\ file' = [sent |-> file'.sent, read |-> file'.read, mark |-> file'.mark, end |-> file'.end]
       /\ file'.sent = 0 /\ file'.read = 0 /\ file'.mark = "none" /\ file'.end \in {"none", "notFound"}
       /\ file'.end = "notFound" <=> (look.want > n /\ page.next = 0)
  <2>1. file \in [sent : Nat, read : Nat, mark : {"none", "incomplete", "overlong"},
                  end : {"none", "whole", "broken", "notFound"}]
    BY <1>0 DEF ReadTypeOK
  <2>2. ~Found(page) <=> look.want > n
    BY <1>2, <1>5, <1>7
  <2> HIDE DEF page, n
  <2>3. CASE ~Found(page) /\ page.next = 0
    <3>1. file' = [file EXCEPT !.end = "notFound"]
      BY <1>1, <2>3
    <3> QED
      BY <1>9, <2>1, <2>2, <2>3, <3>1
  <2>4. CASE ~(~Found(page) /\ page.next = 0)
    <3>1. file' = file
      BY <1>1, <2>4
    <3> QED
      BY <1>9, <2>1, <2>2, <2>4, <3>1
  <2> QED
    BY <2>3, <2>4
<1>11. /\ walk'.at \in {"stat", "done", "walk"}
       /\ walk'.at = "stat" => look.want <= n
       /\ walk'.at = "walk" => look.want > n /\ page.next # 0
       /\ walk'.at # "stat" => look.want > n
       /\ walk'.at # "done" => file'.end = "none"
  <2>1. at \in {"stat", "done", "walk"} /\ (at = "stat" <=> Found(page)) /\ (at = "walk" => ~Found(page) /\ page.next # 0)
    <3> HIDE DEF page
    <3> QED
      OBVIOUS
  <2>2. ~Found(page) <=> look.want > n
    BY <1>2, <1>5, <1>7
  <2> HIDE DEF at, page, n
  <2> QED
    BY <1>2, <1>5, <1>8, <1>10, <2>1, <2>2
<1> HIDE DEF k, page, n, at
<1>12. ReadTypeOK'
  <2>1. walk'.cursor \in Nat /\ walk'.cursor <= Len(look.rows)
    BY <1>2, <1>5, <1>8
  <2>2. walk' \in [cursor : Nat, seen : Seq(Nat), at : {"walk", "done", "stat", "stream", "locked"}]
    BY <1>6, <1>8, <1>11, <2>1
  <2>3. file' \in [sent : Nat, read : Nat, mark : {"none", "incomplete", "overlong"},
                   end : {"none", "whole", "broken", "notFound"}]
    BY <1>10
  <2> QED
    BY <1>0, <1>1, <2>1, <2>2, <2>3 DEF ReadTypeOK
<1>13. WalkTrue'
  BY <1>1, <1>2, <1>5, <1>6, <1>8, <1>11 DEF WalkTrue
<1>14. FileTrue'
  BY <1>1, <1>10, <1>11 DEF FileTrue
<1>15. ResolveTrue'
  BY <1>1, <1>2, <1>5, <1>10, <1>11 DEF ResolveTrue
<1>16. DownloadTrue'
  <2>1. look.want \in 1..Len(look.rows) => look.rows[look.want].size \in Nat
    BY <1>0, LookType DEF ReadTypeOK
  <2> QED
    BY <1>1, <1>10, <2>1 DEF DownloadTrue, Row
<1>17. Legible(look')
  BY <1>0, <1>1
<1> QED
  BY <1>12, <1>13, <1>14, <1>15, <1>16, <1>17 DEF ReadInv, Legible

\* The session ends, or the stream opens: only where the walk stands changes.
LEMMA LockedKeeps ==
    ASSUME ReadInv, Locked \/ OpenStream PROVE ReadInv'
<1>0. ReadTypeOK /\ Legible(look) /\ WalkTrue /\ FileTrue /\ ResolveTrue /\ DownloadTrue
  BY DEF ReadInv
<1>1. /\ look' = look /\ file' = file
      /\ \/ walk.at = "walk" /\ walk' = [walk EXCEPT !.at = "locked"]
         \/ walk.at = "stat" /\ walk' = [walk EXCEPT !.at = "stream"]
  BY DEF Locked, OpenStream
<1>2. walk \in [cursor : Nat, seen : Seq(Nat), at : {"walk", "done", "stat", "stream", "locked"}]
  BY <1>0 DEF ReadTypeOK
<1>3. /\ walk'.cursor = walk.cursor /\ walk'.seen = walk.seen
      /\ (walk.at = "walk" /\ walk'.at = "locked") \/ (walk.at = "stat" /\ walk'.at = "stream")
      /\ walk' \in [cursor : Nat, seen : Seq(Nat), at : {"walk", "done", "stat", "stream", "locked"}]
  <2>1. CASE walk.at = "walk" /\ walk' = [walk EXCEPT !.at = "locked"]
    <3>1. /\ walk'.cursor = walk.cursor /\ walk'.seen = walk.seen /\ walk'.at = "locked"
          /\ walk' \in [cursor : Nat, seen : Seq(Nat), at : {"walk", "done", "stat", "stream", "locked"}]
      BY <1>2, <2>1
    <3> QED
      BY <2>1, <3>1
  <2>2. CASE walk.at = "stat" /\ walk' = [walk EXCEPT !.at = "stream"]
    BY <1>2, <2>2
  <2> QED
    BY <1>1, <2>1, <2>2
<1>4. Len(look.rows) \in Nat /\ look.want \in Nat
      /\ (look.want \in 1..Len(look.rows) => look.rows[look.want].size \in Nat /\ look.rows[look.want].disk \in Nat)
  BY <1>0, LookType DEF ReadTypeOK
<1>5. ReadTypeOK'
  BY <1>0, <1>1, <1>3 DEF ReadTypeOK
<1>6. WalkTrue'
  BY <1>0, <1>1, <1>3 DEF WalkTrue
<1>7. ResolveTrue'
  BY <1>0, <1>1, <1>3 DEF ResolveTrue
<1>8. FileTrue'
  <2>1. file.sent = 0 /\ file.read = 0 /\ file.end = "none" /\ file.mark = "none"
    BY <1>0, <1>3 DEF FileTrue
  <2>2. walk.at = "stat" => look.want \in 1..Len(look.rows)
    BY <1>0, <1>4 DEF WalkTrue, ResolveTrue
  <2> QED
    BY <1>1, <1>3, <1>4, <2>1, <2>2 DEF FileTrue, Row
<1>9. DownloadTrue'
  BY <1>0, <1>1 DEF DownloadTrue, Row
<1> QED
  BY <1>0, <1>1, <1>5, <1>6, <1>7, <1>8, <1>9 DEF ReadInv, Legible

\* The end of a download keeps what is true if what it says of the file is.
LEMMA EndsKeep ==
    ASSUME ReadInv, walk.at = "stream", look' = look, NEW end \in {"whole", "broken"},
           NEW mark \in {"none", "incomplete", "overlong"}, Ends(end, mark),
           end = "whole" => file.sent = Row.size /\ Row.disk >= Row.size /\ (mark = "overlong" <=> Row.disk > Row.size),
           end = "broken" /\ Row.disk < Row.size => file.sent = Row.disk /\ mark = "incomplete",
           mark = "incomplete" => Row.disk < Row.size
    PROVE  ReadInv'
<1>0. ReadTypeOK /\ Legible(look) /\ WalkTrue /\ FileTrue /\ ResolveTrue /\ DownloadTrue
  BY DEF ReadInv
<1>1. file' = [file EXCEPT !.end = end, !.mark = mark] /\ walk' = [walk EXCEPT !.at = "done"]
  BY DEF Ends
<1>2. /\ walk \in [cursor : Nat, seen : Seq(Nat), at : {"walk", "done", "stat", "stream", "locked"}]
      /\ file \in [sent : Nat, read : Nat, mark : {"none", "incomplete", "overlong"},
                   end : {"none", "whole", "broken", "notFound"}]
  BY <1>0 DEF ReadTypeOK
<1>3. /\ walk'.cursor = walk.cursor /\ walk'.seen = walk.seen /\ walk'.at = "done"
      /\ walk' \in [cursor : Nat, seen : Seq(Nat), at : {"walk", "done", "stat", "stream", "locked"}]
  BY <1>1, <1>2
<1>4. /\ file'.sent = file.sent /\ file'.read = file.read /\ file'.mark = mark /\ file'.end = end
      /\ file' \in [sent : Nat, read : Nat, mark : {"none", "incomplete", "overlong"},
                    end : {"none", "whole", "broken", "notFound"}]
  BY <1>1, <1>2
<1>5. look.want # 0 /\ look.want \in 1..Len(look.rows) /\ file.sent <= Row.disk /\ file.sent = file.read
  BY <1>0 DEF WalkTrue, FileTrue
<1>6. Row' = Row
  BY DEF Row
<1> HIDE DEF Row
<1>7. ReadTypeOK'
  BY <1>0, <1>3, <1>4 DEF ReadTypeOK
<1>8. WalkTrue'
  BY <1>0, <1>3, <1>5 DEF WalkTrue
<1>9. ResolveTrue'
  BY <1>3, <1>4 DEF ResolveTrue
<1>10. FileTrue'
  BY <1>3, <1>4, <1>5, <1>6 DEF FileTrue
<1>11. DownloadTrue'
  <2>1. file.sent <= Row.size
    BY <1>0, <1>5 DEF DownloadTrue
  <2> QED
    BY <1>4, <1>5, <1>6, <2>1 DEF DownloadTrue
<1> QED
  BY <1>0, <1>7, <1>8, <1>9, <1>10, <1>11 DEF ReadInv, Legible

\* The row that is being downloaded.
LEMMA RowRead ==
    ASSUME ReadInv, walk.at = "stream"
    PROVE  /\ look.want \in 1..Len(look.rows) /\ Row.size \in Nat /\ Row.disk \in Nat /\ file.sent \in Nat
           /\ file.read = file.sent /\ file.sent <= Row.disk /\ file.sent <= Row.size /\ Chunk \in Nat \ {0}
<1>1. look.want \in 1..Len(look.rows) /\ file.sent <= Row.disk /\ file.read = file.sent /\ file.sent \in Nat
  BY DEF ReadInv, FileTrue, ReadTypeOK
<1>2. Row.size \in Nat /\ Row.disk \in Nat
  BY <1>1, LookType DEF ReadInv, ReadTypeOK, Row
<1>3. file.sent <= Row.size
  BY <1>1 DEF ReadInv, DownloadTrue
<1> QED
  BY <1>1, <1>2, <1>3, ReadingAssumption

LEMMA ReadBytesKeeps ==
    ASSUME ReadInv, ReadBytes PROVE ReadInv'
<1>0. ReadTypeOK /\ Legible(look) /\ WalkTrue /\ FileTrue /\ ResolveTrue /\ DownloadTrue
  BY DEF ReadInv
<1>1. walk.at = "stream" /\ Left > 0 /\ file.read < Row.disk /\ look' = look
  BY DEF ReadBytes
<1>2. /\ look.want \in 1..Len(look.rows) /\ Row.size \in Nat /\ Row.disk \in Nat /\ file.sent \in Nat
      /\ file.read = file.sent /\ file.sent <= Row.disk /\ file.sent <= Row.size /\ Chunk \in Nat \ {0}
  BY <1>1, RowRead
<1>3. PICK n \in 1..Chunk :
         /\ n <= Left /\ n <= Row.disk - file.read
         /\ IF file.sent + n > Row.size THEN Ends("broken", "none")
            ELSE file' = [file EXCEPT !.read = @ + n, !.sent = @ + n] /\ UNCHANGED walk
  BY DEF ReadBytes
<1>4. CASE file.sent + n > Row.size
  <2>1. Ends("broken", "none")
    BY <1>3, <1>4
  <2>2. ~(Row.disk < Row.size)
    BY <1>2, <1>3, <1>4
  <2> QED
    BY <1>1, <2>1, <2>2, EndsKeep
<1>5. CASE ~(file.sent + n > Row.size)
  <2>1. file' = [file EXCEPT !.read = @ + n, !.sent = @ + n] /\ walk' = walk
    BY <1>3, <1>5
  <2>2. file \in [sent : Nat, read : Nat, mark : {"none", "incomplete", "overlong"},
                  end : {"none", "whole", "broken", "notFound"}]
    BY <1>0 DEF ReadTypeOK
  <2> DEFINE r == file.read + n
             s == file.sent + n
  <2>3. r \in Nat /\ s \in Nat /\ r = s /\ s <= Row.disk /\ s <= Row.size
    BY <1>2, <1>3, <1>5
  <2>4. file' = [file EXCEPT !.read = r, !.sent = s]
    BY <2>1
  <2> HIDE DEF r, s
  <2>5. /\ file'.sent = s /\ file'.read = s /\ file'.mark = file.mark /\ file'.end = file.end
        /\ file' \in [sent : Nat, read : Nat, mark : {"none", "incomplete", "overlong"},
                      end : {"none", "whole", "broken", "notFound"}]
    BY <2>2, <2>3, <2>4
  <2>6. file.end = "none" /\ file.mark = "none"
    BY <1>0, <1>1 DEF FileTrue
  <2>7. Row' = Row
    BY <1>1 DEF Row
  <2> HIDE DEF Row
  <2>8. ReadTypeOK'
    BY <1>0, <1>1, <2>1, <2>5 DEF ReadTypeOK
  <2>9. WalkTrue'
    BY <1>0, <1>1, <2>1 DEF WalkTrue
  <2>10. ResolveTrue'
    BY <1>0, <1>1, <2>1, <2>5 DEF ResolveTrue
  <2>11. FileTrue'
    BY <1>1, <1>2, <2>1, <2>3, <2>5, <2>6, <2>7 DEF FileTrue
  <2>12. DownloadTrue'
    BY <1>1, <2>3, <2>5, <2>6, <2>7 DEF DownloadTrue
  <2> QED
    BY <1>0, <1>1, <2>8, <2>9, <2>10, <2>11, <2>12 DEF ReadInv, Legible
<1> QED
  BY <1>4, <1>5

LEMMA EndKeeps ==
    ASSUME ReadInv, EndOfBlob \/ EndOfFile PROVE ReadInv'
<1>1. walk.at = "stream" /\ look' = look
  BY DEF EndOfBlob, EndOfFile
<1>2. /\ look.want \in 1..Len(look.rows) /\ Row.size \in Nat /\ Row.disk \in Nat /\ file.sent \in Nat
      /\ file.read = file.sent /\ file.sent <= Row.disk /\ file.sent <= Row.size /\ Chunk \in Nat \ {0}
  BY <1>1, RowRead
<1> HIDE DEF Row
<1>3. CASE EndOfBlob /\ Row.disk < Row.size
  <2>1. Ends("broken", "incomplete") /\ file.sent = Row.disk
    BY <1>2, <1>3 DEF EndOfBlob, ShortFile
  <2> QED
    BY <1>1, <1>3, <2>1, EndsKeep
<1>4. CASE EndOfBlob /\ ~(Row.disk < Row.size)
  <2>1. Ends("whole", "none") /\ file.sent = Row.disk
    BY <1>2, <1>4 DEF EndOfBlob
  <2>2. file.sent = Row.size /\ Row.disk >= Row.size /\ ~(Row.disk > Row.size)
    BY <1>2, <1>4, <2>1
  <2> QED
    BY <1>1, <1>4, <2>1, <2>2, EndsKeep
<1>5. CASE EndOfFile
  <2>1. Left = 0 /\ Ends("whole", IF Row.disk > Row.size THEN "overlong" ELSE "none")
    BY <1>5 DEF EndOfFile, Overlong
  <2>2. file.sent = Row.size
    BY <1>2, <2>1 DEF Left
  <2>3. CASE Row.disk > Row.size
    <3>1. Ends("whole", "overlong") /\ Row.disk >= Row.size
      BY <1>2, <2>1, <2>3
    <3> QED
      BY <1>1, <2>2, <2>3, <3>1, EndsKeep
  <2>4. CASE ~(Row.disk > Row.size)
    <3>1. Ends("whole", "none") /\ Row.disk >= Row.size
      BY <1>2, <2>1, <2>2, <2>4
    <3> QED
      BY <1>1, <2>2, <2>4, <3>1, EndsKeep
  <2> QED
    BY <2>3, <2>4
<1> QED
  BY <1>3, <1>4, <1>5

LEMMA ReadStutters ==
    ASSUME ReadInv, UNCHANGED readVars PROVE ReadInv'
  BY DEF ReadInv, readVars, ReadTypeOK, Legible, WalkTrue, FileTrue, ResolveTrue, DownloadTrue, Row

LEMMA ReadBegins ==
    ASSUME ReadInit({v \in Versions : Legible(v)}) PROVE ReadInv
<1>1. /\ look \in Versions /\ Legible(look) /\ walk = [cursor |-> 0, seen |-> << >>, at |-> IF look = Off THEN "done" ELSE "walk"]
      /\ file = [sent |-> 0, read |-> 0, mark |-> "none", end |-> "none"]
  BY DEF ReadInit
<1>2. /\ Len(look.rows) \in Nat /\ look.want \in Nat
      /\ \A i \in 1..Len(look.rows) : look.rows[i].size \in Nat /\ look.rows[i].disk \in Nat
  BY <1>1, LookType
<1>3. look = Off => look.want = 0 /\ Len(look.rows) = 0
  BY DEF Off
<1>4. << >> = [i \in 1..Len(<< >>) |-> i] /\ Len(<< >>) = 0 /\ << >> \in Seq(Nat)
  OBVIOUS
<1>5. walk.cursor = 0 /\ walk.seen = << >> /\ walk.at = (IF look = Off THEN "done" ELSE "walk")
      /\ file.sent = 0 /\ file.read = 0 /\ file.mark = "none" /\ file.end = "none"
  BY <1>1
<1>6. ReadTypeOK
  BY <1>1, <1>2, <1>4 DEF ReadTypeOK
<1>7. WalkTrue
  BY <1>2, <1>3, <1>4, <1>5 DEF WalkTrue
<1>8. FileTrue /\ ResolveTrue
  BY <1>2, <1>5 DEF FileTrue, ResolveTrue
<1>9. DownloadTrue
  BY <1>2, <1>5 DEF DownloadTrue, Row
<1> QED
  BY <1>1, <1>6, <1>7, <1>8, <1>9 DEF ReadInv

LEMMA ReadFollows ==
    ASSUME ReadInv PROVE ReadsTrue
<1> DEFINE k == Len(walk.seen)
<1>1. /\ walk.seen = [i \in 1..k |-> i] /\ k \in Nat /\ k <= Len(look.rows) /\ Len(look.rows) \in Nat
      /\ walk.at = "walk" => walk.cursor = k
      /\ walk.at = "done" /\ look.want = 0 => k = Len(look.rows)
  BY LookType DEF ReadInv, ReadTypeOK, WalkTrue
<1>2. \A i \in 1..k : walk.seen[i] = i
  BY <1>1
<1>3. PagesOnce
  <2>1. \A i \in 1..k - 1 : walk.seen[i] < walk.seen[i + 1]
    <3> HIDE DEF k
    <3> QED
      BY <1>1, <1>2
  <2>2. Ending(walk.seen) = k
    <3>1. walk.seen \in Seq(Nat)
      BY DEF ReadInv, ReadTypeOK
    <3>2. walk.seen = << >> <=> k = 0
      BY <3>1
    <3> QED
      BY <1>1, <1>2, <3>2 DEF Ending
  <2> QED
    BY <1>1, <2>1, <2>2 DEF PagesOnce
<1>4. PagesReachAll
  <2>1. {walk.seen[i] : i \in 1..k} = 1..k
    BY <1>2
  <2> QED
    BY <1>1, <2>1 DEF PagesReachAll
<1> QED
  BY <1>3, <1>4 DEF ReadInv, ReadsTrue

\* Every read of an unlocked version is true to it, for every version, limit and
\* chunk: the rows once each and in order, a path found exactly when it is
\* there, a download that looks whole only when it is.
THEOREM ReadsHold == ReadSpec => []ReadsTrue
<1>1. ReadInit({v \in Versions : Legible(v)}) => ReadInv
  BY ReadBegins
<1>2. ReadInv /\ [ReadNext]_readVars => ReadInv'
  <2> SUFFICES ASSUME ReadInv, [ReadNext]_readVars PROVE ReadInv'
    OBVIOUS
  <2>1. CASE NextPage
    BY <2>1, NextPageKeeps
  <2>2. CASE ResolvePath
    BY <2>2, ResolvePathKeeps
  <2>3. CASE Locked \/ OpenStream
    BY <2>3, LockedKeeps
  <2>4. CASE ReadBytes
    BY <2>4, ReadBytesKeeps
  <2>5. CASE EndOfBlob \/ EndOfFile
    BY <2>5, EndKeeps
  <2>6. CASE UNCHANGED readVars
    BY <2>6, ReadStutters
  <2> QED
    BY <2>1, <2>2, <2>3, <2>4, <2>5, <2>6 DEF ReadNext, ReadStep
<1>3. ReadInv => ReadsTrue
  BY ReadFollows
<1> QED
  BY <1>1, <1>2, <1>3, PTL DEF ReadSpec
=============================================================================
