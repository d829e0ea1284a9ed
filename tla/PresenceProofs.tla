--------------------------- MODULE PresenceProofs ---------------------------
(***************************************************************************)
(* Theorems about DevicePresence, for every number of muxers and devices,  *)
(* every buffer and every scene, and about Notifications, for every set of *)
(* browsers, every buffer, every cooldown and every theme.                 *)
(*                                                                         *)
(* What the page makes of a queue of events is a recursion over the queue. *)
(* The facts about it are proved by the least counterexample: a set of     *)
(* numbers that is not empty has a least element (LeastNumber).            *)
(***************************************************************************)
EXTENDS DevicePresence, Notifications, TLAPS, WellFoundedInduction, SequenceTheorems,
        FiniteSetTheorems, FunctionTheorems

-----------------------------------------------------------------------------
(* Replaying a queue                                                       *)

\* A set of numbers that is not empty has a least one.
LEMMA LeastNumber ==
    ASSUME NEW T, T \subseteq Nat, T # {}
    PROVE  \E x \in T : \A y \in T : x <= y
<1> DEFINE R == {ss \in Nat \X Nat : ss[1] < ss[2]}
<1>1. IsWellFoundedOn(R, Nat)
  BY NatLessThanWellFounded DEF OpToRel
<1>2. \E x \in T : \A y \in T : ~ (<<y, x>> \in R)
  <2> HIDE DEF R
  <2> QED
    BY <1>1, WFMin
<1>3. PICK x \in T : \A y \in T : ~ (<<y, x>> \in R)
  BY <1>2
<1>4. ASSUME NEW y \in T PROVE x <= y
  <2>1. x \in Nat /\ y \in Nat /\ <<y, x>> \in Nat \X Nat /\ <<y, x>>[1] = y /\ <<y, x>>[2] = x
    OBVIOUS
  <2>2. ~ (y < x)
    BY <1>3, <2>1
  <2> QED
    BY <2>1, <2>2
<1> QED
  BY <1>4

\* r is what the store goes through over the first n events of evs.
Run(dev, evs, n, r) == r = [i \in 0..n |-> IF i = 0 THEN dev ELSE Dispatched(r[i - 1], evs[i])]

\* A store goes through any number of events.
LEMMA RunExists ==
    ASSUME NEW dev, NEW evs, NEW m \in Nat
    PROVE  \E r : Run(dev, evs, m, r)
<1> DEFINE T == {n \in Nat : ~ \E r : Run(dev, evs, n, r)}
<1> SUFFICES ASSUME T # {} PROVE FALSE
  OBVIOUS
<1>1. PICK n \in T : \A y \in T : n <= y
  <2>1. T \subseteq Nat
    OBVIOUS
  <2> HIDE DEF T
  <2> QED
    BY <2>1, LeastNumber
<1>2. n # 0
  <2>1. Run(dev, evs, 0, [i \in 0..0 |-> dev])
    BY DEF Run
  <2> QED
    BY <2>1
<1>3. n \in Nat /\ n - 1 \in Nat /\ n - 1 \notin T
  BY <1>1, <1>2
<1>4. PICK r : Run(dev, evs, n - 1, r)
  BY <1>3
<1> DEFINE q == [i \in 0..n |-> IF i = n THEN Dispatched(r[n - 1], evs[n]) ELSE r[i]]
<1>5. Run(dev, evs, n, q)
  <2>1. ASSUME NEW i \in 0..n PROVE q[i] = IF i = 0 THEN dev ELSE Dispatched(q[i - 1], evs[i])
    <3>1. CASE i = 0
      <4>1. r[0] = dev
        BY <1>3, <1>4 DEF Run
      <4> QED
        BY <3>1, <4>1, <1>2, <1>3
    <3>2. CASE i = n
      BY <3>2, <1>2, <1>3
    <3>3. CASE i # 0 /\ i # n
      <4>1. i \in 0..(n - 1) /\ i - 1 \in 0..n /\ i - 1 # n
        BY <3>3, <1>3
      <4>2. r[i] = Dispatched(r[i - 1], evs[i])
        BY <4>1, <3>3, <1>4 DEF Run
      <4> QED
        BY <3>3, <4>1, <4>2
    <3> QED
      BY <3>1, <3>2, <3>3
  <2>2. q = [i \in 0..n |-> q[i]]
    OBVIOUS
  <2> HIDE DEF q
  <2> QED
    BY <2>1, <2>2 DEF Run
<1> QED
  BY <1>1, <1>5

\* From its m-th event on, one queue is the other one of length k.
Follows(evs, m, evs2, k) == \A i \in 1..k : evs[m + i] = evs2[i]

Adds(n, m, k) == n = m + k

\* A run that goes on as another one starts ends where that one does.
LEMMA RunsAgree ==
    ASSUME NEW dev, NEW dev2, NEW evs, NEW evs2, NEW q, NEW r,
           NEW m \in Nat, NEW k \in Nat, NEW n \in Nat, Adds(n, m, k),
           Run(dev, evs, n, q), Run(dev2, evs2, k, r), q[m] = dev2, Follows(evs, m, evs2, k)
    PROVE  q[n] = r[k]
<1> USE DEF Adds
<1> SUFFICES \A i \in 0..k : q[m + i] = r[i]
  OBVIOUS
<1> DEFINE T == {x \in 0..k : q[m + x] # r[x]}
<1> SUFFICES ASSUME T # {} PROVE FALSE
  OBVIOUS
<1>1. PICK x \in T : \A y \in T : x <= y
  <2>1. T \subseteq Nat
    OBVIOUS
  <2> HIDE DEF T
  <2> QED
    BY <2>1, LeastNumber
<1>2. x # 0
  BY DEF Run
<1>3. x - 1 \in 0..k /\ x - 1 \notin T /\ x \in 1..k
  BY <1>1, <1>2
<1>4. m + x \in 1..n /\ (m + x) - 1 = m + (x - 1)
  BY <1>3
<1>5. q[m + x] = Dispatched(q[m + (x - 1)], evs[m + x])
  BY <1>4 DEF Run
<1>6. r[x] = Dispatched(r[x - 1], evs2[x])
  BY <1>3 DEF Run
<1> QED
  BY <1>1, <1>3, <1>5, <1>6 DEF Follows

\* Two runs over the same events end the same.
LEMMA RunsSame ==
    ASSUME NEW dev, NEW evs, NEW evs2, NEW q, NEW r, NEW n \in Nat,
           Run(dev, evs, n, q), Run(dev, evs2, n, r), Follows(evs, 0, evs2, n)
    PROVE  q[n] = r[n]
<1>1. q[0] = dev /\ 0 \in Nat /\ Adds(n, 0, n)
  BY DEF Run, Adds
<1> QED
  BY <1>1, RunsAgree

\* Replayed is where the run over the whole queue ends.
LEMMA ReplayedEnds ==
    ASSUME NEW dev, NEW evs \in Seq(Events), NEW r, Run(dev, evs, Len(evs), r)
    PROVE  Replayed(dev, evs) = r[Len(evs)]
<1> DEFINE c == CHOOSE q : Run(dev, evs, Len(evs), q)
<1>0. Len(evs) \in Nat
  OBVIOUS
<1>1. Replayed(dev, evs) = c[Len(evs)]
  BY DEF Replayed, Run
<1>2. Run(dev, evs, Len(evs), c)
  BY <1>0, RunExists
<1> HIDE DEF c
<1>4. c[Len(evs)] = r[Len(evs)]
  <2>1. Follows(evs, 0, evs, Len(evs))
    BY <1>0 DEF Follows
  <2> QED
    BY <1>0, <1>2, <2>1, RunsSame
<1> QED
  BY <1>1, <1>4

\* Nothing to replay changes nothing.
LEMMA ReplayNone == ASSUME NEW dev PROVE Replayed(dev, << >>) = dev
<1>1. PICK r : Run(dev, << >>, 0, r)
  BY RunExists
<1>2. r[0] = dev
  BY <1>1 DEF Run
<1>3. << >> \in Seq(Events) /\ Len(<< >>) = 0
  OBVIOUS
<1> QED
  BY <1>1, <1>2, <1>3, ReplayedEnds

\* Two queues are replayed one after the other.
LEMMA ReplayConcat ==
    ASSUME NEW dev, NEW s \in Seq(Events), NEW t \in Seq(Events)
    PROVE  Replayed(dev, s \o t) = Replayed(Replayed(dev, s), t)
<1> DEFINE m == Len(s)
           k == Len(t)
           n == m + k
           st == s \o t
<1>0. m \in Nat /\ k \in Nat /\ n \in Nat /\ n = m + k /\ st \in Seq(Events) /\ Len(st) = n
      /\ (\A i \in 1..m : st[i] = s[i]) /\ (\A i \in 1..k : st[m + i] = t[i])
  OBVIOUS
<1>1. PICK q : Run(dev, st, n, q)
  <2> HIDE DEF n, st
  <2> QED
    BY <1>0, RunExists
<1>2. PICK r : Run(dev, s, m, r)
  BY <1>0, RunExists
<1>3. PICK p : Run(r[m], t, k, p)
  BY <1>0, RunExists
<1>6. Replayed(dev, s \o t) = q[n]
  BY <1>0, <1>1, ReplayedEnds
<1>7. Replayed(dev, s) = r[m] /\ Replayed(r[m], t) = p[k]
  BY <1>2, <1>3, ReplayedEnds
<1>4. q[m] = r[m]
  <2> HIDE DEF m, k, n, st
  <2> DEFINE h == [i \in 0..m |-> q[i]]
  <2>1. q[0] = dev /\ \A i \in 1..n : q[i] = Dispatched(q[i - 1], st[i])
    BY <1>0, <1>1 DEF Run
  <2>2. \A i \in 0..m : h[i] = IF i = 0 THEN dev ELSE Dispatched(h[i - 1], st[i])
    BY <1>0, <2>1
  <2>3. Run(dev, st, m, h)
    <3>1. h = [i \in 0..m |-> h[i]]
      OBVIOUS
    <3> HIDE DEF h
    <3> QED
      BY <2>2, <3>1 DEF Run
  <2>4. h[m] = q[m]
    BY <1>0
  <2>5. Follows(st, 0, s, m)
    BY <1>0 DEF Follows
  <2> HIDE DEF h
  <2>6. m \in Nat
    BY <1>0
  <2>7. h[m] = r[m]
    BY <1>2, <2>3, <2>5, <2>6, RunsSame
  <2> QED
    BY <2>4, <2>7
<1>5. q[n] = p[k]
  <2> DEFINE dev2 == r[m]
  <2>1. Run(dev2, t, k, p) /\ q[m] = dev2
    BY <1>3, <1>4
  <2>2. Follows(st, m, t, k)
    BY <1>0 DEF Follows
  <2>3. m \in Nat /\ k \in Nat /\ n \in Nat /\ Adds(n, m, k)
    BY <1>0 DEF Adds
  <2> HIDE DEF m, k, n, st, dev2
  <2> QED
    BY <1>1, <2>1, <2>2, <2>3, RunsAgree
<1> QED
  BY <1>5, <1>6, <1>7

\* What is left of a card when these transports are taken away.
Taken(v, ts) ==
    IF ts = {} \/ ~v.listed THEN v
    ELSE IF v.t \ ts = {} THEN Hidden ELSE [listed |-> TRUE, t |-> v.t \ ts]

\* A card that is replaced leaves the others as they are.
LEMMA PutCard ==
    ASSUME NEW dev \in Stores, NEW v \in Udids, NEW w \in Views
    PROVE  /\ [dev EXCEPT ![v] = w] \in Stores
           /\ [dev EXCEPT ![v] = w][v] = w
           /\ \A u \in Udids : u # v => [dev EXCEPT ![v] = w][u] = dev[u]
  BY DEF Stores

\* What one event makes of its device's card.
Card(w, ev) == IF ev.typ # "detached" THEN [listed |-> TRUE, t |-> ev.now] ELSE Taken(w, {ev.t})

\* One event changes its own device's card, and nothing else.
LEMMA DispatchAt ==
    ASSUME NEW dev \in Stores, NEW ev \in Events
    PROVE  /\ Dispatched(dev, ev) \in Stores
           /\ \A u \in Udids : Dispatched(dev, ev)[u] = IF ev.u # u THEN dev[u] ELSE Card(dev[u], ev)
<1>1. ev.u \in Udids /\ ev.now \in SUBSET Transports /\ dev[ev.u] \in Views
  BY DEF Stores, Events
<1> DEFINE v == ev.u
           d == dev[v]
           w == Card(d, ev)
<1>2. d.listed \in BOOLEAN /\ d.t \in SUBSET Transports /\ d = [listed |-> d.listed, t |-> d.t]
  BY <1>1 DEF Views
<1>3. d.listed => [d EXCEPT !.t = @ \ {ev.t}] = [listed |-> TRUE, t |-> d.t \ {ev.t}]
  <2>1. d \in Views
    BY <1>1
  <2> DEFINE x == d.t \ {ev.t}
             c == [d EXCEPT !.t = x]
  <2>2. c = [listed |-> d.listed, t |-> x]
    <3> HIDE DEF d, x
    <3> QED
      BY <2>1 DEF Views
  <2>3. d.listed => d.listed = TRUE
    BY <1>2
  <2> QED
    BY <2>2, <2>3
<1>4. w \in Views
  BY <1>1, <1>2 DEF Views, Hidden, Card, Taken
<1>5. CASE ev.typ = "detached" /\ ~d.listed
  <2>1. Dispatched(dev, ev) = dev /\ w = d
    BY <1>5 DEF Dispatched, Card, Taken
  <2> QED
    BY <2>1
<1>6. CASE ev.typ # "detached" \/ d.listed
  <2>1. Dispatched(dev, ev) = [dev EXCEPT ![v] = w]
    BY <1>3, <1>6 DEF Dispatched, Card, Taken
  <2>2. v \in Udids
    BY <1>1
  <2>3. w = Card(dev[v], ev)
    OBVIOUS
  <2> HIDE DEF w, d
  <2>4. [dev EXCEPT ![v] = w] \in Stores /\ [dev EXCEPT ![v] = w][v] = w
        /\ \A u \in Udids : u # v => [dev EXCEPT ![v] = w][u] = dev[u]
    <3> HIDE DEF v
    <3> QED
      BY <2>2, <1>4, PutCard
  <2> QED
    BY <2>1, <2>2, <2>3, <2>4
<1> QED
  BY <1>5, <1>6

\* Where a run stands after each event.
LEMMA RunSteps ==
    ASSUME NEW dev \in Stores, NEW s \in Seq(Events), NEW r, Run(dev, s, Len(s), r)
    PROVE  /\ r[0] = dev
           /\ \A i \in 0..Len(s) : r[i] \in Stores
           /\ \A i \in 1..Len(s) : s[i] \in Events /\ r[i] = Dispatched(r[i - 1], s[i])
<1>1. Len(s) \in Nat /\ \A i \in 1..Len(s) : s[i] \in Events
  OBVIOUS
<1>2. r[0] = dev /\ \A i \in 1..Len(s) : r[i] = Dispatched(r[i - 1], s[i])
  BY <1>1 DEF Run
<1> DEFINE T == {x \in 0..Len(s) : r[x] \notin Stores}
<1>3. ASSUME T # {} PROVE FALSE
  <2>1. PICK x \in T : \A y \in T : x <= y
    <3>1. T \subseteq Nat
      OBVIOUS
    <3> HIDE DEF T
    <3> QED
      BY <1>3, <3>1, LeastNumber
  <2>2. x # 0
    BY <1>2
  <2>3. x \in 1..Len(s) /\ x - 1 \in 0..Len(s) /\ x - 1 \notin T
    BY <1>1, <2>1, <2>2
  <2>4. r[x - 1] \in Stores
    BY <2>3
  <2>5. r[x] \in Stores
    BY <1>1, <1>2, <2>3, <2>4, DispatchAt
  <2> QED
    BY <2>5
<1> QED
  BY <1>1, <1>2, <1>3

\* A store stays a store.
LEMMA ReplayType ==
    ASSUME NEW dev \in Stores, NEW s \in Seq(Events)
    PROVE  Replayed(dev, s) \in Stores
<1>1. Len(s) \in Nat
  OBVIOUS
<1>2. PICK r : Run(dev, s, Len(s), r)
  BY <1>1, RunExists
<1>3. r[Len(s)] \in Stores
  BY <1>1, <1>2, RunSteps
<1> QED
  BY <1>2, <1>3, ReplayedEnds

\* What becomes of a card depends on no other card, and not even on itself once
\* an event has told what it is.
LEMMA ReplayLocal ==
    ASSUME NEW dev \in Stores, NEW dev2 \in Stores, NEW s \in Seq(Events), NEW u \in Udids,
           dev[u] = dev2[u] \/ ~Detaches(s, u)
    PROVE  Replayed(dev, s)[u] = Replayed(dev2, s)[u]
<1>1. Len(s) \in Nat /\ DOMAIN s = 1..Len(s)
  OBVIOUS
<1>2. PICK q : Run(dev, s, Len(s), q)
  BY <1>1, RunExists
<1>3. PICK r : Run(dev2, s, Len(s), r)
  BY <1>1, RunExists
<1> DEFINE Told(x) == dev[u] = dev2[u] \/ \E i \in 1..x : s[i].u = u /\ s[i].typ # "detached"
           T == {x \in 0..Len(s) : Told(x) /\ q[x][u] # r[x][u]}
<1>4. ASSUME T # {} PROVE FALSE
  <2>1. PICK x \in T : \A y \in T : x <= y
    <3>1. T \subseteq Nat
      OBVIOUS
    <3> HIDE DEF T
    <3> QED
      BY <1>4, <3>1, LeastNumber
  <2>2. x # 0
    BY <1>2, <1>3, RunSteps
  <2>3. x \in 1..Len(s) /\ x - 1 \in 0..Len(s) /\ x - 1 \notin T
    BY <1>1, <2>1, <2>2
  <2>4. q[x - 1] \in Stores /\ q[x] = Dispatched(q[x - 1], s[x])
        /\ r[x - 1] \in Stores /\ r[x] = Dispatched(r[x - 1], s[x]) /\ s[x] \in Events
    BY <1>2, <1>3, <2>3, RunSteps
  <2> DEFINE d == q[x - 1]
             e == r[x - 1]
             ev == s[x]
  <2>7. q[x][u] = (IF ev.u # u THEN d[u] ELSE Card(d[u], ev))
        /\ r[x][u] = (IF ev.u # u THEN e[u] ELSE Card(e[u], ev))
    <3>1. d \in Stores /\ e \in Stores /\ ev \in Events /\ q[x] = Dispatched(d, ev) /\ r[x] = Dispatched(e, ev)
      BY <2>4
    <3> HIDE DEF d, e, ev
    <3> QED
      BY <3>1, DispatchAt
  <2>5. CASE s[x].u = u /\ s[x].typ # "detached"
    BY <2>7, <2>5 DEF Card
  <2>6. CASE s[x].u # u \/ s[x].typ = "detached"
    <3>1. Told(x - 1)
      BY <1>1, <2>3, <2>6
    <3>2. q[x - 1][u] = r[x - 1][u]
      BY <2>3, <3>1
    <3>3. q[x][u] = r[x][u]
      BY <2>7, <3>2
    <3> QED
      BY <3>3
  <2> QED
    BY <2>5, <2>6
<1>5. Told(Len(s))
  BY <1>1 DEF Detaches, About
<1>6. q[Len(s)][u] = r[Len(s)][u]
  BY <1>1, <1>4, <1>5
<1> QED
  BY <1>2, <1>3, <1>6, ReplayedEnds

\* Events that only take transports away take them all away.
LEMMA ReplayTaken ==
    ASSUME NEW dev \in Stores, NEW s \in Seq(Events), NEW u \in Udids, Detaches(s, u)
    PROVE  Replayed(dev, s)[u] = Taken(dev[u], {s[i].t : i \in About(s, u)})
<1>1. Len(s) \in Nat /\ DOMAIN s = 1..Len(s)
  OBVIOUS
<1>2. PICK r : Run(dev, s, Len(s), r)
  BY <1>1, RunExists
<1> DEFINE Ts(x) == {s[i].t : i \in {j \in 1..x : s[j].u = u}}
           T == {x \in 0..Len(s) : r[x][u] # Taken(dev[u], Ts(x))}
<1>3. ASSUME T # {} PROVE FALSE
  <2>1. PICK x \in T : \A y \in T : x <= y
    <3>1. T \subseteq Nat
      OBVIOUS
    <3> HIDE DEF T
    <3> QED
      BY <1>3, <3>1, LeastNumber
  <2>2. x # 0
    <3>1. Ts(0) = {}
      OBVIOUS
    <3>2. r[0][u] = Taken(dev[u], Ts(0))
      BY <1>2, <3>1, RunSteps DEF Taken
    <3> QED
      BY <3>2
  <2>3. x \in 1..Len(s) /\ x - 1 \in 0..Len(s) /\ x - 1 \notin T
    <3>1. x \in 0..Len(s)
      BY <2>1
    <3> HIDE DEF T
    <3> QED
      BY <1>1, <2>1, <2>2, <3>1
  <2>4. r[x - 1] \in Stores /\ r[x] = Dispatched(r[x - 1], s[x]) /\ s[x] \in Events
    BY <1>2, <2>3, RunSteps
  <2>5. r[x - 1][u] = Taken(dev[u], Ts(x - 1))
    BY <2>3
  <2> DEFINE d == r[x - 1]
             ev == s[x]
  <2>8. r[x][u] = IF ev.u # u THEN d[u] ELSE Card(d[u], ev)
    <3>1. d \in Stores /\ ev \in Events /\ r[x] = Dispatched(d, ev)
      BY <2>4
    <3> HIDE DEF d, ev
    <3> QED
      BY <3>1, DispatchAt
  <2>6. CASE s[x].u # u
    <3>1. Ts(x) = Ts(x - 1)
      <4>1. {j \in 1..x : s[j].u = u} = {j \in 1..(x - 1) : s[j].u = u}
        BY <1>1, <2>3, <2>6
      <4> QED
        BY <4>1
    <3>2. r[x][u] = r[x - 1][u]
      BY <2>8, <2>6
    <3> QED
      BY <2>5, <3>1, <3>2
  <2>7. CASE s[x].u = u
    <3>1. Ts(x) = Ts(x - 1) \cup {s[x].t}
      <4>1. {j \in 1..x : s[j].u = u} = {j \in 1..(x - 1) : s[j].u = u} \cup {x}
        BY <1>1, <2>3, <2>7
      <4> QED
        BY <4>1
    <3>2. s[x].typ = "detached"
      BY <1>1, <2>3, <2>7 DEF Detaches, About
    <3>3. r[x][u] = Taken(r[x - 1][u], {s[x].t})
      BY <2>8, <2>7, <3>2 DEF Card
    <3>4. Taken(Taken(dev[u], Ts(x - 1)), {s[x].t}) = Taken(dev[u], Ts(x - 1) \cup {s[x].t})
      <4> DEFINE v == dev[u]
                 ts == Ts(x - 1)
                 e == s[x].t
      <4>1. v \in Views
        BY DEF Stores
      <4> HIDE DEF v, ts, e
      <4> QED
        BY <4>1 DEF Taken, Views, Hidden
    <3> QED
      BY <2>5, <3>1, <3>3, <3>4
  <2> QED
    BY <2>6, <2>7
<1>4. r[Len(s)][u] = Taken(dev[u], Ts(Len(s)))
  <2>1. Len(s) \in 0..Len(s)
    BY <1>1
  <2> HIDE DEF Ts
  <2> QED
    BY <2>1, <1>3
<1>5. Ts(Len(s)) = {s[i].t : i \in About(s, u)}
  BY <1>1 DEF About
<1> QED
  BY <1>2, <1>4, <1>5, ReplayedEnds

-----------------------------------------------------------------------------
(* Sets listed in some order                                               *)

\* A list of a finite set names each of its elements, and nothing else.
LEMMA ListsAll ==
    ASSUME NEW S, IsFiniteSet(S), NEW q \in SetToSeqs(S)
    PROVE  /\ q \in Seq(S)
           /\ \A x \in S : \E i \in DOMAIN q : q[i] = x
           /\ \A i \in DOMAIN q : q[i] \in S
<1> DEFINE n == Cardinality(S)
           D == 1..n
<1>1. n \in Nat
  BY FS_CardinalityType
<1>2. q \in [D -> S] /\ \A i, j \in D : i # j => q[i] # q[j]
  BY DEF SetToSeqs
<1>3. Cardinality(D) = n
  <2> HIDE DEF n
  <2>1. 1 \in Int /\ n \in Int
    BY <1>1
  <2>2. Cardinality(1..n) = IF 1 > n THEN 0 ELSE n - 1 + 1
    BY <2>1, FS_Interval
  <2> QED
    BY <1>1, <2>2
<1>4. q \in Injection(D, S)
  <2> HIDE DEF D
  <2>1. \A a, b \in D : q[a] = q[b] => a = b
    BY <1>2
  <2> QED
    BY <1>2, <2>1, Fun_IsInj
<1>5. q \in Surjection(D, S)
  <2>1. Cardinality(D) = Cardinality(S)
    BY <1>3
  <2> HIDE DEF D
  <2> QED
    BY <1>4, <2>1, FS_Injection
<1>6. \A x \in S : \E i \in D : q[i] = x
  <2> HIDE DEF D
  <2> QED
    BY <1>5, Fun_SurjectionProperties
<1> HIDE DEF n
<1> QED
  BY <1>1, <1>2, <1>6

\* Every set of edges is finite.
LEMMA EdgesFinite == ASSUME NEW S \in SUBSET Edges PROVE IsFiniteSet(S)
<1>1. IsFiniteSet(Udids)
  BY PresenceAssumption
<1>2. IsFiniteSet({"usb", "wifi"})
  <2>1. IsFiniteSet({"usb"})
    BY FS_Singleton
  <2>2. IsFiniteSet({"usb"} \cup {"wifi"})
    BY <2>1, FS_AddElement
  <2>3. {"usb"} \cup {"wifi"} = {"usb", "wifi"}
    OBVIOUS
  <2> QED
    BY <2>2, <2>3
<1>3. IsFiniteSet(Edges)
  BY <1>1, <1>2, FS_Product DEF Edges, Transports
<1> QED
  BY <1>3, FS_Subset

-----------------------------------------------------------------------------
(* Types                                                                   *)

LEMMA MergedType == ASSUME NEW es, NEW u PROVE Merged(es, u) \in SUBSET Transports
  BY DEF Merged

LEMMA EventType ==
    ASSUME NEW typ \in Kinds, NEW u \in Udids, NEW t \in Transports \cup {"none"}, NEW now \in SUBSET Transports
    PROVE  Event(typ, u, t, now) \in Events
  BY DEF Event, Events

\* What the list answers is a store.
List == [u \in Udids |-> Shown(u)]

LEMMA ListType == List \in Stores
<1>1. ASSUME NEW u \in Udids PROVE Shown(u) \in Views
  <2>1. Merged(edges, u) \in SUBSET Transports
    BY MergedType
  <2>2. {} \in SUBSET Transports /\ Listed(edges, order, u) \in BOOLEAN
    BY DEF Listed
  <2> QED
    BY <2>1, <2>2 DEF Shown, Views
<1> QED
  BY <1>1 DEF List, Stores

LEMMA ListTypeNext == List' \in Stores
<1>1. ASSUME NEW u \in Udids PROVE Shown(u)' \in Views
  <2>1. Merged(edges, u)' \in SUBSET Transports
    BY DEF Merged
  <2>2. {} \in SUBSET Transports /\ Listed(edges, order, u)' \in BOOLEAN
    BY DEF Listed
  <2> QED
    BY <2>1, <2>2 DEF Shown, Views
<1> QED
  BY <1>1 DEF List, Stores

\* What Reset collects.
Lost(q, es) == [i \in DOMAIN q |-> Event("detached", q[i][1], q[i][2], Merged(es, q[i][1]))]

LEMMA LostType ==
    ASSUME NEW S \in SUBSET Edges, NEW q \in SetToSeqs(S), NEW es
    PROVE  /\ Lost(q, es) \in Seq(Events) /\ DOMAIN Lost(q, es) = DOMAIN q
           /\ \A i \in DOMAIN q : q[i] \in S /\ q[i][1] \in Udids /\ q[i][2] \in Transports
                /\ Lost(q, es)[i] = Event("detached", q[i][1], q[i][2], Merged(es, q[i][1]))
           /\ \A x \in S : \E i \in DOMAIN q : q[i] = x
<1>1. q \in Seq(S) /\ \A x \in S : \E i \in DOMAIN q : q[i] = x
  BY EdgesFinite, ListsAll
<1>2. \A i \in DOMAIN q : q[i] \in S /\ q[i][1] \in Udids /\ q[i][2] \in Transports
  BY <1>1 DEF Edges
<1>3. ASSUME NEW i \in DOMAIN q PROVE Event("detached", q[i][1], q[i][2], Merged(es, q[i][1])) \in Events
  <2>1. Merged(es, q[i][1]) \in SUBSET Transports
    BY MergedType
  <2> QED
    BY <1>2, <2>1, EventType DEF Kinds
<1>4. DOMAIN q = 1..Len(q) /\ Len(q) \in Nat
  BY <1>1
<1>5. Lost(q, es) \in Seq(Events)
  <2> DEFINE f(i) == Event("detached", q[i][1], q[i][2], Merged(es, q[i][1]))
  <2>1. \A i \in 1..Len(q) : f(i) \in Events
    BY <1>3, <1>4
  <2>2. [i \in 1..Len(q) |-> f(i)] \in Seq(Events)
    <3> HIDE DEF f
    <3> QED
      BY <1>4, <2>1
  <2> QED
    BY <1>4, <2>2 DEF Lost
<1> QED
  BY <1>1, <1>2, <1>5 DEF Lost

MuxType ==
    /\ plugged \in [Sources -> SUBSET Edges]
    /\ conn \in [Sources -> {"down", "dialled", "listening", "broken"}]
    /\ stream \in [Sources -> Seq(Messages)]
RegType ==
    /\ edges \in [Sources -> SUBSET Edges] /\ order \subseteq Udids /\ raced \subseteq Udids
    /\ backed \subseteq Udids /\ pend \in [Publishers -> Seq(Events)]
SubType == sub \in [open : BOOLEAN, buf : Seq(Events), dropped : BOOLEAN] /\ Len(sub.buf) <= Buffer
PageStates == {"off", "hello", "asked", "live", "refused", "stale"}
PageType == page \in [at : PageStates, dev : Stores, snap : Stores, queued : Seq(Events)]
SceneType == \E c \in Scenes : reach = c.reach /\ moves \in 0..c.moves

LEMMA TypeParts == TypeOK <=> MuxType /\ RegType /\ SubType /\ PageType /\ SceneType
  BY DEF TypeOK, MuxType, RegType, SubType, PageType, PageStates, SceneType

LEMMA TypePartsNext == TypeOK' <=> MuxType' /\ RegType' /\ SubType' /\ PageType' /\ SceneType'
  BY DEF TypeOK, MuxType, RegType, SubType, PageType, PageStates, SceneType

LEMMA SceneStep ==
    ASSUME SceneType, reach' = reach, moves' = moves \/ Move
    PROVE  SceneType'
<1>1. PICK c \in Scenes : reach = c.reach /\ moves \in 0..c.moves
  BY DEF SceneType
<1>2. c.moves \in Nat
  BY PresenceAssumption
<1>3. moves' \in 0..c.moves
  BY <1>1, <1>2 DEF Move
<1> QED
  BY <1>1, <1>3 DEF SceneType

\* What a client reads is an edge.
LEMMA HeadMessage ==
    ASSUME MuxType, NEW s \in Sources, stream[s] # << >>
    PROVE  /\ Head(stream[s]) \in Messages /\ Head(stream[s]).e \in Edges
           /\ Head(stream[s]).e[1] \in Udids /\ Head(stream[s]).e[2] \in Transports
           /\ Head(stream[s]).typ \in {"attached", "detached"}
           /\ Tail(stream[s]) \in Seq(Messages)
<1>1. stream[s] \in Seq(Messages)
  BY DEF MuxType
<1>2. Head(stream[s]) \in Messages /\ Tail(stream[s]) \in Seq(Messages)
  BY <1>1
<1> DEFINE m == Head(stream[s])
<1> HIDE DEF m
<1>3. m \in Messages => m.e \in Edges /\ m.typ \in {"attached", "detached"}
  BY DEF Messages
<1>4. m.e \in Edges => m.e[1] \in Udids /\ m.e[2] \in Transports
  BY DEF Edges
<1> QED
  BY <1>2, <1>3, <1>4 DEF m

\* What the muxer replays to a client that dialled.
LEMMA Replays ==
    ASSUME NEW S \in SUBSET Edges, NEW q \in SetToSeqs(S)
    PROVE  /\ [i \in DOMAIN q |-> [typ |-> "attached", e |-> q[i]]] \in Seq(Messages)
           /\ q \in Seq(S) /\ \A x \in S : \E i \in DOMAIN q : q[i] = x
<1>1. q \in Seq(S) /\ \A x \in S : \E i \in DOMAIN q : q[i] = x
  BY EdgesFinite, ListsAll
<1>2. DOMAIN q = 1..Len(q) /\ Len(q) \in Nat /\ \A i \in 1..Len(q) : q[i] \in Edges
  BY <1>1
<1>3. \A i \in 1..Len(q) : [typ |-> "attached", e |-> q[i]] \in Messages
  BY <1>2 DEF Messages
<1>4. [i \in 1..Len(q) |-> [typ |-> "attached", e |-> q[i]]] \in Seq(Messages)
  BY <1>2, <1>3
<1> QED
  BY <1>1, <1>2, <1>4

LEMMA MuxTypeStep ==
    ASSUME TypeOK, Next PROVE MuxType'
<1> USE TypeParts DEF MuxType
<1>1. ASSUME NEW s \in Sources, Dial(s) PROVE MuxType'
  <2>1. PICK q \in SetToSeqs(plugged[s]) :
          stream' = [stream EXCEPT ![s] = [i \in DOMAIN q |-> [typ |-> "attached", e |-> q[i]]]]
    BY <1>1 DEF Dial
  <2>2. plugged[s] \in SUBSET Edges
    OBVIOUS
  <2>3. [i \in DOMAIN q |-> [typ |-> "attached", e |-> q[i]]] \in Seq(Messages)
    BY <2>2, Replays
  <2>4. plugged' = plugged /\ conn' = [conn EXCEPT ![s] = "dialled"]
    BY <1>1 DEF Dial
  <2> QED
    BY <2>1, <2>3, <2>4
<1>2. ASSUME NEW s \in Sources, Reset(s) PROVE MuxType'
  BY <1>2 DEF Reset
<1>3. ASSUME NEW s \in Sources, Listen(s) PROVE MuxType'
  <2>1. Tail(stream[s]) \in Seq(Messages)
    BY <1>3, HeadMessage DEF Listen
  <2> QED
    BY <1>3, <2>1 DEF Listen
<1>4. ASSUME NEW s \in Sources, ListenEnds(s) PROVE MuxType'
  BY <1>4 DEF ListenEnds
<1>5. ASSUME NEW s \in Sources, Break(s) PROVE MuxType'
  BY <1>5 DEF Break
<1>6. ASSUME NEW s \in Sources, NEW e \in reach[s], Plug(s, e) PROVE MuxType'
  <2>1. e \in Edges
    BY <1>6, PresenceAssumption DEF SceneType, Edges, Transports
  <2>2. plugged' \in [Sources -> SUBSET Edges]
    BY <1>6, <2>1 DEF Plug
  <2> DEFINE m == [typ |-> IF e \in plugged[s] THEN "detached" ELSE "attached", e |-> e]
  <2>3. m \in Messages
    BY <2>1 DEF Messages
  <2>4. stream' = stream \/ stream' = [stream EXCEPT ![s] = Append(@, m)]
    BY <1>6 DEF Plug
  <2> HIDE DEF m
  <2>5. stream' \in [Sources -> Seq(Messages)]
    <3>1. stream[s] \in Seq(Messages)
      OBVIOUS
    <3>2. Append(stream[s], m) \in Seq(Messages)
      BY <2>3, <3>1
    <3> QED
      BY <2>4, <3>2
  <2> QED
    BY <1>6, <2>2, <2>5 DEF Plug
<1>7. ASSUME UNCHANGED muxVars PROVE MuxType'
  BY <1>7 DEF muxVars
<1> QED
  BY <1>1, <1>2, <1>3, <1>4, <1>5, <1>6, <1>7
     DEF Next, Steps, Client, Update, VersionsChange, Publish, Connect, FetchDevices, FetchFails, Refreshed, Deliver,
         DropSlow, SocketBreaks

LEMMA EventListTypes ==
    ASSUME RegType, NEW p \in Publishers
    PROVE  pend[p] \in Seq(Events) /\ (pend[p] # << >> => Head(pend[p]) \in Events /\ Tail(pend[p]) \in Seq(Events))
<1>1. pend[p] \in Seq(Events)
  BY DEF RegType
<1> QED
  BY <1>1

LEMMA AttachType ==
    ASSUME RegType, NEW s \in Sources, NEW e \in Edges, Attach(s, e) PROVE RegType'
<1>1. e[1] \in Udids /\ e[2] \in Transports
  BY DEF Edges
<1>2. edges' \in [Sources -> SUBSET Edges]
  BY DEF RegType, Attach, SetEdge
<1> DEFINE evs == <<Event("attached", e[1], e[2], Merged(SetEdge(s, e), e[1]))>>
<1>3. evs \in Seq(Events)
  <2>1. Merged(SetEdge(s, e), e[1]) \in SUBSET Transports /\ "attached" \in Kinds
    BY MergedType DEF Kinds
  <2>2. Event("attached", e[1], e[2], Merged(SetEdge(s, e), e[1])) \in Events
    BY <1>1, <2>1, EventType
  <2> QED
    BY <2>2
<1>0. UNCHANGED backed
  BY DEF Attach, Collect
<1>4. \/ UNCHANGED <<order, pend, raced>>
      \/ order' = order \cup {e[1]} /\ pend' = [pend EXCEPT ![s] = evs] /\ raced' = raced \cup Races(s, evs) \cup {}
  BY DEF Attach, Collect
<1> HIDE DEF evs
<1> QED
  BY <1>0, <1>1, <1>2, <1>3, <1>4 DEF RegType, Races, Publishers

LEMMA DetachEvents ==
    ASSUME NEW u \in Udids, NEW t \in Transports, NEW now \in SUBSET Transports
    PROVE  <<Event("detached", u, t, now)>> \o (IF now = {} THEN OfflineShell(u) ELSE << >>) \in Seq(Events)
<1>1. Event("detached", u, t, now) \in Events
  BY EventType DEF Kinds
<1>2. Event("updated", u, "none", {}) \in Events
  BY EventType DEF Kinds
<1>3. (IF now = {} THEN OfflineShell(u) ELSE << >>) \in Seq(Events)
  BY <1>2 DEF OfflineShell
<1>4. <<Event("detached", u, t, now)>> \in Seq(Events)
  BY <1>1
<1> QED
  BY <1>3, <1>4

LEMMA DetachType ==
    ASSUME RegType, NEW s \in Sources, NEW e \in Edges, Detach(s, e) PROVE RegType'
<1>1. e[1] \in Udids /\ e[2] \in Transports
  BY DEF Edges
<1>2. edges' \in [Sources -> SUBSET Edges]
  BY DEF RegType, Detach, ClearEdge
<1> DEFINE now == Merged(ClearEdge(s, e), e[1])
           evs == <<Event("detached", e[1], e[2], now)>> \o (IF now = {} THEN OfflineShell(e[1]) ELSE << >>)
<1>3. evs \in Seq(Events)
  <2>1. now \in SUBSET Transports
    BY MergedType
  <2> QED
    BY <1>1, <2>1, DetachEvents
<1>0. UNCHANGED backed
  BY DEF Detach, Collect
<1>4. \/ UNCHANGED <<order, pend, raced>>
      \/ /\ order' = order \/ order' = order \ {e[1]}
         /\ pend' = [pend EXCEPT ![s] = evs] /\ raced' = raced \cup Races(s, evs) \cup {}
  BY DEF Detach, Collect
<1> HIDE DEF evs
<1>5. order' \subseteq Udids /\ raced' \subseteq Udids
  BY <1>1, <1>4 DEF RegType, Races
<1>6. pend' \in [Publishers -> Seq(Events)]
  BY <1>3, <1>4 DEF RegType, Publishers
<1> QED
  BY <1>0, <1>2, <1>5, <1>6 DEF RegType

LEMMA ResetForm ==
    ASSUME RegType, NEW s \in Sources, Reset(s)
    PROVE  LET es == [edges EXCEPT ![s] = {}]
               gone == {e \in edges[s] : ~Present(es, e[1], e[2])}
           IN /\ es \in [Sources -> SUBSET Edges] /\ edges' = es /\ order' = AfterReset(es)
              /\ backed' = backed
              /\ gone \in SUBSET Edges
              /\ \E q \in SetToSeqs(gone) :
                    /\ pend' = [pend EXCEPT ![s] = Lost(q, es)]
                    /\ raced' = raced \cup Races(s, Lost(q, es)) \cup {u \in backed : u \in order /\ Merged(es, u) = {}}
<1>1. [edges EXCEPT ![s] = {}] \in [Sources -> SUBSET Edges] /\ edges[s] \in SUBSET Edges
  BY DEF RegType
<1> QED
  BY <1>1 DEF Reset, ResetEdges, Collect, Lost

LEMMA ResetType ==
    ASSUME RegType, NEW s \in Sources, Reset(s) PROVE RegType'
<1> DEFINE es == [edges EXCEPT ![s] = {}]
           gone == {e \in edges[s] : ~Present(es, e[1], e[2])}
<1>1. es \in [Sources -> SUBSET Edges] /\ edges' = es /\ order' = AfterReset(es) /\ gone \in SUBSET Edges
      /\ backed' = backed
  BY ResetForm
<1>2. PICK q \in SetToSeqs(gone) :
         /\ pend' = [pend EXCEPT ![s] = Lost(q, es)]
         /\ raced' = raced \cup Races(s, Lost(q, es)) \cup {u \in backed : u \in order /\ Merged(es, u) = {}}
  BY ResetForm
<1> HIDE DEF es, gone
<1>3. Lost(q, es) \in Seq(Events)
  BY <1>1, LostType
<1>4. raced' \subseteq Udids /\ order' \subseteq Udids
  BY <1>1, <1>2, PresenceAssumption DEF RegType, Races, AfterReset
<1> QED
  BY <1>1, <1>2, <1>3, <1>4 DEF RegType, Publishers

LEMMA RegTypeStep ==
    ASSUME TypeOK, Next PROVE RegType'
<1>0. MuxType /\ RegType
  BY TypeParts
<1>1. ASSUME NEW s \in Sources, Dial(s) PROVE RegType'
  BY <1>0, <1>1 DEF Dial, regVars, RegType
<1>2. ASSUME NEW s \in Sources, Reset(s) PROVE RegType'
  BY <1>0, <1>2, ResetType
<1>3. ASSUME NEW s \in Sources, Listen(s) PROVE RegType'
  <2> DEFINE e == Head(stream[s]).e
  <2>1. e \in Edges
    BY <1>0, <1>3, HeadMessage DEF Listen
  <2>2. Attach(s, e) \/ Detach(s, e)
    BY <1>3 DEF Listen
  <2> HIDE DEF e
  <2> QED
    BY <1>0, <2>1, <2>2, AttachType, DetachType
<1>4. ASSUME NEW s \in Sources, ListenEnds(s) PROVE RegType'
  BY <1>0, <1>4 DEF ListenEnds, regVars, RegType
<1>5. ASSUME NEW s \in Sources, Break(s) PROVE RegType'
  BY <1>0, <1>5 DEF Break, regVars, RegType
<1>6. ASSUME NEW s \in Sources, NEW e \in reach[s], Plug(s, e) PROVE RegType'
  BY <1>0, <1>6 DEF Plug, regVars, RegType
<1>7. ASSUME NEW u \in Udids, Update(u) PROVE RegType'
  <2> DEFINE evs == <<Event("updated", u, "none", Merged(edges, u))>>
  <2>1. Merged(edges, u) \in SUBSET Transports /\ "updated" \in Kinds
    BY MergedType DEF Kinds
  <2>2. evs \in Seq(Events)
    BY <2>1, EventType
  <2>3. pend' = [pend EXCEPT !["enrich"] = evs] /\ raced' = raced \cup Races("enrich", evs) \cup {}
        /\ UNCHANGED <<edges, order, backed>>
    BY <1>7 DEF Update, Collect
  <2> HIDE DEF evs
  <2> QED
    BY <1>0, <2>2, <2>3 DEF RegType, Races, Publishers
<1>8. ASSUME NEW p \in Publishers, Publish(p) PROVE RegType'
  <2>1. Tail(pend[p]) \in Seq(Events)
    BY <1>0, <1>8, EventListTypes DEF Publish
  <2> QED
    BY <1>0, <1>8, <2>1 DEF Publish, RegType
<1>9. ASSUME UNCHANGED regVars PROVE RegType'
  BY <1>0, <1>9 DEF regVars, RegType
<1>10. ASSUME NEW u \in Udids, VersionsChange(u) PROVE RegType'
  BY <1>0, <1>10 DEF VersionsChange, RegType
<1>11. ASSUME FetchDevices PROVE RegType'
  BY <1>0, <1>11 DEF FetchDevices, RegType
<1> QED
  BY <1>1, <1>2, <1>3, <1>4, <1>5, <1>6, <1>7, <1>8, <1>9, <1>10, <1>11
     DEF Next, Steps, Client, Connect, FetchFails, Refreshed, Deliver, DropSlow, SocketBreaks

\* What the buffer holds.
LEMMA BufTypes ==
    ASSUME SubType
    PROVE  /\ sub.open \in BOOLEAN /\ sub.dropped \in BOOLEAN
           /\ sub.buf \in Seq(Events) /\ Len(sub.buf) \in Nat /\ Len(sub.buf) <= Buffer
           /\ sub.buf # << >> => /\ Head(sub.buf) \in Events /\ Tail(sub.buf) \in Seq(Events)
                                /\ Len(Tail(sub.buf)) = Len(sub.buf) - 1
<1>1. sub.buf \in Seq(Events) /\ sub.open \in BOOLEAN /\ sub.dropped \in BOOLEAN
  BY DEF SubType
<1> QED
  BY <1>1 DEF SubType

\* A subscription, put together.
LEMMA SubPut ==
    ASSUME SubType, NEW b \in Seq(Events)
    PROVE  /\ [sub EXCEPT !.buf = b] = [open |-> sub.open, buf |-> b, dropped |-> sub.dropped]
           /\ [sub EXCEPT !.dropped = TRUE] = [open |-> sub.open, buf |-> sub.buf, dropped |-> TRUE]
<1>1. sub \in [open : BOOLEAN, buf : Seq(Events), dropped : BOOLEAN]
  BY DEF SubType
<1>2. [sub EXCEPT !.buf = b] = [open |-> sub.open, buf |-> b, dropped |-> sub.dropped]
  BY <1>1
<1>3. \A x : [sub EXCEPT !.dropped = x] = [open |-> sub.open, buf |-> sub.buf, dropped |-> x]
  BY <1>1
<1> QED
  BY <1>2, <1>3

LEMMA SubTypeStep ==
    ASSUME TypeOK, Next PROVE SubType'
<1>0. RegType /\ SubType /\ Buffer \in Nat
  BY TypeParts, PresenceAssumption
<1>1. ASSUME NEW p \in Publishers, Publish(p) PROVE SubType'
  <2> DEFINE h == Head(pend[p])
             b == Append(sub.buf, h)
  <2>1. h \in Events
    BY <1>0, <1>1, EventListTypes DEF Publish
  <2>2. Len(sub.buf) < Buffer => b \in Seq(Events) /\ Len(b) <= Buffer
    <3> HIDE DEF h
    <3> QED
      BY <1>0, <2>1, BufTypes
  <2>3. \/ sub' = sub
        \/ Len(sub.buf) < Buffer /\ sub' = [sub EXCEPT !.buf = b]
        \/ sub' = [sub EXCEPT !.dropped = TRUE]
    BY <1>1 DEF Publish, Overflow
  <2> HIDE DEF b
  <2>4. CASE sub' = sub
    BY <1>0, <2>4 DEF SubType
  <2>5. CASE Len(sub.buf) < Buffer /\ sub' = [sub EXCEPT !.buf = b]
    <3>1. sub' = [open |-> sub.open, buf |-> b, dropped |-> sub.dropped]
      BY <1>0, <2>2, <2>5, SubPut
    <3> QED
      BY <1>0, <2>2, <2>5, <3>1, BufTypes DEF SubType
  <2>6. CASE sub' = [sub EXCEPT !.dropped = TRUE]
    <3>1. sub' = [open |-> sub.open, buf |-> sub.buf, dropped |-> TRUE]
      BY <1>0, <2>6, SubPut, BufTypes
    <3> QED
      BY <1>0, <3>1, BufTypes DEF SubType
  <2> QED
    BY <2>3, <2>4, <2>5, <2>6
<1>2. ASSUME sub' = [NoSub EXCEPT !.open = TRUE] \/ sub' = NoSub PROVE SubType'
  <2>1. sub' = [open |-> TRUE, buf |-> << >>, dropped |-> FALSE]
        \/ sub' = [open |-> FALSE, buf |-> << >>, dropped |-> FALSE]
    BY <1>2 DEF NoSub
  <2>2. << >> \in Seq(Events) /\ Len(<< >>) = 0
    OBVIOUS
  <2>3. ASSUME NEW o \in BOOLEAN, NEW d \in BOOLEAN, sub' = [open |-> o, buf |-> << >>, dropped |-> d]
        PROVE  SubType'
    BY <1>0, <2>2, <2>3 DEF SubType
  <2> QED
    BY <2>1, <2>3
<1>3. ASSUME Deliver PROVE SubType'
  <2>1. Tail(sub.buf) \in Seq(Events) /\ Len(Tail(sub.buf)) <= Buffer
    BY <1>0, <1>3, BufTypes DEF Deliver
  <2>2. sub' = [sub EXCEPT !.buf = Tail(sub.buf)]
    BY <1>3 DEF Deliver
  <2>3. sub' = [open |-> sub.open, buf |-> Tail(sub.buf), dropped |-> sub.dropped]
    BY <1>0, <2>1, <2>2, SubPut
  <2> QED
    BY <1>0, <2>1, <2>3, BufTypes DEF SubType
<1>4. ASSUME sub' = sub PROVE SubType'
  BY <1>0, <1>4 DEF SubType
<1> QED
  BY <1>1, <1>2, <1>3, <1>4
     DEF Next, Steps, Client, Dial, Reset, Listen, ListenEnds, Break, Plug, Update, VersionsChange,
         pageVars, Connect, FetchDevices, FetchFails, Refreshed, DropSlow, SocketBreaks, Closed

LEMMA PageTypes ==
    ASSUME PageType
    PROVE  /\ page.at \in PageStates /\ page.dev \in Stores /\ page.snap \in Stores
           /\ page.queued \in Seq(Events)
           /\ page = [at |-> page.at, dev |-> page.dev, snap |-> page.snap, queued |-> page.queued]
  BY DEF PageType

\* A page, put together.
LEMMA PagePut ==
    ASSUME PageType, NEW at, NEW dev, NEW snap, NEW queued
    PROVE  /\ [page EXCEPT !.at = at] = [at |-> at, dev |-> page.dev, snap |-> page.snap, queued |-> page.queued]
           /\ [page EXCEPT !.dev = dev] = [at |-> page.at, dev |-> dev, snap |-> page.snap, queued |-> page.queued]
           /\ [page EXCEPT !.queued = queued]
                = [at |-> page.at, dev |-> page.dev, snap |-> page.snap, queued |-> queued]
           /\ [page EXCEPT !.at = at, !.snap = snap]
                = [at |-> at, dev |-> page.dev, snap |-> snap, queued |-> page.queued]
           /\ [page EXCEPT !.at = at, !.dev = dev, !.queued = queued]
                = [at |-> at, dev |-> dev, snap |-> page.snap, queued |-> queued]
           /\ [page EXCEPT !.at = at, !.dev = dev, !.queued = queued, !.snap = snap]
                = [at |-> at, dev |-> dev, snap |-> snap, queued |-> queued]
<1>0. page \in [at : PageStates, dev : Stores, snap : Stores, queued : Seq(Events)]
  BY DEF PageType
<1>1. [page EXCEPT !.at = at] = [at |-> at, dev |-> page.dev, snap |-> page.snap, queued |-> page.queued]
  BY <1>0
<1>2. [page EXCEPT !.dev = dev] = [at |-> page.at, dev |-> dev, snap |-> page.snap, queued |-> page.queued]
  BY <1>0
<1>3. [page EXCEPT !.queued = queued]
        = [at |-> page.at, dev |-> page.dev, snap |-> page.snap, queued |-> queued]
  BY <1>0
<1>4. [page EXCEPT !.at = at, !.snap = snap]
        = [at |-> at, dev |-> page.dev, snap |-> snap, queued |-> page.queued]
  <2> DEFINE x == [page EXCEPT !.at = at, !.snap = snap]
  <2>1. x = [k \in DOMAIN page |-> IF k = "snap" THEN snap ELSE IF k = "at" THEN at ELSE page[k]]
    BY <1>0
  <2> QED
    BY <1>0, <2>1
<1>6. [page EXCEPT !.at = at, !.dev = dev, !.queued = queued]
        = [at |-> at, dev |-> dev, snap |-> page.snap, queued |-> queued]
  <2> DEFINE x == [page EXCEPT !.at = at, !.dev = dev, !.queued = queued]
  <2>1. x = [k \in DOMAIN page |-> IF k = "queued" THEN queued
                                   ELSE IF k = "dev" THEN dev ELSE IF k = "at" THEN at ELSE page[k]]
    BY <1>0
  <2> QED
    BY <1>0, <2>1
<1>5. [page EXCEPT !.at = at, !.dev = dev, !.queued = queued, !.snap = snap]
        = [at |-> at, dev |-> dev, snap |-> snap, queued |-> queued]
  <2> DEFINE x == [page EXCEPT !.at = at, !.dev = dev, !.queued = queued, !.snap = snap]
  <2>1. x = [k \in DOMAIN page |-> IF k = "snap" THEN snap ELSE IF k = "queued" THEN queued
                                   ELSE IF k = "dev" THEN dev ELSE IF k = "at" THEN at ELSE page[k]]
    BY <1>0
  <2> QED
    BY <1>0, <2>1
<1> QED
  BY <1>1, <1>2, <1>3, <1>4, <1>5, <1>6

LEMMA HiddenStore == Empty \in Stores
  BY DEF Empty, Hidden, Stores, Views

LEMMA PageTypeStep ==
    ASSUME TypeOK, Next PROVE PageType'
<1>0. SubType /\ PageType
  BY TypeParts
<1>1. ASSUME Connect PROVE PageType'
  <2>1. page' = [at |-> "hello", dev |-> page.dev, snap |-> page.snap, queued |-> page.queued]
    BY <1>0, <1>1, PagePut DEF Connect
  <2> QED
    BY <1>0, <2>1, PageTypes DEF PageType, PageStates
<1>2. ASSUME FetchDevices PROVE PageType'
  <2>1. page' = [at |-> "asked", dev |-> page.dev, snap |-> List, queued |-> page.queued]
    <3>1. page' = [page EXCEPT !.at = "asked", !.snap = List]
      BY <1>2 DEF FetchDevices, List
    <3> QED
      BY <1>0, <3>1, PagePut
  <2> QED
    BY <1>0, <2>1, PageTypes, ListType DEF PageType, PageStates
<1>3. ASSUME Refreshed PROVE PageType'
  <2> DEFINE d == Replayed(page.snap, page.queued)
             k == Replayed(page.dev, page.queued)
  <2>1. d \in Stores /\ k \in Stores /\ Empty \in Stores
    BY <1>0, PageTypes, ReplayType, HiddenStore
  <2>2. \/ page' = [page EXCEPT !.at = "live", !.dev = d, !.queued = << >>, !.snap = Empty]
        \/ page' = [page EXCEPT !.at = "stale", !.dev = k, !.queued = << >>]
    BY <1>3 DEF Refreshed
  <2> HIDE DEF d, k
  <2>3. \/ page' = [at |-> "live", dev |-> d, snap |-> Empty, queued |-> << >>]
        \/ page' = [at |-> "stale", dev |-> k, snap |-> page.snap, queued |-> << >>]
    BY <1>0, <2>2, PagePut
  <2> QED
    <3>1. << >> \in Seq(Events) /\ page.snap \in Stores
      BY <1>0, PageTypes
    <3>2. ASSUME NEW at \in PageStates, NEW dev \in Stores, NEW sn \in Stores,
                 page' = [at |-> at, dev |-> dev, snap |-> sn, queued |-> << >>]
          PROVE  PageType'
      BY <3>1, <3>2 DEF PageType
    <3>3. "live" \in PageStates /\ "stale" \in PageStates
      BY DEF PageStates
    <3> QED
      BY <2>1, <2>3, <3>1, <3>2, <3>3
<1>4. ASSUME Deliver PROVE PageType'
  <2> DEFINE h == Head(sub.buf)
             d == Dispatched(page.dev, h)
             w == Append(page.queued, h)
  <2>1. h \in Events
    BY <1>0, <1>4, BufTypes DEF Deliver
  <2>2. page' = [page EXCEPT !.dev = d] \/ page' = [page EXCEPT !.queued = w]
    BY <1>4 DEF Deliver
  <2>3. d \in Stores /\ w \in Seq(Events)
    <3> HIDE DEF h
    <3> QED
      BY <1>0, <2>1, PageTypes, DispatchAt
  <2> HIDE DEF d, w
  <2>4. \/ page' = [at |-> page.at, dev |-> d, snap |-> page.snap, queued |-> page.queued]
        \/ page' = [at |-> page.at, dev |-> page.dev, snap |-> page.snap, queued |-> w]
    BY <1>0, <2>2, PagePut
  <2> QED
    BY <1>0, <2>3, <2>4, PageTypes DEF PageType
<1>5. ASSUME page' = Off(page.dev) PROVE PageType'
  BY <1>0, <1>5, HiddenStore, PageTypes DEF Off, PageType, PageStates
<1>7. ASSUME FetchFails PROVE PageType'
  <2>1. page' = [at |-> "refused", dev |-> page.dev, snap |-> page.snap, queued |-> page.queued]
    BY <1>0, <1>7, PagePut DEF FetchFails
  <2> QED
    BY <1>0, <2>1, PageTypes DEF PageType, PageStates
<1>6. ASSUME page' = page PROVE PageType'
  BY <1>0, <1>6 DEF PageType
<1> QED
  BY <1>1, <1>2, <1>3, <1>4, <1>5, <1>6, <1>7
     DEF Next, Steps, Client, Dial, Reset, Listen, ListenEnds, Break, Plug, Update, VersionsChange, pageVars, Publish,
         DropSlow, SocketBreaks, Closed

LEMMA TypeStep ==
    ASSUME TypeOK, [Next]_vars PROVE TypeOK'
<1>1. CASE Next
  <2>1. reach' = reach /\ (moves' = moves \/ Move)
    BY <1>1 DEF Next, Steps, Client, Dial, Reset, Listen, ListenEnds, Break, Plug, Update, VersionsChange,
         Publish, Connect, FetchDevices, FetchFails, Refreshed, Deliver, DropSlow, SocketBreaks
  <2>2. SceneType'
    BY <2>1, TypeParts, SceneStep
  <2> QED
    BY <1>1, <2>2, MuxTypeStep, RegTypeStep, SubTypeStep, PageTypeStep, TypePartsNext
<1>2. CASE UNCHANGED vars
  BY <1>2 DEF vars, muxVars, regVars, pageVars, TypeOK
<1> QED
  BY <1>1, <1>2

LEMMA TypeInit == ASSUME Init PROVE TypeOK
<1>1. PageType
  BY HiddenStore DEF Init, Off, PageType, PageStates
<1>2. SubType
  BY PresenceAssumption DEF Init, NoSub, SubType
<1>3. SceneType
  <2>1. PICK c \in Scenes : reach = c.reach /\ moves = c.moves
    BY DEF Init
  <2>2. moves \in 0..c.moves
    BY <2>1, PresenceAssumption
  <2> QED
    BY <2>1, <2>2 DEF SceneType
<1>4. MuxType /\ RegType
  BY DEF Init, MuxType, RegType
<1> QED
  BY <1>1, <1>2, <1>3, <1>4, TypeParts

\* Every queue, stream and store stays what its readers take it for, and the
\* subscriber's buffer never holds more than its capacity.
THEOREM PresenceTyped == Spec => []TypeOK
<1>1. Init => TypeOK
  BY TypeInit
<1>2. TypeOK /\ [Next]_vars => TypeOK'
  BY TypeStep
<1> QED
  BY <1>1, <1>2, PTL DEF Spec

-----------------------------------------------------------------------------
(* The merge and the display order                                         *)

LEMMA EdgeParts ==
    ASSUME NEW e \in Edges
    PROVE  e[1] \in Udids /\ e[2] \in Transports /\ e = <<e[1], e[2]>>
           /\ \A u, t : e = <<u, t>> => e[1] = u /\ e[2] = t
  BY DEF Edges

\* An edge that is set adds its transport to its device.
LEMMA SetMerged ==
    ASSUME RegType, NEW s \in Sources, NEW e \in Edges, NEW u \in Udids
    PROVE  /\ u = e[1] => Merged(SetEdge(s, e), u) = Merged(edges, u) \cup {e[2]}
           /\ u # e[1] => Merged(SetEdge(s, e), u) = Merged(edges, u)
<1> DEFINE es == SetEdge(s, e)
<1>1. \A r \in Sources : es[r] = IF r = s THEN edges[r] \cup {e} ELSE edges[r]
  BY DEF RegType, SetEdge
<1>2. ASSUME NEW t \in Transports
      PROVE  Present(es, u, t) <=> Present(edges, u, t) \/ e = <<u, t>>
  <2> HIDE DEF es
  <2> QED
    BY <1>1 DEF Present
<1>3. \A t : e = <<u, t>> <=> u = e[1] /\ t = e[2]
  BY EdgeParts
<1>4. e[2] \in Transports
  BY EdgeParts
<1> HIDE DEF es
<1> QED
  BY <1>2, <1>3, <1>4 DEF Merged, es

\* An edge that is cleared takes its transport off its device, unless another
\* source has it.
LEMMA ClearMerged ==
    ASSUME RegType, NEW s \in Sources, NEW e \in Edges, NEW u \in Udids
    PROVE  /\ u = e[1] => Merged(ClearEdge(s, e), u) =
                 IF Present(ClearEdge(s, e), u, e[2]) \/ ~Present(edges, u, e[2])
                 THEN Merged(edges, u) ELSE Merged(edges, u) \ {e[2]}
           /\ u # e[1] => Merged(ClearEdge(s, e), u) = Merged(edges, u)
<1> DEFINE es == ClearEdge(s, e)
<1>1. \A r \in Sources : es[r] = IF r = s THEN edges[r] \ {e} ELSE edges[r]
  BY DEF RegType, ClearEdge
<1>2. ASSUME NEW t \in Transports
      PROVE  /\ Present(es, u, t) => Present(edges, u, t)
             /\ e # <<u, t>> => (Present(es, u, t) <=> Present(edges, u, t))
  <2> HIDE DEF es
  <2> QED
    BY <1>1 DEF Present
<1>3. \A t : e = <<u, t>> <=> u = e[1] /\ t = e[2]
  BY EdgeParts
<1>4. e[2] \in Transports
  BY EdgeParts
<1> HIDE DEF es
<1> QED
  BY <1>2, <1>3, <1>4 DEF Merged, es

\* The transports of u that only s had.
OnlyHere(s, es, u) == {t \in Transports : <<u, t>> \in edges[s] /\ ~Present(es, u, t)}

\* A source that is reset takes off what no other source has.
LEMMA ResetMerged ==
    ASSUME RegType, NEW s \in Sources, NEW es, es = [edges EXCEPT ![s] = {}], NEW u \in Udids
    PROVE  Merged(es, u) = Merged(edges, u) \ OnlyHere(s, es, u)
<1>1. \A r \in Sources : es[r] = IF r = s THEN {} ELSE edges[r]
  BY DEF RegType
<1>2. ASSUME NEW t \in Transports
      PROVE  /\ Present(es, u, t) => Present(edges, u, t)
             /\ Present(edges, u, t) /\ ~Present(es, u, t) => <<u, t>> \in edges[s]
  BY <1>1 DEF Present
<1> QED
  BY <1>2 DEF Merged, OnlyHere

LEMMA OrderAttach ==
    ASSUME RegType, OrderIsPresent, NEW s \in Sources, NEW e \in Edges, Attach(s, e) PROVE OrderIsPresent'
<1>1. edges' = SetEdge(s, e) /\ e[1] \in Udids /\ e[2] \in Transports
  BY EdgeParts DEF Attach
<1>2. \A u \in Udids : Merged(edges, u)' = Merged(edges', u)
  BY DEF Merged, Present
<1>3. ASSUME NEW u \in Udids PROVE u \in order' <=> Merged(edges', u) # {}
  <2>1. u \in order <=> Merged(edges, u) # {}
    BY DEF OrderIsPresent
  <2>2. CASE Present(edges, e[1], e[2])
    <3>1. order' = order /\ (u = e[1] => e[2] \in Merged(edges, u))
      BY <1>1, <2>2 DEF Attach, Merged
    <3> QED
      BY <1>1, <2>1, <3>1, SetMerged
  <2>3. CASE ~Present(edges, e[1], e[2])
    <3>1. order' = order \cup {e[1]}
      BY <2>3 DEF Attach
    <3> QED
      BY <1>1, <2>1, <3>1, SetMerged
  <2> QED
    BY <2>2, <2>3
<1> QED
  BY <1>2, <1>3 DEF OrderIsPresent

LEMMA OrderDetach ==
    ASSUME RegType, OrderIsPresent, NEW s \in Sources, NEW e \in Edges, Detach(s, e) PROVE OrderIsPresent'
<1>1. edges' = ClearEdge(s, e) /\ e[1] \in Udids /\ e[2] \in Transports
  BY EdgeParts DEF Detach
<1>2. \A u \in Udids : Merged(edges, u)' = Merged(edges', u)
  BY DEF Merged, Present
<1>3. ASSUME NEW u \in Udids PROVE u \in order' <=> Merged(edges', u) # {}
  <2>1. u \in order <=> Merged(edges, u) # {}
    BY DEF OrderIsPresent
  <2>2. CASE Present(edges, e[1], e[2]) /\ ~Present(ClearEdge(s, e), e[1], e[2])
    <3>1. order' = IF Merged(edges', e[1]) = {} THEN order \ {e[1]} ELSE order
      BY <1>1, <2>2 DEF Detach
    <3>2. Merged(edges, e[1]) # {}
      BY <1>1, <2>2 DEF Merged
    <3> QED
      BY <1>1, <2>1, <2>2, <3>1, <3>2, ClearMerged
  <2>3. CASE ~(Present(edges, e[1], e[2]) /\ ~Present(ClearEdge(s, e), e[1], e[2]))
    <3>1. order' = order
      BY <2>3 DEF Detach
    <3> QED
      BY <1>1, <2>1, <2>3, <3>1, ClearMerged
  <2> QED
    BY <2>2, <2>3
<1> QED
  BY <1>2, <1>3 DEF OrderIsPresent

LEMMA OrderReset ==
    ASSUME RegType, OrderIsPresent, NEW s \in Sources, Reset(s) PROVE OrderIsPresent'
<1> DEFINE es == [edges EXCEPT ![s] = {}]
<1>1. edges' = es /\ order' = AfterReset(es)
  BY ResetForm
<1>2. \A u \in Udids : Merged(edges, u)' = Merged(edges', u)
  BY DEF Merged, Present
<1>3. ASSUME NEW u \in Udids PROVE u \in order' <=> Merged(edges', u) # {}
  <2>1. u \in order <=> Merged(edges, u) # {}
    BY DEF OrderIsPresent
  <2>2. Merged(es, u) \subseteq Merged(edges, u)
    <3>1. es = [edges EXCEPT ![s] = {}]
      OBVIOUS
    <3> HIDE DEF es
    <3>2. Merged(es, u) = Merged(edges, u) \ OnlyHere(s, es, u)
      BY <3>1, ResetMerged
    <3> QED
      BY <3>2
  <2> HIDE DEF es
  <2> QED
    BY <1>1, <2>1, <2>2 DEF AfterReset
<1> QED
  BY <1>2, <1>3 DEF OrderIsPresent

\* The order follows the merge through resets and replays.
LEMMA OrderStep ==
    ASSUME TypeOK, OrderIsPresent, [Next]_vars PROVE OrderIsPresent'
<1>0. MuxType /\ RegType
  BY TypeParts
<1>1. ASSUME NEW s \in Sources, Reset(s) PROVE OrderIsPresent'
  BY <1>0, <1>1, OrderReset
<1>2. ASSUME NEW s \in Sources, Listen(s) PROVE OrderIsPresent'
  <2> DEFINE e == Head(stream[s]).e
  <2>1. e \in Edges
    BY <1>0, <1>2, HeadMessage DEF Listen
  <2>2. Attach(s, e) \/ Detach(s, e)
    BY <1>2 DEF Listen
  <2> HIDE DEF e
  <2> QED
    BY <1>0, <2>1, <2>2, OrderAttach, OrderDetach
<1>3. ASSUME UNCHANGED <<edges, order>> PROVE OrderIsPresent'
  BY <1>3 DEF OrderIsPresent, Merged, Present
<1> QED
  BY <1>1, <1>2, <1>3
     DEF Next, Steps, Client, Dial, ListenEnds, Break, Plug, Update, VersionsChange, Publish, Connect,
         FetchDevices, FetchFails, Refreshed, Deliver, DropSlow, SocketBreaks, vars, regVars

-----------------------------------------------------------------------------
(* The muxer and its source                                                *)

\* The messages about an edge, and what they say of it.
Naming(ms, e) == {i \in DOMAIN ms : ms[i].e = e}
Says(ms, has, e, base) ==
    /\ Naming(ms, e) = {} => (has <=> base)
    /\ \A i \in Naming(ms, e) : (\A j \in Naming(ms, e) : j <= i) => (has <=> ms[i].typ = "attached")

SourceTrue(s) ==
    conn[s] \in {"dialled", "listening"} =>
        \A e \in Edges : Says(stream[s], e \in plugged[s], e, conn[s] = "listening" /\ e \in edges[s])

LEMMA StreamParts == StreamTrue <=> \A s \in Sources : SourceTrue(s)
  BY DEF StreamTrue, SourceTrue, Says, Naming

LEMMA StreamPartsNext == StreamTrue' <=> \A s \in Sources : SourceTrue(s)'
  BY DEF StreamTrue, SourceTrue, Says, Naming

\* A message that is added has the last word.
LEMMA SaysAppend ==
    ASSUME NEW ms \in Seq(Messages), NEW m \in Messages, NEW e \in Edges, NEW has, NEW has2, NEW base,
           Says(ms, has, e, base),
           IF m.e = e THEN has2 <=> m.typ = "attached" ELSE has2 <=> has
    PROVE  Says(Append(ms, m), has2, e, base)
<1> DEFINE n == Len(ms)
           ns == Append(ms, m)
<1>1. n \in Nat /\ DOMAIN ms = 1..n /\ DOMAIN ns = 1..(n + 1) /\ ns[n + 1] = m /\ \A i \in 1..n : ns[i] = ms[i]
  OBVIOUS
<1> HIDE DEF n, ns
<1>2. CASE m.e = e
  <2>1. n + 1 \in Naming(ns, e) /\ \A i \in Naming(ns, e) : i <= n + 1
    BY <1>1, <1>2 DEF Naming
  <2>2. \A i \in Naming(ns, e) : (\A j \in Naming(ns, e) : j <= i) => i = n + 1
    BY <1>1, <2>1 DEF Naming
  <2> QED
    BY <1>1, <1>2, <2>1, <2>2 DEF Says, ns
<1>3. CASE m.e # e
  <2>1. Naming(ns, e) = Naming(ms, e)
    BY <1>1, <1>3 DEF Naming
  <2>2. \A i \in Naming(ms, e) : ns[i] = ms[i]
    BY <1>1 DEF Naming
  <2> QED
    BY <1>3, <2>1, <2>2 DEF Says, ns
<1> QED
  BY <1>2, <1>3

\* A message that was read is in the source.
LEMMA SaysTail ==
    ASSUME NEW ms \in Seq(Messages), ms # << >>, NEW e \in Edges, NEW has, NEW base, NEW base2,
           Says(ms, has, e, base),
           IF Head(ms).e = e THEN base2 <=> Head(ms).typ = "attached" ELSE base2 <=> base
    PROVE  Says(Tail(ms), has, e, base2)
<1> DEFINE n == Len(ms)
           ns == Tail(ms)
<1>1. /\ n \in Nat \ {0} /\ DOMAIN ms = 1..n /\ DOMAIN ns = 1..(n - 1) /\ Head(ms) = ms[1]
      /\ \A i \in 1..(n - 1) : ns[i] = ms[i + 1]
  OBVIOUS
<1> HIDE DEF n, ns
<1>2. \A i \in DOMAIN ns : i \in Naming(ns, e) <=> i + 1 \in Naming(ms, e)
  BY <1>1 DEF Naming
<1>3. ASSUME Naming(ns, e) = {} PROVE has <=> base2
  <2>1. Naming(ms, e) \subseteq {1}
    <3> SUFFICES ASSUME NEW i \in Naming(ms, e), i # 1 PROVE FALSE
      OBVIOUS
    <3>1. i \in 1..n /\ ms[i].e = e
      BY <1>1 DEF Naming
    <3>2. i - 1 \in 1..(n - 1) /\ ns[i - 1] = ms[i]
      BY <1>1, <3>1
    <3> QED
      BY <1>1, <1>3, <3>1, <3>2 DEF Naming
  <2>2. CASE Head(ms).e = e
    <3>1. 1 \in Naming(ms, e) /\ \A j \in Naming(ms, e) : j <= 1
      BY <1>1, <2>1, <2>2 DEF Naming
    <3> QED
      BY <1>1, <2>2, <3>1 DEF Says
  <2>3. CASE Head(ms).e # e
    <3>1. Naming(ms, e) = {}
      BY <1>1, <2>1, <2>3 DEF Naming
    <3> QED
      BY <2>3, <3>1 DEF Says
  <2> QED
    BY <2>2, <2>3
<1>4. ASSUME NEW i \in Naming(ns, e), \A j \in Naming(ns, e) : j <= i PROVE has <=> ns[i].typ = "attached"
  <2>1. i \in 1..(n - 1) /\ ns[i] = ms[i + 1] /\ i + 1 \in Naming(ms, e)
    BY <1>1, <1>2 DEF Naming
  <2>2. ASSUME NEW j \in Naming(ms, e) PROVE j <= i + 1
    <3>1. j \in 1..n /\ ms[j].e = e
      BY <1>1 DEF Naming
    <3>2. CASE j = 1
      BY <2>1, <3>2
    <3>3. CASE j # 1
      <4>1. j - 1 \in 1..(n - 1) /\ ns[j - 1] = ms[j]
        BY <1>1, <3>1, <3>3
      <4>2. j - 1 \in Naming(ns, e)
        BY <1>1, <3>1, <4>1 DEF Naming
      <4> QED
        BY <1>4, <2>1, <3>1, <4>2
    <3> QED
      BY <3>2, <3>3
  <2> QED
    BY <2>1, <2>2 DEF Says
<1> QED
  BY <1>3, <1>4 DEF Says, ns

LEMMA SourceTrueSame ==
    ASSUME NEW s \in Sources, SourceTrue(s),
           conn'[s] = conn[s], stream'[s] = stream[s], plugged'[s] = plugged[s], edges'[s] = edges[s]
    PROVE  SourceTrue(s)'
<1>1. SourceTrue(s)' <=>
        (conn'[s] \in {"dialled", "listening"} =>
          \A e \in Edges : Says(stream'[s], e \in plugged'[s], e, conn'[s] = "listening" /\ e \in edges'[s]))
  BY DEF SourceTrue, Says, Naming
<1> QED
  BY <1>1 DEF SourceTrue

LEMMA SourceTrueNext ==
    ASSUME NEW s
    PROVE  SourceTrue(s)' <=>
             (conn'[s] \in {"dialled", "listening"} =>
               \A e \in Edges : Says(stream'[s], e \in plugged'[s], e, conn'[s] = "listening" /\ e \in edges'[s]))
  BY DEF SourceTrue, Says, Naming

\* What a client has read and what it will read tell what the muxer has.
LEMMA StreamStep ==
    ASSUME TypeOK, StreamTrue, [Next]_vars PROVE StreamTrue'
<1>0. MuxType /\ RegType /\ \A s \in Sources : SourceTrue(s)
  BY TypeParts, StreamParts
<1> SUFFICES ASSUME NEW r \in Sources PROVE SourceTrue(r)'
  BY StreamPartsNext
<1>1. ASSUME NEW s \in Sources, Dial(s) PROVE SourceTrue(r)'
  <2>1. PICK q \in SetToSeqs(plugged[s]) :
          stream' = [stream EXCEPT ![s] = [i \in DOMAIN q |-> [typ |-> "attached", e |-> q[i]]]]
    BY <1>1 DEF Dial
  <2>2. plugged' = plugged /\ edges' = edges /\ conn' = [conn EXCEPT ![s] = "dialled"]
    BY <1>1 DEF Dial, regVars
  <2>3. CASE r # s
    BY <1>0, <2>1, <2>2, <2>3, SourceTrueSame DEF MuxType
  <2>4. CASE r = s
    <3> DEFINE ms == [i \in DOMAIN q |-> [typ |-> "attached", e |-> q[i]]]
    <3>1. stream'[r] = ms /\ conn'[r] = "dialled" /\ plugged'[r] = plugged[s]
      BY <1>0, <2>1, <2>2, <2>4 DEF MuxType
    <3>2. q \in Seq(plugged[s]) /\ (\A x \in plugged[s] : \E i \in DOMAIN q : q[i] = x)
      BY <1>0, Replays DEF MuxType
    <3>3. DOMAIN ms = DOMAIN q /\ (\A i \in DOMAIN q : ms[i].e = q[i] /\ ms[i].typ = "attached" /\ q[i] \in plugged[s])
      BY <3>2
    <3> HIDE DEF ms
    <3>4. ASSUME NEW e \in Edges PROVE Says(ms, e \in plugged[s], e, FALSE)
      BY <3>2, <3>3 DEF Says, Naming
    <3> QED
      BY <3>1, <3>4, SourceTrueNext
  <2> QED
    BY <2>3, <2>4
<1>2. ASSUME NEW s \in Sources, Reset(s) PROVE SourceTrue(r)'
  <2>1. edges' = [edges EXCEPT ![s] = {}] /\ conn' = [conn EXCEPT ![s] = "listening"] /\ conn[s] = "dialled"
        /\ plugged' = plugged /\ stream' = stream
    BY <1>0, <1>2, ResetForm DEF Reset
  <2>2. CASE r # s
    BY <1>0, <2>1, <2>2, SourceTrueSame DEF MuxType, RegType
  <2>3. CASE r = s
    <3>1. conn'[r] = "listening" /\ edges'[r] = {} /\ plugged'[r] = plugged[r] /\ stream'[r] = stream[r]
      BY <1>0, <2>1, <2>3 DEF MuxType, RegType
    <3>2. \A e \in Edges : Says(stream[r], e \in plugged[r], e, conn[r] = "listening" /\ e \in edges[r])
      BY <1>0, <2>1, <2>3 DEF SourceTrue
    <3> QED
      BY <2>1, <2>3, <3>1, <3>2, SourceTrueNext DEF Says
  <2> QED
    BY <2>2, <2>3
<1>3. ASSUME NEW s \in Sources, Listen(s) PROVE SourceTrue(r)'
  <2> DEFINE m == Head(stream[s])
  <2>1. m.e \in Edges /\ m.typ \in {"attached", "detached"} /\ stream[s] \in Seq(Messages) /\ stream[s] # << >>
    BY <1>0, <1>3, HeadMessage DEF Listen, MuxType
  <2>2. edges' = (IF m.typ = "attached" THEN SetEdge(s, m.e) ELSE ClearEdge(s, m.e))
        /\ stream' = [stream EXCEPT ![s] = Tail(stream[s])] /\ plugged' = plugged /\ conn' = conn
    BY <1>3, <2>1 DEF Listen, Attach, Detach
  <2>3. edges' = [edges EXCEPT ![s] = IF m.typ = "attached" THEN edges[s] \cup {m.e} ELSE edges[s] \ {m.e}]
    BY <2>2 DEF SetEdge, ClearEdge
  <2>4. CASE r # s
    <3>1. edges'[r] = edges[r] /\ stream'[r] = stream[r]
      BY <1>0, <2>2, <2>3, <2>4 DEF MuxType, RegType
    <3> QED
      BY <1>0, <2>2, <3>1, SourceTrueSame
  <2>5. CASE r = s
    <3>1. edges'[s] = (IF m.typ = "attached" THEN edges[s] \cup {m.e} ELSE edges[s] \ {m.e})
          /\ stream'[s] = Tail(stream[s])
      BY <1>0, <2>2, <2>3 DEF MuxType, RegType
    <3>2. CASE conn[s] = "listening"
      <4>1. ASSUME NEW e \in Edges PROVE Says(Tail(stream[s]), e \in plugged[s], e, e \in edges'[s])
        <5>1. Says(stream[s], e \in plugged[s], e, e \in edges[s])
          BY <1>0, <3>2 DEF SourceTrue
        <5>2. IF m.e = e THEN e \in edges'[s] <=> m.typ = "attached" ELSE e \in edges'[s] <=> e \in edges[s]
          BY <2>1, <3>1
        <5> DEFINE has == e \in plugged[s]
                   base == e \in edges[s]
                   base2 == e \in edges'[s]
                   ms == stream[s]
        <5> HIDE DEF has, base, base2, ms
        <5>3. Says(Tail(ms), has, e, base2)
          BY <2>1, <5>1, <5>2, SaysTail DEF has, base, base2, ms
        <5> QED
          BY <5>3 DEF has, base2, ms
      <4> QED
        BY <2>2, <2>5, <3>1, <3>2, <4>1, SourceTrueNext
    <3>3. CASE conn[s] # "listening"
      BY <1>3, <2>2, <2>5, <3>3, SourceTrueNext DEF Listen
    <3> QED
      BY <3>2, <3>3
  <2> QED
    BY <2>4, <2>5
<1>4. ASSUME NEW s \in Sources, ListenEnds(s) PROVE SourceTrue(r)'
  <2>1. conn' = [conn EXCEPT ![s] = "down"] /\ stream' = [stream EXCEPT ![s] = << >>] /\ plugged' = plugged
        /\ edges' = edges
    BY <1>4 DEF ListenEnds, regVars
  <2>2. CASE r # s
    BY <1>0, <2>1, <2>2, SourceTrueSame DEF MuxType
  <2>3. CASE r = s
    BY <1>0, <2>1, <2>3, SourceTrueNext DEF MuxType
  <2> QED
    BY <2>2, <2>3
<1>5. ASSUME NEW s \in Sources, Break(s) PROVE SourceTrue(r)'
  <2>1. conn' = [conn EXCEPT ![s] = "broken"] /\ stream' = stream /\ plugged' = plugged /\ edges' = edges
    BY <1>5 DEF Break, regVars
  <2>2. CASE r # s
    BY <1>0, <2>1, <2>2, SourceTrueSame DEF MuxType
  <2>3. CASE r = s
    BY <1>0, <2>1, <2>3, SourceTrueNext DEF MuxType
  <2> QED
    BY <2>2, <2>3
<1>6. ASSUME NEW s \in Sources, NEW d \in reach[s], Plug(s, d) PROVE SourceTrue(r)'
  <2> DEFINE m == [typ |-> IF d \in plugged[s] THEN "detached" ELSE "attached", e |-> d]
             now == IF d \in plugged[s] THEN plugged[s] \ {d} ELSE plugged[s] \cup {d}
  <2>1. plugged' = [plugged EXCEPT ![s] = now] /\ conn' = conn /\ edges' = edges
        /\ stream' = IF conn[s] \in {"dialled", "listening"}
                     THEN [stream EXCEPT ![s] = Append(stream[s], m)] ELSE stream
    BY <1>6 DEF Plug, regVars
  <2>2. d \in Edges
    BY <1>6, TypeParts, PresenceAssumption DEF SceneType, Edges, Transports
  <2>3. m \in Messages /\ m.e = d /\ (m.typ = "attached" <=> d \notin plugged[s])
    BY <2>2 DEF Messages
  <2>4. CASE r # s
    <3>1. plugged'[r] = plugged[r] /\ stream'[r] = stream[r]
      BY <1>0, <2>1, <2>4 DEF MuxType
    <3> QED
      BY <1>0, <2>1, <3>1, SourceTrueSame
  <2>5. CASE r = s /\ conn[s] \in {"dialled", "listening"}
    <3>1. plugged'[s] = now /\ stream'[s] = Append(stream[s], m) /\ stream[s] \in Seq(Messages)
      BY <1>0, <2>1, <2>5 DEF MuxType
    <3>2. ASSUME NEW e \in Edges
          PROVE  Says(Append(stream[s], m), e \in now, e, conn[s] = "listening" /\ e \in edges[s])
      <4>1. Says(stream[s], e \in plugged[s], e, conn[s] = "listening" /\ e \in edges[s])
        BY <1>0, <2>5 DEF SourceTrue
      <4>2. IF m.e = e THEN e \in now <=> m.typ = "attached" ELSE e \in now <=> e \in plugged[s]
        BY <2>3
      <4> DEFINE has == e \in plugged[s]
                 has2 == e \in now
                 base == conn[s] = "listening" /\ e \in edges[s]
                 ms == stream[s]
      <4>3. Says(ms, has, e, base) /\ (IF m.e = e THEN has2 <=> m.typ = "attached" ELSE has2 <=> has)
            /\ ms \in Seq(Messages) /\ m \in Messages
        BY <2>3, <3>1, <4>1, <4>2
      <4> HIDE DEF has, has2, base, ms, m, now
      <4>4. Says(Append(ms, m), has2, e, base)
        BY <4>3, SaysAppend
      <4> QED
        BY <4>4 DEF has2, base, ms
    <3> HIDE DEF m, now
    <3> QED
      BY <2>1, <2>5, <3>1, <3>2, SourceTrueNext
  <2>6. CASE r = s /\ conn[s] \notin {"dialled", "listening"}
    BY <2>1, <2>6, SourceTrueNext
  <2> QED
    BY <2>4, <2>5, <2>6
<1>7. ASSUME UNCHANGED <<plugged, conn, stream, edges>> PROVE SourceTrue(r)'
  BY <1>0, <1>7, SourceTrueSame
<1> QED
  BY <1>1, <1>2, <1>3, <1>4, <1>5, <1>6, <1>7
     DEF Next, Steps, Client, Update, VersionsChange, Publish, Connect, FetchDevices, FetchFails,
         Refreshed, Deliver, DropSlow, SocketBreaks, vars, muxVars, regVars

-----------------------------------------------------------------------------
(* What a queue of events does to one device's card                        *)

\* The transports the events of u name.
Named(evs, u) == {evs[i].t : i \in About(evs, u)}

\* The card of u in this store is what these events make of it already.
Absorbs(dev, evs, u) ==
    /\ Replayed(dev, evs)[u] = dev[u]
    /\ Detaches(evs, u) => \A t \in Named(evs, u) : t \notin dev[u].t

\* Two queues do the same to the card of u.
Alike(a, b, u) ==
    /\ \A dev \in Stores : Replayed(dev, a)[u] = Replayed(dev, b)[u]
    /\ Detaches(a, u) <=> Detaches(b, u)
    /\ Named(a, u) = Named(b, u)

\* These events make the new card of u of the old one: the last word is an
\* event that gives it, or they take away just what is gone.
Tells(evs, u, old, new) ==
    \/ ~Detaches(evs, u) /\ \A dev \in Stores : Replayed(dev, evs)[u] = new
    \/ /\ Detaches(evs, u) /\ new = Taken(old, Named(evs, u)) /\ new.t \subseteq old.t
       /\ \A t \in Named(evs, u) : t \notin new.t
       /\ Named(evs, u) # {} /\ new.listed => new.t # {}

LEMMA ConcatEvents ==
    ASSUME NEW a \in Seq(Events), NEW b \in Seq(Events), NEW u
    PROVE  /\ a \o b \in Seq(Events)
           /\ Detaches(a \o b, u) <=> Detaches(a, u) /\ Detaches(b, u)
           /\ Named(a \o b, u) = Named(a, u) \cup Named(b, u)
<1> DEFINE m == Len(a)
           k == Len(b)
           c == a \o b
<1>1. /\ m \in Nat /\ k \in Nat /\ c \in Seq(Events)
      /\ DOMAIN a = 1..m /\ DOMAIN b = 1..k /\ DOMAIN c = 1..(m + k)
      /\ (\A i \in 1..m : c[i] = a[i]) /\ (\A i \in 1..k : c[m + i] = b[i])
  OBVIOUS
<1> HIDE DEF m, k, c
<1>2. ASSUME NEW i \in About(a, u) PROVE i \in About(c, u) /\ c[i] = a[i]
  BY <1>1 DEF About
<1>3. ASSUME NEW i \in About(b, u) PROVE m + i \in About(c, u) /\ c[m + i] = b[i]
  BY <1>1 DEF About
<1>4. ASSUME NEW i \in About(c, u)
      PROVE  (\E j \in About(a, u) : c[i] = a[j]) \/ (\E j \in About(b, u) : c[i] = b[j])
  <2>1. CASE i \in 1..m
    BY <1>1, <2>1 DEF About
  <2>2. CASE i \notin 1..m
    <3>1. i - m \in 1..k /\ m + (i - m) = i
      BY <1>1, <2>2 DEF About
    <3>2. c[i] = b[i - m]
      BY <1>1, <3>1
    <3> QED
      BY <1>1, <3>1, <3>2 DEF About
  <2> QED
    BY <2>1, <2>2
<1>5. Detaches(c, u) <=> Detaches(a, u) /\ Detaches(b, u)
  BY <1>2, <1>3, <1>4 DEF Detaches
<1>6. Named(c, u) = Named(a, u) \cup Named(b, u)
  BY <1>2, <1>3, <1>4 DEF Named
<1> QED
  BY <1>1, <1>5, <1>6 DEF c

LEMMA NoEvents ==
    ASSUME NEW u PROVE << >> \in Seq(Events) /\ About(<< >>, u) = {} /\ Detaches(<< >>, u) /\ Named(<< >>, u) = {}
  BY DEF About, Detaches, Named

LEMMA SilentNames ==
    ASSUME NEW a, NEW u, About(a, u) = {} PROVE Detaches(a, u) /\ Named(a, u) = {}
  BY DEF Detaches, Named

LEMMA NamedNone ==
    ASSUME NEW a, NEW u, Named(a, u) = {} PROVE About(a, u) = {}
  BY DEF Named

LEMMA TakenNone == ASSUME NEW v PROVE Taken(v, {}) = v
  BY DEF Taken

\* Events of other devices do nothing to this one.
LEMMA SilentReplay ==
    ASSUME NEW a \in Seq(Events), NEW u \in Udids, About(a, u) = {}, NEW dev \in Stores
    PROVE  Replayed(dev, a)[u] = dev[u]
<1>1. Detaches(a, u) /\ Named(a, u) = {}
  BY SilentNames
<1>2. Replayed(dev, a)[u] = Taken(dev[u], Named(a, u))
  BY <1>1, ReplayTaken DEF Named
<1> QED
  BY <1>1, <1>2, TakenNone

LEMMA AlikeConcat ==
    ASSUME NEW a \in Seq(Events), NEW b \in Seq(Events), NEW c \in Seq(Events), NEW d \in Seq(Events),
           NEW u \in Udids, Alike(a, b, u), Alike(c, d, u)
    PROVE  Alike(a \o c, b \o d, u)
<1>1. ASSUME NEW dev \in Stores PROVE Replayed(dev, a \o c)[u] = Replayed(dev, b \o d)[u]
  <2> DEFINE x == Replayed(dev, a)
             y == Replayed(dev, b)
  <2>1. x \in Stores /\ y \in Stores /\ x[u] = y[u]
    BY ReplayType DEF Alike
  <2>2. Replayed(dev, a \o c) = Replayed(x, c) /\ Replayed(dev, b \o d) = Replayed(y, d)
    BY ReplayConcat
  <2> HIDE DEF x, y
  <2>3. Replayed(x, c)[u] = Replayed(y, c)[u]
    BY <2>1, ReplayLocal
  <2>4. Replayed(y, c)[u] = Replayed(y, d)[u]
    BY <2>1 DEF Alike
  <2> QED
    BY <2>2, <2>3, <2>4
<1>2. (Detaches(a \o c, u) <=> Detaches(b \o d, u)) /\ Named(a \o c, u) = Named(b \o d, u)
  <2>1. (Detaches(a \o c, u) <=> Detaches(a, u) /\ Detaches(c, u)) /\ Named(a \o c, u) = Named(a, u) \cup Named(c, u)
    BY ConcatEvents
  <2>2. (Detaches(b \o d, u) <=> Detaches(b, u) /\ Detaches(d, u)) /\ Named(b \o d, u) = Named(b, u) \cup Named(d, u)
    BY ConcatEvents
  <2> QED
    BY <2>1, <2>2 DEF Alike
<1> QED
  BY <1>1, <1>2 DEF Alike

LEMMA AlikeSelf == ASSUME NEW a, NEW u PROVE Alike(a, a, u)
  BY DEF Alike

\* A queue without events of u is no queue to it.
LEMMA AlikeSilent ==
    ASSUME NEW a \in Seq(Events), NEW b \in Seq(Events), NEW u \in Udids, About(a, u) = {}, About(b, u) = {}
    PROVE  Alike(a, b, u)
<1>1. Detaches(a, u) /\ Detaches(b, u) /\ Named(a, u) = {} /\ Named(b, u) = {}
  BY SilentNames
<1>2. \A dev \in Stores : Replayed(dev, a)[u] = Replayed(dev, b)[u]
  BY SilentReplay
<1> QED
  BY <1>1, <1>2 DEF Alike

LEMMA AlikeAbsorbs ==
    ASSUME NEW dev \in Stores, NEW a, NEW b, NEW u, Alike(a, b, u), Absorbs(dev, a, u)
    PROVE  Absorbs(dev, b, u)
  BY DEF Alike, Absorbs

\* Absorbing looks at the card of u alone.
LEMMA AbsorbsLocal ==
    ASSUME NEW dev \in Stores, NEW dev2 \in Stores, NEW a \in Seq(Events), NEW u \in Udids,
           dev[u] = dev2[u], Absorbs(dev, a, u)
    PROVE  Absorbs(dev2, a, u)
<1>1. Replayed(dev, a)[u] = Replayed(dev2, a)[u]
  BY ReplayLocal
<1> QED
  BY <1>1 DEF Absorbs

\* Taking away what is not there changes a card only if it shows nothing.
LEMMA TakenAbsent ==
    ASSUME NEW v \in Views, NEW ts, \A t \in ts : t \notin v.t
    PROVE  /\ ts = {} \/ ~v.listed \/ v.t # {} => Taken(v, ts) = v
           /\ Taken(v, ts) = v => ts = {} \/ ~v.listed \/ v.t # {}
<1>1. v.t \ ts = v.t
  OBVIOUS
<1>2. v = [listed |-> v.listed, t |-> v.t] /\ v.listed \in BOOLEAN
  BY DEF Views
<1>3. ASSUME v.listed, v.t # {} PROVE [listed |-> TRUE, t |-> v.t] = v
  <2>1. v.listed = TRUE
    BY <1>2, <1>3
  <2> QED
    BY <1>2, <2>1
<1>4. ts = {} \/ ~v.listed \/ v.t # {} => Taken(v, ts) = v
  BY <1>1, <1>3 DEF Taken
<1>5. ASSUME ts # {}, v.listed, v.t = {} PROVE Taken(v, ts) # v
  <2>1. Taken(v, ts) = Hidden
    BY <1>1, <1>5 DEF Taken
  <2>2. Hidden.listed = FALSE
    BY DEF Hidden
  <2> QED
    BY <1>5, <2>1, <2>2
<1> QED
  BY <1>4, <1>5

\* What brings a page to the old card brings it, with these events, to the new.
LEMMA TellsReaches ==
    ASSUME NEW dev \in Stores, NEW z \in Seq(Events), NEW evs \in Seq(Events), NEW u \in Udids, NEW new,
           Tells(evs, u, Replayed(dev, z)[u], new)
    PROVE  Replayed(dev, z \o evs)[u] = new
<1> DEFINE x == Replayed(dev, z)
<1>1. x \in Stores /\ Replayed(dev, z \o evs) = Replayed(x, evs)
  BY ReplayType, ReplayConcat
<1>2. Tells(evs, u, x[u], new)
  OBVIOUS
<1> HIDE DEF x
<1>3. CASE ~Detaches(evs, u) /\ \A d \in Stores : Replayed(d, evs)[u] = new
  BY <1>1, <1>3
<1>4. CASE Detaches(evs, u) /\ new = Taken(x[u], Named(evs, u))
  <2>1. Replayed(x, evs)[u] = Taken(x[u], Named(evs, u))
    BY <1>1, <1>4, ReplayTaken DEF Named
  <2> QED
    BY <1>1, <1>4, <2>1
<1> QED
  BY <1>2, <1>3, <1>4 DEF Tells

\* What the old list absorbs, with these events, the new one does.
LEMMA TellsAbsorbs ==
    ASSUME NEW dev \in Stores, NEW dev2 \in Stores, NEW z \in Seq(Events), NEW evs \in Seq(Events), NEW u \in Udids,
           Absorbs(dev, z, u), Tells(evs, u, dev[u], dev2[u])
    PROVE  Absorbs(dev2, z \o evs, u)
<1>0. dev[u] \in Views /\ dev2[u] \in Views
  BY DEF Stores
<1> DEFINE x == Replayed(dev2, z)
           old == dev[u]
           new == dev2[u]
<1>1. x \in Stores /\ Replayed(dev2, z \o evs) = Replayed(x, evs)
  BY ReplayType, ReplayConcat
<1>2. (Detaches(z \o evs, u) <=> Detaches(z, u) /\ Detaches(evs, u))
      /\ Named(z \o evs, u) = Named(z, u) \cup Named(evs, u)
  BY ConcatEvents
<1>3. CASE ~Detaches(evs, u) /\ \A d \in Stores : Replayed(d, evs)[u] = new
  BY <1>1, <1>2, <1>3 DEF Absorbs
<1>4. CASE /\ Detaches(evs, u) /\ new = Taken(old, Named(evs, u)) /\ new.t \subseteq old.t
           /\ \A t \in Named(evs, u) : t \notin new.t
           /\ Named(evs, u) # {} /\ new.listed => new.t # {}
  <2>1. Replayed(x, evs)[u] = Taken(x[u], Named(evs, u))
    <3> HIDE DEF x
    <3> QED
      BY <1>1, <1>4, ReplayTaken DEF Named
  <2>2. CASE ~Detaches(z, u)
    <3>1. x[u] = old
      BY <2>2, ReplayLocal DEF Absorbs
    <3> QED
      BY <1>1, <1>2, <1>4, <2>1, <2>2, <3>1 DEF Absorbs
  <2>3. CASE Detaches(z, u)
    <3>1. \A t \in Named(z, u) : t \notin old.t /\ t \notin new.t
      BY <1>4, <2>3 DEF Absorbs
    <3>2. x[u] = Taken(new, Named(z, u)) /\ Taken(old, Named(z, u)) = old
      BY <2>3, ReplayTaken DEF Named, Absorbs
    <3>3. Named(z, u) = {} \/ ~new.listed \/ new.t # {}
      <4>1. Named(z, u) = {} \/ ~old.listed \/ old.t # {}
        BY <1>0, <3>1, <3>2, TakenAbsent
      <4>2. CASE Named(evs, u) = {}
        BY <1>4, <4>1, <4>2, TakenNone
      <4>3. CASE Named(evs, u) # {}
        BY <1>4, <4>3
      <4> QED
        BY <4>2, <4>3
    <3>4. Taken(new, Named(z, u)) = new
      BY <1>0, <3>1, <3>3, TakenAbsent
    <3>5. Taken(new, Named(evs, u)) = new
      <4>1. Named(evs, u) = {} \/ ~new.listed \/ new.t # {}
        BY <1>4
      <4>2. \A t \in Named(evs, u) : t \notin new.t
        BY <1>4
      <4> HIDE DEF new, old
      <4> QED
        BY <1>0, <4>1, <4>2, TakenAbsent DEF new
    <3>6. Replayed(dev2, z \o evs)[u] = new
      BY <1>1, <2>1, <3>2, <3>4, <3>5
    <3> QED
      BY <1>2, <1>4, <3>1, <3>6 DEF Absorbs
  <2> QED
    BY <2>2, <2>3
<1> QED
  BY <1>3, <1>4 DEF Tells

-----------------------------------------------------------------------------
(* What is on its way to the page                                          *)

Subs == [open : BOOLEAN, buf : Seq(Events), dropped : BOOLEAN]
Pages == [at : PageStates, dev : Stores, snap : Stores, queued : Seq(Events)]

\* OnItsWay and one device's part of EventsTrue, of given queues, page and list.
Bound(pg, b, evs, list, u) ==
    /\ pg.at = "hello" => Absorbs(list, pg.queued \o (b \o evs), u)
    /\ pg.at = "asked" => Replayed(pg.snap, pg.queued \o (b \o evs))[u] = list[u]
    /\ pg.at = "live" => Replayed(pg.dev, b \o evs)[u] = list[u]

Silent(pd, u, Q) == \A q \in Q : About(pd[q], u) = {}

Settled(pd, sb, pg, list, u) ==
    /\ \A p, q \in Publishers : About(pd[p], u) # {} /\ About(pd[q], u) # {} => p = q
    /\ \A p \in Publishers : Silent(pd, u, Publishers \ {p}) =>
          Absorbs(list, pd[p], u) /\ (~sb.dropped => Bound(pg, sb.buf, pd[p], list, u))

LEMMA EventsParts ==
    TypeOK => (EventsTrue <=> \A u \in Udids \ raced : Settled(pend, sub, page, List, u))
<1> SUFFICES ASSUME TypeOK PROVE EventsTrue <=> \A u \in Udids \ raced : Settled(pend, sub, page, List, u)
  OBVIOUS
<1>1. ASSUME NEW u \in Udids, NEW evs PROVE Absorbed(evs, u) <=> Absorbs(List, evs, u)
  <2>1. List[u] = Shown(u)
    BY DEF List
  <2> QED
    BY <2>1 DEF Absorbed, Absorbs, List, Named
<1>2. ASSUME NEW u \in Udids, NEW p \in Publishers
      PROVE  OnItsWay(p, u) <=> Bound(page, sub.buf, pend[p], List, u)
  <2>1. page.at \in PageStates /\ List[u] = Shown(u)
    BY TypeParts, PageTypes DEF List
  <2> QED
    BY <1>1, <2>1 DEF OnItsWay, Bound
<1>3. ASSUME NEW u \in Udids, NEW p \in Publishers
      PROVE  Alone(p, u) <=> Silent(pend, u, Publishers \ {p})
  BY DEF Alone, Silent, Carries
<1> QED
  BY <1>1, <1>2, <1>3 DEF EventsTrue, Settled, Carries

LEMMA EventsPartsNext ==
    TypeOK' => (EventsTrue' <=> \A u \in Udids \ raced' : Settled(pend', sub', page', List', u))
<1> SUFFICES ASSUME TypeOK' PROVE EventsTrue' <=> \A u \in Udids \ raced' : Settled(pend', sub', page', List', u)
  OBVIOUS
<1>1. ASSUME NEW u \in Udids, NEW CONSTANT evs PROVE Absorbed(evs, u)' <=> Absorbs(List', evs, u)
  <2>1. List'[u] = Shown(u)'
    BY DEF List
  <2> QED
    BY <2>1 DEF Absorbed, Absorbs, List, Named
<1>2. ASSUME NEW u \in Udids, NEW p \in Publishers
      PROVE  /\ OnItsWay(p, u)' <=> Bound(page', sub'.buf, pend'[p], List', u)
             /\ Absorbed(pend[p], u)' <=> Absorbs(List', pend'[p], u)
  <2>1. page'.at \in PageStates /\ List'[u] = Shown(u)'
    <3>1. PageType'
      BY TypePartsNext
    <3> QED
      BY <3>1 DEF PageType, List
  <2>2. Absorbed(page.queued \o (sub.buf \o pend[p]), u)' <=> Absorbs(List', page'.queued \o (sub'.buf \o pend'[p]), u)
    BY <2>1 DEF Absorbed, Absorbs, List, Named
  <2>3. Absorbed(pend[p], u)' <=> Absorbs(List', pend'[p], u)
    BY <2>1 DEF Absorbed, Absorbs, List, Named
  <2> QED
    BY <2>1, <2>2, <2>3 DEF OnItsWay, Bound
<1>3. ASSUME NEW u \in Udids, NEW p \in Publishers
      PROVE  Alone(p, u)' <=> Silent(pend', u, Publishers \ {p})
  BY DEF Alone, Silent, Carries
<1> QED
  BY <1>2, <1>3 DEF EventsTrue, Settled, Carries

LEMMA SeqAssoc ==
    ASSUME NEW a \in Seq(Events), NEW b \in Seq(Events), NEW c \in Seq(Events)
    PROVE  a \o (b \o c) = (a \o b) \o c
  OBVIOUS

LEMMA SeqIdentity ==
    ASSUME NEW a \in Seq(Events) PROVE << >> \o a = a /\ a \o << >> = a
  OBVIOUS

\* Two queues alike bring the page to the same card.
LEMMA BoundAlike ==
    ASSUME NEW pg \in Pages, NEW b \in Seq(Events), NEW b2 \in Seq(Events), NEW evs \in Seq(Events),
           NEW evs2 \in Seq(Events), NEW list \in Stores, NEW u \in Udids,
           Alike(b \o evs, b2 \o evs2, u), Bound(pg, b, evs, list, u)
    PROVE  Bound(pg, b2, evs2, list, u)
<1> DEFINE x == b \o evs
           y == b2 \o evs2
<1>1. x \in Seq(Events) /\ y \in Seq(Events) /\ pg.queued \in Seq(Events) /\ pg.snap \in Stores /\ pg.dev \in Stores
  BY DEF Pages
<1>2. Alike(x, y, u)
  OBVIOUS
<1>3. Bound(pg, b, evs, list, u) <=>
        /\ pg.at = "hello" => Absorbs(list, pg.queued \o x, u)
        /\ pg.at = "asked" => Replayed(pg.snap, pg.queued \o x)[u] = list[u]
        /\ pg.at = "live" => Replayed(pg.dev, x)[u] = list[u]
  BY DEF Bound
<1>4. Bound(pg, b2, evs2, list, u) <=>
        /\ pg.at = "hello" => Absorbs(list, pg.queued \o y, u)
        /\ pg.at = "asked" => Replayed(pg.snap, pg.queued \o y)[u] = list[u]
        /\ pg.at = "live" => Replayed(pg.dev, y)[u] = list[u]
  BY DEF Bound
<1> HIDE DEF x, y
<1>5. Alike(pg.queued \o x, pg.queued \o y, u)
  BY <1>1, <1>2, AlikeConcat, AlikeSelf
<1>6. Absorbs(list, pg.queued \o x, u) => Absorbs(list, pg.queued \o y, u)
  BY <1>5, AlikeAbsorbs
<1>7. Replayed(pg.snap, pg.queued \o x)[u] = Replayed(pg.snap, pg.queued \o y)[u]
  BY <1>1, <1>5 DEF Alike
<1>8. Replayed(pg.dev, x)[u] = Replayed(pg.dev, y)[u]
  BY <1>1, <1>2 DEF Alike
<1> QED
  BY <1>3, <1>4, <1>6, <1>7, <1>8

\* What is on its way is about the card of u alone.
LEMMA BoundLocal ==
    ASSUME NEW pg \in Pages, NEW b \in Seq(Events), NEW evs \in Seq(Events), NEW list \in Stores, NEW list2 \in Stores,
           NEW u \in Udids, list[u] = list2[u], Bound(pg, b, evs, list, u)
    PROVE  Bound(pg, b, evs, list2, u)
<1>1. pg.queued \o (b \o evs) \in Seq(Events)
  BY DEF Pages
<1> QED
  BY <1>1, AbsorbsLocal DEF Bound

\* New events take the page from the old card to the new one.
LEMMA BoundTells ==
    ASSUME NEW pg \in Pages, NEW b \in Seq(Events), NEW evs \in Seq(Events), NEW list \in Stores, NEW list2 \in Stores,
           NEW u \in Udids, Bound(pg, b, << >>, list, u), Tells(evs, u, list[u], list2[u])
    PROVE  Bound(pg, b, evs, list2, u)
<1>1. pg.queued \in Seq(Events) /\ pg.snap \in Stores /\ pg.dev \in Stores
  BY DEF Pages
<1>2. b \o << >> = b
  BY SeqIdentity
<1> DEFINE z == pg.queued \o b
<1>3. pg.queued \o (b \o evs) = z \o evs /\ z \in Seq(Events)
  <2>1. PICK k \in Seq(Events) : k = pg.queued
    BY <1>1
  <2>2. k \o (b \o evs) = (k \o b) \o evs /\ k \o b \in Seq(Events)
    BY SeqAssoc
  <2> QED
    BY <2>1, <2>2
<1>4. ASSUME pg.at = "hello" PROVE Absorbs(list2, z \o evs, u)
  <2>1. Absorbs(list, z, u)
    BY <1>2, <1>4 DEF Bound
  <2> HIDE DEF z
  <2> QED
    BY <1>3, <2>1, TellsAbsorbs
<1>5. ASSUME pg.at = "asked" PROVE Replayed(pg.snap, z \o evs)[u] = list2[u]
  <2>1. Replayed(pg.snap, z)[u] = list[u]
    BY <1>2, <1>5 DEF Bound
  <2> DEFINE sn == pg.snap
             new == list2[u]
  <2>2. Tells(evs, u, Replayed(sn, z)[u], new) /\ sn \in Stores /\ z \in Seq(Events)
    BY <1>1, <1>3, <2>1
  <2> HIDE DEF z, sn, new
  <2>3. Replayed(sn, z \o evs)[u] = new
    BY <2>2, TellsReaches
  <2> QED
    BY <2>3 DEF sn, new
<1>6. ASSUME pg.at = "live" PROVE Replayed(pg.dev, b \o evs)[u] = list2[u]
  <2>1. Replayed(pg.dev, b)[u] = list[u]
    BY <1>2, <1>6 DEF Bound
  <2> QED
    BY <1>1, <2>1, TellsReaches
<1> QED
  BY <1>3, <1>4, <1>5, <1>6 DEF Bound

Queues == [Publishers -> Seq(Events)]

\* The card of u is what it was.
LEMMA SettledQuiet ==
    ASSUME NEW pd \in Queues, NEW sb \in Subs, NEW pg \in Pages, NEW list \in Stores, NEW list2 \in Stores,
           NEW u \in Udids, list[u] = list2[u], Settled(pd, sb, pg, list, u)
    PROVE  Settled(pd, sb, pg, list2, u)
<1>1. sb.buf \in Seq(Events) /\ \A p \in Publishers : pd[p] \in Seq(Events)
  BY DEF Subs, Queues
<1>2. ASSUME NEW p \in Publishers, Silent(pd, u, Publishers \ {p})
      PROVE  Absorbs(list2, pd[p], u) /\ (~sb.dropped => Bound(pg, sb.buf, pd[p], list2, u))
  <2> DEFINE b == sb.buf
             evs == pd[p]
  <2>1. Absorbs(list, evs, u) /\ (~sb.dropped => Bound(pg, b, evs, list, u)) /\ evs \in Seq(Events) /\ b \in Seq(Events)
    BY <1>1, <1>2 DEF Settled
  <2> HIDE DEF b, evs
  <2>2. Absorbs(list2, evs, u)
    BY <2>1, AbsorbsLocal
  <2>3. ~sb.dropped => Bound(pg, b, evs, list2, u)
    BY <2>1, BoundLocal
  <2> QED
    BY <2>2, <2>3 DEF b, evs
<1> QED
  BY <1>2 DEF Settled

\* A goroutine that had nothing to publish collects what happened to u, and
\* nobody else holds events of u.
LEMMA SettledCollect ==
    ASSUME NEW pd \in Queues, NEW sb \in Subs, NEW pg \in Pages, NEW list \in Stores, NEW list2 \in Stores,
           NEW u \in Udids, NEW p \in Publishers, NEW evs \in Seq(Events), NEW pd2,
           pd[p] = << >>, pd2 = [pd EXCEPT ![p] = evs],
           About(evs, u) # {} => Silent(pd, u, Publishers \ {p}),
           Tells(evs, u, list[u], list2[u]), Settled(pd, sb, pg, list, u)
    PROVE  Settled(pd2, sb, pg, list2, u)
<1>1. sb.buf \in Seq(Events) /\ (\A q \in Publishers : pd[q] \in Seq(Events)) /\ pd2[p] = evs
      /\ \A q \in Publishers \ {p} : pd2[q] = pd[q]
  BY DEF Subs, Queues
<1> DEFINE b == sb.buf
<1>2. CASE About(evs, u) # {}
  <2>1. Silent(pd, u, Publishers \ {p}) /\ Silent(pd2, u, Publishers \ {p})
    BY <1>1, <1>2 DEF Silent
  <2>2. \A q \in Publishers : About(pd2[q], u) # {} => q = p
    BY <2>1 DEF Silent
  <2>3. ASSUME NEW q \in Publishers, Silent(pd2, u, Publishers \ {q}) PROVE q = p
    BY <1>1, <1>2, <2>3 DEF Silent
  <2>4. Absorbs(list, << >>, u) /\ (~sb.dropped => Bound(pg, b, << >>, list, u))
    BY <2>1 DEF Settled
  <2> HIDE DEF b
  <2>5. Absorbs(list2, << >> \o evs, u)
    BY <2>4, NoEvents, TellsAbsorbs
  <2>6. ~sb.dropped => Bound(pg, b, evs, list2, u)
    BY <1>1, <2>4, BoundTells DEF b
  <2>7. << >> \o evs = evs
    BY SeqIdentity
  <2> QED
    BY <1>1, <2>2, <2>3, <2>5, <2>6, <2>7 DEF Settled, b
<1>3. CASE About(evs, u) = {}
  <2>1. Detaches(evs, u) /\ Named(evs, u) = {}
    BY <1>3, SilentNames
  <2>2. list2[u] = list[u]
    BY <2>1, TakenNone DEF Tells
  <2>3. Settled(pd, sb, pg, list2, u)
    BY <2>2, SettledQuiet
  <2>4. About(<< >>, u) = {}
    BY NoEvents
  <2>5. \A q \in Publishers : About(pd2[q], u) = About(pd[q], u)
    BY <1>1, <1>3, <2>4
  <2>6. \A q \in Publishers : Silent(pd2, u, Publishers \ {q}) <=> Silent(pd, u, Publishers \ {q})
    BY <2>5 DEF Silent
  <2>7. ASSUME NEW q \in Publishers, Silent(pd2, u, Publishers \ {q})
        PROVE  Absorbs(list2, pd2[q], u) /\ (~sb.dropped => Bound(pg, sb.buf, pd2[q], list2, u))
    <3>1. Absorbs(list2, pd[q], u) /\ (~sb.dropped => Bound(pg, sb.buf, pd[q], list2, u))
      BY <2>3, <2>6, <2>7 DEF Settled
    <3>2. CASE q # p
      BY <1>1, <3>1, <3>2
    <3>3. CASE q = p
      <4>1. Alike(<< >>, evs, u)
        BY <1>3, NoEvents, AlikeSilent
      <4>2. Absorbs(list2, evs, u)
        BY <3>1, <3>3, <4>1, AlikeAbsorbs
      <4>3. Alike(b \o << >>, b \o evs, u)
        <5> HIDE DEF b
        <5> QED
          BY <1>1, <4>1, NoEvents, AlikeSelf, AlikeConcat DEF b
      <4>4. ~sb.dropped => Bound(pg, b, << >>, list2, u)
        BY <3>1, <3>3
      <4>5. b \in Seq(Events)
        BY <1>1
      <4> HIDE DEF b
      <4>6. ~sb.dropped => Bound(pg, b, evs, list2, u)
        BY <4>3, <4>4, <4>5, NoEvents, BoundAlike
      <4> QED
        BY <1>1, <3>3, <4>2, <4>6 DEF b
    <3> QED
      BY <3>2, <3>3
  <2>8. \A q, r \in Publishers : About(pd2[q], u) # {} /\ About(pd2[r], u) # {} => q = r
    BY <2>3, <2>5 DEF Settled
  <2> QED
    BY <2>7, <2>8 DEF Settled
<1> QED
  BY <1>2, <1>3

\* Only an offline shell or an update stands behind other events.
Shaped(evs) == \A i, j \in DOMAIN evs : i < j /\ evs[j].typ = "detached" => evs[i].typ = "detached"

LEMMA SeqSplit ==
    ASSUME NEW a \in Seq(Events), a # << >>
    PROVE  /\ Head(a) \in Events /\ Tail(a) \in Seq(Events) /\ <<Head(a)>> \in Seq(Events)
           /\ a = <<Head(a)>> \o Tail(a)
           /\ Len(a) \in Nat \ {0} /\ DOMAIN a = 1..Len(a) /\ DOMAIN Tail(a) = 1..(Len(a) - 1)
           /\ a[1] = Head(a) /\ \A i \in 1..(Len(a) - 1) : Tail(a)[i] = a[i + 1]
  OBVIOUS

\* The list absorbs what is left when the first event has been published.
LEMMA AbsorbsTail ==
    ASSUME NEW list \in Stores, NEW a \in Seq(Events), a # << >>, NEW u \in Udids, Shaped(a), Absorbs(list, a, u)
    PROVE  Absorbs(list, Tail(a), u)
<1> DEFINE h == <<Head(a)>>
           r == Tail(a)
<1>1. h \in Seq(Events) /\ r \in Seq(Events) /\ a = h \o r
  BY SeqSplit
<1>2. (Detaches(a, u) <=> Detaches(h, u) /\ Detaches(r, u)) /\ Named(a, u) = Named(h, u) \cup Named(r, u)
  <2> HIDE DEF h, r
  <2> QED
    BY <1>1, ConcatEvents
<1>3. CASE About(r, u) = {}
  <2>1. Replayed(list, r)[u] = list[u] /\ Named(r, u) = {}
    BY <1>1, <1>3, SilentReplay, SilentNames
  <2> QED
    BY <2>1 DEF Absorbs
<1>4. CASE ~Detaches(r, u)
  <2> DEFINE x == Replayed(list, h)
  <2>1. x \in Stores /\ Replayed(list, a) = Replayed(x, r)
    <3>1. Replayed(list, h \o r) = Replayed(x, r) /\ x \in Stores
      <4> HIDE DEF h, r
      <4> QED
        BY <1>1, ReplayType, ReplayConcat
    <3> QED
      BY <1>1, <3>1
  <2> HIDE DEF x
  <2>2. Replayed(list, r)[u] = Replayed(x, r)[u]
    BY <1>1, <1>4, <2>1, ReplayLocal
  <2> QED
    BY <1>4, <2>1, <2>2 DEF Absorbs
<1>5. CASE About(r, u) # {} /\ Detaches(r, u)
  <2>1. Detaches(h, u)
    <3>1. PICK i \in About(r, u) : r[i].typ = "detached"
      BY <1>5 DEF Detaches
    <3>2. i + 1 \in DOMAIN a /\ 1 \in DOMAIN a /\ a[i + 1] = r[i] /\ 1 < i + 1 /\ a[1] = Head(a)
      BY SeqSplit DEF About
    <3>3. Head(a).typ = "detached"
      BY <3>1, <3>2 DEF Shaped
    <3> QED
      BY <3>3 DEF Detaches, About
  <2>2. \A t \in Named(a, u) : t \notin list[u].t
    BY <1>2, <1>5, <2>1 DEF Absorbs
  <2>3. Taken(list[u], Named(a, u)) = list[u]
    BY <1>2, <1>5, <2>1, ReplayTaken DEF Absorbs, Named
  <2>4. list[u] \in Views /\ Named(r, u) \subseteq Named(a, u) /\ Named(a, u) # {}
    <3>1. Named(r, u) # {}
      BY <1>5, NamedNone
    <3> QED
      BY <1>2, <3>1 DEF Stores
  <2>5. ~list[u].listed \/ list[u].t # {}
    BY <2>2, <2>3, <2>4, TakenAbsent
  <2>6. Taken(list[u], Named(r, u)) = list[u]
    BY <2>2, <2>4, <2>5, TakenAbsent
  <2>7. Replayed(list, r)[u] = Taken(list[u], Named(r, u))
    BY <1>1, <1>5, ReplayTaken DEF Named
  <2> QED
    BY <2>2, <2>4, <2>6, <2>7 DEF Absorbs
<1> QED
  BY <1>3, <1>4, <1>5

\* What Publish may do to a subscription.
Pushed(sb, sb2, at, ev) ==
    \/ sb2 = sb /\ at = "off"
    \/ sb2.buf = Append(sb.buf, ev) /\ sb2.dropped = sb.dropped
    \/ sb2.dropped = TRUE

Published(pd, pd2, p) ==
    pd[p] # << >> /\ Shaped(pd[p]) /\ pd2 = [pd EXCEPT ![p] = Tail(pd[p])]

First(pd, p) == Head(pd[p])

\* Bus.Publish: the first event of p goes behind what the subscriber has.
LEMMA SettledPublish ==
    ASSUME NEW pd \in Queues, NEW sb \in Subs, NEW sb2, NEW pg \in Pages, NEW list \in Stores,
           NEW u \in Udids, NEW p \in Publishers, NEW pd2,
           Published(pd, pd2, p), Pushed(sb, sb2, pg.at, First(pd, p)),
           Settled(pd, sb, pg, list, u)
    PROVE  Settled(pd2, sb2, pg, list, u)
<1> DEFINE a == pd[p]
           h == Head(a)
           r == Tail(a)
           b == sb.buf
<1>1. /\ a \in Seq(Events) /\ b \in Seq(Events) /\ (\A q \in Publishers : pd[q] \in Seq(Events)) /\ pd2[p] = r
      /\ \A q \in Publishers \ {p} : pd2[q] = pd[q]
  BY DEF Subs, Queues, Published
<1>2. h \in Events /\ <<h>> \in Seq(Events) /\ r \in Seq(Events) /\ a = <<h>> \o r /\ a # << >>
  BY <1>1, SeqSplit DEF Published
<1>3. (About(r, u) # {} => About(a, u) # {}) /\ (h.u = u => About(a, u) # {})
      /\ (About(a, u) # {} /\ h.u # u => About(r, u) # {})
  <2>1. /\ Len(a) \in Nat \ {0} /\ DOMAIN a = 1..Len(a) /\ DOMAIN r = 1..(Len(a) - 1)
        /\ a[1] = h /\ \A i \in 1..(Len(a) - 1) : r[i] = a[i + 1]
    BY <1>1, <1>2, SeqSplit
  <2> HIDE DEF a, h, r
  <2>2. ASSUME NEW i \in About(r, u) PROVE i + 1 \in About(a, u)
    BY <2>1 DEF About
  <2>3. h.u = u => 1 \in About(a, u)
    BY <2>1 DEF About
  <2>4. ASSUME NEW i \in About(a, u), h.u # u PROVE i - 1 \in About(r, u)
    <3>1. i \in 1..Len(a) /\ i # 1 /\ a[i].u = u
      BY <2>1, <2>4 DEF About
    <3>2. i - 1 \in 1..(Len(a) - 1) /\ r[i - 1] = a[i]
      BY <2>1, <3>1
    <3> QED
      BY <2>1, <3>1, <3>2 DEF About
  <2> QED
    BY <2>2, <2>3, <2>4
<1>4. \A q \in Publishers : About(pd2[q], u) # {} => About(pd[q], u) # {}
  BY <1>1, <1>3
<1>5. \A q, s \in Publishers : About(pd2[q], u) # {} /\ About(pd2[s], u) # {} => q = s
  BY <1>4 DEF Settled
<1>6. ASSUME NEW q \in Publishers, Silent(pd2, u, Publishers \ {q})
      PROVE  Absorbs(list, pd2[q], u) /\ (~sb2.dropped => Bound(pg, sb2.buf, pd2[q], list, u))
  <2>1. CASE q = p
    <3>1. Silent(pd, u, Publishers \ {p})
      BY <1>1, <1>6, <2>1 DEF Silent
    <3>2. Absorbs(list, a, u) /\ (~sb.dropped => Bound(pg, b, a, list, u))
      BY <3>1 DEF Settled
    <3>3. Absorbs(list, r, u)
      <4>1. Shaped(a)
        BY DEF Published
      <4> HIDE DEF a
      <4> QED
        BY <1>1, <1>2, <3>2, <4>1, AbsorbsTail
    <3>4. ~sb2.dropped => Bound(pg, sb2.buf, r, list, u)
      <4>1. CASE sb2 = sb /\ pg.at = "off"
        BY <4>1 DEF Bound
      <4>2. CASE sb2.buf = Append(b, h) /\ sb2.dropped = sb.dropped
        <5>1. Append(b, h) \o r = b \o a
          <6> HIDE DEF a, h, r, b
          <6>1. Append(b, h) = b \o <<h>>
            BY <1>1, <1>2
          <6>2. b \o (<<h>> \o r) = (b \o <<h>>) \o r
            BY <1>1, <1>2, SeqAssoc
          <6> QED
            BY <1>2, <6>1, <6>2
        <5> HIDE DEF a, h, r, b
        <5> QED
          BY <3>2, <4>2, <5>1 DEF Bound
      <4>3. CASE sb2.dropped = TRUE
        BY <4>3
      <4> QED
        BY <4>1, <4>2, <4>3 DEF Pushed, First
    <3> QED
      BY <1>1, <2>1, <3>3, <3>4
  <2>2. CASE q # p
    <3> DEFINE e == pd[q]
    <3>1. About(r, u) = {} /\ pd2[q] = e /\ e \in Seq(Events)
      <4>1. About(pd2[p], u) = {}
        BY <1>6, <2>2 DEF Silent
      <4>2. pd2[q] = pd[q]
        BY <1>1, <2>2
      <4> QED
        BY <1>1, <4>1, <4>2
    <3>2. \A s \in Publishers \ {p, q} : About(pd[s], u) = {}
      BY <1>1, <1>6 DEF Silent
    <3>3. CASE h.u # u
      <4>1. About(a, u) = {}
        BY <1>3, <3>1, <3>3
      <4>2. Silent(pd, u, Publishers \ {q})
        BY <3>2, <4>1 DEF Silent
      <4>3. Absorbs(list, e, u) /\ (~sb.dropped => Bound(pg, b, e, list, u))
        BY <4>2 DEF Settled
      <4>4. ~sb2.dropped => Bound(pg, sb2.buf, e, list, u)
        <5>1. CASE sb2 = sb /\ pg.at = "off"
          BY <5>1 DEF Bound
        <5>2. CASE sb2.buf = Append(b, h) /\ sb2.dropped = sb.dropped
          <6>1. About(<<h>>, u) = {}
            BY <3>3 DEF About
          <6>2. Append(b, h) = b \o <<h>> /\ Append(b, h) \in Seq(Events)
            BY <1>1, <1>2
          <6>3. b \o << >> = b
            BY <1>1, SeqIdentity
          <6> DEFINE n == Append(b, h)
                     f == <<h>>
          <6> HIDE DEF a, h, r, b, e, n, f
          <6>4. Alike(<< >>, f, u)
            BY <1>2, <6>1, NoEvents, AlikeSilent DEF f
          <6>5. Alike(b \o << >>, b \o f, u)
            BY <1>1, <1>2, <6>4, NoEvents, AlikeSelf, AlikeConcat DEF f
          <6>6. Alike(b, n, u) /\ n \in Seq(Events)
            BY <6>2, <6>3, <6>5 DEF f, n
          <6>7. Alike(b \o e, n \o e, u)
            BY <1>1, <3>1, <6>6, AlikeSelf, AlikeConcat
          <6>8. ~sb.dropped => Bound(pg, n, e, list, u)
            BY <1>1, <3>1, <4>3, <6>6, <6>7, BoundAlike
          <6> QED
            BY <5>2, <6>8 DEF n
        <5>3. CASE sb2.dropped = TRUE
          BY <5>3
        <5> QED
          BY <5>1, <5>2, <5>3 DEF Pushed, First
      <4> QED
        BY <3>1, <4>3, <4>4
    <3>4. CASE h.u = u
      <4>1. About(a, u) # {}
        BY <1>3, <3>4
      <4>2. About(e, u) = {}
        BY <2>2, <4>1 DEF Settled
      <4>3. Silent(pd, u, Publishers \ {p})
        BY <3>2, <4>2 DEF Silent
      <4>4. ~sb.dropped => Bound(pg, b, a, list, u)
        BY <4>3 DEF Settled
      <4>5. Absorbs(list, e, u)
        <5>1. Replayed(list, e)[u] = list[u] /\ Named(e, u) = {}
          BY <3>1, <4>2, SilentReplay, SilentNames
        <5> QED
          BY <5>1 DEF Absorbs
      <4>6. ~sb2.dropped => Bound(pg, sb2.buf, e, list, u)
        <5>1. CASE sb2 = sb /\ pg.at = "off"
          BY <5>1 DEF Bound
        <5>2. CASE sb2.buf = Append(b, h) /\ sb2.dropped = sb.dropped
          <6>1. Append(b, h) = b \o <<h>> /\ Append(b, h) \in Seq(Events)
            BY <1>1, <1>2
          <6> DEFINE n == Append(b, h)
                     f == <<h>>
          <6>0. f \in Seq(Events) /\ n = b \o f /\ n \in Seq(Events) /\ a = f \o r /\ r \in Seq(Events)
                /\ a \in Seq(Events) /\ b \in Seq(Events) /\ e \in Seq(Events)
            BY <1>1, <1>2, <3>1, <6>1
          <6> HIDE DEF a, h, r, b, e, n, f
          <6>2. Alike(r, e, u)
            BY <3>1, <4>2, <6>0, AlikeSilent
          <6>3. Alike(n \o r, n \o e, u)
            BY <6>0, <6>2, AlikeSelf, AlikeConcat
          <6>4. b \o a = n \o r
            BY <6>0, SeqAssoc
          <6>5. ~sb.dropped => Bound(pg, n, e, list, u)
            BY <4>4, <6>0, <6>3, <6>4, BoundAlike
          <6> QED
            BY <5>2, <6>5 DEF n
        <5>3. CASE sb2.dropped = TRUE
          BY <5>3
        <5> QED
          BY <5>1, <5>2, <5>3 DEF Pushed, First
      <4> QED
        BY <3>1, <4>5, <4>6
    <3> QED
      BY <3>3, <3>4
  <2> QED
    BY <2>1, <2>2
<1> QED
  BY <1>5, <1>6 DEF Settled

\* A step of the page or its subscription keeps what is on its way, if it does
\* so whatever is still to be published.
LEMMA SettledPage ==
    ASSUME NEW pd \in Queues, NEW sb, NEW sb2, NEW pg, NEW pg2, NEW list \in Stores, NEW u \in Udids,
           \A evs \in Seq(Events) :
              Absorbs(list, evs, u) /\ (~sb.dropped => Bound(pg, sb.buf, evs, list, u))
                => (~sb2.dropped => Bound(pg2, sb2.buf, evs, list, u)),
           Settled(pd, sb, pg, list, u)
    PROVE  Settled(pd, sb2, pg2, list, u)
<1>1. \A p \in Publishers : pd[p] \in Seq(Events)
  BY DEF Queues
<1>2. ASSUME NEW p \in Publishers, Silent(pd, u, Publishers \ {p})
      PROVE  Absorbs(list, pd[p], u) /\ (~sb2.dropped => Bound(pg2, sb2.buf, pd[p], list, u))
  <2>1. Absorbs(list, pd[p], u) /\ (~sb.dropped => Bound(pg, sb.buf, pd[p], list, u))
    BY <1>2 DEF Settled
  <2> QED
    BY <1>1, <2>1
<1> QED
  BY <1>2 DEF Settled

\* One event, replayed.
LEMMA ReplayOne ==
    ASSUME NEW dev, NEW ev \in Events PROVE Replayed(dev, <<ev>>) = Dispatched(dev, ev)
<1> DEFINE s == <<ev>>
<1>1. s \in Seq(Events) /\ Len(s) = 1 /\ s[1] = ev
  OBVIOUS
<1>2. PICK r : Run(dev, s, 1, r)
  BY RunExists
<1>3. r[0] = dev /\ r[1] = Dispatched(r[1 - 1], s[1]) /\ 1 - 1 = 0
  BY <1>2 DEF Run
<1> HIDE DEF s
<1>4. Replayed(dev, s) = r[1]
  BY <1>1, <1>2, ReplayedEnds
<1> QED
  BY <1>1, <1>3, <1>4 DEF s

\* A page that is away, or whose refresh failed, expects nothing.
LEMMA BoundOff ==
    ASSUME NEW pg, pg.at \in {"off", "refused", "stale"}, NEW b, NEW evs, NEW list, NEW u
    PROVE  Bound(pg, b, evs, list, u)
  BY DEF Bound

\* Subscribed before hello: what is still to be published is absorbed.
LEMMA BoundConnect ==
    ASSUME NEW pg, pg.at = "hello", pg.queued = << >>, NEW evs \in Seq(Events), NEW list, NEW u,
           Absorbs(list, evs, u)
    PROVE  Bound(pg, << >>, evs, list, u)
<1>1. << >> \o (<< >> \o evs) = evs
  BY SeqIdentity
<1> QED
  BY <1>1 DEF Bound

\* The list is fetched: what was absorbed will be replayed over it.
LEMMA BoundFetch ==
    ASSUME NEW pg, NEW pg2, pg.at = "hello", NEW b, NEW evs, NEW list, NEW u,
           pg2.at = "asked", pg2.snap = list, pg2.queued = pg.queued, Bound(pg, b, evs, list, u)
    PROVE  Bound(pg2, b, evs, list, u)
  BY DEF Bound, Absorbs

\* What waited is replayed over the list.
LEMMA BoundRefreshed ==
    ASSUME NEW pg \in Pages, NEW pg2, pg.at = "asked", NEW b \in Seq(Events), NEW evs \in Seq(Events), NEW list, NEW u,
           pg2.at = "live", pg2.dev = Replayed(pg.snap, pg.queued), Bound(pg, b, evs, list, u)
    PROVE  Bound(pg2, b, evs, list, u)
<1> DEFINE z == b \o evs
           k == pg.queued
           sn == pg.snap
<1>1. z \in Seq(Events) /\ k \in Seq(Events)
  BY DEF Pages
<1>2. Replayed(sn, k \o z)[u] = list[u]
  BY DEF Bound
<1> HIDE DEF z, k, sn
<1>3. Replayed(sn, k \o z) = Replayed(Replayed(sn, k), z)
  BY <1>1, ReplayConcat
<1> QED
  BY <1>2, <1>3 DEF Bound, z, k, sn

\* One event arrives, and is dispatched or waits.
LEMMA BoundDeliver ==
    ASSUME NEW pg \in Pages, NEW pg2, NEW b \in Seq(Events), b # << >>, NEW evs \in Seq(Events), NEW list, NEW u,
           pg2.at = pg.at, pg2.snap = pg.snap,
           pg.at \in {"live", "stale"} => pg2.dev = Dispatched(pg.dev, Head(b)),
           pg.at \notin {"live", "stale"} => pg2.queued = Append(pg.queued, Head(b)),
           Bound(pg, b, evs, list, u)
    PROVE  Bound(pg2, Tail(b), evs, list, u)
<1> DEFINE h == Head(b)
           f == <<h>>
           r == Tail(b)
           k == pg.queued
           z == r \o evs
<1>1. h \in Events /\ f \in Seq(Events) /\ r \in Seq(Events) /\ b = f \o r /\ k \in Seq(Events)
  BY SeqSplit DEF Pages
<1>2. z \in Seq(Events) /\ b \o evs = f \o z
  <2> HIDE DEF f, r
  <2>1. (f \o r) \o evs = f \o (r \o evs) /\ r \o evs \in Seq(Events)
    BY <1>1, SeqAssoc
  <2> QED
    BY <1>1, <2>1
<1>3. Append(k, h) = k \o f
  <2> HIDE DEF k, h
  <2> QED
    BY <1>1
<1>4. k \o (f \o z) = (k \o f) \o z
  <2> HIDE DEF f, k, z
  <2> QED
    BY <1>1, <1>2, SeqAssoc
<1>5. Replayed(pg.dev, f \o z) = Replayed(Dispatched(pg.dev, h), z)
  <2>1. Replayed(pg.dev, f) = Dispatched(pg.dev, h)
    <3> HIDE DEF h
    <3> QED
      BY <1>1, ReplayOne
  <2> HIDE DEF f, z
  <2> QED
    BY <1>1, <1>2, <2>1, ReplayConcat
<1>6. k \o (b \o evs) = Append(k, h) \o z
  <2> HIDE DEF f, k, z, h
  <2> QED
    BY <1>2, <1>3, <1>4
<1>7. pg2.at = "hello" => Absorbs(list, pg2.queued \o z, u)
  <2>1. pg2.at = "hello" => Absorbs(list, k \o (b \o evs), u) /\ pg2.queued = Append(k, h)
    BY DEF Bound
  <2> HIDE DEF f, k, z, h
  <2> QED
    BY <1>6, <2>1
<1>8. pg2.at = "asked" => Replayed(pg2.snap, pg2.queued \o z)[u] = list[u]
  <2>1. pg2.at = "asked" => Replayed(pg2.snap, k \o (b \o evs))[u] = list[u] /\ pg2.queued = Append(k, h)
    BY DEF Bound
  <2> HIDE DEF f, k, z, h
  <2> QED
    BY <1>6, <2>1
<1>9. pg2.at = "live" => Replayed(pg2.dev, z)[u] = list[u]
  <2>1. pg2.at = "live" => Replayed(pg.dev, b \o evs)[u] = list[u] /\ pg2.dev = Dispatched(pg.dev, h)
    BY DEF Bound
  <2> HIDE DEF f, k, z, h
  <2> QED
    BY <1>2, <1>5, <2>1
<1> QED
  BY <1>7, <1>8, <1>9 DEF Bound

-----------------------------------------------------------------------------
(* What the registry collects                                              *)

\* A card as the merge gives it.
Face(es, u) == [listed |-> Merged(es, u) # {} \/ u \in backed, t |-> Merged(es, u)]

LEMMA ShownIs ==
    ASSUME OrderIsPresent, NEW u \in Udids PROVE List[u] = Face(edges, u)
<1>1. u \in order <=> Merged(edges, u) # {}
  BY DEF OrderIsPresent
<1>2. Listed(edges, order, u) <=> Merged(edges, u) # {} \/ u \in backed
  BY <1>1 DEF Listed
<1>3. (IF u \in order THEN Merged(edges, u) ELSE {}) = Merged(edges, u)
  BY <1>1
<1>4. Listed(edges, order, u) = (Merged(edges, u) # {} \/ u \in backed)
  BY <1>2 DEF Listed
<1> QED
  BY <1>3, <1>4 DEF List, Shown, Face

LEMMA ShownIsNext ==
    ASSUME OrderIsPresent', backed' = backed, NEW u \in Udids PROVE List'[u] = Face(edges', u)
<1>1. u \in order' <=> Merged(edges', u) # {}
  BY DEF OrderIsPresent, Merged, Present
<1>2. Listed(edges', order', u) <=> Merged(edges', u) # {} \/ u \in backed
  BY <1>1 DEF Listed
<1>3. (IF u \in order' THEN Merged(edges', u) ELSE {}) = Merged(edges', u)
  BY <1>1
<1>4. Listed(edges', order', u) = (Merged(edges', u) # {} \/ u \in backed)
  BY <1>2 DEF Listed
<1>5. List'[u] = [listed |-> Listed(edges', order', u), t |-> IF u \in order' THEN Merged(edges', u) ELSE {}]
  BY DEF List, Shown, Listed, Merged, Present
<1> QED
  BY <1>3, <1>4, <1>5 DEF Face

LEMMA TellsSilent ==
    ASSUME NEW evs, NEW u, About(evs, u) = {}, NEW v PROVE Tells(evs, u, v, v)
<1>1. Detaches(evs, u) /\ Named(evs, u) = {} /\ Taken(v, {}) = v
  BY SilentNames, TakenNone
<1> QED
  BY <1>1 DEF Tells

\* The last event gives the card.
LEMMA TellsSet ==
    ASSUME NEW z \in Seq(Events), NEW ev \in Events, ev.typ # "detached", NEW u \in Udids, ev.u = u, NEW old
    PROVE  Tells(z \o <<ev>>, u, old, [listed |-> TRUE, t |-> ev.now])
<1> DEFINE f == <<ev>>
           new == [listed |-> TRUE, t |-> ev.now]
<1>1. f \in Seq(Events) /\ Len(f) = 1 /\ f[1] = ev /\ 1 \in DOMAIN f
  OBVIOUS
<1>2. ~Detaches(f, u)
  BY <1>1 DEF Detaches, About
<1> HIDE DEF f
<1>3. ~Detaches(z \o f, u)
  BY <1>1, <1>2, ConcatEvents
<1>4. ASSUME NEW dev \in Stores PROVE Replayed(dev, z \o f)[u] = new
  <2> DEFINE x == Replayed(dev, z)
  <2>1. x \in Stores /\ Replayed(dev, z \o f) = Replayed(x, f)
    BY <1>1, ReplayType, ReplayConcat
  <2> HIDE DEF x
  <2>2. Replayed(x, f) = Dispatched(x, ev)
    BY ReplayOne DEF f
  <2>3. Dispatched(x, ev)[u] = Card(x[u], ev)
    BY <2>1, DispatchAt
  <2> QED
    BY <2>1, <2>2, <2>3 DEF Card
<1> QED
  BY <1>3, <1>4 DEF Tells, f

\* The events name the transports that are gone.
LEMMA TellsGone ==
    ASSUME NEW es, NEW es2, NEW evs, NEW u \in Udids, Detaches(evs, u), Named(evs, u) # {},
           Named(evs, u) \subseteq Merged(es, u), Merged(es2, u) = Merged(es, u) \ Named(evs, u),
           Merged(es2, u) # {} \/ u \notin backed
    PROVE  Tells(evs, u, Face(es, u), Face(es2, u))
<1> DEFINE N == Named(evs, u)
           M == Merged(es, u)
           M2 == Merged(es2, u)
           old == Face(es, u)
           new == Face(es2, u)
<1>1. N # {} /\ N \subseteq M /\ M2 = M \ N /\ (M2 # {} \/ u \notin backed)
  OBVIOUS
<1>2. old = [listed |-> M # {} \/ u \in backed, t |-> M] /\ new = [listed |-> M2 # {} \/ u \in backed, t |-> M2]
  BY DEF Face
<1>3. Detaches(evs, u)
  OBVIOUS
<1> HIDE DEF N, M, M2, old, new
<1>4. M # {} /\ old.listed /\ old.t = M /\ new.t = M2 /\ (new.listed => M2 # {})
  BY <1>1, <1>2
<1>5. new = Taken(old, N)
  <2>1. CASE M2 = {}
    <3>1. (M2 # {} \/ u \in backed) = FALSE
      BY <1>1, <2>1
    <3> QED
      BY <1>1, <1>2, <1>4, <2>1, <3>1 DEF Taken, Hidden
  <2>2. CASE M2 # {}
    <3>1. (M2 # {} \/ u \in backed) = TRUE
      BY <2>2
    <3>2. Taken(old, N) = [listed |-> TRUE, t |-> M2]
      BY <1>1, <1>4, <2>2 DEF Taken
    <3> QED
      BY <1>2, <3>1, <3>2
  <2> QED
    BY <2>1, <2>2
<1>6. new.t \subseteq old.t /\ (\A t \in N : t \notin new.t) /\ (N # {} /\ new.listed => new.t # {})
  BY <1>1, <1>4
<1> QED
  BY <1>3, <1>5, <1>6 DEF Tells, N, old, new

\* A step of p that collects events, and one that changes no card.
Collected(p, evs) ==
    /\ evs \in Seq(Events) /\ Shaped(evs)
    /\ pend[p] = << >> /\ pend' = [pend EXCEPT ![p] = evs]
    /\ raced \subseteq raced' /\ Races(p, evs) \subseteq raced'
    /\ \A u \in Udids \ raced' : Tells(evs, u, List[u], List'[u])

Unseen == pend' = pend /\ raced \subseteq raced' /\ \A u \in Udids \ raced' : List'[u] = List[u]

LEMMA AttachTells ==
    ASSUME RegType, OrderIsPresent, OrderIsPresent', NEW s \in Sources, NEW e \in Edges, Idle(s), Attach(s, e)
    PROVE  Unseen \/ \E evs : Collected(s, evs)
<1> DEFINE v == e[1]
           es == SetEdge(s, e)
<1>1. v \in Udids /\ e[2] \in Transports /\ edges' = es /\ backed' = backed
  BY EdgeParts DEF Attach, Collect
<1>2. ASSUME NEW u \in Udids PROVE List[u] = Face(edges, u) /\ List'[u] = Face(es, u)
  BY <1>1, ShownIs, ShownIsNext
<1>3. ASSUME NEW u \in Udids
      PROVE  /\ u = v => Merged(es, u) = Merged(edges, u) \cup {e[2]}
             /\ u # v => Merged(es, u) = Merged(edges, u)
  BY SetMerged
<1>4. CASE Present(edges, v, e[2])
  <2>1. pend' = pend /\ raced' = raced
    BY <1>4 DEF Attach
  <2>2. e[2] \in Merged(edges, v)
    BY <1>1, <1>4 DEF Merged
  <2>3. \A u \in Udids : Merged(es, u) = Merged(edges, u)
    BY <1>3, <2>2
  <2> HIDE DEF es
  <2> QED
    BY <1>2, <2>1, <2>3 DEF Unseen, Face
<1>5. CASE ~Present(edges, v, e[2])
  <2> DEFINE ev == Event("attached", v, e[2], Merged(es, v))
             evs == <<ev>>
  <2>1. pend' = [pend EXCEPT ![s] = evs] /\ raced' = raced \cup Races(s, evs) \cup {}
    BY <1>5 DEF Attach, Collect
  <2>2. ev \in Events /\ ev.typ = "attached" /\ ev.u = v /\ ev.now = Merged(es, v)
    <3>1. Merged(es, v) \in SUBSET Transports /\ "attached" \in Kinds
      BY MergedType DEF Kinds
    <3>2. ev \in Events
      BY <1>1, <3>1, EventType
    <3> QED
      BY <3>2 DEF Event
  <2>3. Merged(es, v) # {}
    BY <1>1, <1>3
  <2> HIDE DEF es, ev
  <2>4. evs \in Seq(Events) /\ Shaped(evs) /\ << >> \o evs = evs
    BY <2>2 DEF Shaped
  <2>5. ASSUME NEW u \in Udids PROVE Tells(evs, u, List[u], List'[u])
    <3>1. CASE u = v
      <4>1. Tells(<< >> \o <<ev>>, u, List[u], [listed |-> TRUE, t |-> ev.now])
        BY <2>2, <3>1, NoEvents, TellsSet
      <4>2. (Merged(es, v) # {} \/ v \in backed) = TRUE
        BY <2>3
      <4>3. List'[u] = [listed |-> TRUE, t |-> ev.now]
        BY <1>2, <2>2, <3>1, <4>2 DEF Face
      <4> QED
        BY <2>4, <4>1, <4>3
    <3>2. CASE u # v
      <4>1. About(evs, u) = {}
        BY <2>2, <3>2 DEF About
      <4>2. List[u] = List'[u]
        BY <1>2, <1>3, <3>2 DEF Face
      <4> HIDE DEF evs
      <4> QED
        BY <4>1, <4>2, TellsSilent
    <3> QED
      BY <3>1, <3>2
  <2>6. pend[s] = << >>
    BY DEF Idle
  <2> HIDE DEF evs
  <2>7. Collected(s, evs)
    BY <2>1, <2>4, <2>5, <2>6 DEF Collected
  <2> QED
    BY <2>7
<1> QED
  BY <1>4, <1>5

LEMMA UpdateTells ==
    ASSUME RegType, OrderIsPresent, OrderIsPresent', NEW v \in Udids, Update(v)
    PROVE  \E evs : Collected("enrich", evs)
<1>1. edges' = edges /\ pend["enrich"] = << >> /\ Listed(edges, order, v) /\ backed' = backed
  BY DEF Update, Collect
<1>2. ASSUME NEW u \in Udids PROVE List[u] = Face(edges, u) /\ List'[u] = Face(edges, u)
  BY <1>1, ShownIs, ShownIsNext
<1> DEFINE ev == Event("updated", v, "none", Merged(edges, v))
           evs == <<ev>>
<1>3. pend' = [pend EXCEPT !["enrich"] = evs] /\ raced' = raced \cup Races("enrich", evs) \cup {}
  BY DEF Update, Collect
<1>4. ev \in Events /\ ev.typ = "updated" /\ ev.u = v /\ ev.now = Merged(edges, v)
  <2>1. Merged(edges, v) \in SUBSET Transports /\ "updated" \in Kinds
    BY MergedType DEF Kinds
  <2>2. ev \in Events
    BY <2>1, EventType
  <2> QED
    BY <2>2 DEF Event
<1>5. Merged(edges, v) # {} \/ v \in backed
  BY <1>1 DEF Listed
<1> HIDE DEF ev
<1>6. evs \in Seq(Events) /\ Shaped(evs) /\ << >> \o evs = evs
  BY <1>4 DEF Shaped
<1>7. ASSUME NEW u \in Udids PROVE Tells(evs, u, List[u], List'[u])
  <2>1. CASE u = v
    <3>1. Tells(<< >> \o <<ev>>, u, List[u], [listed |-> TRUE, t |-> ev.now])
      BY <1>4, <2>1, NoEvents, TellsSet
    <3>2. (Merged(edges, v) # {} \/ v \in backed) = TRUE
      BY <1>5
    <3>3. List'[u] = [listed |-> TRUE, t |-> ev.now]
      BY <1>2, <1>4, <2>1, <3>2 DEF Face
    <3> QED
      BY <1>6, <3>1, <3>3
  <2>2. CASE u # v
    <3>1. About(evs, u) = {}
      BY <1>4, <2>2 DEF About
    <3>2. List[u] = List'[u]
      BY <1>2
    <3> HIDE DEF evs
    <3> QED
      BY <3>1, <3>2, TellsSilent
  <2> QED
    BY <2>1, <2>2
<1> HIDE DEF evs
<1>8. Collected("enrich", evs)
  BY <1>1, <1>3, <1>6, <1>7 DEF Collected
<1> QED
  BY <1>8

LEMMA DetachTells ==
    ASSUME RegType, OrderIsPresent, OrderIsPresent', NEW s \in Sources, NEW e \in Edges, Idle(s), Detach(s, e)
    PROVE  Unseen \/ \E evs : Collected(s, evs)
<1> DEFINE v == e[1]
           w == e[2]
           es == ClearEdge(s, e)
<1>1. v \in Udids /\ w \in Transports /\ edges' = es /\ backed' = backed
  BY EdgeParts DEF Detach, Collect
<1>2. ASSUME NEW u \in Udids PROVE List[u] = Face(edges, u) /\ List'[u] = Face(es, u)
  BY <1>1, ShownIs, ShownIsNext
<1>3. ASSUME NEW u \in Udids
      PROVE  /\ u = v => Merged(es, u) = IF Present(es, u, w) \/ ~Present(edges, u, w)
                                         THEN Merged(edges, u) ELSE Merged(edges, u) \ {w}
             /\ u # v => Merged(es, u) = Merged(edges, u)
  BY ClearMerged
<1>4. CASE ~(Present(edges, v, w) /\ ~Present(es, v, w))
  <2>1. pend' = pend /\ raced' = raced
    BY <1>4 DEF Detach
  <2>2. \A u \in Udids : Merged(es, u) = Merged(edges, u)
    BY <1>3, <1>4
  <2> HIDE DEF es
  <2> QED
    BY <1>2, <2>1, <2>2 DEF Unseen, Face
<1>5. CASE Present(edges, v, w) /\ ~Present(es, v, w)
  <2> DEFINE now == Merged(es, v)
             ev == Event("detached", v, w, now)
             ex == Event("updated", v, "none", {})
             evs == <<ev>> \o (IF now = {} THEN OfflineShell(v) ELSE << >>)
  <2>1. pend' = [pend EXCEPT ![s] = evs] /\ raced' = raced \cup Races(s, evs) \cup {}
    BY <1>5 DEF Detach, Collect
  <2>2. ev \in Events /\ ev.typ = "detached" /\ ev.u = v /\ ev.t = w
    <3>1. now \in SUBSET Transports /\ "detached" \in Kinds
      BY MergedType DEF Kinds
    <3>2. ev \in Events
      BY <1>1, <3>1, EventType
    <3> QED
      BY <3>2 DEF Event
  <2>3. ex \in Events /\ ex.typ = "updated" /\ ex.u = v /\ ex.now = {}
    <3>1. ex \in Events
      BY <1>1, EventType DEF Kinds
    <3> QED
      BY <3>1 DEF Event
  <2>4. now = Merged(edges, v) \ {w} /\ w \in Merged(edges, v)
    BY <1>1, <1>3, <1>5 DEF Merged
  <2>5. evs = IF now = {} /\ v \in backed THEN <<ev>> \o <<ex>> ELSE <<ev>>
    <3>1. <<ev>> \o << >> = <<ev>>
      OBVIOUS
    <3> QED
      BY <3>1 DEF OfflineShell
  <2>6. pend[s] = << >>
    BY DEF Idle
  <2>7. ASSUME NEW u \in Udids, u # v PROVE List'[u] = List[u]
    BY <1>2, <1>3, <2>7 DEF Face
  <2>8. List'[v] = Face(es, v) /\ List[v] = Face(edges, v)
    BY <1>1, <1>2
  <2>9. Face(es, v) = [listed |-> now # {} \/ v \in backed, t |-> now]
    BY DEF Face
  <2> HIDE DEF ev, ex, evs
  <2> DEFINE f == <<ev>>
             g == <<ex>>
  <2>10. f \in Seq(Events) /\ g \in Seq(Events) /\ Len(f) = 1 /\ f[1] = ev /\ DOMAIN f = {1}
         /\ f \o g \in Seq(Events) /\ Len(f \o g) = 2 /\ (f \o g)[1] = ev /\ (f \o g)[2] = ex /\ DOMAIN (f \o g) = {1, 2}
    BY <2>2, <2>3
  <2>11. About(f, v) = {1} /\ Detaches(f, v) /\ Named(f, v) = {w}
    <3> HIDE DEF f
    <3>1. About(f, v) = {1}
      BY <2>2, <2>10 DEF About
    <3> QED
      BY <2>2, <2>10, <3>1 DEF Detaches, Named
  <2> HIDE DEF f, g, es
  <2>12. CASE now = {} /\ v \in backed
    <3>1. evs = f \o g
      BY <2>5, <2>12 DEF f, g
    <3>2. Shaped(evs)
      BY <2>3, <2>10, <3>1 DEF Shaped
    <3>3. ASSUME NEW u \in Udids PROVE Tells(evs, u, List[u], List'[u])
      <4>1. CASE u = v
        <5>1. Tells(f \o <<ex>>, u, List[u], [listed |-> TRUE, t |-> ex.now])
          BY <2>3, <2>10, <4>1, TellsSet
        <5>2. List'[u] = [listed |-> TRUE, t |-> ex.now]
          <6>1. (now # {} \/ v \in backed) = TRUE
            BY <2>12
          <6> QED
            BY <2>3, <2>8, <2>9, <2>12, <4>1, <6>1
        <5> QED
          BY <3>1, <5>1, <5>2 DEF g
      <4>2. CASE u # v
        <5>1. About(evs, u) = {}
          BY <2>2, <2>3, <2>10, <3>1, <4>2 DEF About
        <5> QED
          BY <2>7, <4>2, <5>1, TellsSilent
      <4> QED
        BY <4>1, <4>2
    <3>4. Collected(s, evs)
      BY <2>1, <2>6, <2>10, <3>1, <3>2, <3>3 DEF Collected
    <3> QED
      BY <3>4
  <2>13. CASE now # {} \/ v \notin backed
    <3>1. evs = f
      BY <2>5, <2>13 DEF f
    <3>2. Shaped(evs)
      BY <2>10, <3>1 DEF Shaped
    <3>3. ASSUME NEW u \in Udids PROVE Tells(evs, u, List[u], List'[u])
      <4>1. CASE u = v
        <5>1. Merged(es, v) = Merged(edges, v) \ Named(f, v) /\ Named(f, v) # {} /\ Named(f, v) \subseteq Merged(edges, v)
          BY <2>4, <2>11
        <5>2. Tells(f, v, Face(edges, v), Face(es, v))
          BY <1>1, <2>11, <2>13, <5>1, TellsGone
        <5> QED
          BY <2>8, <3>1, <4>1, <5>2
      <4>2. CASE u # v
        <5>1. About(evs, u) = {}
          BY <2>2, <2>10, <3>1, <4>2 DEF About
        <5> QED
          BY <2>7, <4>2, <5>1, TellsSilent
      <4> QED
        BY <4>1, <4>2
    <3>4. Collected(s, evs)
      BY <2>1, <2>6, <2>10, <3>1, <3>2, <3>3 DEF Collected
    <3> QED
      BY <3>4
  <2> QED
    BY <2>12, <2>13
<1> QED
  BY <1>4, <1>5

LEMMA ResetTells ==
    ASSUME RegType, OrderIsPresent, OrderIsPresent', NEW s \in Sources, Reset(s)
    PROVE  \E evs : Collected(s, evs)
<1> DEFINE es == [edges EXCEPT ![s] = {}]
           gone == {e \in edges[s] : ~Present(es, e[1], e[2])}
<1>1. es \in [Sources -> SUBSET Edges] /\ edges' = es /\ gone \in SUBSET Edges /\ backed' = backed
  BY ResetForm
<1>2. PICK q \in SetToSeqs(gone) :
         /\ pend' = [pend EXCEPT ![s] = Lost(q, es)]
         /\ raced' = raced \cup Races(s, Lost(q, es)) \cup {u \in backed : u \in order /\ Merged(es, u) = {}}
  BY ResetForm
<1> DEFINE evs == Lost(q, es)
<1>3. /\ evs \in Seq(Events) /\ DOMAIN evs = DOMAIN q
      /\ \A i \in DOMAIN q : q[i] \in gone /\ q[i][1] \in Udids /\ q[i][2] \in Transports
           /\ evs[i] = Event("detached", q[i][1], q[i][2], Merged(es, q[i][1]))
      /\ \A x \in gone : \E i \in DOMAIN q : q[i] = x
  <2> HIDE DEF es, gone
  <2> QED
    BY <1>1, LostType
<1>4. \A i \in DOMAIN evs : evs[i].typ = "detached" /\ evs[i].u = q[i][1] /\ evs[i].t = q[i][2] /\ q[i] \in gone
  <2> HIDE DEF evs, es, gone
  <2> QED
    BY <1>3 DEF Event
<1>5. ASSUME NEW u \in Udids PROVE List[u] = Face(edges, u) /\ List'[u] = Face(es, u)
  BY <1>1, ShownIs, ShownIsNext
<1>6. ASSUME NEW u \in Udids PROVE Merged(es, u) = Merged(edges, u) \ OnlyHere(s, es, u)
  <2>1. es = [edges EXCEPT ![s] = {}]
    OBVIOUS
  <2> HIDE DEF es
  <2> QED
    BY <2>1, ResetMerged
<1>7. ASSUME NEW u \in Udids PROVE Named(evs, u) = OnlyHere(s, es, u) /\ Detaches(evs, u)
  <2>1. ASSUME NEW t \in Named(evs, u) PROVE t \in OnlyHere(s, es, u)
    <3>1. PICK i \in DOMAIN evs : evs[i].u = u /\ t = evs[i].t
      BY <2>1 DEF Named, About
    <3>2. q[i] \in gone /\ q[i][1] = u /\ q[i][2] = t /\ q[i] \in Edges /\ t \in Transports
      BY <1>1, <1>3, <1>4, <3>1
    <3>3. q[i] = <<u, t>>
      BY <3>2, EdgeParts
    <3> HIDE DEF es
    <3> QED
      BY <3>2, <3>3 DEF OnlyHere
  <2>2. ASSUME NEW t \in OnlyHere(s, es, u) PROVE t \in Named(evs, u)
    <3>1. t \in Transports /\ <<u, t>> \in edges[s] /\ ~Present(es, u, t)
      BY <2>2 DEF OnlyHere
    <3>2. <<u, t>>[1] = u /\ <<u, t>>[2] = t
      OBVIOUS
    <3>3. <<u, t>> \in gone
      BY <3>1, <3>2
    <3>4. PICK i \in DOMAIN q : q[i] = <<u, t>>
      BY <1>3, <3>3
    <3>5. i \in DOMAIN evs /\ evs[i].u = u /\ evs[i].t = t
      BY <1>3, <1>4, <3>2, <3>4
    <3> HIDE DEF evs
    <3> QED
      BY <3>5 DEF Named, About
  <2>3. Detaches(evs, u)
    BY <1>4 DEF Detaches, About
  <2> QED
    BY <2>1, <2>2, <2>3
<1>8. ASSUME NEW u \in Udids \ raced' PROVE Tells(evs, u, List[u], List'[u])
  <2>1. CASE Named(evs, u) = {}
    <3>1. Merged(es, u) = Merged(edges, u) /\ About(evs, u) = {}
      BY <1>6, <1>7, <2>1, NamedNone
    <3>2. List[u] = List'[u]
      BY <1>5, <3>1 DEF Face
    <3> HIDE DEF evs
    <3> QED
      BY <3>1, <3>2, TellsSilent
  <2>2. CASE Named(evs, u) # {}
    <3>1. Named(evs, u) \subseteq Merged(edges, u)
      BY <1>7 DEF OnlyHere, Merged, Present
    <3>2. u \in order
      BY <2>2, <3>1 DEF OrderIsPresent
    <3>3. Merged(es, u) # {} \/ u \notin backed
      BY <1>2, <3>2
    <3>4. Merged(es, u) = Merged(edges, u) \ Named(evs, u) /\ Detaches(evs, u)
      BY <1>6, <1>7
    <3>5. List[u] = Face(edges, u) /\ List'[u] = Face(es, u)
      BY <1>5
    <3> HIDE DEF evs, es
    <3>6. Tells(evs, u, Face(edges, u), Face(es, u))
      BY <2>2, <3>1, <3>3, <3>4, TellsGone
    <3> QED
      BY <3>5, <3>6
  <2> QED
    BY <2>1, <2>2
<1>9. Shaped(evs)
  BY <1>4 DEF Shaped
<1>10. pend[s] = << >>
  BY DEF Reset, Idle
<1>11. Collected(s, evs)
  <2>1. raced \subseteq raced' /\ Races(s, evs) \subseteq raced' /\ pend' = [pend EXCEPT ![s] = evs] /\ evs \in Seq(Events)
    BY <1>2, <1>3
  <2> HIDE DEF evs
  <2> QED
    BY <1>8, <1>9, <1>10, <2>1 DEF Collected
<1> QED
  BY <1>11

-----------------------------------------------------------------------------
(* The page                                                                *)

PageStep == Connect \/ FetchFails \/ Refreshed \/ Deliver \/ DropSlow \/ SocketBreaks

LEMMA SameList == ASSUME UNCHANGED <<edges, order, backed>> PROVE List' = List
  BY DEF List, Shown, Listed, Merged, Present

\* Every step collects events, changes no card, publishes or is the page's.
LEMMA StepKinds ==
    ASSUME TypeOK, OrderIsPresent, OrderIsPresent', [Next]_vars
    PROVE  \/ UNCHANGED <<sub, page>> /\ \E p \in Publishers : \E evs : Collected(p, evs)
           \/ UNCHANGED <<sub, page>> /\ Unseen
           \/ UNCHANGED <<edges, order, backed>> /\ \E p \in Publishers : Publish(p)
           \/ UNCHANGED regVars /\ PageStep
           \/ UNCHANGED <<edges, order, backed, pend>> /\ FetchDevices
<1>0. MuxType /\ RegType
  BY TypeParts
<1> DEFINE Goal == \/ UNCHANGED <<sub, page>> /\ \E p \in Publishers : \E evs : Collected(p, evs)
                   \/ UNCHANGED <<sub, page>> /\ Unseen
                   \/ UNCHANGED <<edges, order, backed>> /\ \E p \in Publishers : Publish(p)
                   \/ UNCHANGED regVars /\ PageStep
                   \/ UNCHANGED <<edges, order, backed, pend>> /\ FetchDevices
<1>1. ASSUME NEW s \in Sources, Reset(s) PROVE Goal
  <2>1. UNCHANGED <<sub, page>> /\ s \in Publishers
    BY <1>1 DEF Reset, pageVars, Publishers
  <2> QED
    BY <1>0, <1>1, <2>1, ResetTells
<1>2. ASSUME NEW s \in Sources, Listen(s) PROVE Goal
  <2> DEFINE e == Head(stream[s]).e
  <2>1. e \in Edges
    BY <1>0, <1>2, HeadMessage DEF Listen
  <2>2. (Attach(s, e) \/ Detach(s, e)) /\ Idle(s) /\ UNCHANGED <<sub, page>> /\ s \in Publishers
    BY <1>2 DEF Listen, pageVars, Publishers
  <2> HIDE DEF e
  <2>3. Unseen \/ \E evs : Collected(s, evs)
    BY <1>0, <2>1, <2>2, AttachTells, DetachTells
  <2> QED
    BY <2>2, <2>3
<1>3. ASSUME NEW u \in Udids, Update(u) PROVE Goal
  <2>1. UNCHANGED <<sub, page>> /\ "enrich" \in Publishers
    BY <1>3 DEF Update, pageVars, Publishers
  <2> QED
    BY <1>0, <1>3, <2>1, UpdateTells
<1>4. ASSUME UNCHANGED <<regVars, pageVars>> PROVE Goal
  <2>1. List' = List
    BY <1>4, SameList DEF regVars
  <2> QED
    BY <1>4, <2>1 DEF Unseen, regVars, pageVars
<1>5. ASSUME NEW p \in Publishers, Publish(p) PROVE Goal
  BY <1>5 DEF Publish
<1>6. ASSUME PageStep PROVE Goal
  <2>1. UNCHANGED regVars
    BY <1>6 DEF PageStep, Connect, FetchFails, Refreshed, Deliver, DropSlow, SocketBreaks
  <2> QED
    BY <1>6, <2>1
<1>8. ASSUME FetchDevices PROVE Goal
  BY <1>8 DEF FetchDevices
<1>9. ASSUME NEW v \in Udids, VersionsChange(v) PROVE Goal
  <2>1. /\ pend' = pend /\ raced' = raced \cup ({v} \ order) /\ UNCHANGED <<sub, page, edges, order>>
        /\ \A u \in Udids : u # v => (u \in backed' <=> u \in backed)
    BY <1>9 DEF VersionsChange, pageVars
  <2>2. ASSUME NEW u \in Udids \ raced' PROVE List'[u] = List[u]
    <3>1. Merged(edges', u) = Merged(edges, u) /\ (u \in order' <=> u \in order) /\ (u \in order <=> Merged(edges, u) # {})
      BY <2>1 DEF OrderIsPresent
    <3>2. u = v => u \in order
      BY <2>1
    <3>3. Listed(edges, order, u)' <=> Listed(edges, order, u)
      BY <2>1, <3>1, <3>2 DEF Listed, Merged, Present
    <3>4. Listed(edges, order, u)' = Listed(edges, order, u)
      BY <3>3 DEF Listed
    <3>5. Shown(u)' = Shown(u)
      BY <2>1, <3>4 DEF Shown, Merged, Present
    <3> QED
      BY <3>5 DEF List
  <2> QED
    BY <2>1, <2>2 DEF Unseen
<1> HIDE DEF Goal
<1>7. Goal
  BY <1>1, <1>2, <1>3, <1>4, <1>5, <1>6, <1>8, <1>9
     DEF Next, Steps, Client, Dial, ListenEnds, Break, Plug, PageStep, vars
<1> QED
  BY <1>7 DEF Goal

LEMMA ShapedTail ==
    ASSUME NEW a \in Seq(Events), a # << >>, Shaped(a) PROVE Shaped(Tail(a))
<1> DEFINE r == Tail(a)
           n == Len(a)
<1>1. n \in Nat \ {0} /\ DOMAIN a = 1..n /\ DOMAIN r = 1..(n - 1) /\ \A i \in 1..(n - 1) : r[i] = a[i + 1]
  BY SeqSplit
<1> HIDE DEF r, n
<1>2. ASSUME NEW i \in DOMAIN r, NEW j \in DOMAIN r, i < j, r[j].typ = "detached" PROVE r[i].typ = "detached"
  <2>1. i + 1 \in DOMAIN a /\ j + 1 \in DOMAIN a /\ i + 1 < j + 1 /\ r[i] = a[i + 1] /\ r[j] = a[j + 1]
    BY <1>1, <1>2
  <2> QED
    BY <1>2, <2>1 DEF Shaped
<1> QED
  BY <1>2 DEF Shaped, r

\* The parts of QueuesTrue.
PageShaped == /\ sub.open <=> page.at # "off"
              /\ ~sub.open => sub = NoSub
              /\ page.at \in {"off", "live", "stale"} => page.queued = << >>

LEMMA QueuesParts == QueuesTrue <=> PageShaped /\ \A p \in Publishers : Shaped(pend[p])
  BY DEF QueuesTrue, PageShaped, Shaped

LEMMA QueuesPartsNext == QueuesTrue' <=> PageShaped' /\ \A p \in Publishers : Shaped(pend'[p])
  BY DEF QueuesTrue, PageShaped, Shaped

\* What each step makes of the subscription and the page.
LEMMA PublishForm ==
    ASSUME RegType, SubType, NEW p \in Publishers, Publish(p)
    PROVE  /\ page' = page /\ pend' = [pend EXCEPT ![p] = Tail(pend[p])] /\ pend[p] # << >> /\ raced' = raced
           /\ sub'.open = sub.open
           /\ \/ sub' = sub /\ ~sub.open
              \/ sub.open /\ sub'.buf = Append(sub.buf, Head(pend[p])) /\ sub'.dropped = sub.dropped
              \/ sub.open /\ sub'.dropped = TRUE
<1>1. page' = page /\ pend' = [pend EXCEPT ![p] = Tail(pend[p])] /\ pend[p] # << >> /\ raced' = raced
  BY DEF Publish
<1>2. \/ sub' = sub /\ ~sub.open
      \/ sub.open /\ sub' = [sub EXCEPT !.buf = Append(sub.buf, Head(pend[p]))]
      \/ sub.open /\ sub' = [sub EXCEPT !.dropped = TRUE]
  BY DEF Publish, Overflow
<1>3. Append(sub.buf, Head(pend[p])) \in Seq(Events)
  BY <1>1, BufTypes, EventListTypes
<1>4. CASE sub.open /\ sub' = [sub EXCEPT !.buf = Append(sub.buf, Head(pend[p]))]
  BY <1>1, <1>3, <1>4, SubPut
<1>5. CASE sub.open /\ sub' = [sub EXCEPT !.dropped = TRUE]
  BY <1>1, <1>3, <1>5, SubPut
<1> QED
  BY <1>1, <1>2, <1>4, <1>5

LEMMA ConnectForm ==
    ASSUME PageType, Connect
    PROVE  /\ page.at = "off" /\ page' = [at |-> "hello", dev |-> page.dev, snap |-> page.snap, queued |-> page.queued]
           /\ sub' = [open |-> TRUE, buf |-> << >>, dropped |-> FALSE]
<1>1. sub' = [open |-> TRUE, buf |-> << >>, dropped |-> FALSE]
  BY DEF Connect, NoSub
<1> QED
  BY <1>1, PagePut DEF Connect

LEMMA FetchForm ==
    ASSUME PageType, FetchDevices
    PROVE  /\ page.at = "hello" /\ sub' = sub
           /\ page' = [at |-> "asked", dev |-> page.dev, snap |-> List, queued |-> page.queued]
<1>1. page' = [page EXCEPT !.at = "asked", !.snap = List]
  BY DEF FetchDevices, List
<1> QED
  BY <1>1, PagePut DEF FetchDevices

LEMMA FetchFailsForm ==
    ASSUME PageType, FetchFails
    PROVE  /\ page.at = "hello" /\ sub' = sub
           /\ page' = [at |-> "refused", dev |-> page.dev, snap |-> page.snap, queued |-> page.queued]
  BY PagePut DEF FetchFails

LEMMA RefreshedForm ==
    ASSUME PageType, Refreshed
    PROVE  /\ sub' = sub
           /\ \/ page.at = "asked" /\ page'.at = "live" /\ page'.dev = Replayed(page.snap, page.queued) /\ page'.queued = << >>
              \/ page.at = "refused" /\ page'.at = "stale" /\ page'.queued = << >>
<1> DEFINE d == Replayed(page.snap, page.queued)
           k == Replayed(page.dev, page.queued)
<1>1. \/ page.at = "asked" /\ page' = [page EXCEPT !.at = "live", !.dev = d, !.queued = << >>, !.snap = Empty]
      \/ page.at = "refused" /\ page' = [page EXCEPT !.at = "stale", !.dev = k, !.queued = << >>]
  BY DEF Refreshed
<1> HIDE DEF d, k
<1>2. \/ page.at = "asked" /\ page' = [at |-> "live", dev |-> d, snap |-> Empty, queued |-> << >>]
      \/ page.at = "refused" /\ page' = [at |-> "stale", dev |-> k, snap |-> page.snap, queued |-> << >>]
  BY <1>1, PagePut
<1> QED
  BY <1>2 DEF Refreshed, d

LEMMA DeliverForm ==
    ASSUME PageType, SubType, Deliver
    PROVE  /\ sub.open /\ sub.buf # << >> /\ sub' = [open |-> sub.open, buf |-> Tail(sub.buf), dropped |-> sub.dropped]
           /\ page.at \in {"live", "stale"} => page' = [at |-> page.at, dev |-> Dispatched(page.dev, Head(sub.buf)),
                                           snap |-> page.snap, queued |-> page.queued]
           /\ page.at \notin {"live", "stale"} => page' = [at |-> page.at, dev |-> page.dev, snap |-> page.snap,
                                           queued |-> Append(page.queued, Head(sub.buf))]
<1>1. sub.open /\ sub.buf # << >> /\ sub' = [sub EXCEPT !.buf = Tail(sub.buf)]
  BY DEF Deliver
<1>2. Tail(sub.buf) \in Seq(Events)
  BY <1>1, BufTypes
<1> DEFINE d == Dispatched(page.dev, Head(sub.buf))
           w == Append(page.queued, Head(sub.buf))
<1>3. (page.at \in {"live", "stale"} => page' = [page EXCEPT !.dev = d]) /\ (page.at \notin {"live", "stale"} => page' = [page EXCEPT !.queued = w])
  BY DEF Deliver
<1> HIDE DEF d, w
<1>4. /\ page.at \in {"live", "stale"} => page' = [at |-> page.at, dev |-> d, snap |-> page.snap, queued |-> page.queued]
      /\ page.at \notin {"live", "stale"} => page' = [at |-> page.at, dev |-> page.dev, snap |-> page.snap, queued |-> w]
  BY <1>3, PagePut
<1> QED
  BY <1>1, <1>2, <1>4, SubPut DEF d, w

LEMMA QueuesStep ==
    ASSUME TypeOK, OrderIsPresent, OrderIsPresent', QueuesTrue, [Next]_vars
    PROVE  QueuesTrue'
<1>0. RegType /\ SubType /\ PageType /\ PageShaped /\ \A p \in Publishers : Shaped(pend[p])
  BY TypeParts, QueuesParts
<1>1. ASSUME UNCHANGED <<sub, page>>, NEW p \in Publishers, NEW evs, Collected(p, evs) PROVE QueuesTrue'
  <2>1. PageShaped'
    BY <1>0, <1>1 DEF PageShaped
  <2>2. ASSUME NEW q \in Publishers PROVE Shaped(pend'[q])
    <3>1. pend' = [pend EXCEPT ![p] = evs] /\ Shaped(evs)
      BY <1>1 DEF Collected
    <3>2. pend'[q] = IF q = p THEN evs ELSE pend[q]
      BY <1>0, <3>1 DEF RegType
    <3> QED
      BY <1>0, <3>1, <3>2
  <2> QED
    BY <2>1, <2>2, QueuesPartsNext
<1>2. ASSUME UNCHANGED <<sub, page>>, Unseen PROVE QueuesTrue'
  BY <1>0, <1>2, QueuesPartsNext DEF PageShaped, Unseen
<1>3. ASSUME NEW p \in Publishers, Publish(p) PROVE QueuesTrue'
  <2>1. /\ page' = page /\ pend' = [pend EXCEPT ![p] = Tail(pend[p])] /\ pend[p] # << >>
        /\ sub'.open = sub.open /\ (sub' = sub \/ sub.open)
    BY <1>0, <1>3, PublishForm
  <2>2. PageShaped'
    BY <1>0, <2>1 DEF PageShaped
  <2>3. ASSUME NEW q \in Publishers PROVE Shaped(pend'[q])
    <3>1. Shaped(Tail(pend[p]))
      BY <1>0, <2>1, EventListTypes, ShapedTail
    <3>2. pend'[q] = IF q = p THEN Tail(pend[p]) ELSE pend[q]
      BY <1>0, <2>1 DEF RegType
    <3> QED
      BY <1>0, <3>1, <3>2
  <2> QED
    BY <2>2, <2>3, QueuesPartsNext
<1>4. ASSUME UNCHANGED regVars, PageStep PROVE QueuesTrue'
  <2>1. \A p \in Publishers : Shaped(pend'[p])
    BY <1>0, <1>4 DEF regVars
  <2>2. CASE Connect
    <3>1. /\ page.at = "off" /\ page'.at = "hello" /\ sub'.open = TRUE
      BY <1>0, <2>2, ConnectForm
    <3> QED
      BY <2>1, <3>1, QueuesPartsNext DEF PageShaped
  <2>3. CASE FetchFails
    <3>1. page.at = "hello" /\ page'.at = "refused" /\ sub' = sub
      BY <1>0, <2>3, FetchFailsForm
    <3> QED
      BY <1>0, <2>1, <3>1, QueuesPartsNext DEF PageShaped
  <2>4. CASE Refreshed
    <3>1. page.at # "off" /\ page'.at # "off" /\ page'.queued = << >> /\ sub' = sub
      BY <1>0, <2>4, RefreshedForm
    <3> QED
      BY <1>0, <2>1, <3>1, QueuesPartsNext DEF PageShaped
  <2>5. CASE Deliver
    <3>1. page'.at = page.at /\ sub.open /\ sub'.open = sub.open /\ (page.at \in {"live", "stale"} => page'.queued = page.queued)
      <4>1. sub.open /\ sub' = [open |-> sub.open, buf |-> Tail(sub.buf), dropped |-> sub.dropped]
        BY <1>0, <2>5, DeliverForm
      <4>2. page'.at = page.at /\ (page.at \in {"live", "stale"} => page'.queued = page.queued)
        <5>1. CASE page.at \in {"live", "stale"}
          BY <1>0, <2>5, <5>1, DeliverForm
        <5>2. CASE page.at \notin {"live", "stale"}
          BY <1>0, <2>5, <5>2, DeliverForm
        <5> QED
          BY <5>1, <5>2
      <4> QED
        BY <4>1, <4>2
    <3> QED
      BY <1>0, <2>1, <3>1, QueuesPartsNext DEF PageShaped
  <2>6. CASE DropSlow \/ SocketBreaks
    <3>1. sub' = NoSub /\ page' = Off(page.dev)
      BY <2>6 DEF DropSlow, SocketBreaks, Closed
    <3>2. ~sub'.open /\ page'.at = "off" /\ page'.queued = << >>
      BY <3>1 DEF NoSub, Off
    <3> QED
      BY <2>1, <3>1, <3>2, QueuesPartsNext DEF PageShaped
  <2> QED
    BY <1>4, <2>2, <2>3, <2>4, <2>5, <2>6 DEF PageStep
<1>5. ASSUME pend' = pend, FetchDevices PROVE QueuesTrue'
  <2>1. page.at = "hello" /\ page'.at = "asked" /\ sub' = sub
    BY <1>0, <1>5, FetchForm
  <2> QED
    BY <1>0, <1>5, <2>1, QueuesPartsNext DEF PageShaped
<1> QED
  BY <1>1, <1>2, <1>3, <1>4, <1>5, StepKinds

\* Nobody else holds events of a device that is not raced.
LEMMA NotRaced ==
    ASSUME NEW p \in Publishers, NEW evs, Collected(p, evs), NEW u \in Udids \ raced', About(evs, u) # {}
    PROVE  Silent(pend, u, Publishers \ {p})
<1>1. u \notin Races(p, evs)
  BY DEF Collected
<1> QED
  BY <1>1 DEF Races, Silent, About

LEMMA EventsStep ==
    ASSUME TypeOK, TypeOK', OrderIsPresent, OrderIsPresent', QueuesTrue, EventsTrue, [Next]_vars
    PROVE  EventsTrue'
<1>0. /\ RegType /\ SubType /\ PageType /\ PageShaped /\ \A p \in Publishers : Shaped(pend[p])
      /\ \A u \in Udids \ raced : Settled(pend, sub, page, List, u)
  BY TypeParts, QueuesParts, EventsParts
<1>1. /\ pend \in Queues /\ sub \in Subs /\ page \in Pages /\ List \in Stores
      /\ sub.buf \in Seq(Events)
  BY <1>0, ListType, BufTypes DEF RegType, SubType, PageType, Queues, Subs, Pages
<1>2. List' \in Stores
  BY ListTypeNext
<1> SUFFICES ASSUME NEW u \in Udids \ raced' PROVE Settled(pend', sub', page', List', u)
  BY EventsPartsNext
<1>3. ASSUME UNCHANGED <<sub, page>>, NEW p \in Publishers, NEW evs, Collected(p, evs)
      PROVE  Settled(pend', sub', page', List', u)
  <2>1. /\ evs \in Seq(Events) /\ pend[p] = << >> /\ pend' = [pend EXCEPT ![p] = evs] /\ u \notin raced
        /\ Tells(evs, u, List[u], List'[u])
    BY <1>3 DEF Collected
  <2>2. About(evs, u) # {} => Silent(pend, u, Publishers \ {p})
    BY <1>3, NotRaced
  <2>3. Settled(pend, sub, page, List, u)
    BY <1>0, <2>1
  <2>4. Settled(pend', sub, page, List', u)
    BY <1>1, <1>2, <2>1, <2>2, <2>3, SettledCollect
  <2> QED
    BY <1>3, <2>4
<1>4. ASSUME UNCHANGED <<sub, page>>, Unseen PROVE Settled(pend', sub', page', List', u)
  <2>1. Settled(pend, sub, page, List, u) /\ List'[u] = List[u] /\ pend' = pend
    BY <1>0, <1>4 DEF Unseen
  <2>2. Settled(pend, sub, page, List', u)
    BY <1>1, <1>2, <2>1, SettledQuiet
  <2> QED
    BY <1>4, <2>1, <2>2
<1>5. ASSUME UNCHANGED <<edges, order, backed>>, NEW p \in Publishers, Publish(p) PROVE Settled(pend', sub', page', List', u)
  <2>1. /\ page' = page /\ pend' = [pend EXCEPT ![p] = Tail(pend[p])] /\ pend[p] # << >> /\ raced' = raced
        /\ \/ sub' = sub /\ ~sub.open
           \/ sub'.buf = Append(sub.buf, Head(pend[p])) /\ sub'.dropped = sub.dropped
           \/ sub'.dropped = TRUE
    BY <1>0, <1>5, PublishForm
  <2>2. ~sub.open => page.at = "off"
    BY <1>0 DEF PageShaped
  <2>3. Settled(pend, sub, page, List, u) /\ Shaped(pend[p])
    BY <1>0, <2>1
  <2>4. Settled(pend', sub', page, List, u)
    <3>1. /\ pend[p] # << >> /\ Shaped(pend[p]) /\ pend' = [pend EXCEPT ![p] = Tail(pend[p])]
          /\ \/ sub' = sub /\ page.at = "off"
             \/ sub'.buf = Append(sub.buf, Head(pend[p])) /\ sub'.dropped = sub.dropped
             \/ sub'.dropped = TRUE
      BY <2>1, <2>2, <2>3
    <3>2. Pushed(sub, sub', page.at, First(pend, p)) /\ Published(pend, pend', p) /\ u \in Udids
      BY <3>1 DEF Pushed, Published, First
    <3> QED
      BY <1>1, <2>3, <3>2, SettledPublish
  <2>5. List' = List
    BY <1>5, SameList
  <2> QED
    BY <2>1, <2>4, <2>5
<1>6. ASSUME UNCHANGED regVars, PageStep PROVE Settled(pend', sub', page', List', u)
  <2>1. List' = List /\ pend' = pend /\ raced' = raced
    BY <1>6, SameList DEF regVars
  <2>2. Settled(pend, sub, page, List, u)
    BY <1>0, <2>1
  <2> SUFFICES ASSUME NEW evs \in Seq(Events), Absorbs(List, evs, u), ~sub.dropped => Bound(page, sub.buf, evs, List, u),
                      ~sub'.dropped
               PROVE  Bound(page', sub'.buf, evs, List, u)
    <3>1. Settled(pend, sub', page', List, u)
      BY <1>1, <2>2, SettledPage
    <3> QED
      BY <2>1, <3>1
  <2>3. CASE Connect
    <3>1. page.at = "off" /\ page'.at = "hello" /\ page'.queued = page.queued /\ sub'.buf = << >>
      BY <1>0, <2>3, ConnectForm
    <3>2. page'.queued = << >>
      BY <1>0, <3>1 DEF PageShaped
    <3> QED
      BY <3>1, <3>2, BoundConnect
  <2>4. CASE FetchFails
    <3>1. page'.at = "refused"
      BY <1>0, <2>4, FetchFailsForm
    <3> QED
      BY <3>1, BoundOff
  <2>8. CASE Refreshed /\ page'.at = "stale"
    BY <2>8, BoundOff
  <2>5. CASE Refreshed /\ page'.at # "stale"
    <3>1. page.at = "asked" /\ page'.at = "live" /\ page'.dev = Replayed(page.snap, page.queued) /\ sub' = sub
      BY <1>0, <2>5, RefreshedForm
    <3>2. Bound(page, sub.buf, evs, List, u)
      BY <3>1
    <3> DEFINE b == sub.buf
    <3>3. b \in Seq(Events) /\ Bound(page, b, evs, List, u)
      BY <1>1, <3>2
    <3> HIDE DEF b
    <3>4. Bound(page', b, evs, List, u)
      BY <1>1, <3>1, <3>3, BoundRefreshed
    <3> QED
      BY <3>1, <3>4 DEF b
  <2>6. CASE Deliver
    <3>1. /\ sub.buf # << >> /\ sub'.buf = Tail(sub.buf) /\ sub'.dropped = sub.dropped
          /\ page'.at = page.at /\ page'.snap = page.snap
          /\ page.at \in {"live", "stale"} => page'.dev = Dispatched(page.dev, Head(sub.buf))
          /\ page.at \notin {"live", "stale"} => page'.queued = Append(page.queued, Head(sub.buf))
      <4>1. sub.buf # << >> /\ sub' = [open |-> sub.open, buf |-> Tail(sub.buf), dropped |-> sub.dropped]
        BY <1>0, <2>6, DeliverForm
      <4>2. CASE page.at \in {"live", "stale"}
        BY <1>0, <2>6, <4>1, <4>2, DeliverForm
      <4>3. CASE page.at \notin {"live", "stale"}
        BY <1>0, <2>6, <4>1, <4>3, DeliverForm
      <4> QED
        BY <4>2, <4>3
    <3> DEFINE b == sub.buf
    <3>2. b \in Seq(Events) /\ b # << >> /\ Bound(page, b, evs, List, u)
      BY <1>1, <3>1
    <3>3. /\ page.at \in {"live", "stale"} => page'.dev = Dispatched(page.dev, Head(b))
          /\ page.at \notin {"live", "stale"} => page'.queued = Append(page.queued, Head(b))
      BY <3>1
    <3>4. sub'.buf = Tail(b)
      BY <3>1
    <3> HIDE DEF b
    <3>5. Bound(page', Tail(b), evs, List, u)
      BY <1>1, <3>1, <3>2, <3>3, BoundDeliver
    <3> QED
      BY <3>4, <3>5
  <2>7. CASE DropSlow \/ SocketBreaks
    <3>1. page' = Off(page.dev)
      BY <2>7 DEF DropSlow, SocketBreaks, Closed
    <3>2. page'.at = "off"
      BY <3>1 DEF Off
    <3> QED
      BY <3>2, BoundOff
  <2> QED
    BY <1>6, <2>3, <2>4, <2>5, <2>6, <2>7, <2>8 DEF PageStep
<1>7. ASSUME UNCHANGED <<edges, order, backed, pend>>, FetchDevices PROVE Settled(pend', sub', page', List', u)
  <2>1. List' = List /\ pend' = pend /\ raced' = {v \in raced : Coming(v)}
    BY <1>7, SameList DEF FetchDevices
  <2>2. page.at = "hello" /\ page'.at = "asked" /\ page'.snap = List /\ page'.queued = page.queued /\ sub' = sub
    BY <1>0, <1>7, FetchForm
  <2>3. CASE u \notin raced
    <3>1. Settled(pend, sub, page, List, u)
      BY <1>0, <2>3
    <3>2. ASSUME NEW evs \in Seq(Events), ~sub.dropped => Bound(page, sub.buf, evs, List, u), ~sub'.dropped
          PROVE  Bound(page', sub'.buf, evs, List, u)
      BY <2>2, <3>2, BoundFetch
    <3>3. Settled(pend, sub', page', List, u)
      BY <1>1, <3>1, <3>2, SettledPage
    <3> QED
      BY <2>1, <3>3
  <2>4. CASE u \in raced
    <3>1. About(page.queued, u) = {} /\ About(sub.buf, u) = {} /\ \A p \in Publishers : About(pend[p], u) = {}
      BY <2>1, <2>4 DEF Coming, About
    <3>2. ASSUME NEW p \in Publishers
          PROVE  Absorbs(List, pend[p], u) /\ Bound(page', sub.buf, pend[p], List, u)
      <4> DEFINE k == page.queued
                 b == sub.buf
                 evs == pend[p]
      <4>1. k \in Seq(Events) /\ b \in Seq(Events) /\ evs \in Seq(Events)
        BY <1>0, <1>1, PageTypes DEF Queues
      <4>2. About(k, u) = {} /\ About(b, u) = {} /\ About(evs, u) = {}
        BY <3>1
      <4> HIDE DEF k, b, evs
      <4>3. b \o evs \in Seq(Events) /\ Named(b \o evs, u) = {}
        BY <4>1, <4>2, ConcatEvents, SilentNames
      <4>4. k \o (b \o evs) \in Seq(Events) /\ Named(k \o (b \o evs), u) = {}
        BY <4>1, <4>2, <4>3, ConcatEvents, SilentNames
      <4>5. About(k \o (b \o evs), u) = {}
        BY <4>4, NamedNone
      <4>6. Replayed(List, k \o (b \o evs))[u] = List[u] /\ Replayed(List, evs)[u] = List[u]
        BY <1>1, <4>1, <4>2, <4>4, <4>5, SilentReplay
      <4>7. Absorbs(List, evs, u)
        BY <4>2, <4>6, SilentNames DEF Absorbs
      <4>8. Bound(page', b, evs, List, u)
        BY <2>2, <4>6 DEF Bound, k
      <4> QED
        BY <4>7, <4>8 DEF b, evs
    <3> QED
      BY <2>1, <2>2, <3>1, <3>2 DEF Settled
  <2> QED
    BY <2>3, <2>4
<1> QED
  BY <1>3, <1>4, <1>5, <1>6, <1>7, StepKinds

LEMMA PresenceInit == ASSUME Init PROVE TypeOK /\ PresenceInv
<1>1. TypeOK
  BY TypeInit
<1>2. OrderIsPresent
  BY DEF Init, OrderIsPresent, Merged, Present
<1>3. StreamTrue
  BY DEF Init, StreamTrue
<1>4. QueuesTrue
  <2>1. \A p \in Publishers : pend[p] = << >>
    BY DEF Init
  <2>2. sub = [open |-> FALSE, buf |-> << >>, dropped |-> FALSE] /\ page.at = "off" /\ page.queued = << >>
    BY DEF Init, NoSub, Off
  <2>3. PageShaped
    BY <2>2 DEF PageShaped, NoSub
  <2> QED
    BY <2>1, <2>3, QueuesParts DEF Shaped
<1>5. EventsTrue
  <2>1. (\A p \in Publishers : pend[p] = << >>) /\ page.at = "off" /\ List \in Stores
    BY ListType DEF Init, Off
  <2>2. ASSUME NEW u \in Udids PROVE Settled(pend, sub, page, List, u)
    <3>1. About(<< >>, u) = {} /\ Absorbs(List, << >>, u)
      BY NoEvents, <2>1, SilentReplay DEF Absorbs
    <3> QED
      BY <2>1, <3>1, BoundOff DEF Settled
  <2> QED
    BY <1>1, <2>2, EventsParts
<1> QED
  BY <1>1, <1>2, <1>3, <1>4, <1>5 DEF PresenceInv

\* What the theorems about presence rest on, for every number of muxers and
\* devices, every buffer and every scene.
THEOREM PresenceHolds == Spec => [](TypeOK /\ PresenceInv)
<1>1. Init => TypeOK /\ PresenceInv
  BY PresenceInit
<1>2. TypeOK /\ PresenceInv /\ [Next]_vars => TypeOK' /\ PresenceInv'
  <2> SUFFICES ASSUME TypeOK, PresenceInv, [Next]_vars PROVE TypeOK' /\ PresenceInv'
    OBVIOUS
  <2>1. OrderIsPresent /\ StreamTrue /\ QueuesTrue /\ EventsTrue
    BY DEF PresenceInv
  <2>2. TypeOK'
    BY TypeStep
  <2>3. OrderIsPresent'
    BY <2>1, OrderStep
  <2>4. StreamTrue'
    BY <2>1, StreamStep
  <2>5. QueuesTrue'
    BY <2>1, <2>3, QueuesStep
  <2>6. EventsTrue'
    BY <2>1, <2>2, <2>3, EventsStep
  <2> QED
    BY <2>2, <2>3, <2>4, <2>5, <2>6 DEF PresenceInv
<1> QED
  BY <1>1, <1>2, PTL DEF Spec

\* The display order is the merge of the sources, through every reset, replay
\* and unplugging: Devices() loses no device that is here and keeps none that left.
THEOREM OrderFollows == Spec => []OrderIsPresent
<1>1. TypeOK /\ PresenceInv => OrderIsPresent
  BY DEF PresenceInv
<1> QED
  BY <1>1, PresenceHolds, PTL

\* A client that has read all its muxer sent has in its source what the muxer
\* has, however often the connection was lost, dialled again and replayed.
THEOREM SourcesCurrent == Spec => []SourceIsCurrent
<1>1. TypeOK /\ PresenceInv => SourceIsCurrent
  <2> SUFFICES ASSUME TypeOK, PresenceInv, NEW s \in Sources, conn[s] = "listening", stream[s] = << >>
               PROVE  edges[s] = plugged[s]
    BY DEF SourceIsCurrent
  <2>1. SourceTrue(s) /\ edges[s] \in SUBSET Edges /\ plugged[s] \in SUBSET Edges
    BY TypeParts, StreamParts DEF PresenceInv, MuxType, RegType
  <2>2. ASSUME NEW e \in Edges PROVE e \in plugged[s] <=> e \in edges[s]
    <3>1. Says(<< >>, e \in plugged[s], e, e \in edges[s])
      BY <2>1 DEF SourceTrue
    <3> QED
      BY <3>1 DEF Says, Naming
  <2> QED
    BY <2>1, <2>2
<1> QED
  BY <1>1, PresenceHolds, PTL

\* A page that has nothing left to receive, and whose last refresh was answered,
\* shows what GET /api/devices answers, whatever it missed while it was away,
\* whatever arrived between its subscription and its list, whatever the bus
\* dropped it for, and however versions come and go meanwhile.
THEOREM PageIsTrue == Spec => []PageShowsDevices
<1>1. TypeOK /\ PresenceInv => PageShowsDevices
  <2> SUFFICES ASSUME TypeOK, PresenceInv, CaughtUp, page.at = "live", NEW u \in Udids \ raced PROVE page.dev[u] = Shown(u)
    BY DEF PageShowsDevices
  <2>1. Settled(pend, sub, page, List, u) /\ PageType
    BY TypeParts, EventsParts DEF PresenceInv
  <2>2. page.at = "live" /\ sub.buf = << >> /\ ~sub.dropped /\ \A p \in Publishers : pend[p] = << >>
    BY DEF CaughtUp
  <2>3. "enrich" \in Publishers /\ About(<< >>, u) = {}
    BY NoEvents DEF Publishers
  <2>4. Silent(pend, u, Publishers \ {"enrich"})
    BY <2>2, <2>3 DEF Silent
  <2>5. Bound(page, << >>, << >>, List, u)
    BY <2>1, <2>2, <2>3, <2>4 DEF Settled
  <2>6. << >> \o << >> = << >>
    OBVIOUS
  <2>7. Replayed(page.dev, << >>)[u] = List[u]
    BY <2>2, <2>5, <2>6 DEF Bound
  <2> QED
    BY <2>7, ReplayNone DEF List
<1> QED
  BY <1>1, PresenceHolds, PTL

-----------------------------------------------------------------------------
(* Notifications: the parts of the invariant, and what leaves them alone   *)

BusTyped == /\ feed \in [q : Seq(Notices), dropped : BOOLEAN] /\ Len(feed.q) <= BusBuffer
            /\ fwd \in Notices /\ inbox \in Seq(Notices) /\ Len(inbox) <= OutBuffer
TrackRecs == [here : BOOLEAN, busy : BOOLEAN, tearing : BOOLEAN, last : Times, reminder : Times, muted : BOOLEAN]
TrackTyped == track \in TrackRecs /\ (track.tearing => track.busy) /\ time \in Nat /\ reminded \in Times
WorkTyped == work \in [{"runner", "test"} -> Deliveries]
RowsTyped == rows \in [Endpoints -> RowRecords] /\ \A e \in Endpoints : rows[e].live => rows[e].id # 0
KeyRecs == [key : Nat, minting : SUBSET Callers, next : Nat, handed : SUBSET Nat]
EndedRecs == [how : [NotifyJobs -> Outcomes \cup {"none"}], told : SUBSET (0..3), lost : SUBSET (0..3)]
EndedTyped == ended \in EndedRecs /\ theme \in ThemeRecs

LEMMA NotifyParts ==
    NotifyTypeOK <=> BusTyped /\ TrackTyped /\ WorkTyped /\ RowsTyped /\ vapid \in KeyRecs /\ EndedTyped
  BY DEF NotifyTypeOK, BusTyped, TrackTyped, TrackRecs, WorkTyped, RowsTyped, KeyRecs, EndedRecs, EndedTyped

LEMMA BusSame ==
    ASSUME BusTyped, UNCHANGED <<feed, fwd, inbox, ended>> PROVE BusTyped'
  BY DEF BusTyped, Notices
LEMMA TrackSame ==
    ASSUME TrackTyped, UNCHANGED <<track, time, reminded>> PROVE TrackTyped'
  BY DEF TrackTyped
LEMMA WorkSame ==
    ASSUME WorkTyped, UNCHANGED work PROVE WorkTyped'
  BY DEF WorkTyped
LEMMA RowsSame ==
    ASSUME RowsTyped, UNCHANGED rows PROVE RowsTyped'
  BY DEF RowsTyped
LEMMA EndedSame ==
    ASSUME EndedTyped, UNCHANGED <<ended, theme>> PROVE EndedTyped'
  BY DEF EndedTyped

\* The jobs are counted as before.
LEMMA CountSame ==
    ASSUME JobsCounted, UNCHANGED ended, theme'.jobs = theme.jobs, track'.busy = track.busy,
           track'.tearing = track.tearing
    PROVE  JobsCounted'
  BY DEF JobsCounted

\* The reminders stand as before.
LEMMA ReminderSame ==
    ASSUME RemindersTrue, UNCHANGED <<time, reminded>>, track'.reminder = track.reminder,
           work'["runner"].on = work["runner"].on, work'["runner"].job = work["runner"].job
    PROVE  RemindersTrue'
  BY DEF RemindersTrue

\* Keys and subscriptions are as before.
LEMMA KeySame ==
    ASSUME KeyTrue, KeyHeld, UNCHANGED vapid,
           \A e \in Endpoints : rows'[e].id = rows[e].id /\ rows'[e].key = rows[e].key
    PROVE  KeyTrue' /\ KeyHeld'
  BY DEF KeyTrue, KeyHeld

\* What was a job's envelope stays one while jobs stay ended.
LEMMA NoticesGrow ==
    ASSUME \A k \in NotifyJobs : ended.how[k] # "none" => ended'.how[k] # "none"
    PROVE  Notices \subseteq Notices' /\ Seq(Notices) \subseteq Seq(Notices')
<1>1. Notices \subseteq Notices'
  <2> SUFFICES ASSUME NEW ev \in Notices PROVE ev \in Notices'
    OBVIOUS
  <2>1. /\ ev \in [typ : {"none", "device", "job"}, job : 0..3]
        /\ ev.typ = "job" => ev.job # 0 /\ ended.how[ev.job] # "none"
    BY DEF Notices
  <2>2. ev.typ = "job" => ev.job \in NotifyJobs
    BY <2>1 DEF NotifyJobs
  <2> QED
    BY <2>1, <2>2 DEF Notices
<1> DEFINE A == Notices
           B == Notices'
<1>2. A \subseteq B
  BY <1>1
<1> HIDE DEF A, B
<1>3. Seq(A) \subseteq Seq(B)
  <2> SUFFICES ASSUME NEW s \in Seq(A) PROVE s \in Seq(B)
    OBVIOUS
  <2>1. s \in [1..Len(s) -> A] /\ Len(s) \in Nat
    OBVIOUS
  <2>2. s \in [1..Len(s) -> B]
    BY <1>2, <2>1
  <2> QED
    BY <2>1, <2>2
<1> QED
  BY <1>2, <1>3 DEF A, B

\* What a publication does to the subscription.
LEMMA PublishTyped ==
    ASSUME BusTyped, UNCHANGED ended, NEW ev \in Notices, PublishTo(ev)
    PROVE  feed' \in [q : Seq(Notices), dropped : BOOLEAN] /\ Len(feed'.q) <= BusBuffer
<1>1. feed \in [q : Seq(Notices), dropped : BOOLEAN] /\ Len(feed.q) <= BusBuffer
  BY DEF BusTyped
<1>2. BusBuffer \in Nat
  BY NotifyAssumption
<1>3. CASE Len(feed.q) < BusBuffer
  <2> DEFINE s == Append(feed.q, ev)
  <2>1. feed' = [feed EXCEPT !.q = s]
    BY <1>3 DEF PublishTo
  <2>2. s \in Seq(Notices) /\ Len(s) <= BusBuffer
    BY <1>1, <1>2, <1>3
  <2> HIDE DEF s
  <2> QED
    BY <1>1, <2>1, <2>2
<1>4. CASE ~(Len(feed.q) < BusBuffer)
  <2>1. ASSUME NEW x \in BOOLEAN, feed' = [feed EXCEPT !.dropped = x]
        PROVE  feed' \in [q : Seq(Notices), dropped : BOOLEAN] /\ feed'.q = feed.q
    BY <1>1, <2>1
  <2>2. feed' = [feed EXCEPT !.dropped = TRUE]
    BY <1>4 DEF PublishTo
  <2>3. feed' \in [q : Seq(Notices), dropped : BOOLEAN] /\ feed'.q = feed.q
    BY <2>1, <2>2
  <2> QED
    BY <1>1, <2>3
<1> QED
  BY <1>3, <1>4

LEMMA PublishKeeps ==
    ASSUME BusTyped, UNCHANGED <<ended, fwd, inbox>>, NEW ev \in Notices, PublishTo(ev) PROVE BusTyped'
<1>1. feed' \in [q : Seq(Notices), dropped : BOOLEAN] /\ Len(feed'.q) <= BusBuffer
  BY PublishTyped
<1>2. Notices' = Notices
  BY DEF Notices
<1> QED
  BY <1>1, <1>2 DEF BusTyped

LEMMA UpdatedNotice == DeviceUpdated \in Notices /\ Nothing \in Notices
  BY DEF DeviceUpdated, Nothing, Notices

-----------------------------------------------------------------------------
(* Notifications: jobs and the device                                      *)

\* What a step does that only changes the track's flags.
LEMMA FlagsKeep ==
    ASSUME NotifyInv, UNCHANGED <<work, rows, vapid, time, reminded>>, BusTyped', TrackTyped', EndedTyped', JobsCounted',
           track'.reminder = track.reminder
    PROVE  NotifyInv'
<1>1. BusTyped /\ TrackTyped /\ WorkTyped /\ RowsTyped /\ vapid \in KeyRecs /\ EndedTyped
      /\ JobsCounted /\ RemindersTrue /\ KeyTrue /\ KeyHeld
  BY NotifyParts DEF NotifyInv
<1>2. WorkTyped' /\ RowsTyped' /\ vapid' \in KeyRecs
  BY <1>1, WorkSame, RowsSame DEF KeyRecs
<1>3. RemindersTrue'
  BY <1>1, ReminderSame
<1>4. KeyTrue' /\ KeyHeld'
  BY <1>1, KeySame
<1>5. NotifyTypeOK'
  BY <1>2 DEF NotifyTypeOK, BusTyped, TrackTyped, TrackRecs, WorkTyped, RowsTyped, KeyRecs, EndedRecs, EndedTyped
<1> QED
  BY <1>3, <1>4, <1>5 DEF NotifyInv

LEMMA InvParts ==
    ASSUME NotifyInv
    PROVE  /\ BusTyped /\ TrackTyped /\ WorkTyped /\ RowsTyped /\ vapid \in KeyRecs /\ EndedTyped
           /\ JobsCounted /\ RemindersTrue /\ KeyTrue /\ KeyHeld
  BY NotifyParts DEF NotifyInv

LEMMA InvFromParts ==
    ASSUME BusTyped', TrackTyped', WorkTyped', RowsTyped', vapid' \in KeyRecs, EndedTyped', JobsCounted',
           RemindersTrue', KeyTrue', KeyHeld'
    PROVE  NotifyInv'
<1>1. NotifyTypeOK'
  BY DEF NotifyTypeOK, BusTyped, TrackTyped, TrackRecs, WorkTyped, RowsTyped, KeyRecs, EndedRecs, EndedTyped
<1> QED
  BY <1>1 DEF NotifyInv

\* One flag of the track is set, or two are.
LEMMA FlagsTyped ==
    ASSUME track \in TrackRecs, NEW b \in BOOLEAN
    PROVE  /\ [track EXCEPT !.busy = b] \in TrackRecs
           /\ [track EXCEPT !.here = b] \in TrackRecs
           /\ [track EXCEPT !.muted = b] \in TrackRecs
           /\ [track EXCEPT !.busy = b, !.tearing = b] \in TrackRecs
  BY DEF TrackRecs

LEMMA ThemeTyped ==
    ASSUME theme \in ThemeRecs
    PROVE  /\ \A n \in 0..3 : [theme EXCEPT !.jobs = n] \in ThemeRecs
           /\ \A n \in Nat : /\ [theme EXCEPT !.ticks = n] \in ThemeRecs /\ [theme EXCEPT !.updates = n] \in ThemeRecs
                             /\ [theme EXCEPT !.gens = n] \in ThemeRecs
           /\ \A m : [theme EXCEPT !.may = @ \ m] \in ThemeRecs
  BY DEF ThemeRecs

LEMMA StartJobKeeps ==
    ASSUME NotifyInv, StartJob PROVE NotifyInv'
<1>1. /\ BusTyped /\ TrackTyped /\ WorkTyped /\ RowsTyped /\ vapid \in KeyRecs /\ EndedTyped
      /\ JobsCounted /\ RemindersTrue /\ KeyTrue /\ KeyHeld
  BY InvParts
<1>2. /\ theme.jobs > 0 /\ ~track.busy /\ track' = [track EXCEPT !.busy = TRUE]
      /\ theme' = [theme EXCEPT !.jobs = @ - 1]
      /\ UNCHANGED <<feed, fwd, inbox, work, rows, vapid, time, ended, reminded>>
  BY DEF StartJob
<1>3. track \in TrackRecs /\ theme \in ThemeRecs
  BY <1>1 DEF TrackTyped, EndedTyped
<1>4. theme.jobs \in 0..3 /\ theme.jobs - 1 \in 0..3
  BY <1>2, <1>3 DEF ThemeRecs
<1>5. theme' \in ThemeRecs /\ theme'.jobs = theme.jobs - 1
  <2> DEFINE n == theme.jobs - 1
  <2>1. theme' = [theme EXCEPT !.jobs = n] /\ n \in 0..3
    BY <1>2, <1>4
  <2> HIDE DEF n
  <2>2. theme' \in ThemeRecs
    BY <1>3, <2>1, ThemeTyped
  <2>3. theme'.jobs = n
    BY <1>3, <2>1 DEF ThemeRecs
  <2> QED
    BY <2>2, <2>3 DEF n
<1>6. track' \in TrackRecs
  BY <1>2, <1>3, FlagsTyped
<1>7. track'.busy /\ track'.tearing = track.tearing /\ track'.reminder = track.reminder
  BY <1>2, <1>3 DEF TrackRecs
<1>8. TrackTyped'
  BY <1>1, <1>2, <1>6, <1>7 DEF TrackTyped
<1>9. EndedTyped'
  BY <1>1, <1>2, <1>5 DEF EndedTyped
<1>10. JobsCounted'
  BY <1>1, <1>2, <1>4, <1>5, <1>7 DEF JobsCounted
<1>11. BusTyped'
  BY <1>1, <1>2, BusSame
<1> QED
  BY <1>2, <1>7, <1>8, <1>9, <1>10, <1>11, FlagsKeep

LEMMA JobTornDownKeeps ==
    ASSUME NotifyInv, JobTornDown PROVE NotifyInv'
<1>1. /\ BusTyped /\ TrackTyped /\ WorkTyped /\ RowsTyped /\ vapid \in KeyRecs /\ EndedTyped
      /\ JobsCounted /\ RemindersTrue /\ KeyTrue /\ KeyHeld
  BY InvParts
<1>2. /\ track.tearing /\ track' = [track EXCEPT !.busy = FALSE, !.tearing = FALSE]
      /\ UNCHANGED <<feed, fwd, inbox, work, rows, vapid, time, ended, reminded, theme>>
  BY DEF JobTornDown
<1>3. track \in TrackRecs
  BY <1>1 DEF TrackTyped
<1>4. track' \in TrackRecs
  BY <1>2, <1>3, FlagsTyped
<1>5. ~track'.busy /\ ~track'.tearing /\ track'.reminder = track.reminder
  BY <1>2, <1>3 DEF TrackRecs
<1>6. TrackTyped'
  BY <1>1, <1>2, <1>4, <1>5 DEF TrackTyped
<1>7. JobsCounted'
  BY <1>1, <1>2, <1>5 DEF JobsCounted
<1>8. BusTyped' /\ EndedTyped'
  BY <1>1, <1>2, BusSame, EndedSame
<1> QED
  BY <1>2, <1>5, <1>6, <1>7, <1>8, FlagsKeep

LEMMA VersionsDeletedKeeps ==
    ASSUME NotifyInv, VersionsDeleted PROVE NotifyInv'
<1>1. /\ BusTyped /\ TrackTyped /\ WorkTyped /\ RowsTyped /\ vapid \in KeyRecs /\ EndedTyped
      /\ JobsCounted /\ RemindersTrue /\ KeyTrue /\ KeyHeld
  BY InvParts
<1>2. /\ track' = [track EXCEPT !.last = Never]
      /\ UNCHANGED <<feed, fwd, inbox, work, rows, vapid, time, ended, reminded, theme>>
  BY DEF VersionsDeleted
<1>3. track \in TrackRecs /\ Never \in Times
  BY <1>1 DEF TrackTyped, Times
<1>4. /\ track' \in TrackRecs /\ track'.busy = track.busy /\ track'.tearing = track.tearing
      /\ track'.reminder = track.reminder
  BY <1>2, <1>3 DEF TrackRecs
<1>5. TrackTyped'
  BY <1>1, <1>2, <1>4 DEF TrackTyped
<1>6. JobsCounted'
  BY <1>1, <1>2, <1>4 DEF JobsCounted
<1>7. BusTyped' /\ EndedTyped'
  BY <1>1, <1>2, BusSame, EndedSame
<1> QED
  BY <1>2, <1>4, <1>5, <1>6, <1>7, FlagsKeep

LEMMA DeviceChangesKeeps ==
    ASSUME NotifyInv, NEW here \in BOOLEAN, DeviceChanges(here) PROVE NotifyInv'
<1>1. /\ BusTyped /\ TrackTyped /\ WorkTyped /\ RowsTyped /\ vapid \in KeyRecs /\ EndedTyped
      /\ JobsCounted /\ RemindersTrue /\ KeyTrue /\ KeyHeld
  BY InvParts
<1>2. /\ theme.updates > 0 /\ theme' = [theme EXCEPT !.updates = @ - 1] /\ track' = [track EXCEPT !.here = here]
      /\ PublishTo(DeviceUpdated) /\ UNCHANGED <<fwd, inbox, work, rows, vapid, time, ended, reminded>>
  BY DEF DeviceChanges
<1>3. track \in TrackRecs /\ theme \in ThemeRecs
  BY <1>1 DEF TrackTyped, EndedTyped
<1>4. theme' \in ThemeRecs /\ theme'.jobs = theme.jobs
  <2> DEFINE n == theme.updates - 1
  <2>1. theme' = [theme EXCEPT !.updates = n] /\ n \in Nat
    BY <1>2, <1>3 DEF ThemeRecs
  <2> HIDE DEF n
  <2>2. theme' \in ThemeRecs
    BY <1>3, <2>1, ThemeTyped
  <2>3. theme'.jobs = theme.jobs
    BY <1>3, <2>1 DEF ThemeRecs
  <2> QED
    BY <2>2, <2>3
<1>5. track' \in TrackRecs
  BY <1>2, <1>3, FlagsTyped
<1>6. track'.busy = track.busy /\ track'.tearing = track.tearing /\ track'.reminder = track.reminder
  BY <1>2, <1>3 DEF TrackRecs
<1>7. TrackTyped'
  BY <1>1, <1>2, <1>5, <1>6 DEF TrackTyped
<1>8. EndedTyped'
  BY <1>1, <1>2, <1>4 DEF EndedTyped
<1>9. JobsCounted'
  BY <1>1, <1>2, <1>4, <1>6, CountSame
<1>10. BusTyped'
  BY <1>1, <1>2, UpdatedNotice, PublishKeeps
<1> QED
  BY <1>2, <1>6, <1>7, <1>8, <1>9, <1>10, FlagsKeep

LEMMA SetMutedKeeps ==
    ASSUME NotifyInv, SetMuted PROVE NotifyInv'
<1>1. /\ BusTyped /\ TrackTyped /\ WorkTyped /\ RowsTyped /\ vapid \in KeyRecs /\ EndedTyped
      /\ JobsCounted /\ RemindersTrue /\ KeyTrue /\ KeyHeld
  BY InvParts
<1>2. /\ track' = [track EXCEPT !.muted = TRUE]
      /\ PublishTo(DeviceUpdated) /\ UNCHANGED <<fwd, inbox, work, rows, vapid, time, ended, reminded, theme>>
  BY DEF SetMuted
<1>3. track \in TrackRecs
  BY <1>1 DEF TrackTyped
<1>4. track' \in TrackRecs
  BY <1>2, <1>3, FlagsTyped
<1>5. track'.busy = track.busy /\ track'.tearing = track.tearing /\ track'.reminder = track.reminder
  BY <1>2, <1>3 DEF TrackRecs
<1>6. TrackTyped'
  BY <1>1, <1>2, <1>4, <1>5 DEF TrackTyped
<1>7. EndedTyped' /\ JobsCounted'
  BY <1>1, <1>2, <1>5, EndedSame, CountSame
<1>8. BusTyped'
  BY <1>1, <1>2, UpdatedNotice, PublishKeeps
<1> QED
  BY <1>2, <1>5, <1>6, <1>7, <1>8, FlagsKeep

\* The job that ends takes the next number, and it was none's before.
LEMMA NextJob ==
    ASSUME EndedTyped, JobsCounted, track.busy, ~track.tearing
    PROVE  LET j == Cardinality({k \in NotifyJobs : ended.how[k] # "none"}) + 1 IN
           /\ j \in NotifyJobs /\ j + theme.jobs <= 3
           /\ \A k \in NotifyJobs : ended.how[k] # "none" <=> k < j
<1>1. PICK n \in 0..3 : /\ \A k \in NotifyJobs : ended.how[k] # "none" <=> k <= n
                        /\ n + theme.jobs + 1 <= 3
  BY DEF JobsCounted
<1>2. theme.jobs \in 0..3
  BY DEF EndedTyped, ThemeRecs
<1>3. {k \in NotifyJobs : ended.how[k] # "none"} = 1..n
  BY <1>1 DEF NotifyJobs
<1>4. Cardinality(1..n) = n
  <2>1. 1 \in Int /\ n \in Int
    OBVIOUS
  <2>2. Cardinality(1..n) = IF 1 > n THEN 0 ELSE n - 1 + 1
    BY <2>1, FS_Interval
  <2> QED
    BY <1>1, <2>2
<1>5. Cardinality({k \in NotifyJobs : ended.how[k] # "none"}) = n
  BY <1>3, <1>4
<1> HIDE DEF NotifyJobs
<1>6. n + 1 \in NotifyJobs /\ n + 1 + theme.jobs <= 3
  BY <1>1, <1>2 DEF NotifyJobs
<1>7. \A k \in NotifyJobs : k <= n <=> k < n + 1
  BY <1>1 DEF NotifyJobs
<1> QED
  BY <1>1, <1>5, <1>6, <1>7

LEMMA EndJobKeeps ==
    ASSUME NotifyInv, NEW how \in Outcomes, EndJob(how) PROVE NotifyInv'
<1>1. /\ BusTyped /\ TrackTyped /\ WorkTyped /\ RowsTyped /\ vapid \in KeyRecs /\ EndedTyped
      /\ JobsCounted /\ RemindersTrue /\ KeyTrue /\ KeyHeld
  BY InvParts
<1> DEFINE j == Cardinality({k \in NotifyJobs : ended.how[k] # "none"}) + 1
           ev == [typ |-> "job", job |-> j]
<1>2. /\ track.busy /\ ~track.tearing /\ PublishTo(ev)
      /\ ended' = [ended EXCEPT !.how[j] = how, !.lost = @ \cup Unheard(ev)]
      /\ track' = [track EXCEPT !.last = IF how = "succeeded" THEN time ELSE @, !.tearing = TRUE]
      /\ UNCHANGED <<fwd, inbox, work, rows, vapid, time, reminded, theme>>
  BY DEF EndJob
<1>3. j \in NotifyJobs /\ j + theme.jobs <= 3 /\ \A k \in NotifyJobs : ended.how[k] # "none" <=> k < j
  BY <1>1, <1>2, NextJob
<1> HIDE DEF j
<1>4. track \in TrackRecs /\ ended \in EndedRecs /\ theme \in ThemeRecs /\ time \in Nat /\ theme.jobs \in 0..3
  BY <1>1 DEF TrackTyped, EndedTyped, ThemeRecs
<1>5. /\ track' \in TrackRecs /\ track'.tearing = TRUE /\ track'.busy = track.busy /\ track'.reminder = track.reminder
  <2> DEFINE l == IF how = "succeeded" THEN time ELSE track.last
  <2>1. l \in Times
    BY <1>4 DEF TrackRecs, Times
  <2>2. track' = [track EXCEPT !.last = l, !.tearing = TRUE]
    BY <1>2
  <2> HIDE DEF l
  <2>3. ASSUME NEW x \in BOOLEAN, track' = [track EXCEPT !.last = l, !.tearing = x]
        PROVE  track' \in TrackRecs /\ track'.tearing = x /\ track'.busy = track.busy /\ track'.reminder = track.reminder
    BY <1>4, <2>1, <2>3 DEF TrackRecs
  <2> QED
    BY <2>2, <2>3
<1>6. Unheard(ev) \subseteq 0..3
  BY <1>3 DEF Unheard, Job, NotifyJobs
<1>7. /\ ended' \in EndedRecs /\ ended'.how = [ended.how EXCEPT ![j] = how]
  <2> DEFINE h == [ended.how EXCEPT ![j] = how]
             l == ended.lost \cup Unheard(ev)
  <2>1. ended' = [ended EXCEPT !.how = h, !.lost = l]
    BY <1>2, <1>4 DEF EndedRecs
  <2>2. h \in [NotifyJobs -> Outcomes \cup {"none"}]
    BY <1>4 DEF EndedRecs
  <2>3. l \in SUBSET (0..3)
    BY <1>4, <1>6 DEF EndedRecs
  <2> HIDE DEF h, l
  <2>4. ended' \in EndedRecs /\ ended'.how = h
    BY <1>4, <2>1, <2>2, <2>3 DEF EndedRecs
  <2> QED
    BY <2>4 DEF h
<1>8. \A k \in NotifyJobs : ended'.how[k] = IF k = j THEN how ELSE ended.how[k]
  BY <1>4, <1>7 DEF EndedRecs
<1>9. how # "none"
  BY DEF Outcomes
<1>10. \A k \in NotifyJobs : ended'.how[k] # "none" <=> k <= j
  BY <1>3, <1>8, <1>9 DEF NotifyJobs
<1>11. JobsCounted'
  <2>1. j \in 0..3 /\ j + theme.jobs + 0 <= 3
    BY <1>3, <1>4 DEF NotifyJobs
  <2> QED
    BY <1>2, <1>5, <1>10, <2>1 DEF JobsCounted
<1>12. Notices \subseteq Notices' /\ Seq(Notices) \subseteq Seq(Notices')
  BY <1>8, <1>9, NoticesGrow
<1>13. ev \in Notices'
  BY <1>3, <1>10 DEF Notices, NotifyJobs
<1> HIDE DEF ev
<1>14. BusTyped'
  <2> DEFINE B == Notices'
  <2>1. feed \in [q : Seq(B), dropped : BOOLEAN] /\ Len(feed.q) <= BusBuffer /\ fwd \in B /\ inbox \in Seq(B)
        /\ Len(inbox) <= OutBuffer
    BY <1>1, <1>12 DEF BusTyped
  <2>2. ev \in B
    BY <1>13
  <2>3. BusBuffer \in Nat
    BY NotifyAssumption
  <2> HIDE DEF B
  <2>4. feed' \in [q : Seq(B), dropped : BOOLEAN] /\ Len(feed'.q) <= BusBuffer
    <3>1. CASE Len(feed.q) < BusBuffer
      <4> DEFINE s == Append(feed.q, ev)
      <4>1. feed' = [feed EXCEPT !.q = s]
        BY <1>2, <3>1 DEF PublishTo
      <4>2. s \in Seq(B) /\ Len(s) <= BusBuffer
        BY <2>1, <2>2, <2>3, <3>1
      <4> HIDE DEF s
      <4> QED
        BY <2>1, <4>1, <4>2
    <3>2. CASE ~(Len(feed.q) < BusBuffer)
      <4>1. ASSUME NEW x \in BOOLEAN, feed' = [feed EXCEPT !.dropped = x]
            PROVE  feed' \in [q : Seq(B), dropped : BOOLEAN] /\ feed'.q = feed.q
        BY <2>1, <4>1
      <4>2. feed' = [feed EXCEPT !.dropped = TRUE]
        BY <1>2, <3>2 DEF PublishTo
      <4>3. feed' \in [q : Seq(B), dropped : BOOLEAN] /\ feed'.q = feed.q
        BY <4>1, <4>2
      <4> QED
        BY <2>1, <4>3
    <3> QED
      BY <3>1, <3>2
  <2> QED
    BY <1>2, <2>1, <2>4 DEF BusTyped, B
<1>15. TrackTyped'
  BY <1>1, <1>2, <1>5 DEF TrackTyped
<1>16. EndedTyped'
  BY <1>2, <1>4, <1>7 DEF EndedTyped, EndedRecs
<1> QED
  BY <1>2, <1>5, <1>11, <1>14, <1>15, <1>16, FlagsKeep

-----------------------------------------------------------------------------
(* Notifications: the forwarder                                            *)

\* What a step does that only moves envelopes, and what is said of lost jobs.
LEMMA MovesKeep ==
    ASSUME NotifyInv, UNCHANGED <<track, work, rows, vapid, time, reminded, theme>>, BusTyped', EndedTyped',
           ended'.how = ended.how
    PROVE  NotifyInv'
<1>1. /\ BusTyped /\ TrackTyped /\ WorkTyped /\ RowsTyped /\ vapid \in KeyRecs /\ EndedTyped
      /\ JobsCounted /\ RemindersTrue /\ KeyTrue /\ KeyHeld
  BY InvParts
<1>2. TrackTyped'
  BY <1>1, TrackSame
<1>3. JobsCounted'
  BY <1>1 DEF JobsCounted
<1> QED
  BY <1>2, <1>3, FlagsKeep

LEMMA ForwardEventKeeps ==
    ASSUME NotifyInv, ForwardEvent PROVE NotifyInv'
<1>1. BusTyped /\ EndedTyped
  BY InvParts
<1>2. /\ feed.q # << >> /\ fwd' = (IF Forwards(Head(feed.q)) THEN Head(feed.q) ELSE Nothing)
      /\ feed' = [feed EXCEPT !.q = Tail(@)]
      /\ UNCHANGED <<inbox, track, work, rows, vapid, time, ended, reminded, theme>>
  BY DEF ForwardEvent
<1>3. feed \in [q : Seq(Notices), dropped : BOOLEAN] /\ Len(feed.q) <= BusBuffer /\ BusBuffer \in Nat
  BY <1>1, NotifyAssumption DEF BusTyped
<1> DEFINE s == Tail(feed.q)
<1>4. Head(feed.q) \in Notices /\ s \in Seq(Notices) /\ Len(s) <= BusBuffer
  BY <1>2, <1>3
<1>5. fwd' \in Notices
  BY <1>2, <1>4, UpdatedNotice
<1>6. feed' = [feed EXCEPT !.q = s]
  BY <1>2
<1> HIDE DEF s
<1>7. feed' \in [q : Seq(Notices), dropped : BOOLEAN] /\ feed'.q = s
  BY <1>3, <1>4, <1>6
<1>8. Notices' = Notices
  BY <1>2 DEF Notices
<1>9. BusTyped'
  BY <1>1, <1>2, <1>4, <1>5, <1>7, <1>8 DEF BusTyped
<1>10. EndedTyped'
  BY <1>1, <1>2, EndedSame
<1> QED
  BY <1>2, <1>9, <1>10, MovesKeep

LEMMA SendKeeps ==
    ASSUME NotifyInv, Send PROVE NotifyInv'
<1>1. BusTyped /\ EndedTyped
  BY InvParts
<1>2. /\ Len(inbox) < OutBuffer /\ inbox' = Append(inbox, fwd) /\ fwd' = Nothing
      /\ UNCHANGED <<feed, track, work, rows, vapid, time, ended, reminded, theme>>
  BY DEF Send
<1>3. inbox \in Seq(Notices) /\ fwd \in Notices /\ OutBuffer \in Nat
  BY <1>1, NotifyAssumption DEF BusTyped
<1>4. inbox' \in Seq(Notices) /\ Len(inbox') <= OutBuffer
  BY <1>2, <1>3
<1>5. fwd' \in Notices
  BY <1>2, UpdatedNotice
<1>6. Notices' = Notices
  BY <1>2 DEF Notices
<1>7. BusTyped'
  BY <1>1, <1>2, <1>4, <1>5, <1>6 DEF BusTyped
<1>8. EndedTyped'
  BY <1>1, <1>2, EndedSame
<1> QED
  BY <1>2, <1>7, <1>8, MovesKeep

LEMMA ForwardDroppedKeeps ==
    ASSUME NotifyInv, ForwardDropped PROVE NotifyInv'
<1>1. BusTyped /\ EndedTyped
  BY InvParts
<1> DEFINE gone == UNION {Job(feed.q[i]) : i \in DOMAIN feed.q}
<1>2. /\ ended' = [ended EXCEPT !.lost = @ \cup gone]
      /\ feed' = [q |-> << >>, dropped |-> FALSE] /\ fwd' = DeviceUpdated
      /\ UNCHANGED <<inbox, track, work, rows, vapid, time, reminded, theme>>
  BY DEF ForwardDropped
<1>3. gone \subseteq 0..3
  <2> SUFFICES ASSUME NEW i \in DOMAIN feed.q PROVE Job(feed.q[i]) \subseteq 0..3
    OBVIOUS
  <2>1. feed.q \in Seq(Notices)
    BY <1>1 DEF BusTyped
  <2>2. feed.q[i] \in Notices
    BY <2>1
  <2> QED
    BY <2>2 DEF Notices, Job
<1> DEFINE l == ended.lost \cup gone
<1>4. ended' = [ended EXCEPT !.lost = l] /\ ended \in EndedRecs /\ l \in SUBSET (0..3)
  BY <1>1, <1>2, <1>3 DEF EndedTyped, EndedRecs
<1> HIDE DEF gone, l
<1>5. ended' \in EndedRecs /\ ended'.how = ended.how
  BY <1>4 DEF EndedRecs
<1>6. Notices' = Notices
  BY <1>5 DEF Notices
<1>7. feed' \in [q : Seq(Notices), dropped : BOOLEAN] /\ Len(feed'.q) <= BusBuffer
  <2>1. << >> \in Seq(Notices) /\ Len(<< >>) = 0 /\ BusBuffer \in Nat /\ FALSE \in BOOLEAN
    BY NotifyAssumption
  <2>2. feed'.q = << >>
    BY <1>2
  <2>3. ASSUME NEW b \in BOOLEAN PROVE [q |-> << >>, dropped |-> b] \in [q : Seq(Notices), dropped : BOOLEAN]
    BY <2>1
  <2> QED
    BY <1>2, <2>1, <2>2, <2>3
<1>8. BusTyped'
  BY <1>1, <1>2, <1>6, <1>7, UpdatedNotice DEF BusTyped
<1>9. EndedTyped'
  BY <1>1, <1>2, <1>5 DEF EndedTyped, EndedRecs
<1> QED
  BY <1>2, <1>5, <1>8, <1>9, MovesKeep

-----------------------------------------------------------------------------
(* Notifications: deliveries                                               *)

LEMMA DeliversTyped ==
    ASSUME RowsTyped, NEW cat \in Categories \cup {"none", "test"}, NEW job \in 0..3
    PROVE  Delivers(cat, job) \in Deliveries /\ Delivers(cat, job).on /\ Delivers(cat, job).job = job
<1> DEFINE due == IF vapid.key = 0 THEN {} ELSE {e \in Endpoints : rows[e].live}
           gens == [e \in Endpoints |-> rows[e].gen]
<1>1. due \in SUBSET Endpoints
  OBVIOUS
<1>2. gens \in [Endpoints -> Nat]
  BY DEF RowsTyped, RowRecords
<1>3. Delivers(cat, job) = [on |-> TRUE, cat |-> cat, job |-> job, due |-> due, gens |-> gens]
  BY DEF Delivers
<1> HIDE DEF due, gens
<1>4. ASSUME NEW b \in BOOLEAN
      PROVE  LET d == [on |-> b, cat |-> cat, job |-> job, due |-> due, gens |-> gens] IN
             d \in Deliveries /\ d.on = b /\ d.job = job
  BY <1>1, <1>2 DEF Deliveries
<1> QED
  BY <1>3, <1>4

LEMMA NoWorkTyped == NoWork \in Deliveries /\ ~NoWork.on /\ NoWork.job = 0
<1> DEFINE gens == [e \in Endpoints |-> 0]
<1>1. gens \in [Endpoints -> Nat]
  OBVIOUS
<1>2. NoWork = [on |-> FALSE, cat |-> "none", job |-> 0, due |-> {}, gens |-> gens]
  BY DEF NoWork
<1> HIDE DEF gens
<1>3. ASSUME NEW b \in BOOLEAN
      PROVE  LET d == [on |-> b, cat |-> "none", job |-> 0, due |-> {}, gens |-> gens] IN
             d \in Deliveries /\ d.on = b /\ d.job = 0
  BY <1>1 DEF Deliveries
<1> QED
  BY <1>2, <1>3

LEMMA WorkPut ==
    ASSUME WorkTyped, NEW t \in {"runner", "test"}, NEW w \in Deliveries, work' = [work EXCEPT ![t] = w]
    PROVE  WorkTyped' /\ work'[t] = w /\ \A o \in {"runner", "test"} : o # t => work'[o] = work[o]
  BY DEF WorkTyped

\* A row at its turn: the delivery goes on, to the others.
LEMMA WorkTurn ==
    ASSUME WorkTyped, NEW t \in {"runner", "test"}, NEW e, work' = [work EXCEPT ![t].due = @ \ {e}]
    PROVE  WorkTyped' /\ work'["runner"].on = work["runner"].on /\ work'["runner"].job = work["runner"].job
<1> DEFINE d == work[t].due \ {e}
           w == [work[t] EXCEPT !.due = d]
<1>1. work[t] \in Deliveries /\ work["runner"] \in Deliveries
  BY DEF WorkTyped
<1>2. d \in SUBSET Endpoints
  BY <1>1 DEF Deliveries
<1>3. work' = [work EXCEPT ![t] = w]
  OBVIOUS
<1> HIDE DEF d
<1>4. w \in Deliveries /\ w.on = work[t].on /\ w.job = work[t].job
  BY <1>1, <1>2 DEF Deliveries
<1> HIDE DEF w
<1>5. WorkTyped' /\ work'[t] = w /\ \A o \in {"runner", "test"} : o # t => work'[o] = work[o]
  BY <1>3, <1>4, WorkPut
<1> QED
  BY <1>4, <1>5

\* What a step does that changes a delivery, or rows' lives.
LEMMA WorkKeeps ==
    ASSUME NotifyInv, UNCHANGED <<feed, fwd, inbox, track, vapid, time, ended, reminded>>,
           WorkTyped', RowsTyped', EndedTyped', theme'.jobs = theme.jobs,
           work'["runner"].on = work["runner"].on, work'["runner"].job = work["runner"].job,
           \A e \in Endpoints : rows'[e].id = rows[e].id /\ rows'[e].key = rows[e].key
    PROVE  NotifyInv'
<1>1. /\ BusTyped /\ TrackTyped /\ WorkTyped /\ RowsTyped /\ vapid \in KeyRecs /\ EndedTyped
      /\ JobsCounted /\ RemindersTrue /\ KeyTrue /\ KeyHeld
  BY InvParts
<1>2. BusTyped' /\ TrackTyped' /\ vapid' \in KeyRecs
  BY <1>1, BusSame, TrackSame
<1>3. JobsCounted'
  BY <1>1, CountSame
<1>4. RemindersTrue'
  BY <1>1, ReminderSame
<1>5. KeyTrue' /\ KeyHeld'
  BY <1>1, KeySame
<1> QED
  BY <1>2, <1>3, <1>4, <1>5, InvFromParts

LEMMA PostKeeps ==
    ASSUME NotifyInv, NEW t \in {"runner", "test"}, NEW e \in Endpoints, NEW answer, Post(t, e, answer) PROVE NotifyInv'
<1>1. WorkTyped /\ RowsTyped /\ EndedTyped
  BY InvParts
<1>2. /\ work' = [work EXCEPT ![t].due = @ \ {e}]
      /\ rows' = [rows EXCEPT ![e].live = FALSE] \/ rows' = rows
      /\ UNCHANGED <<feed, fwd, inbox, track, vapid, time, ended, reminded, theme>>
  BY DEF Post
<1>3. WorkTyped' /\ work'["runner"].on = work["runner"].on /\ work'["runner"].job = work["runner"].job
  BY <1>1, <1>2, WorkTurn
<1>4. RowsTyped' /\ \A o \in Endpoints : rows'[o].id = rows[o].id /\ rows'[o].key = rows[o].key
  <2>1. CASE rows' = rows
    BY <1>1, <2>1 DEF RowsTyped
  <2>2. CASE rows' = [rows EXCEPT ![e].live = FALSE]
    <3> DEFINE r == [rows[e] EXCEPT !.live = FALSE]
    <3>1. rows' = [rows EXCEPT ![e] = r] /\ rows \in [Endpoints -> RowRecords] /\ rows[e] \in RowRecords
      BY <1>1, <2>2 DEF RowsTyped
    <3>2. r \in RowRecords /\ ~r.live /\ r.id = rows[e].id /\ r.key = rows[e].key
      <4>1. ASSUME NEW b \in BOOLEAN
            PROVE  LET x == [rows[e] EXCEPT !.live = b] IN
                   x \in RowRecords /\ x.live = b /\ x.id = rows[e].id /\ x.key = rows[e].key
        BY <3>1 DEF RowRecords
      <4> QED
        BY <4>1
    <3> HIDE DEF r
    <3>3. rows' \in [Endpoints -> RowRecords] /\ \A o \in Endpoints : rows'[o] = IF o = e THEN r ELSE rows[o]
      BY <3>1, <3>2
    <3> QED
      BY <1>1, <3>2, <3>3 DEF RowsTyped
  <2> QED
    BY <1>2, <2>1, <2>2
<1>5. EndedTyped'
  BY <1>1, <1>2, EndedSame
<1> QED
  BY <1>2, <1>3, <1>4, <1>5, WorkKeeps

LEMMA MutedKeeps ==
    ASSUME NotifyInv, NEW t \in {"runner", "test"}, NEW e \in Endpoints, Muted(t, e) PROVE NotifyInv'
<1>1. WorkTyped /\ RowsTyped /\ EndedTyped
  BY InvParts
<1>2. /\ work' = [work EXCEPT ![t].due = @ \ {e}]
      /\ UNCHANGED <<feed, fwd, inbox, track, rows, vapid, time, ended, reminded, theme>>
  BY DEF Muted
<1>3. WorkTyped' /\ work'["runner"].on = work["runner"].on /\ work'["runner"].job = work["runner"].job
  BY <1>1, <1>2, WorkTurn
<1>4. RowsTyped' /\ EndedTyped'
  BY <1>1, <1>2, RowsSame, EndedSame
<1> QED
  BY <1>2, <1>3, <1>4, WorkKeeps

LEMMA TestKeeps ==
    ASSUME NotifyInv, SendTest \/ TestEnds PROVE NotifyInv'
<1>1. WorkTyped /\ RowsTyped /\ EndedTyped
  BY InvParts
<1>2. UNCHANGED <<feed, fwd, inbox, track, rows, vapid, time, ended, reminded>>
  BY DEF SendTest, TestEnds
<1>3. RowsTyped'
  BY <1>1, <1>2, RowsSame
<1>4. \E w \in Deliveries : work' = [work EXCEPT !["test"] = w]
  <2>1. CASE SendTest
    <3>1. Delivers("test", 0) \in Deliveries
      BY <1>1, DeliversTyped
    <3> QED
      BY <2>1, <3>1 DEF SendTest
  <2>2. CASE TestEnds
    BY <2>2, NoWorkTyped DEF TestEnds
  <2> QED
    BY <2>1, <2>2
<1>5. WorkTyped' /\ work'["runner"] = work["runner"]
  <2>1. PICK w \in Deliveries : work' = [work EXCEPT !["test"] = w]
    BY <1>4
  <2> QED
    BY <1>1, <2>1, WorkPut
<1>6. theme' \in ThemeRecs /\ theme'.jobs = theme.jobs
  <2>1. theme \in ThemeRecs
    BY <1>1 DEF EndedTyped
  <2>2. CASE SendTest
    <3>1. theme' = [theme EXCEPT !.may = @ \ {"test"}]
      BY <2>2 DEF SendTest
    <3> QED
      BY <2>1, <3>1 DEF ThemeRecs
  <2>3. CASE TestEnds
    BY <2>1, <2>3 DEF TestEnds
  <2> QED
    BY <2>2, <2>3
<1>7. EndedTyped'
  BY <1>1, <1>2, <1>6 DEF EndedTyped
<1> QED
  BY <1>2, <1>3, <1>5, <1>6, <1>7, WorkKeeps

-----------------------------------------------------------------------------
(* Notifications: the runner                                               *)

\* A reminder goes out only past the cooldown of the one on record.
LEMMA EvaluateTyped ==
    /\ Evaluate \in {"none", "available", "overdue"}
    /\ Evaluate # "none" => track.reminder = Never \/ ~(time - track.reminder < Cooldown)
  BY DEF Evaluate

\* The evaluation starts one reminder, or none.
LEMMA EvaluateKeeps ==
    ASSUME NotifyInv, Idling, EvaluateAll, UNCHANGED <<feed, fwd, track, rows, vapid, time, ended, theme>>, BusTyped'
    PROVE  NotifyInv'
<1>1. /\ BusTyped /\ TrackTyped /\ WorkTyped /\ RowsTyped /\ vapid \in KeyRecs /\ EndedTyped
      /\ JobsCounted /\ RemindersTrue /\ KeyTrue /\ KeyHeld
  BY InvParts
<1>2. RowsTyped' /\ vapid' \in KeyRecs /\ EndedTyped' /\ JobsCounted' /\ KeyTrue' /\ KeyHeld'
  BY <1>1, RowsSame, EndedSame, CountSame, KeySame
<1>3. CASE UNCHANGED <<work, reminded>>
  <2>1. work' = work /\ reminded' = reminded
    BY <1>3
  <2>2. WorkTyped' /\ TrackTyped' /\ RemindersTrue'
    BY <1>1, <2>1, WorkSame, TrackSame, ReminderSame
  <2> QED
    BY <1>2, <2>2, InvFromParts
<1>4. CASE work' = [work EXCEPT !["runner"] = Delivers(Evaluate, 0)] /\ reminded' = time
  <2>1. work' = [work EXCEPT !["runner"] = Delivers(Evaluate, 0)] /\ reminded' = time
    BY <1>4
  <2>2. Delivers(Evaluate, 0) \in Deliveries /\ Delivers(Evaluate, 0).on /\ Delivers(Evaluate, 0).job = 0
    <3>1. Evaluate \in Categories \cup {"none", "test"}
      BY EvaluateTyped DEF Categories
    <3> QED
      BY <1>1, <3>1, DeliversTyped
  <2>3. WorkTyped' /\ work'["runner"] = Delivers(Evaluate, 0)
    BY <1>1, <2>1, <2>2, WorkPut
  <2>4. TrackTyped'
    BY <1>1, <2>1 DEF TrackTyped, Times
  <2>5. RemindersTrue'
    <3>1. time \in Nat
      BY <1>1 DEF TrackTyped
    <3> QED
      BY <1>1, <2>1, <2>2, <2>3, <3>1 DEF RemindersTrue
  <2> QED
    BY <1>2, <2>3, <2>4, <2>5, InvFromParts
<1> QED
  BY <1>3, <1>4 DEF EvaluateAll

LEMMA HourTickKeeps ==
    ASSUME NotifyInv, HourTick PROVE NotifyInv'
<1>1. /\ Idling /\ EvaluateAll /\ UNCHANGED <<feed, fwd, inbox, track, rows, vapid, time, ended, theme>>
  BY DEF HourTick
<1>2. BusTyped'
  BY <1>1, InvParts, BusSame
<1> QED
  BY <1>1, <1>2, EvaluateKeeps

\* The runner takes an envelope.
LEMMA InboxTakes ==
    ASSUME BusTyped, inbox # << >>, inbox' = Tail(inbox), UNCHANGED <<feed, fwd>>, ended'.how = ended.how
    PROVE  BusTyped' /\ Head(inbox) \in Notices
<1>1. inbox \in Seq(Notices) /\ Len(inbox) <= OutBuffer /\ OutBuffer \in Nat
  BY NotifyAssumption DEF BusTyped
<1>2. Tail(inbox) \in Seq(Notices) /\ Len(Tail(inbox)) <= OutBuffer /\ Head(inbox) \in Notices
  BY <1>1
<1>3. Notices' = Notices
  BY DEF Notices
<1> QED
  BY <1>2, <1>3 DEF BusTyped

LEMMA HandleDeviceKeeps ==
    ASSUME NotifyInv, HandleDevice PROVE NotifyInv'
<1>1. /\ Idling /\ inbox # << >> /\ inbox' = Tail(inbox) /\ EvaluateAll
      /\ UNCHANGED <<feed, fwd, track, rows, vapid, time, ended, theme>>
  BY DEF HandleDevice
<1>2. BusTyped'
  BY <1>1, InvParts, InboxTakes
<1> QED
  BY <1>1, <1>2, EvaluateKeeps

\* The track's last reminder is set, or forgotten.
LEMMA ReminderPut ==
    ASSUME TrackTyped, NEW r \in Times, NEW n \in Times, track' = [track EXCEPT !.reminder = r],
           reminded' = n, UNCHANGED time
    PROVE  TrackTyped' /\ track'.reminder = r /\ track'.busy = track.busy /\ track'.tearing = track.tearing
<1>1. track \in TrackRecs /\ time \in Nat
  BY DEF TrackTyped
<1>2. /\ track' \in TrackRecs /\ track'.reminder = r /\ track'.busy = track.busy /\ track'.tearing = track.tearing
  BY <1>1 DEF TrackRecs
<1> QED
  BY <1>2 DEF TrackTyped

LEMMA ToldPut ==
    ASSUME EndedTyped, UNCHANGED theme, NEW J \in SUBSET (0..3), ended' = [ended EXCEPT !.told = @ \cup J]
    PROVE  EndedTyped' /\ ended'.how = ended.how
<1> DEFINE l == ended.told \cup J
<1>1. ended' = [ended EXCEPT !.told = l] /\ ended \in EndedRecs /\ l \in SUBSET (0..3)
  BY DEF EndedTyped, EndedRecs
<1> HIDE DEF l
<1>2. ended' \in EndedRecs /\ ended'.how = ended.how
  BY <1>1 DEF EndedRecs
<1> QED
  BY <1>2 DEF EndedTyped, EndedRecs

\* The jobs that ended are the same ones.
LEMMA CountHow ==
    ASSUME JobsCounted, ended'.how = ended.how, UNCHANGED theme, track'.busy = track.busy,
           track'.tearing = track.tearing
    PROVE  JobsCounted'
  BY DEF JobsCounted

\* The end of a job nobody is told of: its device is listed no more.
LEMMA PassedOverKeeps ==
    ASSUME NotifyInv, HandleJob, UNCHANGED <<track, work, reminded>>, ended' = [ended EXCEPT !.lost = @ \cup {Head(inbox).job}]
    PROVE  NotifyInv'
<1>1. /\ BusTyped /\ TrackTyped /\ WorkTyped /\ RowsTyped /\ vapid \in KeyRecs /\ EndedTyped
      /\ JobsCounted /\ RemindersTrue /\ KeyTrue /\ KeyHeld
  BY InvParts
<1>2. inbox # << >> /\ inbox' = Tail(inbox) /\ UNCHANGED <<feed, fwd, rows, vapid, time, theme>>
  BY DEF HandleJob
<1>3. Head(inbox).job \in 0..3
  <2>1. inbox \in Seq(Notices)
    BY <1>1 DEF BusTyped
  <2>2. Head(inbox) \in Notices
    BY <1>2, <2>1
  <2> QED
    BY <2>2 DEF Notices
<1> DEFINE l == ended.lost \cup {Head(inbox).job}
<1>4. ended' = [ended EXCEPT !.lost = l] /\ ended \in EndedRecs /\ l \in SUBSET (0..3)
  BY <1>1, <1>3 DEF EndedTyped, EndedRecs
<1> HIDE DEF l
<1>5. ended' \in EndedRecs /\ ended'.how = ended.how
  BY <1>4 DEF EndedRecs
<1>6. EndedTyped'
  BY <1>1, <1>2, <1>5 DEF EndedTyped, EndedRecs
<1>7. BusTyped' /\ JobsCounted'
  BY <1>1, <1>2, <1>5, InboxTakes, CountHow
<1>8. TrackTyped' /\ WorkTyped' /\ RowsTyped' /\ vapid' \in KeyRecs
  BY <1>1, <1>2, TrackSame, WorkSame, RowsSame
<1>9. RemindersTrue' /\ KeyTrue' /\ KeyHeld'
  BY <1>1, <1>2, ReminderSame, KeySame
<1> QED
  BY <1>6, <1>7, <1>8, <1>9, InvFromParts

\* A job's end is announced, or is not news.
LEMMA AnnouncedKeeps ==
    ASSUME NotifyInv, NEW took \in BOOLEAN, Idling, inbox # << >>, Head(inbox).typ = "job", inbox' = Tail(inbox),
           LET j == Head(inbox).job  how == ended.how[j] IN
           /\ reminded' = IF how = "succeeded" THEN Never ELSE reminded
           /\ track' = [track EXCEPT !.reminder = IF how = "succeeded" /\ took THEN Never ELSE @]
           /\ IF KindForTerminal(how) = "none" THEN ended' = [ended EXCEPT !.told = @ \cup {j}] /\ UNCHANGED work
              ELSE work' = [work EXCEPT !["runner"] = Delivers(KindForTerminal(how), j)] /\ UNCHANGED ended,
           UNCHANGED <<feed, fwd, rows, vapid, time, theme>>
    PROVE  NotifyInv'
<1>1. /\ BusTyped /\ TrackTyped /\ WorkTyped /\ RowsTyped /\ vapid \in KeyRecs /\ EndedTyped
      /\ JobsCounted /\ RemindersTrue /\ KeyTrue /\ KeyHeld
  BY InvParts
<1> DEFINE j == Head(inbox).job
           how == ended.how[j]
           kind == KindForTerminal(how)
           r == IF how = "succeeded" /\ took THEN Never ELSE track.reminder
           n == IF how = "succeeded" THEN Never ELSE reminded
<1>2. /\ Idling /\ inbox # << >> /\ Head(inbox).typ = "job" /\ inbox' = Tail(inbox)
      /\ track' = [track EXCEPT !.reminder = r] /\ reminded' = n
      /\ IF kind = "none" THEN ended' = [ended EXCEPT !.told = @ \cup {j}] /\ UNCHANGED work
         ELSE work' = [work EXCEPT !["runner"] = Delivers(kind, j)] /\ UNCHANGED ended
      /\ UNCHANGED <<feed, fwd, rows, vapid, time, theme>>
  OBVIOUS
<1>3. Head(inbox) \in Notices
  <2>1. inbox \in Seq(Notices)
    BY <1>1 DEF BusTyped
  <2> QED
    BY <1>2, <2>1
<1>4. j \in 0..3 /\ j # 0 /\ how # "none" /\ how \in Outcomes
  <2>1. j \in 0..3 /\ j # 0 /\ how # "none"
    BY <1>2, <1>3 DEF Notices
  <2>2. j \in NotifyJobs
    BY <2>1 DEF NotifyJobs
  <2> QED
    BY <1>1, <2>1, <2>2 DEF EndedTyped, EndedRecs
<1>5. kind \in Categories \cup {"none", "test"}
  BY <1>4 DEF KindForTerminal, Categories, Outcomes
<1>6. r \in Times /\ n \in Times /\ time \in Nat
  BY <1>1 DEF TrackTyped, TrackRecs, Times
<1>7. TrackTyped' /\ track'.reminder = r /\ track'.busy = track.busy /\ track'.tearing = track.tearing
  <2> HIDE DEF r, n
  <2> QED
    BY <1>1, <1>2, <1>6, ReminderPut
<1>8. /\ n <= time /\ r <= time /\ (n = Never \/ (r # Never /\ n <= r))
  BY <1>1, <1>2, <1>6 DEF RemindersTrue, Idling, Never
<1>9. RowsTyped' /\ vapid' \in KeyRecs /\ KeyTrue' /\ KeyHeld'
  BY <1>1, <1>2, RowsSame, KeySame
<1>10. WorkTyped' /\ EndedTyped' /\ ended'.how = ended.how
  <2>1. CASE kind = "none"
    <3>1. ended' = [ended EXCEPT !.told = @ \cup {j}] /\ work' = work
      BY <1>2, <2>1
    <3>2. {j} \in SUBSET (0..3)
      BY <1>4
    <3> HIDE DEF j
    <3> QED
      BY <1>1, <1>2, <3>1, <3>2, ToldPut, WorkSame
  <2>2. CASE kind # "none"
    <3>1. work' = [work EXCEPT !["runner"] = Delivers(kind, j)] /\ ended' = ended
      BY <1>2, <2>2
    <3> HIDE DEF j, kind
    <3>2. Delivers(kind, j) \in Deliveries
      BY <1>1, <1>4, <1>5, DeliversTyped
    <3> QED
      BY <1>1, <1>2, <3>1, <3>2, WorkPut, EndedSame
  <2> QED
    BY <2>1, <2>2
<1>11. BusTyped' /\ JobsCounted'
  BY <1>1, <1>2, <1>7, <1>10, InboxTakes, CountHow
<1>12. RemindersTrue'
  BY <1>2, <1>7, <1>8 DEF RemindersTrue
<1> QED
  BY <1>7, <1>9, <1>10, <1>11, <1>12, InvFromParts

LEMMA HandleJobKeeps ==
    ASSUME NotifyInv, HandleJob PROVE NotifyInv'
<1>1. CASE UNCHANGED <<track, work, reminded>> /\ ended' = [ended EXCEPT !.lost = @ \cup {Head(inbox).job}]
  BY <1>1, PassedOverKeeps
<1>2. CASE ~(UNCHANGED <<track, work, reminded>> /\ ended' = [ended EXCEPT !.lost = @ \cup {Head(inbox).job}])
  <2>1. PICK took \in Took :
           LET j == Head(inbox).job  how == ended.how[j] IN
           /\ reminded' = IF how = "succeeded" THEN Never ELSE reminded
           /\ track' = [track EXCEPT !.reminder = IF how = "succeeded" /\ took THEN Never ELSE @]
           /\ IF KindForTerminal(how) = "none" THEN ended' = [ended EXCEPT !.told = @ \cup {j}] /\ UNCHANGED work
              ELSE work' = [work EXCEPT !["runner"] = Delivers(KindForTerminal(how), j)] /\ UNCHANGED ended
    BY <1>2 DEF HandleJob
  <2>2. took \in BOOLEAN
    BY DEF Took
  <2>3. /\ Idling /\ inbox # << >> /\ Head(inbox).typ = "job" /\ inbox' = Tail(inbox)
        /\ UNCHANGED <<feed, fwd, rows, vapid, time, theme>>
    BY DEF HandleJob
  <2> QED
    BY <2>1, <2>2, <2>3, AnnouncedKeeps
<1> QED
  BY <1>1, <1>2

LEMMA DeliveryEndsKeeps ==
    ASSUME NotifyInv, DeliveryEnds PROVE NotifyInv'
<1>1. /\ BusTyped /\ TrackTyped /\ WorkTyped /\ RowsTyped /\ vapid \in KeyRecs /\ EndedTyped
      /\ JobsCounted /\ RemindersTrue /\ KeyTrue /\ KeyHeld
  BY InvParts
<1>0. PICK took \in Took :
        /\ track' = [track EXCEPT !.reminder = IF work["runner"].job = 0 /\ took THEN Recorded(work["runner"], @) ELSE @]
        /\ reminded' = IF work["runner"].job = 0 /\ ~took THEN track.reminder ELSE reminded
  BY DEF DeliveryEnds
<1> DEFINE w == work["runner"]
           r == IF w.job = 0 /\ took THEN time ELSE track.reminder
           n == IF w.job = 0 /\ ~took THEN track.reminder ELSE reminded
           J == IF w.job = 0 THEN {} ELSE {w.job}
<1>2. /\ track' = [track EXCEPT !.reminder = r] /\ ended' = [ended EXCEPT !.told = @ \cup J]
      /\ work' = [work EXCEPT !["runner"] = NoWork] /\ reminded' = n
      /\ UNCHANGED <<feed, fwd, inbox, rows, vapid, time, theme>>
  BY <1>0 DEF DeliveryEnds, Recorded
<1>3. w \in Deliveries /\ r \in Times /\ J \in SUBSET (0..3) /\ time \in Nat /\ n \in Times
      /\ reminded \in Times /\ track.reminder \in Times
  BY <1>1 DEF WorkTyped, Deliveries, TrackTyped, TrackRecs, Times
<1>4. n <= time /\ r <= time /\ (n = Never \/ (r # Never /\ n <= r))
  BY <1>1, <1>3 DEF RemindersTrue, Never, Times
<1> HIDE DEF w, r, n, J
<1>5. TrackTyped' /\ track'.reminder = r /\ track'.busy = track.busy /\ track'.tearing = track.tearing
  BY <1>1, <1>2, <1>3, ReminderPut
<1>6. EndedTyped' /\ ended'.how = ended.how
  BY <1>1, <1>2, <1>3, ToldPut
<1>7. WorkTyped'
  BY <1>1, <1>2, NoWorkTyped, WorkPut
<1>8. BusTyped'
  <2>1. Notices' = Notices
    BY <1>6 DEF Notices
  <2> QED
    BY <1>1, <1>2, <2>1 DEF BusTyped
<1>9. RowsTyped' /\ vapid' \in KeyRecs /\ KeyTrue' /\ KeyHeld' /\ JobsCounted'
  BY <1>1, <1>2, <1>5, <1>6, RowsSame, KeySame, CountHow
<1>10. RemindersTrue'
  BY <1>2, <1>4, <1>5 DEF RemindersTrue
<1> QED
  BY <1>5, <1>6, <1>7, <1>8, <1>9, <1>10, InvFromParts

-----------------------------------------------------------------------------
(* Notifications: subscriptions, the key, time and restarts                *)

\* What a step does that only changes subscriptions.
LEMMA RowsKeep ==
    ASSUME NotifyInv, UNCHANGED <<feed, fwd, inbox, track, work, vapid, time, ended, reminded>>, RowsTyped', EndedTyped',
           theme'.jobs = theme.jobs, KeyTrue', KeyHeld'
    PROVE  NotifyInv'
<1>1. /\ BusTyped /\ TrackTyped /\ WorkTyped /\ RowsTyped /\ vapid \in KeyRecs /\ EndedTyped
      /\ JobsCounted /\ RemindersTrue /\ KeyTrue /\ KeyHeld
  BY InvParts
<1>2. BusTyped' /\ TrackTyped' /\ WorkTyped' /\ vapid' \in KeyRecs /\ JobsCounted' /\ RemindersTrue'
  BY <1>1, BusSame, TrackSame, WorkSame, CountSame, ReminderSame
<1> QED
  BY <1>2, InvFromParts

LEMMA SubscribeRowKeeps ==
    ASSUME NotifyInv, NEW e \in Endpoints, SubscribeRow(e) PROVE NotifyInv'
<1>1. RowsTyped /\ vapid \in KeyRecs /\ EndedTyped /\ KeyTrue /\ KeyHeld
  BY InvParts
<1>2. PICK k \in vapid.handed :
        rows' = [rows EXCEPT ![e] = [id |-> IF @.id = 0 THEN 1 ELSE @.id, live |-> TRUE, key |-> k, gen |-> @.gen + 1]]
  BY DEF SubscribeRow
<1>3. /\ theme.gens > 0 /\ theme' = [theme EXCEPT !.gens = @ - 1]
      /\ UNCHANGED <<feed, fwd, inbox, track, work, vapid, time, ended, reminded>>
  BY DEF SubscribeRow
<1>4. rows \in [Endpoints -> RowRecords] /\ rows[e] \in RowRecords /\ theme \in ThemeRecs
  BY <1>1 DEF RowsTyped, EndedTyped
\* A key that was handed out is the one that is stored.
<1>5. k = vapid.key /\ k # 0 /\ k \in Nat
  BY <1>1, <1>2 DEF KeyTrue, KeyHeld, KeyRecs
<1> DEFINE i == IF rows[e].id = 0 THEN 1 ELSE rows[e].id
           g == rows[e].gen + 1
           r == [id |-> i, live |-> TRUE, key |-> k, gen |-> g]
<1>6. rows' = [rows EXCEPT ![e] = r]
  BY <1>2
<1>7. i \in {0, 1} /\ i # 0 /\ g \in Nat
  BY <1>4 DEF RowRecords
<1> HIDE DEF i, g
<1>8. r \in RowRecords /\ r.id = i /\ r.key = k
  <2>1. ASSUME NEW b \in BOOLEAN
        PROVE  LET x == [id |-> i, live |-> b, key |-> k, gen |-> g] IN x \in RowRecords /\ x.id = i /\ x.key = k
    BY <1>5, <1>7 DEF RowRecords
  <2> QED
    BY <2>1
<1> HIDE DEF r
<1>9. rows' \in [Endpoints -> RowRecords] /\ \A o \in Endpoints : rows'[o] = IF o = e THEN r ELSE rows[o]
  BY <1>4, <1>6, <1>8
<1>10. RowsTyped'
  BY <1>1, <1>7, <1>8, <1>9 DEF RowsTyped
<1>11. KeyTrue' /\ KeyHeld'
  BY <1>1, <1>3, <1>5, <1>8, <1>9 DEF KeyTrue, KeyHeld
<1>12. theme' \in ThemeRecs /\ theme'.jobs = theme.jobs
  <2> DEFINE m == theme.gens - 1
  <2>1. theme' = [theme EXCEPT !.gens = m] /\ m \in Nat
    BY <1>3, <1>4 DEF ThemeRecs
  <2> HIDE DEF m
  <2>2. theme' \in ThemeRecs
    BY <1>4, <2>1, ThemeTyped
  <2>3. theme'.jobs = theme.jobs
    BY <1>4, <2>1 DEF ThemeRecs
  <2> QED
    BY <2>2, <2>3
<1>13. EndedTyped'
  BY <1>1, <1>3, <1>12 DEF EndedTyped
<1> QED
  BY <1>3, <1>10, <1>11, <1>12, <1>13, RowsKeep

LEMMA NoRowTyped == NoRow \in RowRecords /\ NoRow.id = 0 /\ ~NoRow.live
<1>1. ASSUME NEW b \in BOOLEAN
      PROVE  LET x == [id |-> 0, live |-> b, key |-> 0, gen |-> 0] IN x \in RowRecords /\ x.id = 0 /\ x.live = b
  BY DEF RowRecords
<1> QED
  BY <1>1 DEF NoRow

LEMMA UnsubscribeKeeps ==
    ASSUME NotifyInv, NEW e \in Endpoints, Unsubscribe(e) PROVE NotifyInv'
<1>1. RowsTyped /\ vapid \in KeyRecs /\ EndedTyped /\ KeyTrue /\ KeyHeld
  BY InvParts
<1> DEFINE r == [NoRow EXCEPT !.gen = rows[e].gen]
<1>2. rows' = [rows EXCEPT ![e] = r]
      /\ UNCHANGED <<feed, fwd, inbox, track, work, vapid, time, ended, reminded, theme>>
  BY DEF Unsubscribe
<1>3. rows \in [Endpoints -> RowRecords] /\ rows[e].gen \in Nat
  BY <1>1 DEF RowsTyped, RowRecords
<1>4. r \in RowRecords /\ r.id = 0 /\ ~r.live
  <2>1. NoRow \in RowRecords /\ NoRow.id = 0 /\ ~NoRow.live
    BY NoRowTyped
  <2> QED
    BY <1>3, <2>1 DEF RowRecords
<1> HIDE DEF r
<1>5. rows' \in [Endpoints -> RowRecords] /\ \A o \in Endpoints : rows'[o] = IF o = e THEN r ELSE rows[o]
  BY <1>2, <1>3, <1>4
<1>6. RowsTyped'
  BY <1>1, <1>4, <1>5 DEF RowsTyped
<1>7. KeyTrue' /\ KeyHeld'
  BY <1>1, <1>2, <1>4, <1>5 DEF KeyTrue, KeyHeld
<1>8. EndedTyped'
  BY <1>1, <1>2, EndedSame
<1> QED
  BY <1>2, <1>6, <1>7, <1>8, RowsKeep

\* What a step does that only changes the key.
LEMMA KeysKeep ==
    ASSUME NotifyInv, UNCHANGED <<feed, fwd, inbox, track, work, rows, time, ended, reminded, theme>>,
           vapid' \in KeyRecs, KeyTrue', KeyHeld'
    PROVE  NotifyInv'
<1>1. /\ BusTyped /\ TrackTyped /\ WorkTyped /\ RowsTyped /\ vapid \in KeyRecs /\ EndedTyped
      /\ JobsCounted /\ RemindersTrue /\ KeyTrue /\ KeyHeld
  BY InvParts
<1>2. BusTyped' /\ TrackTyped' /\ WorkTyped' /\ RowsTyped' /\ EndedTyped' /\ JobsCounted' /\ RemindersTrue'
  BY <1>1, BusSame, TrackSame, WorkSame, RowsSame, EndedSame, CountSame, ReminderSame
<1> QED
  BY <1>2, InvFromParts

LEMMA ReadKeyKeeps ==
    ASSUME NotifyInv, NEW c \in Callers, ReadKey(c) PROVE NotifyInv'
<1>1. RowsTyped /\ vapid \in KeyRecs /\ KeyTrue /\ KeyHeld
  BY InvParts
<1>2. UNCHANGED <<feed, fwd, inbox, track, work, rows, time, ended, reminded, theme>>
  BY DEF ReadKey
<1>3. CASE vapid.key # 0 /\ vapid' = [vapid EXCEPT !.handed = @ \cup {vapid.key}]
  <2> DEFINE h == vapid.handed \cup {vapid.key}
  <2>1. vapid' = [vapid EXCEPT !.handed = h] /\ h \in SUBSET Nat /\ h = {vapid.key}
    BY <1>1, <1>3 DEF KeyRecs, KeyHeld
  <2> HIDE DEF h
  <2>2. vapid' \in KeyRecs /\ vapid'.key = vapid.key /\ vapid'.next = vapid.next /\ vapid'.handed = h
        /\ vapid'.minting = vapid.minting
    BY <1>1, <2>1 DEF KeyRecs
  <2>3. KeyTrue' /\ KeyHeld'
    BY <1>1, <1>2, <1>3, <2>1, <2>2 DEF KeyTrue, KeyHeld
  <2> QED
    BY <1>2, <2>2, <2>3, KeysKeep
<1>4. CASE /\ vapid.key = 0 /\ \A e \in Endpoints : rows[e].id = 0
           /\ vapid' = [vapid EXCEPT !.minting = @ \cup {c}]
  <2> DEFINE m == vapid.minting \cup {c}
  <2>1. vapid' = [vapid EXCEPT !.minting = m] /\ m \in SUBSET Callers
    BY <1>1, <1>4 DEF KeyRecs
  <2> HIDE DEF m
  <2>2. vapid' \in KeyRecs /\ vapid'.key = vapid.key /\ vapid'.next = vapid.next /\ vapid'.handed = vapid.handed
    BY <1>1, <2>1 DEF KeyRecs
  <2>3. KeyTrue' /\ KeyHeld'
    BY <1>1, <1>2, <1>4, <2>2 DEF KeyTrue, KeyHeld
  <2> QED
    BY <1>2, <2>2, <2>3, KeysKeep
<1> QED
  BY <1>3, <1>4 DEF ReadKey

LEMMA MintKeyKeeps ==
    ASSUME NotifyInv, NEW c \in Callers, MintKey(c) PROVE NotifyInv'
<1>1. RowsTyped /\ vapid \in KeyRecs /\ KeyTrue /\ KeyHeld
  BY InvParts
<1> DEFINE k == IF vapid.key = 0 THEN vapid.next ELSE vapid.key
           h == IF vapid.key = 0 THEN vapid.handed \cup {vapid.next} ELSE vapid.handed
           m == vapid.minting \ {c}
           n == vapid.next + 1
<1>2. /\ c \in vapid.minting
      /\ vapid' = [vapid EXCEPT !.minting = m, !.next = n, !.key = k, !.handed = h]
      /\ UNCHANGED <<feed, fwd, inbox, track, work, rows, time, ended, reminded, theme>>
  BY DEF MintKey, IfAbsent
<1>3. /\ k \in Nat /\ h \in SUBSET Nat /\ m \in SUBSET Callers /\ n \in Nat /\ n # 0 /\ k # 0 /\ h \subseteq {k}
      /\ vapid.key = 0 => \A e \in Endpoints : rows[e].id = 0
      /\ vapid.key # 0 => k = vapid.key
  BY <1>1, <1>2 DEF KeyRecs, KeyTrue, KeyHeld
<1> HIDE DEF k, h, m, n
<1>4. vapid' \in KeyRecs /\ vapid'.key = k /\ vapid'.next = n /\ vapid'.handed = h /\ vapid'.minting = m
  BY <1>1, <1>2, <1>3 DEF KeyRecs
<1>5. KeyTrue' /\ KeyHeld'
  BY <1>1, <1>2, <1>3, <1>4 DEF KeyTrue, KeyHeld
<1> QED
  BY <1>2, <1>4, <1>5, KeysKeep

LEMMA HourPassesKeeps ==
    ASSUME NotifyInv, HourPasses PROVE NotifyInv'
<1>1. /\ BusTyped /\ TrackTyped /\ WorkTyped /\ RowsTyped /\ vapid \in KeyRecs /\ EndedTyped
      /\ JobsCounted /\ RemindersTrue /\ KeyTrue /\ KeyHeld
  BY InvParts
<1>2. /\ theme.ticks > 0 /\ time' = time + 1 /\ theme' = [theme EXCEPT !.ticks = @ - 1]
      /\ UNCHANGED <<feed, fwd, inbox, track, work, rows, vapid, ended, reminded>>
  BY DEF HourPasses
<1>3. theme \in ThemeRecs /\ time \in Nat /\ reminded \in Times /\ track.reminder \in Times
  BY <1>1 DEF EndedTyped, TrackTyped, TrackRecs
<1>4. theme' \in ThemeRecs /\ theme'.jobs = theme.jobs
  <2> DEFINE n == theme.ticks - 1
  <2>1. theme' = [theme EXCEPT !.ticks = n] /\ n \in Nat
    BY <1>2, <1>3 DEF ThemeRecs
  <2> HIDE DEF n
  <2>2. theme' \in ThemeRecs
    BY <1>3, <2>1, ThemeTyped
  <2>3. theme'.jobs = theme.jobs
    BY <1>3, <2>1 DEF ThemeRecs
  <2> QED
    BY <2>2, <2>3
<1>5. EndedTyped' /\ TrackTyped'
  BY <1>1, <1>2, <1>4 DEF EndedTyped, TrackTyped
<1>6. RemindersTrue'
  BY <1>1, <1>2, <1>3 DEF RemindersTrue, Times, Never
<1>7. BusTyped' /\ WorkTyped' /\ RowsTyped' /\ vapid' \in KeyRecs /\ JobsCounted' /\ KeyTrue' /\ KeyHeld'
  BY <1>1, <1>2, <1>4, BusSame, WorkSame, RowsSame, CountSame, KeySame
<1> QED
  BY <1>5, <1>6, <1>7, InvFromParts

LEMMA EmptyFeed == [q |-> << >>, dropped |-> FALSE] \in [q : Seq(Notices), dropped : BOOLEAN]
<1>1. << >> \in Seq(Notices)
  OBVIOUS
<1>2. ASSUME NEW b \in BOOLEAN PROVE [q |-> << >>, dropped |-> b] \in [q : Seq(Notices), dropped : BOOLEAN]
  BY <1>1
<1> QED
  BY <1>2

LEMMA NotifyRestartKeeps ==
    ASSUME NotifyInv, NotifyRestart PROVE NotifyInv'
<1>1. /\ BusTyped /\ TrackTyped /\ WorkTyped /\ RowsTyped /\ vapid \in KeyRecs /\ EndedTyped
      /\ JobsCounted /\ RemindersTrue /\ KeyTrue /\ KeyHeld
  BY InvParts
<1> DEFINE l == {j \in NotifyJobs : ended.how[j] # "none"} \ ended.told
<1>2. /\ theme' = [theme EXCEPT !.may = @ \ {"restart"}]
      /\ feed' = [q |-> << >>, dropped |-> FALSE] /\ fwd' = Nothing /\ inbox' = << >>
      /\ work' = [t \in {"runner", "test"} |-> NoWork] /\ vapid' = [vapid EXCEPT !.minting = {}]
      /\ ended' = [ended EXCEPT !.lost = l] /\ reminded' = track.reminder
      /\ track' = [track EXCEPT !.busy = FALSE, !.tearing = FALSE] /\ UNCHANGED <<rows, time>>
  BY DEF NotifyRestart
<1>3. theme \in ThemeRecs /\ track \in TrackRecs /\ ended \in EndedRecs
  BY <1>1 DEF EndedTyped, TrackTyped
<1>4. theme' \in ThemeRecs /\ theme'.jobs = theme.jobs /\ theme.jobs \in 0..3
  BY <1>2, <1>3 DEF ThemeRecs
<1>5. track' \in TrackRecs /\ ~track'.busy /\ ~track'.tearing /\ track'.reminder = track.reminder
  <2>1. track' \in TrackRecs
    BY <1>2, <1>3, FlagsTyped
  <2>2. ~track'.busy /\ ~track'.tearing /\ track'.reminder = track.reminder
    BY <1>2, <1>3 DEF TrackRecs
  <2> QED
    BY <2>1, <2>2
<1>6. ended' \in EndedRecs /\ ended'.how = ended.how
  <2>1. l \in SUBSET (0..3)
    BY DEF NotifyJobs
  <2> HIDE DEF l
  <2> QED
    BY <1>2, <1>3, <2>1 DEF EndedRecs
<1> HIDE DEF l
<1>7. EndedTyped'
  BY <1>4, <1>6 DEF EndedTyped, EndedRecs
<1>8. TrackTyped'
  BY <1>1, <1>2, <1>5 DEF TrackTyped, TrackRecs
<1>9. WorkTyped' /\ ~work'["runner"].on
  <2>1. work' \in [{"runner", "test"} -> Deliveries]
    BY <1>2, NoWorkTyped
  <2>2. work'["runner"] = NoWork
    BY <1>2
  <2> QED
    BY <2>1, <2>2, NoWorkTyped DEF WorkTyped
<1>10. RemindersTrue'
  <2>1. track.reminder \in Times
    BY <1>3 DEF TrackRecs
  <2> QED
    BY <1>1, <1>2, <1>5, <2>1 DEF RemindersTrue, Times, Never
<1>11. JobsCounted'
  <2>1. PICK n \in 0..3 : /\ \A k \in NotifyJobs : ended.how[k] # "none" <=> k <= n
                          /\ n + theme.jobs + (IF track.busy /\ ~track.tearing THEN 1 ELSE 0) <= 3
    BY <1>1 DEF JobsCounted
  <2>2. n + theme.jobs + 0 <= 3
    BY <1>4, <2>1
  <2> QED
    BY <1>4, <1>5, <1>6, <2>1, <2>2 DEF JobsCounted
<1>12. BusTyped'
  <2>1. Notices' = Notices
    BY <1>6 DEF Notices
  <2>2. feed' \in [q : Seq(Notices), dropped : BOOLEAN]
    BY <1>2, EmptyFeed
  <2>3. feed'.q = << >> /\ inbox' = << >> /\ << >> \in Seq(Notices) /\ Len(<< >>) = 0
    BY <1>2
  <2>4. fwd' \in Notices
    BY <1>2, UpdatedNotice
  <2>5. BusBuffer \in Nat /\ OutBuffer \in Nat
    BY NotifyAssumption
  <2> QED
    BY <2>1, <2>2, <2>3, <2>4, <2>5 DEF BusTyped
<1>13. vapid' \in KeyRecs /\ KeyTrue' /\ KeyHeld'
  <2>1. vapid' \in KeyRecs /\ vapid'.key = vapid.key /\ vapid'.next = vapid.next /\ vapid'.handed = vapid.handed
        /\ vapid'.minting = {}
    BY <1>1, <1>2 DEF KeyRecs
  <2> QED
    BY <1>1, <1>2, <2>1 DEF KeyTrue, KeyHeld
<1>14. RowsTyped'
  BY <1>1, <1>2, RowsSame
<1> QED
  BY <1>7, <1>8, <1>9, <1>10, <1>11, <1>12, <1>13, <1>14, InvFromParts

-----------------------------------------------------------------------------
(* Notifications: the theorems                                             *)

LEMMA NotifyStutters ==
    ASSUME NotifyInv, UNCHANGED notifyVars PROVE NotifyInv'
<1>1. /\ BusTyped /\ TrackTyped /\ WorkTyped /\ RowsTyped /\ vapid \in KeyRecs /\ EndedTyped
      /\ JobsCounted /\ RemindersTrue /\ KeyTrue /\ KeyHeld
  BY InvParts
<1>2. UNCHANGED <<feed, fwd, inbox, track, work, rows, vapid, time, ended, reminded, theme>>
  BY DEF notifyVars
<1>3. BusTyped' /\ TrackTyped' /\ WorkTyped' /\ RowsTyped' /\ vapid' \in KeyRecs /\ EndedTyped'
  BY <1>1, <1>2, BusSame, TrackSame, WorkSame, RowsSame, EndedSame
<1>4. JobsCounted' /\ RemindersTrue' /\ KeyTrue' /\ KeyHeld'
  BY <1>1, <1>2, CountSame, ReminderSame, KeySame
<1> QED
  BY <1>3, <1>4, InvFromParts

LEMMA NotifyBegins ==
    ASSUME NotifyInit(Themes) PROVE NotifyInv
<1> DEFINE k0 == IF theme.subscribed = {} \/ "lostKey" \in theme.may THEN 0 ELSE 1
           h0 == [j \in NotifyJobs |-> "none"]
           l0 == IF "jobs" \in theme.may /\ "first" \notin theme.may THEN 0 ELSE Never
           b0 == "away" \notin theme.may
<1>1. /\ theme \in ThemeRecs /\ time = 0 /\ reminded = Never
      /\ feed = [q |-> << >>, dropped |-> FALSE] /\ fwd = Nothing /\ inbox = << >>
      /\ track = [here |-> b0, busy |-> FALSE, tearing |-> FALSE, last |-> l0, reminder |-> Never, muted |-> FALSE]
      /\ work = [t \in {"runner", "test"} |-> NoWork]
      /\ ended = [how |-> h0, told |-> {}, lost |-> {}]
      /\ vapid = [key |-> k0, minting |-> {}, next |-> 2, handed |-> {}]
      /\ rows = [e \in Endpoints |-> IF e \in theme.subscribed THEN [id |-> 1, live |-> TRUE, key |-> 1, gen |-> 0] ELSE NoRow]
  BY NotifyAssumption DEF NotifyInit
<1>2. k0 \in Nat /\ h0 \in [NotifyJobs -> Outcomes \cup {"none"}] /\ l0 \in Times /\ b0 \in BOOLEAN /\ Never \in Times
      /\ (k0 # 0 => k0 = 1)
  BY DEF Times
<1>3. \A j \in NotifyJobs : h0[j] = "none"
  OBVIOUS
<1> HIDE DEF k0, h0, l0, b0
<1>4. ended \in EndedRecs /\ ended.how = h0
  BY <1>1, <1>2 DEF EndedRecs
<1>5. EndedTyped
  BY <1>1, <1>4 DEF EndedTyped
<1>6. track \in TrackRecs /\ ~track.busy /\ ~track.tearing /\ track.reminder = Never
  <2>1. ASSUME NEW b \in BOOLEAN
        PROVE  LET x == [here |-> b0, busy |-> b, tearing |-> b, last |-> l0, reminder |-> Never, muted |-> b] IN
               x \in TrackRecs /\ x.busy = b /\ x.tearing = b /\ x.reminder = Never
    BY <1>2 DEF TrackRecs
  <2> QED
    BY <1>1, <2>1
<1>7. TrackTyped
  BY <1>1, <1>2, <1>6 DEF TrackTyped
<1>8. WorkTyped /\ ~work["runner"].on
  BY <1>1, NoWorkTyped DEF WorkTyped
<1>9. BusTyped
  <2>1. feed.q = << >> /\ << >> \in Seq(Notices) /\ Len(<< >>) = 0
    BY <1>1
  <2>2. BusBuffer \in Nat /\ OutBuffer \in Nat
    BY NotifyAssumption
  <2> QED
    BY <1>1, <2>1, <2>2, EmptyFeed, UpdatedNotice DEF BusTyped
<1>10. vapid \in KeyRecs /\ vapid.key = k0 /\ vapid.minting = {} /\ vapid.next = 2 /\ vapid.handed = {}
  BY <1>1, <1>2 DEF KeyRecs
<1>11. /\ rows \in [Endpoints -> RowRecords]
       /\ \A e \in Endpoints : (rows[e].live => rows[e].id # 0) /\ (rows[e].id # 0 => rows[e].key = 1)
  <2>1. ASSUME NEW b \in BOOLEAN PROVE [id |-> 1, live |-> b, key |-> 1, gen |-> 0] \in RowRecords
    BY DEF RowRecords
  <2>2. NoRow \in RowRecords /\ NoRow.id = 0 /\ ~NoRow.live
    BY NoRowTyped
  <2> DEFINE one == [id |-> 1, live |-> TRUE, key |-> 1, gen |-> 0]
  <2>3. one \in RowRecords /\ one.id = 1 /\ one.key = 1
    BY <2>1
  <2>4. rows = [e \in Endpoints |-> IF e \in theme.subscribed THEN one ELSE NoRow]
    BY <1>1
  <2> HIDE DEF one
  <2> QED
    BY <2>2, <2>3, <2>4
<1>12. RowsTyped
  BY <1>11 DEF RowsTyped
<1>13. KeyTrue /\ KeyHeld
  BY <1>2, <1>10, <1>11 DEF KeyTrue, KeyHeld
<1>14. RemindersTrue
  BY <1>1, <1>6 DEF RemindersTrue, Never
<1>15. JobsCounted
  <2>1. theme.jobs \in 0..3
    BY <1>1 DEF ThemeRecs
  <2>2. \A j \in NotifyJobs : ended.how[j] # "none" <=> j <= 0
    BY <1>3, <1>4 DEF NotifyJobs
  <2>3. 0 \in 0..3 /\ 0 + theme.jobs + 0 <= 3
    BY <2>1
  <2> QED
    BY <1>6, <2>2, <2>3 DEF JobsCounted
<1> QED
  BY <1>5, <1>7, <1>8, <1>9, <1>10, <1>12, <1>13, <1>14, <1>15, NotifyParts DEF NotifyInv

LEMMA NotifyKeeps ==
    ASSUME NotifyInv, [NotifyNext]_notifyVars PROVE NotifyInv'
<1>1. CASE StartJob \/ JobTornDown \/ VersionsDeleted \/ SetMuted
  BY <1>1, StartJobKeeps, JobTornDownKeeps, VersionsDeletedKeeps, SetMutedKeeps
<1>2. CASE \E how \in Outcomes : EndJob(how)
  BY <1>2, EndJobKeeps
<1>3. CASE \E here \in BOOLEAN : DeviceChanges(here)
  BY <1>3, DeviceChangesKeeps
<1>4. CASE Forwarding
  BY <1>4, ForwardEventKeeps, ForwardDroppedKeeps, SendKeeps DEF Forwarding
<1>5. CASE Running \/ HourTick
  BY <1>5, HandleDeviceKeeps, HandleJobKeeps, DeliveryEndsKeeps, HourTickKeeps DEF Running, Reading
<1>6. ASSUME NEW t \in {"runner", "test"}, Delivering(t) PROVE NotifyInv'
  <2>1. PICK e \in Endpoints : \/ Muted(t, e) \/ (\E a \in {"answered", "gone"} : Post(t, e, a)) \/ Post(t, e, "answered")
    BY <1>6 DEF Delivering
  <2>2. CASE Muted(t, e)
    BY <2>2, MutedKeeps
  <2>3. CASE \E a \in {"answered", "gone"} : Post(t, e, a)
    <3>1. PICK a \in {"answered", "gone"} : Post(t, e, a)
      BY <2>3
    <3> QED
      BY <3>1, PostKeeps
  <2>4. CASE Post(t, e, "answered")
    BY <2>4, PostKeeps
  <2> QED
    BY <2>1, <2>2, <2>3, <2>4
<1>7. CASE SendTest \/ TestEnds
  BY <1>7, TestKeeps
<1>8. CASE HourPasses \/ NotifyRestart
  BY <1>8, HourPassesKeeps, NotifyRestartKeeps
<1>9. CASE \E e \in Endpoints : SubscribeRow(e) \/ Unsubscribe(e)
  BY <1>9, SubscribeRowKeeps, UnsubscribeKeeps
<1>10. CASE \E c \in Callers : ReadKey(c) \/ MintKey(c)
  BY <1>10, ReadKeyKeeps, MintKeyKeeps
<1>11. CASE UNCHANGED notifyVars
  BY <1>11, NotifyStutters
<1> QED
  BY <1>1, <1>2, <1>3, <1>4, <1>5, <1>6, <1>7, <1>8, <1>9, <1>10, <1>11 DEF NotifyNext

\* Every state of the notifier, its queues, reminders, subscriptions and key, is
\* as NotifyInv says, for every set of browsers and requests, every buffer and
\* every interval.
THEOREM NotifierHolds == NotifySpec => []NotifyInv
<1>1. NotifyInit(Themes) => NotifyInv
  BY NotifyBegins
<1>2. NotifyInv /\ [NotifyNext]_notifyVars => NotifyInv'
  BY NotifyKeeps
<1> QED
  BY <1>1, <1>2, PTL DEF NotifySpec

\* The notifier's state is well typed, its queues within their buffers.
THEOREM NotifierTyped == NotifySpec => []NotifyTypeOK
<1>1. NotifyInv => NotifyTypeOK
  BY DEF NotifyInv
<1> QED
  BY <1>1, NotifierHolds, PTL

\* No browser is ever left with a key the daemon no longer signs with.
THEOREM KeyIsHeld == NotifySpec => []KeyHeld
<1>1. NotifyInv => KeyHeld
  BY DEF NotifyInv
<1> QED
  BY <1>1, NotifierHolds, PTL

\* A step that starts a reminder is the evaluation, past the cooldown.
LEMMA ReminderStarts ==
    ASSUME NotifyInv, NotifyNext, ~work["runner"].on, work'["runner"].on, work'["runner"].job = 0
    PROVE  Evaluate # "none"
<1>1. WorkTyped /\ RowsTyped /\ EndedTyped /\ BusTyped
  BY InvParts
<1>2. CASE work' = work
  BY <1>2
<1>3. CASE \E w : work' = [work EXCEPT !["test"] = w]
  <2>1. work'["runner"] = work["runner"]
    BY <1>1, <1>3 DEF WorkTyped
  <2> QED
    BY <2>1
<1>4. CASE \E t \in {"runner", "test"}, e \in Endpoints : work' = [work EXCEPT ![t].due = @ \ {e}]
  <2>1. work'["runner"].on = work["runner"].on
    BY <1>1, <1>4, WorkTurn
  <2> QED
    BY <2>1
<1>5. CASE NotifyRestart
  <2>1. work'["runner"] = NoWork
    BY <1>5 DEF NotifyRestart
  <2> QED
    BY <2>1, NoWorkTyped
<1>6. CASE HandleJob
  <2> DEFINE j == Head(inbox).job
             kind == KindForTerminal(ended.how[j])
  <2>1. inbox # << >> /\ Head(inbox).typ = "job" /\ (work' = work \/ work' = [work EXCEPT !["runner"] = Delivers(kind, j)])
    BY <1>6 DEF HandleJob
  <2>2. inbox \in Seq(Notices)
    BY <1>1 DEF BusTyped
  <2>3. Head(inbox) \in Notices
    BY <2>1, <2>2
  <2>4. j # 0
    BY <2>1, <2>3 DEF Notices
  <2>5. Delivers(kind, j).job = j
    BY DEF Delivers
  <2> HIDE DEF j, kind
  <2>6. CASE work' = [work EXCEPT !["runner"] = Delivers(kind, j)]
    <3>1. work'["runner"] = Delivers(kind, j)
      BY <1>1, <2>6 DEF WorkTyped
    <3> QED
      BY <2>4, <2>5, <3>1
  <2> QED
    BY <1>2, <2>1, <2>6
<1>7. CASE EvaluateAll
  BY <1>2, <1>7 DEF EvaluateAll
<1>8. CASE DeliveryEnds
  BY <1>8 DEF DeliveryEnds, Idling
<1>9. CASE Delivering("runner") \/ Delivering("test")
  <2>1. \E t \in {"runner", "test"}, e \in Endpoints : work' = [work EXCEPT ![t].due = @ \ {e}]
    BY <1>9 DEF Delivering, Muted, Post
  <2> QED
    BY <1>4, <2>1
<1>10. CASE SendTest \/ TestEnds
  BY <1>3, <1>10 DEF SendTest, TestEnds
<1>11. CASE HandleDevice \/ HourTick
  BY <1>7, <1>11 DEF HandleDevice, HourTick
<1>12. CASE StartJob \/ JobTornDown \/ VersionsDeleted \/ SetMuted \/ HourPasses
  BY <1>2, <1>12 DEF StartJob, JobTornDown, VersionsDeleted, SetMuted, HourPasses
<1>13. CASE (\E how \in Outcomes : EndJob(how)) \/ (\E here \in BOOLEAN : DeviceChanges(here))
  BY <1>2, <1>13 DEF EndJob, DeviceChanges
<1>14. CASE Forwarding
  BY <1>2, <1>14 DEF Forwarding, ForwardEvent, ForwardDropped, Send
<1>15. CASE (\E e \in Endpoints : SubscribeRow(e) \/ Unsubscribe(e)) \/ (\E c \in Callers : ReadKey(c) \/ MintKey(c))
  BY <1>2, <1>15 DEF SubscribeRow, Unsubscribe, ReadKey, MintKey
<1> QED
  BY <1>5, <1>6, <1>8, <1>9, <1>10, <1>11, <1>12, <1>13, <1>14, <1>15 DEF NotifyNext, Running, Reading

\* A lapse is told once per cooldown, whatever became of the deliveries and across
\* a restart, but for a reminder the database has no record of.
THEOREM CooldownIsKept == NotifySpec => CooldownKept
<1> DEFINE Starts == ~work["runner"].on /\ work'["runner"].on /\ work'["runner"].job = 0
           Past == reminded = Never \/ time - reminded >= Cooldown
<1>1. NotifyInv /\ [NotifyNext]_notifyVars => [Starts => Past]_notifyVars
  <2> SUFFICES ASSUME NotifyInv, NotifyNext, Starts PROVE Past
    OBVIOUS
  <2>1. Evaluate # "none"
    BY ReminderStarts
  <2>2. track.reminder = Never \/ ~(time - track.reminder < Cooldown)
    BY <2>1, EvaluateTyped
  <2>3. reminded = Never \/ (track.reminder # Never /\ reminded <= track.reminder)
    BY DEF NotifyInv, RemindersTrue
  <2>4. time \in Nat /\ reminded \in Times /\ track.reminder \in Times /\ Cooldown \in Nat
    BY InvParts, NotifyAssumption DEF TrackTyped, TrackRecs
  <2> QED
    BY <2>2, <2>3, <2>4 DEF Times, Never
<1>2. NotifySpec => [](NotifyInv)
  BY NotifierHolds
<1> HIDE DEF Starts, Past
<1>3. [](NotifyInv) /\ [][NotifyNext]_notifyVars => [][Starts => Past]_notifyVars
  BY <1>1, PTL
<1>4. CooldownKept <=> [][Starts => Past]_notifyVars
  BY DEF CooldownKept, Starts, Past
<1> QED
  BY <1>2, <1>3, <1>4, PTL DEF NotifySpec
=============================================================================
