----------------------------- MODULE AuthProofs -----------------------------
(***************************************************************************)
(* Proofs about Auth: for any number of requests, credentials, challenges, *)
(* links, passwords and sessions, and any mix of operations; and, at the   *)
(* end, about ApiGuards.                                                   *)
(*                                                                         *)
(* The invariant has a part per table.  RequestsTrue is what a request     *)
(* still knows between two of its statements, SessionsTrue what every live *)
(* session rests on, LinksTrue and ProofsTrue what the in-memory tables    *)
(* remember.  The first half says what one update of a request does to it  *)
(* field by field, the second who writes which table.                      *)
(***************************************************************************)
EXTENDS Auth, ApiGuards, TLAPS

USE DEF dbVars, memVars, ghosts

-----------------------------------------------------------------------------
(* What an update of a request does                                        *)

\* What one update of a request does to it, field by field.
Others(r) == \A q \in Requests \ {r} : req'[q] = req[q]

\* The mark of Racing leaves everything but the mark.
Marked(q) == /\ req'[q].at = req[q].at /\ req'[q].op = req[q].op /\ req'[q].sess = req[q].sess
             /\ req'[q].rp = req[q].rp /\ req'[q].tgt = req[q].tgt /\ req'[q].subj = req[q].subj
             /\ req'[q].hash = req[q].hash /\ req'[q].dev = req[q].dev /\ req'[q].proof = req[q].proof
             /\ (req'[q].stale <=> req[q].stale \/ req[q].at # "idle")
SameClaim(r) == /\ req'[r].op = req[r].op /\ req'[r].sess = req[r].sess
                /\ req'[r].rp = req[r].rp /\ req'[r].tgt = req[r].tgt
ReqTyped == req \in [Requests -> RequestStates]

\* No password is one of the values of the password hash.
LEMMA Zero == 0 \in 0..MaxPasswords /\ MaxPasswords \in Nat
  BY AuthAssumption

\* The record of a request that has not come, or has been answered.
LEMMA IdleTyped ==
    /\ Idle \in RequestStates /\ Idle.at = "idle" /\ Idle.op = "none" /\ Idle.proof = NoProof
    /\ ~Idle.stale
  BY Zero DEF Idle, RequestStates, Places, NoSession, NoProof

\* A request that moves on keeps what it claimed and leaves the others alone.
LEMMA StepFields ==
    ASSUME ReqTyped, NEW r \in Requests, NEW a \in Places, Step(r, a)
    PROVE  /\ ReqTyped' /\ Others(r) /\ SameClaim(r) /\ req'[r].at = a /\ req'[r].subj = req[r].subj
           /\ req'[r].hash = req[r].hash /\ req'[r].dev = req[r].dev /\ req'[r].proof = req[r].proof
           /\ (req'[r].stale <=> req[r].stale)
  BY DEF ReqTyped, RequestStates, Step, Others, SameClaim

\* A request that is answered becomes idle and leaves the others alone.
LEMMA DoneFields ==
    ASSUME ReqTyped, NEW r \in Requests, Done(r)
    PROVE  ReqTyped' /\ Others(r) /\ req'[r] = Idle
  BY IdleTyped DEF ReqTyped, Done, Others

\* A request comes in with a session, an address and a target, and no proof.
LEMMA EnterFields ==
    ASSUME ReqTyped, NEW r \in Requests, NEW op \in Kinds, NEW a \in Places,
           NEW s \in {NoSession} \cup Sessions, NEW rp \in Rps \cup {"none"}, NEW tgt \in {"none"} \cup Creds, Enter(r, op, a, s, rp, tgt)
    PROVE  /\ ReqTyped' /\ Others(r) /\ req[r] = Idle /\ op \in mix
           /\ req'[r].at = a /\ req'[r].op = op /\ req'[r].sess = s /\ req'[r].rp = rp
           /\ req'[r].tgt = tgt /\ req'[r].proof = NoProof /\ ~req'[r].stale
  BY DEF ReqTyped, RequestStates, Enter, Others, Idle, NoSession, NoProof

\* A passkey sign-in goes on as the holder of that passkey.
LEMMA LoginFields ==
    ASSUME ReqTyped, NEW r \in Requests, NEW c \in Creds, NEW prior \in {NoSession} \cup Sessions,
           LoginFinish(r, c, prior)
    PROVE  /\ ReqTyped' /\ Others(r) /\ req'[r].at = "prior" /\ req'[r].op = "login"
           /\ req'[r].subj = c /\ req'[r].proof = NoProof /\ ~req'[r].stale
  BY Zero DEF ReqTyped, RequestStates, Places, Kinds, LoginFinish, Others, Idle, NoSession, NoProof

\* An enrolment goes on to spend the link it came by.
LEMMA EnrolFields ==
    ASSUME ReqTyped, NEW r \in Requests, NEW l \in Links, NEW c \in Creds,
           NEW prior \in {NoSession} \cup Sessions, EnrolFinish(r, l, c, prior)
    PROVE  /\ ReqTyped' /\ Others(r) /\ req'[r].at = "spend" /\ req'[r].op = "login" /\ req'[r].tgt = l
           /\ req'[r].subj = c /\ req'[r].proof = NoProof /\ ~req'[r].stale
  BY Zero DEF ReqTyped, RequestStates, Places, Kinds, EnrolFinish, Others, Idle, NoSession, NoProof

\* A setup by passkey goes on the same way, with the session it came with.
LEMMA SetupFields ==
    ASSUME ReqTyped, NEW r \in Requests, NEW k \in Keys, NEW c \in Creds, FinishSetupPasskey(r, k, c)
    PROVE  /\ ReqTyped' /\ Others(r) /\ req'[r].at = "prior" /\ req'[r].op = "login"
           /\ req'[r].subj = c /\ req'[r].proof = NoProof /\ ~req'[r].stale
           /\ req[r].at = "setup" /\ Register(k, c, "admin") /\ UNCHANGED <<sessions, password, reset>>
<1>1. req[r].sess \in {NoSession} \cup Sessions
  BY DEF ReqTyped, RequestStates
<1>2. LoginFinish(r, c, req[r].sess)
  BY DEF FinishSetupPasskey
<1> QED
  BY <1>1, <1>2, LoginFields DEF FinishSetupPasskey

Proved(r, a, p, subj) ==
    \/ req' = [req EXCEPT ![r].at = a, ![r].proof = p, ![r].subj = subj]
    \/ req' = [req EXCEPT ![r].at = a, ![r].subj = subj] /\ p = req[r].proof

\* What a presented proof adds to its request.
LEMMA ProvedFields ==
    ASSUME ReqTyped, NEW r \in Requests, NEW a \in Places, NEW p \in {NoProof} \cup Proofs,
           NEW subj \in {"none", "password"} \cup Creds, Proved(r, a, p, subj)
    PROVE  /\ ReqTyped' /\ Others(r) /\ SameClaim(r) /\ req'[r].at = a /\ req'[r].subj = subj
           /\ req'[r].hash = req[r].hash /\ req'[r].dev = req[r].dev /\ req'[r].proof = p
           /\ (req'[r].stale <=> req[r].stale)
  BY DEF ReqTyped, RequestStates, Others, SameClaim, Proved

Verified(r, h) ==
    req' = [req EXCEPT ![r].at = "prior", ![r].hash = h, ![r].subj = "password", ![r].stale = FALSE]

\* A password that was verified stays with its request as the hash it matched.
LEMMA VerifiedFields ==
    ASSUME ReqTyped, NEW r \in Requests, NEW h \in 0..MaxPasswords, Verified(r, h)
    PROVE  /\ ReqTyped' /\ Others(r) /\ SameClaim(r) /\ req'[r].at = "prior" /\ req'[r].subj = "password"
           /\ req'[r].hash = h /\ req'[r].dev = req[r].dev /\ req'[r].proof = req[r].proof
           /\ ~req'[r].stale
<1>1. "prior" \in Places
  BY DEF Places
<1> USE DEF Verified
<1>2. Others(r)
  BY DEF ReqTyped, Others
<1>3. ReqTyped'
  <2>1. \A q \in RequestStates :
           [q EXCEPT !.at = "prior", !.hash = h, !.subj = "password", !.stale = FALSE] \in RequestStates
    BY <1>1 DEF RequestStates
  <2>2. req' = [req EXCEPT ![r] =
           [req[r] EXCEPT !.at = "prior", !.hash = h, !.subj = "password", !.stale = FALSE]]
    BY DEF ReqTyped
  <2>3. req[r] \in RequestStates
    BY DEF ReqTyped
  <2>4. \E x \in RequestStates : req' = [req EXCEPT ![r] = x]
    BY <2>1, <2>2, <2>3
  <2> QED
    BY <2>4 DEF ReqTyped
<1> QED
  BY <1>1, <1>2, <1>3 DEF ReqTyped, RequestStates, SameClaim

\* Whatever is in flight beside a removal is marked stale by it.
LEMMA RacingFields ==
    ASSUME ReqTyped, NEW r, req' = Racing(r)
    PROVE  ReqTyped' /\ \A q \in Requests \ {r} : Marked(q)
<1>1. \A q \in Requests : [req[q] EXCEPT !.stale = TRUE] \in RequestStates
  BY DEF ReqTyped, RequestStates
<1>2. ReqTyped'
  BY <1>1 DEF ReqTyped, Racing
<1>3. ASSUME NEW q \in Requests \ {r} PROVE Marked(q)
  BY DEF ReqTyped, RequestStates, Racing, Marked
<1> QED
  BY <1>2, <1>3

\* The request that changed a credential goes on, the others are marked.
Overtakes(r, a, h, d) ==
    \/ req' = [Racing(r) EXCEPT ![r].at = a, ![r].hash = h] /\ d = req[r].dev
    \/ req' = [Racing(r) EXCEPT ![r].at = a] /\ d = req[r].dev /\ h = req[r].hash
    \/ req' = [Racing(r) EXCEPT ![r].at = a, ![r].dev = d] /\ h = req[r].hash

\* A request that changes a credential moves on and marks all the others.
LEMMA OvertakingFields ==
    ASSUME ReqTyped, NEW r \in Requests, NEW a \in Places, NEW h \in 0..MaxPasswords,
           NEW d \in Devices \cup {"none"}, Overtakes(r, a, h, d)
    PROVE  /\ ReqTyped' /\ (\A q \in Requests \ {r} : Marked(q)) /\ SameClaim(r)
           /\ req'[r].at = a /\ req'[r].subj = req[r].subj /\ req'[r].hash = h /\ req'[r].dev = d
           /\ req'[r].proof = req[r].proof /\ (req'[r].stale <=> req[r].stale)
<1> DEFINE mid == Racing(r)
<1>1. mid \in [Requests -> RequestStates] /\ mid[r] = req[r]
  <2>1. \A q \in Requests : [req[q] EXCEPT !.stale = TRUE] \in RequestStates
    BY DEF ReqTyped, RequestStates
  <2> QED
    BY <2>1 DEF ReqTyped, Racing
<1>2. ASSUME NEW q \in Requests \ {r}
      PROVE  /\ mid[q].at = req[q].at /\ mid[q].op = req[q].op /\ mid[q].sess = req[q].sess
             /\ mid[q].rp = req[q].rp /\ mid[q].tgt = req[q].tgt /\ mid[q].subj = req[q].subj
             /\ mid[q].hash = req[q].hash /\ mid[q].dev = req[q].dev /\ mid[q].proof = req[q].proof
             /\ (mid[q].stale <=> req[q].stale \/ req[q].at # "idle")
  <2>1. mid[q] = IF req[q].at # "idle" THEN [req[q] EXCEPT !.stale = TRUE] ELSE req[q]
    BY DEF Racing
  <2>2. req[q] \in RequestStates
    BY DEF ReqTyped
  <2> HIDE DEF mid
  <2> QED
    BY <2>1, <2>2 DEF RequestStates
<1> HIDE DEF mid
<1>3. \/ req' = [mid EXCEPT ![r].at = a, ![r].hash = h] /\ d = req[r].dev
      \/ req' = [mid EXCEPT ![r].at = a] /\ d = req[r].dev /\ h = req[r].hash
      \/ req' = [mid EXCEPT ![r].at = a, ![r].dev = d] /\ h = req[r].hash
  BY DEF mid, Overtakes
<1>4. \A q \in Requests \ {r} : req'[q] = mid[q]
  BY <1>1, <1>3
<1>5. \A q \in Requests \ {r} : Marked(q)
  BY <1>2, <1>4 DEF Marked
<1>6. ReqTyped'
  <2>1. ASSUME NEW q \in RequestStates
        PROVE  /\ [q EXCEPT !.at = a] \in RequestStates /\ [q EXCEPT !.at = a, !.hash = h] \in RequestStates
               /\ [q EXCEPT !.at = a, !.dev = d] \in RequestStates
    BY DEF RequestStates
  <2>2. /\ [mid EXCEPT ![r].at = a, ![r].hash = h] = [mid EXCEPT ![r] = [mid[r] EXCEPT !.at = a, !.hash = h]]
        /\ [mid EXCEPT ![r].at = a] = [mid EXCEPT ![r] = [mid[r] EXCEPT !.at = a]]
        /\ [mid EXCEPT ![r].at = a, ![r].dev = d] = [mid EXCEPT ![r] = [mid[r] EXCEPT !.at = a, !.dev = d]]
    BY <1>1
  <2>3. mid[r] \in RequestStates
    BY <1>1
  <2>4. \E x \in RequestStates : req' = [mid EXCEPT ![r] = x]
    BY <1>3, <2>1, <2>2, <2>3
  <2> QED
    BY <1>1, <2>4 DEF ReqTyped
<1>7. SameClaim(r) /\ req'[r].at = a /\ req'[r].subj = req[r].subj /\ req'[r].hash = h /\ req'[r].dev = d
      /\ req'[r].proof = req[r].proof /\ (req'[r].stale <=> req[r].stale)
  BY <1>1, <1>3 DEF ReqTyped, RequestStates, SameClaim
<1> QED
  BY <1>5, <1>6, <1>7

\* A password is stored once, or its request ends without effect.
LEMMA StoreEffect ==
    ASSUME TypeOK, NEW r \in Requests, NEW m, Store(r, m)
    PROVE  /\ ReqTyped'
           /\ \/ Others(r) /\ req'[r] = Idle /\ password' = password /\ nextPw' = nextPw
              \/ /\ m \/ password = 0
                 /\ nextPw \in 1..MaxPasswords /\ password' = nextPw /\ nextPw' = nextPw + 1
                 /\ \A q \in Requests \ {r} : Marked(q)
                 /\ SameClaim(r) /\ req'[r].proof = req[r].proof
                 /\ req'[r].at = IF req[r].op = "setup" THEN "verify" ELSE "sweep"
<1>t. ReqTyped /\ req[r].dev \in Devices \cup {"none"} /\ nextPw \in 1..MaxPasswords + 1
  BY DEF TypeOK, ReqTyped, RequestStates
<1>1. CASE Done(r) /\ UNCHANGED <<password, nextPw>>
  BY <1>t, <1>1, DoneFields
<1>2. CASE /\ nextPw <= MaxPasswords /\ (password = 0 \/ m) /\ password' = nextPw /\ nextPw' = nextPw + 1
           /\ req' = [Racing(r) EXCEPT ![r].at = IF req[r].op = "setup" THEN "verify" ELSE "sweep",
                                       ![r].hash = nextPw]
  <2> DEFINE a == IF req[r].op = "setup" THEN "verify" ELSE "sweep"
  <2>1. a \in Places
    BY DEF Places
  <2>2. nextPw \in 1..MaxPasswords /\ nextPw \in 0..MaxPasswords
    BY <1>t, <1>2, Zero
  <2>3. Overtakes(r, a, nextPw, req[r].dev)
    BY <1>2 DEF Overtakes
  <2> HIDE DEF a
  <2>4. /\ ReqTyped' /\ (\A q \in Requests \ {r} : Marked(q)) /\ SameClaim(r)
        /\ req'[r].at = a /\ req'[r].proof = req[r].proof
    BY <1>t, <2>1, <2>2, <2>3, OvertakingFields
  <2> QED
    BY <1>2, <2>2, <2>4 DEF a
<1> QED
  BY <1>1, <1>2 DEF Store

\* Removing the password takes its request to the sweep of sessions.
LEMMA RemovePasswordEffect ==
    ASSUME TypeOK, NEW r \in Requests, RemovePassword(r)
    PROVE  /\ ReqTyped' /\ (\A q \in Requests \ {r} : Marked(q)) /\ SameClaim(r)
           /\ req'[r].at = "sweep" /\ req'[r].proof = req[r].proof
<1>1. ReqTyped /\ req[r].dev \in Devices \cup {"none"} /\ req[r].hash \in 0..MaxPasswords /\ "sweep" \in Places
  BY DEF TypeOK, ReqTyped, RequestStates, Places
<1>2. Overtakes(r, "sweep", req[r].hash, req[r].dev)
  BY DEF RemovePassword, Overtakes
<1> QED
  BY <1>1, <1>2, OvertakingFields

\* Removing a passkey removes that one, or nothing when it is not there.
LEMMA RemovePasskeyEffect ==
    ASSUME TypeOK, NEW r \in Requests, RemovePasskey(r)
    PROVE  /\ ReqTyped'
           /\ \/ Others(r) /\ req'[r] = Idle /\ passkeys' = passkeys
              \/ /\ Have(req[r].tgt) /\ passkeys' = [passkeys EXCEPT ![req[r].tgt] = "gone"]
                 /\ (\A q \in Requests \ {r} : Marked(q)) /\ SameClaim(r)
                 /\ req'[r].at = "sweep" /\ req'[r].proof = req[r].proof
<1> DEFINE d == IF passkeys[req[r].tgt] \in Devices THEN passkeys[req[r].tgt] ELSE "none"
<1>1. ReqTyped /\ d \in Devices \cup {"none"} /\ req[r].hash \in 0..MaxPasswords /\ "sweep" \in Places
  BY DEF TypeOK, ReqTyped, RequestStates, Places
<1>2. CASE Done(r) /\ UNCHANGED passkeys
  BY <1>1, <1>2, DoneFields
<1>3. CASE /\ Have(req[r].tgt) /\ passkeys' = [passkeys EXCEPT ![req[r].tgt] = "gone"]
           /\ req' = [Racing(r) EXCEPT ![r].at = "sweep", ![r].dev = d]
  <2>1. Overtakes(r, "sweep", req[r].hash, d)
    BY <1>3 DEF Overtakes
  <2> HIDE DEF d
  <2> QED
    BY <1>1, <1>3, <2>1, OvertakingFields
<1> QED
  BY <1>2, <1>3 DEF RemovePasskey

\* Verifying answers no, or ties the request to the password that is stored.
LEMMA VerifyEffect ==
    ASSUME TypeOK, NEW r \in Requests, Verify(r)
    PROVE  /\ ReqTyped' /\ Others(r)
           /\ \/ req'[r] = Idle
              \/ /\ password # 0 /\ SameClaim(r) /\ req'[r].at = "prior" /\ req'[r].subj = "password"
                 /\ req'[r].hash = password /\ req'[r].proof = req[r].proof
<1>1. ReqTyped /\ password \in 0..MaxPasswords
  BY DEF TypeOK, ReqTyped
<1>2. CASE Done(r)
  BY <1>1, <1>2, DoneFields
<1>3. CASE password # 0 /\ Verified(r, password)
  BY <1>1, <1>3, VerifiedFields
<1> QED
  BY <1>2, <1>3 DEF Verify, Verified

\* Presenting a proof refuses the request, or lets it on with a proof that fits.
LEMMA PresentEffect ==
    ASSUME TypeOK, NEW r \in Requests, Present(r)
    PROVE  /\ ReqTyped' /\ Others(r)
           /\ \/ req'[r] = Idle
              \/ /\ SameClaim(r) /\ req'[r].at = AfterPresent(req[r].op) /\ (req'[r].stale <=> req[r].stale)
                 /\ \/ req'[r].proof = req[r].proof
                    \/ ClaimsMatch(req'[r].proof, r) /\ proofs[req'[r].proof].subj \in Creds
<1> DEFINE a == AfterPresent(req[r].op)
<1>1. /\ ReqTyped /\ a \in Places /\ req[r].proof \in {NoProof} \cup Proofs
  BY DEF TypeOK, ReqTyped, RequestStates, AfterPresent, Places
<1>2. CASE Done(r)
  BY <1>1, <1>2, DoneFields
<1>3. CASE Step(r, a)
  <2> HIDE DEF a
  <2>1. ReqTyped' /\ Others(r) /\ SameClaim(r) /\ req'[r].at = a
        /\ (req'[r].stale <=> req[r].stale) /\ req'[r].proof = req[r].proof
    BY <1>1, <1>3, StepFields
  <2> QED
    BY <2>1 DEF a
<1>4. ASSUME NEW p \in Proofs, proofs[p].subj \in Creds, ClaimsMatch(p, r),
             req' = [req EXCEPT ![r].at = a, ![r].proof = p, ![r].subj = proofs[p].subj]
      PROVE  /\ ReqTyped' /\ Others(r) /\ SameClaim(r) /\ req'[r].at = a /\ (req'[r].stale <=> req[r].stale)
             /\ req'[r].proof = p
  <2> DEFINE subj == proofs[p].subj
  <2>1. Proved(r, a, p, subj) /\ subj \in {"none", "password"} \cup Creds /\ p \in {NoProof} \cup Proofs
    BY <1>4 DEF Proved
  <2> HIDE DEF a, subj
  <2> QED
    BY <1>1, <2>1, ProvedFields
<1>5. CASE req' = [req EXCEPT ![r].at = a, ![r].subj = "password"]
  <2>1. Proved(r, a, req[r].proof, "password")
    BY <1>5 DEF Proved
  <2> HIDE DEF a
  <2>2. ReqTyped' /\ Others(r) /\ SameClaim(r) /\ req'[r].at = a
        /\ (req'[r].stale <=> req[r].stale) /\ req'[r].proof = req[r].proof
    BY <1>1, <2>1, ProvedFields
  <2> QED
    BY <2>2 DEF a
<1> HIDE DEF a
<1>6. \/ Done(r) \/ Step(r, a) \/ req' = [req EXCEPT ![r].at = a, ![r].subj = "password"]
      \/ \E p \in Proofs : /\ proofs[p].subj \in Creds /\ ClaimsMatch(p, r)
                           /\ req' = [req EXCEPT ![r].at = a, ![r].proof = p, ![r].subj = proofs[p].subj]
  BY DEF Present, a
<1> QED
  BY <1>2, <1>3, <1>4, <1>5, <1>6 DEF a

-----------------------------------------------------------------------------
(* Who writes what                                                         *)

\* Next, action by action.
LEMMA Actions ==
    ASSUME Next
    PROVE  \/ \E r \in Requests :
                 \/ BeginSetPassword(r) \/ SetPassword(r) \/ Verify(r) \/ DropPrior(r)
                 \/ CreateSession(r) \/ Present(r) \/ ChangePassword(r) \/ RemovePassword(r)
                 \/ RemovePasskey(r) \/ EndSessions(r) \/ EndSubscriptions(r) \/ SpendLink(r)
           \/ \E r \in Requests, prior \in {NoSession} \cup Sessions :
                 \/ BeginLogin(r, prior) \/ SetupChecks(r, prior)
           \/ \E r \in Requests, k \in Keys, c \in Creds, prior \in {NoSession} \cup Sessions :
                 \/ FinishPasskeyAssertion(r, k, c, prior)
           \/ \E r \in Requests, k \in Keys, c \in Creds :
                 \/ FinishSetupPasskey(r, k, c)
           \/ \E r \in Requests, k \in Keys :
                 \/ RefuseSetup(r, k)
           \/ \E r \in Requests, s \in Sessions :
                 \/ BeginChangePassword(r, s)
           \/ \E r \in Requests, s \in Sessions, rp \in Rps :
                 \/ BeginAddPasskey(r, s, rp) \/ BeginRemovePassword(r, s, rp)
           \/ \E r \in Requests, s \in Sessions, rp \in Rps, c \in Creds :
                 \/ BeginRemovePasskey(r, s, rp, c)
           \/ \E k \in Keys, rp \in Rps :
                 \/ BeginSetupPasskey(k, rp) \/ BeginPasskeyAssertion(k, rp)
           \/ \E l \in Links, k \in Keys, rp \in Rps :
                 \/ BeginEnrolment(l, k, rp)
           \/ \E s \in Sessions, k \in Keys, rp \in Rps, op \in ReauthOps, c \in Creds :
                 \/ BeginReauth(s, k, rp, op, c)
           \/ \E r \in Requests, k \in Keys :
                 \/ BeginPasskeyRegistration(r, k)
           \/ \E r \in Requests, l \in Links, k \in Keys, c \in Creds, prior \in {NoSession} \cup Sessions :
                 \/ FinishEnrolment(r, l, k, c, prior)
           \/ \E s \in Sessions, k \in Keys, c \in Creds :
                 \/ FinishPasskeyRegistration(s, k, c)
           \/ \E s \in Sessions, k \in Keys, c \in Creds, p \in Proofs :
                 \/ FinishReauth(s, k, c, p)
           \/ \E s \in Sessions, l \in Links :
                 \/ RevokeLink(s, l)
           \/ \E s \in Sessions, l \in Links, d \in Devices :
                 \/ MintLink(s, l, d)
           \/ \E s \in Sessions :
                 \/ EndSession(s) \/ Subscribe(s)
           \/ \E k \in Keys :
                 \/ ExpireKey(k)
           \/ \E p \in Proofs :
                 \/ ExpireProof(p)
           \/ \E l \in Links :
                 \/ ExpireLink(l)
           \/ Restart \/ Reset
  BY DEF Next, SignIn, Management, Ceremonies, Environment

\* The only actions that write sessions.
LEMMA SessionWriters ==
    ASSUME [Next]_vars
    PROVE  \/ UNCHANGED sessions
           \/ \E r \in Requests : DropPrior(r) \/ CreateSession(r) \/ EndSessions(r)
           \/ \E s \in Sessions : EndSession(s)
           \/ Restart \/ Reset
  BY Actions DEF vars, SetupChecks, RefuseSetup, BeginSetPassword, SetPassword, Verify, BeginLogin, FinishPasskeyAssertion,
     FinishSetupPasskey, Present, ChangePassword, RemovePassword, RemovePasskey, EndSubscriptions,
     BeginChangePassword, BeginAddPasskey, BeginRemovePassword, BeginRemovePasskey,
     BeginSetupPasskey, BeginPasskeyAssertion, BeginEnrolment, BeginReauth,
     BeginPasskeyRegistration, FinishEnrolment, SpendLink, FinishPasskeyRegistration, FinishReauth,
     RevokeLink, MintLink, Subscribe, ExpireKey, ExpireProof, ExpireLink

\* The only actions that write the password.
LEMMA PasswordWriters ==
    ASSUME [Next]_vars
    PROVE  \/ UNCHANGED <<password, nextPw>>
           \/ \E r \in Requests : SetPassword(r) \/ ChangePassword(r) \/ RemovePassword(r)
           \/ Reset
  BY Actions DEF vars, SetupChecks, RefuseSetup, BeginSetPassword, Verify, DropPrior, CreateSession, BeginLogin,
     FinishPasskeyAssertion, FinishSetupPasskey, Present, RemovePasskey, EndSessions,
     EndSubscriptions, BeginChangePassword, BeginAddPasskey, BeginRemovePassword,
     BeginRemovePasskey, BeginSetupPasskey, BeginPasskeyAssertion, BeginEnrolment, BeginReauth,
     BeginPasskeyRegistration, FinishEnrolment, SpendLink, FinishPasskeyRegistration, FinishReauth,
     RevokeLink, MintLink, EndSession, Subscribe, ExpireKey, ExpireProof, ExpireLink, Restart

\* The only actions that write passkeys.
LEMMA PasskeyWriters ==
    ASSUME [Next]_vars
    PROVE  \/ UNCHANGED <<passkeys, fromLink>>
           \/ \E r \in Requests, k \in Keys, c \in Creds : FinishSetupPasskey(r, k, c)
           \/ \E r \in Requests : RemovePasskey(r)
           \/ \E r \in Requests, l \in Links, k \in Keys, c \in Creds, prior \in {NoSession} \cup Sessions :
                 FinishEnrolment(r, l, k, c, prior)
           \/ \E s \in Sessions, k \in Keys, c \in Creds : FinishPasskeyRegistration(s, k, c)
           \/ Reset
  BY Actions DEF vars, SetupChecks, RefuseSetup, BeginSetPassword, SetPassword, Verify, DropPrior, CreateSession, BeginLogin,
     FinishPasskeyAssertion, Present, ChangePassword, RemovePassword, EndSessions, EndSubscriptions,
     BeginChangePassword, BeginAddPasskey, BeginRemovePassword, BeginRemovePasskey,
     BeginSetupPasskey, BeginPasskeyAssertion, BeginEnrolment, BeginReauth,
     BeginPasskeyRegistration, SpendLink, FinishReauth, RevokeLink, MintLink, EndSession, Subscribe,
     ExpireKey, ExpireProof, ExpireLink, Restart

\* The only actions that write push subscriptions.
LEMMA SubWriters ==
    ASSUME [Next]_vars
    PROVE  \/ UNCHANGED subs
           \/ \E r \in Requests : EndSubscriptions(r)
           \/ \E s \in Sessions : Subscribe(s)
  BY Actions DEF vars, SetupChecks, RefuseSetup, BeginSetPassword, SetPassword, Verify, DropPrior, CreateSession, BeginLogin,
     FinishPasskeyAssertion, FinishSetupPasskey, Present, ChangePassword, RemovePassword,
     RemovePasskey, EndSessions, BeginChangePassword, BeginAddPasskey, BeginRemovePassword,
     BeginRemovePasskey, BeginSetupPasskey, BeginPasskeyAssertion, BeginEnrolment, BeginReauth,
     BeginPasskeyRegistration, FinishEnrolment, SpendLink, FinishPasskeyRegistration, FinishReauth,
     RevokeLink, MintLink, EndSession, ExpireKey, ExpireProof, ExpireLink, Restart, Reset

\* The only actions that write enrolment links.
LEMMA LinkWriters ==
    ASSUME [Next]_vars
    PROVE  \/ UNCHANGED <<links, signIns>>
           \/ \E r \in Requests : SpendLink(r)
           \/ \E s \in Sessions, l \in Links : RevokeLink(s, l)
           \/ \E s \in Sessions, l \in Links, d \in Devices : MintLink(s, l, d)
           \/ \E l \in Links : ExpireLink(l)
           \/ Restart
  BY Actions DEF vars, SetupChecks, RefuseSetup, BeginSetPassword, SetPassword, Verify, DropPrior, CreateSession, BeginLogin,
     FinishPasskeyAssertion, FinishSetupPasskey, Present, ChangePassword, RemovePassword,
     RemovePasskey, EndSessions, EndSubscriptions, BeginChangePassword, BeginAddPasskey,
     BeginRemovePassword, BeginRemovePasskey, BeginSetupPasskey, BeginPasskeyAssertion,
     BeginEnrolment, BeginReauth, BeginPasskeyRegistration, FinishEnrolment,
     FinishPasskeyRegistration, FinishReauth, EndSession, Subscribe, ExpireKey, ExpireProof, Reset

\* The only actions that write proofs.
LEMMA ProofWriters ==
    ASSUME [Next]_vars
    PROVE  \/ UNCHANGED <<proofs, spent>>
           \/ \E r \in Requests : Present(r)
           \/ \E s \in Sessions, k \in Keys, c \in Creds, p \in Proofs : FinishReauth(s, k, c, p)
           \/ \E p \in Proofs : ExpireProof(p)
           \/ Restart
  BY Actions DEF vars, SetupChecks, RefuseSetup, BeginSetPassword, SetPassword, Verify, DropPrior, CreateSession, BeginLogin,
     FinishPasskeyAssertion, FinishSetupPasskey, ChangePassword, RemovePassword, RemovePasskey,
     EndSessions, EndSubscriptions, BeginChangePassword, BeginAddPasskey, BeginRemovePassword,
     BeginRemovePasskey, BeginSetupPasskey, BeginPasskeyAssertion, BeginEnrolment, BeginReauth,
     BeginPasskeyRegistration, FinishEnrolment, SpendLink, FinishPasskeyRegistration, RevokeLink,
     MintLink, EndSession, Subscribe, ExpireKey, ExpireLink, Reset

\* The only actions that write pending challenges.
LEMMA PendWriters ==
    ASSUME [Next]_vars
    PROVE  \/ UNCHANGED pend
           \/ \E r \in Requests, k \in Keys, c \in Creds, prior \in {NoSession} \cup Sessions :
                 FinishPasskeyAssertion(r, k, c, prior)
           \/ \E r \in Requests, k \in Keys, c \in Creds : FinishSetupPasskey(r, k, c)
           \/ \E r \in Requests, k \in Keys : RefuseSetup(r, k)
           \/ \E k \in Keys, rp \in Rps : BeginSetupPasskey(k, rp) \/ BeginPasskeyAssertion(k, rp)
           \/ \E l \in Links, k \in Keys, rp \in Rps : BeginEnrolment(l, k, rp)
           \/ \E s \in Sessions, k \in Keys, rp \in Rps, op \in ReauthOps, c \in Creds :
                 BeginReauth(s, k, rp, op, c)
           \/ \E r \in Requests, k \in Keys : BeginPasskeyRegistration(r, k)
           \/ \E r \in Requests, l \in Links, k \in Keys, c \in Creds, prior \in {NoSession} \cup Sessions :
                 FinishEnrolment(r, l, k, c, prior)
           \/ \E s \in Sessions, k \in Keys, c \in Creds : FinishPasskeyRegistration(s, k, c)
           \/ \E s \in Sessions, k \in Keys, c \in Creds, p \in Proofs : FinishReauth(s, k, c, p)
           \/ \E k \in Keys : ExpireKey(k)
           \/ Restart
  BY Actions DEF vars, SetupChecks, BeginSetPassword, SetPassword, Verify, DropPrior, CreateSession, BeginLogin,
     Present, ChangePassword, RemovePassword, RemovePasskey, EndSessions, EndSubscriptions,
     BeginChangePassword, BeginAddPasskey, BeginRemovePassword, BeginRemovePasskey, SpendLink,
     RevokeLink, MintLink, EndSession, Subscribe, ExpireProof, ExpireLink, Reset

\* Only the command line's reset writes its own progress.
LEMMA ResetWriters ==
    ASSUME [Next]_vars
    PROVE  \/ UNCHANGED <<reset, mix>>
           \/ Reset
  BY Actions DEF vars, SetupChecks, RefuseSetup, BeginSetPassword, SetPassword, Verify, DropPrior, CreateSession, BeginLogin,
     FinishPasskeyAssertion, FinishSetupPasskey, Present, ChangePassword, RemovePassword,
     RemovePasskey, EndSessions, EndSubscriptions, BeginChangePassword, BeginAddPasskey,
     BeginRemovePassword, BeginRemovePasskey, BeginSetupPasskey, BeginPasskeyAssertion,
     BeginEnrolment, BeginReauth, BeginPasskeyRegistration, FinishEnrolment, SpendLink,
     FinishPasskeyRegistration, FinishReauth, RevokeLink, MintLink, EndSession, Subscribe,
     ExpireKey, ExpireProof, ExpireLink, Restart

-----------------------------------------------------------------------------
(* Types                                                                   *)

\* The places and kinds the actions name are places and kinds.
LEMMA Names ==
    /\ {"idle", "present", "write", "sweep", "subs", "verify", "prior", "create",
         "spend", "setup"} \subseteq Places
    /\ {"setup", "setupPasskey", "login", "changePassword", "removePassword", "addPasskey",
         "removePasskey"} \subseteq Kinds
    /\ NoSession \in {NoSession} \cup Sessions
    /\ "none" \in Rps \cup {"none"} /\ "none" \in {"none"} \cup Creds
    /\ \A s \in Sessions : s \in {NoSession} \cup Sessions
    /\ \A rp \in Rps : rp \in Rps \cup {"none"}
    /\ \A c \in Creds : c \in {"none"} \cup Creds
  BY DEF Places, Kinds

\* The type of what a request can see.
LEMMA ReqStep ==
    ASSUME TypeOK, RequestsTrue, [Next]_vars
    PROVE  ReqTyped'
<1>t. ReqTyped
  BY DEF TypeOK, ReqTyped
<1>1. ASSUME NEW r \in Requests, BeginSetPassword(r) PROVE ReqTyped'
  <2>1. Enter(r, "setup", "write", NoSession, "none", "none")
    BY <1>1 DEF BeginSetPassword
  <2> QED
    BY <1>t, Names, <2>1, EnterFields
<1>2. ASSUME NEW r \in Requests, SetPassword(r) PROVE ReqTyped'
  BY <1>2, StoreEffect DEF SetPassword
<1>3. ASSUME NEW r \in Requests, Verify(r) PROVE ReqTyped'
  BY <1>3, VerifyEffect
<1>4. ASSUME NEW r \in Requests, DropPrior(r) PROVE ReqTyped'
  BY <1>t, Names, <1>4, StepFields DEF DropPrior
<1>5. ASSUME NEW r \in Requests, CreateSession(r) PROVE ReqTyped'
  BY <1>t, Names, <1>5, DoneFields DEF CreateSession
<1>6. ASSUME NEW r \in Requests, NEW prior \in {NoSession} \cup Sessions, BeginLogin(r, prior)
      PROVE  ReqTyped'
  <2>1. Enter(r, "login", "verify", prior, "none", "none")
    BY <1>6 DEF BeginLogin
  <2> QED
    BY <1>t, Names, <2>1, EnterFields
<1>7. ASSUME NEW r \in Requests, NEW k \in Keys, NEW c \in Creds,
             NEW prior \in {NoSession} \cup Sessions, FinishPasskeyAssertion(r, k, c, prior)
      PROVE  ReqTyped'
  <2>1. LoginFinish(r, c, prior) \/ UNCHANGED req
    BY <1>7 DEF FinishPasskeyAssertion
  <2>2. CASE UNCHANGED req
    BY <1>t, <2>2 DEF ReqTyped
  <2>3. CASE LoginFinish(r, c, prior)
    BY <1>t, <2>3, LoginFields
  <2> QED
    BY <2>1, <2>2, <2>3
<1>8. ASSUME NEW r \in Requests, NEW k \in Keys, NEW c \in Creds, FinishSetupPasskey(r, k, c)
      PROVE  ReqTyped'
  BY <1>t, <1>8, SetupFields
<1>8a. ASSUME NEW r \in Requests, NEW prior \in {NoSession} \cup Sessions, SetupChecks(r, prior)
       PROVE  ReqTyped'
  <2>1. Enter(r, "setupPasskey", "setup", prior, "none", "none")
    BY <1>8a DEF SetupChecks
  <2> QED
    BY <1>t, Names, <2>1, EnterFields
<1>8b. ASSUME NEW r \in Requests, NEW k \in Keys, RefuseSetup(r, k) PROVE ReqTyped'
  BY <1>t, <1>8b, DoneFields DEF RefuseSetup
<1>9. ASSUME NEW r \in Requests, Present(r) PROVE ReqTyped'
  BY <1>9, PresentEffect
<1>10. ASSUME NEW r \in Requests, ChangePassword(r) PROVE ReqTyped'
  BY <1>10, StoreEffect DEF ChangePassword
<1>11. ASSUME NEW r \in Requests, RemovePassword(r) PROVE ReqTyped'
  BY <1>11, RemovePasswordEffect
<1>12. ASSUME NEW r \in Requests, RemovePasskey(r) PROVE ReqTyped'
  BY <1>12, RemovePasskeyEffect
<1>13. ASSUME NEW r \in Requests, EndSessions(r) PROVE ReqTyped'
  BY <1>t, Names, <1>13, StepFields, DoneFields DEF EndSessions
<1>14. ASSUME NEW r \in Requests, EndSubscriptions(r) PROVE ReqTyped'
  BY <1>t, Names, <1>14, DoneFields DEF EndSubscriptions
<1>15. ASSUME NEW r \in Requests, NEW s \in Sessions, BeginChangePassword(r, s) PROVE ReqTyped'
  <2>1. Enter(r, "changePassword", "present", s, "none", "none")
    BY <1>15 DEF BeginChangePassword
  <2> QED
    BY <1>t, Names, <2>1, EnterFields
<1>16. ASSUME NEW r \in Requests, NEW s \in Sessions, NEW rp \in Rps, BeginAddPasskey(r, s, rp)
       PROVE  ReqTyped'
  <2>1. Enter(r, "addPasskey", "present", s, rp, "none")
    BY <1>16 DEF BeginAddPasskey
  <2> QED
    BY <1>t, Names, <2>1, EnterFields
<1>17. ASSUME NEW r \in Requests, NEW s \in Sessions, NEW rp \in Rps, BeginRemovePassword(r, s, rp)
       PROVE  ReqTyped'
  <2>1. Enter(r, "removePassword", "present", s, rp, "none")
    BY <1>17 DEF BeginRemovePassword
  <2> QED
    BY <1>t, Names, <2>1, EnterFields
<1>18. ASSUME NEW r \in Requests, NEW s \in Sessions, NEW rp \in Rps, NEW c \in Creds,
              BeginRemovePasskey(r, s, rp, c)
       PROVE  ReqTyped'
  <2>1. Enter(r, "removePasskey", "present", s, rp, c)
    BY <1>18 DEF BeginRemovePasskey
  <2> QED
    BY <1>t, Names, <2>1, EnterFields
<1>19. ASSUME NEW k \in Keys, NEW rp \in Rps, BeginSetupPasskey(k, rp) PROVE ReqTyped'
  BY <1>t, <1>19 DEF BeginSetupPasskey, ReqTyped
<1>20. ASSUME NEW k \in Keys, NEW rp \in Rps, BeginPasskeyAssertion(k, rp) PROVE ReqTyped'
  BY <1>t, <1>20 DEF BeginPasskeyAssertion, ReqTyped
<1>21. ASSUME NEW l \in Links, NEW k \in Keys, NEW rp \in Rps, BeginEnrolment(l, k, rp)
       PROVE  ReqTyped'
  BY <1>t, <1>21 DEF BeginEnrolment, ReqTyped
<1>22. ASSUME NEW s \in Sessions, NEW k \in Keys, NEW rp \in Rps, NEW op \in ReauthOps,
              NEW c \in Creds, BeginReauth(s, k, rp, op, c)
       PROVE  ReqTyped'
  BY <1>t, <1>22 DEF BeginReauth, ReqTyped
<1>23. ASSUME NEW r \in Requests, NEW k \in Keys, BeginPasskeyRegistration(r, k) PROVE ReqTyped'
  BY <1>t, Names, <1>23, DoneFields DEF BeginPasskeyRegistration
<1>24. ASSUME NEW r \in Requests, NEW l \in Links, NEW k \in Keys, NEW c \in Creds,
              NEW prior \in {NoSession} \cup Sessions, FinishEnrolment(r, l, k, c, prior)
       PROVE  ReqTyped'
  BY <1>t, Names, <1>24, EnrolFields DEF FinishEnrolment
<1>25. ASSUME NEW r \in Requests, SpendLink(r) PROVE ReqTyped'
  BY <1>t, Names, <1>25, StepFields, DoneFields DEF SpendLink
<1>26. ASSUME NEW s \in Sessions, NEW k \in Keys, NEW c \in Creds,
              FinishPasskeyRegistration(s, k, c)
       PROVE  ReqTyped'
  BY <1>t, <1>26 DEF FinishPasskeyRegistration, ReqTyped
<1>27. ASSUME NEW s \in Sessions, NEW k \in Keys, NEW c \in Creds, NEW p \in Proofs,
              FinishReauth(s, k, c, p)
       PROVE  ReqTyped'
  BY <1>t, <1>27 DEF FinishReauth, ReqTyped
<1>28. ASSUME NEW s \in Sessions, NEW l \in Links, RevokeLink(s, l) PROVE ReqTyped'
  BY <1>t, <1>28 DEF RevokeLink, ReqTyped
<1>29. ASSUME NEW s \in Sessions, NEW l \in Links, NEW d \in Devices, MintLink(s, l, d)
       PROVE  ReqTyped'
  BY <1>t, <1>29 DEF MintLink, ReqTyped
<1>30. ASSUME NEW s \in Sessions, EndSession(s) PROVE ReqTyped'
  BY <1>t, <1>30 DEF EndSession, ReqTyped
<1>31. ASSUME NEW s \in Sessions, Subscribe(s) PROVE ReqTyped'
  BY <1>t, <1>31 DEF Subscribe, ReqTyped
<1>32. ASSUME NEW k \in Keys, ExpireKey(k) PROVE ReqTyped'
  BY <1>t, <1>32 DEF ExpireKey, ReqTyped
<1>33. ASSUME NEW p \in Proofs, ExpireProof(p) PROVE ReqTyped'
  BY <1>t, <1>33 DEF ExpireProof, ReqTyped
<1>34. ASSUME NEW l \in Links, ExpireLink(l) PROVE ReqTyped'
  BY <1>t, <1>34 DEF ExpireLink, ReqTyped
<1>35. ASSUME Restart PROVE ReqTyped'
  BY <1>35, IdleTyped DEF Restart, ReqTyped
<1>36. ASSUME Reset PROVE ReqTyped'
  BY <1>t, Names, <1>36, RacingFields DEF Reset
<1>37. ASSUME UNCHANGED vars PROVE ReqTyped'
  BY <1>t, <1>37 DEF vars, ReqTyped
<1> QED
  BY <1>1, <1>2, <1>3, <1>4, <1>5, <1>6, <1>7, <1>8, <1>8a, <1>8b, <1>9, <1>10, <1>11, <1>12, <1>13, <1>14, <1>15,
     <1>16, <1>17, <1>18, <1>19, <1>20, <1>21, <1>22, <1>23, <1>24, <1>25, <1>26, <1>27, <1>28,
     <1>29, <1>30, <1>31, <1>32, <1>33, <1>34, <1>35, <1>36, <1>37, Actions

\* The password keeps its type.
LEMMA PasswordTyped ==
    ASSUME TypeOK, [Next]_vars
    PROVE  password' \in 0..MaxPasswords /\ nextPw' \in 1..MaxPasswords + 1
<1>t. password \in 0..MaxPasswords /\ nextPw \in 1..MaxPasswords + 1
  BY DEF TypeOK
<1>1. ASSUME NEW r \in Requests, SetPassword(r) \/ ChangePassword(r)
      PROVE  password' \in 0..MaxPasswords /\ nextPw' \in 1..MaxPasswords + 1
  BY <1>t, <1>1, Zero DEF SetPassword, ChangePassword, Store
<1>2. ASSUME NEW r \in Requests, RemovePassword(r)
      PROVE  password' \in 0..MaxPasswords /\ nextPw' \in 1..MaxPasswords + 1
  BY <1>t, <1>2, Zero DEF RemovePassword
<1>3. ASSUME Reset
      PROVE  password' \in 0..MaxPasswords /\ nextPw' \in 1..MaxPasswords + 1
  BY <1>t, <1>3, Zero DEF Reset
<1> QED
  BY <1>t, <1>1, <1>2, <1>3, PasswordWriters

PasskeysTyped == passkeys \in [Creds -> Scopes \cup {"unused", "gone"}] /\ fromLink \subseteq Creds

\* Registration gives an unused credential the scope of its challenge.
LEMMA RegisterTyped ==
    ASSUME TypeOK, NEW k \in Keys, NEW c \in Creds, NEW scope, Register(k, c, scope)
    PROVE  /\ PasskeysTyped' /\ scope \in Scopes /\ passkeys[c] = "unused"
           /\ passkeys' = [passkeys EXCEPT ![c] = scope] /\ ~Have(c)
<1>1. scope \in Scopes
  BY DEF TypeOK, Register, Takes
<1> QED
  BY <1>1, AuthAssumption DEF TypeOK, Register, PasskeysTyped, Have, Scopes

\* Passkeys keep their types.
LEMMA PasskeyTyped ==
    ASSUME TypeOK, RequestsTrue, [Next]_vars
    PROVE  PasskeysTyped'
<1>t. PasskeysTyped
  BY DEF TypeOK, PasskeysTyped
<1>1. ASSUME NEW s \in Sessions, NEW k \in Keys, NEW c \in Creds, FinishPasskeyRegistration(s, k, c)
      PROVE  PasskeysTyped'
  BY <1>1, RegisterTyped DEF FinishPasskeyRegistration
<1>2. ASSUME NEW r \in Requests, NEW k \in Keys, NEW c \in Creds, FinishSetupPasskey(r, k, c)
      PROVE  PasskeysTyped'
  BY <1>2, RegisterTyped DEF FinishSetupPasskey
<1>3. ASSUME NEW r \in Requests, NEW l \in Links, NEW k \in Keys, NEW c \in Creds, NEW prior,
             FinishEnrolment(r, l, k, c, prior)
      PROVE  PasskeysTyped'
  BY <1>3, RegisterTyped DEF FinishEnrolment
<1>4. ASSUME NEW r \in Requests, RemovePasskey(r)
      PROVE  PasskeysTyped'
  BY <1>t, <1>4 DEF RemovePasskey, PasskeysTyped
<1>5. ASSUME Reset
      PROVE  PasskeysTyped'
  BY <1>t, <1>5 DEF Reset, PasskeysTyped
<1> QED
  BY <1>t, <1>1, <1>2, <1>3, <1>4, <1>5, PasskeyWriters DEF PasskeysTyped

\* Sessions keep their types.
LEMMA SessionTyped ==
    ASSUME TypeOK, RequestsTrue, [Next]_vars
    PROVE  sessions' \in [Sessions -> SessionRows]
<1>t. sessions \in [Sessions -> SessionRows] /\ ReqTyped
  BY DEF TypeOK, ReqTyped
<1>0. ASSUME NEW x \in SessionRows, NEW b, NEW e \in BOOLEAN
      PROVE  /\ [x EXCEPT !.by = "gone"] \in SessionRows /\ [x EXCEPT !.excused = e] \in SessionRows
             /\ [x EXCEPT !.by = IF b THEN "gone" ELSE @, !.excused = e] \in SessionRows
             /\ x.excused \in BOOLEAN
  BY DEF SessionRows
<1>1. ASSUME NEW r \in Requests, DropPrior(r)
      PROVE  sessions' \in [Sessions -> SessionRows]
  BY <1>t, <1>0, <1>1 DEF DropPrior
<1>2. ASSUME NEW r \in Requests, CreateSession(r)
      PROVE  sessions' \in [Sessions -> SessionRows]
  <2>1. [by |-> req[r].subj, hash |-> req[r].hash, excused |-> req[r].stale] \in SessionRows
    BY <1>t, <1>2 DEF CreateSession, RequestsTrue, RequestAt, SigningIn, SessionRows, ReqTyped,
       RequestStates
  <2> QED
    BY <1>t, <1>2, <2>1 DEF CreateSession
<1>3. ASSUME NEW r \in Requests, EndSessions(r)
      PROVE  sessions' \in [Sessions -> SessionRows]
  <2> DEFINE own == IF req[r].sess = NoSession THEN {} ELSE {req[r].sess}
             One == [s \in Sessions |-> [sessions[s] EXCEPT
                !.by = IF s \in EndedBy(r) THEN "gone" ELSE @, !.excused = @ \/ s \in own]]
             Two == [s \in Sessions |-> [sessions[s] EXCEPT
                  !.excused = @ \/ s \in own \cup EndedBy(r)]]
  <2>1. ASSUME NEW s \in Sessions
        PROVE  One[s] \in SessionRows /\ Two[s] \in SessionRows
    BY <1>t DEF SessionRows
  <2>2. sessions' = One \/ sessions' = Two
    BY <1>3 DEF EndSessions
  <2> QED
    BY <2>1, <2>2
<1>4. ASSUME NEW s \in Sessions, EndSession(s)
      PROVE  sessions' \in [Sessions -> SessionRows]
  BY <1>t, <1>0, <1>4 DEF EndSession
<1>5. ASSUME Restart
      PROVE  sessions' \in [Sessions -> SessionRows]
  <2>1. ASSUME NEW s \in Sessions, NEW b \in BOOLEAN
        PROVE  [sessions[s] EXCEPT !.excused = @ \/ b] \in SessionRows
    BY <1>t DEF SessionRows
  <2> QED
    BY <1>t, <1>5, <2>1 DEF Restart
<1>6. ASSUME Reset
      PROVE  sessions' \in [Sessions -> SessionRows]
  BY <1>t, <1>0, <1>6 DEF Reset
<1> QED
  BY <1>t, <1>1, <1>2, <1>3, <1>4, <1>5, <1>6, SessionWriters

\* Subscriptions keep their types.
LEMMA SubTyped ==
    ASSUME TypeOK, [Next]_vars
    PROVE  subs' \subseteq [by : Devices, scope : Devices \cup {"admin"}]
  BY SubWriters DEF TypeOK, EndSubscriptions, Subscribe

ProofRows == [op : ReauthOps \cup {"none"}, tgt : {"none"} \cup Creds,
              subj : {"unused", "gone"} \cup Creds, sess : {NoSession} \cup Sessions]

\* Proofs keep their types.
LEMMA ProofTyped ==
    ASSUME TypeOK, [Next]_vars
    PROVE  proofs' \in [Proofs -> ProofRows] /\ spent' \subseteq Proofs
<1>t. proofs \in [Proofs -> ProofRows] /\ spent \subseteq Proofs
  BY DEF TypeOK, ProofRows
<1>0. ASSUME NEW x \in ProofRows PROVE [x EXCEPT !.subj = "gone"] \in ProofRows
  BY DEF ProofRows
<1>1. ASSUME NEW r \in Requests, Present(r)
      PROVE  proofs' \in [Proofs -> ProofRows] /\ spent' \subseteq Proofs
  <2>1. \/ UNCHANGED proofs /\ UNCHANGED spent
        \/ \E p \in Proofs : Consume(p) /\ (spent' = spent \cup {p} \/ UNCHANGED spent)
    BY <1>1 DEF Present
  <2> QED
    BY <1>t, <1>0, <2>1 DEF Consume
<1>2. ASSUME NEW s \in Sessions, NEW k \in Keys, NEW c \in Creds, NEW p \in Proofs,
             FinishReauth(s, k, c, p)
      PROVE  proofs' \in [Proofs -> ProofRows] /\ spent' \subseteq Proofs
  <2>1. [op |-> pend[k].op, tgt |-> pend[k].tgt, subj |-> c, sess |-> s] \in ProofRows
    BY <1>2 DEF TypeOK, FinishReauth, ProofRows
  <2> QED
    BY <1>t, <1>2, <2>1 DEF FinishReauth
<1>3. ASSUME NEW p \in Proofs, ExpireProof(p)
      PROVE  proofs' \in [Proofs -> ProofRows] /\ spent' \subseteq Proofs
  BY <1>t, <1>0, <1>3 DEF ExpireProof
<1>4. ASSUME Restart
      PROVE  proofs' \in [Proofs -> ProofRows] /\ spent' \subseteq Proofs
  BY <1>t, <1>0, <1>4 DEF Restart
<1> QED
  BY <1>t, <1>1, <1>2, <1>3, <1>4, ProofWriters

LinkRows == [state : {"unused", "live", "spent", "revoked", "gone"}, dev : Devices \cup {"none"}]

\* Links keep their types.
LEMMA LinkTyped ==
    ASSUME TypeOK, RequestsTrue, [Next]_vars
    PROVE  links' \in [Links -> LinkRows] /\ signIns' \in [Links -> Nat]
<1>t. links \in [Links -> LinkRows] /\ signIns \in [Links -> Nat]
  BY DEF TypeOK, LinkRows
<1>0. ASSUME NEW x \in LinkRows, NEW st \in {"spent", "revoked", "gone"}
      PROVE  [x EXCEPT !.state = st] \in LinkRows
  BY DEF LinkRows
<1>1. ASSUME NEW s \in Sessions, NEW l \in Links, NEW d \in Devices, MintLink(s, l, d)
      PROVE  links' \in [Links -> LinkRows] /\ signIns' \in [Links -> Nat]
  BY <1>t, <1>1 DEF MintLink, Mint, LinkRows
<1>2. ASSUME NEW s \in Sessions, NEW l \in Links, RevokeLink(s, l)
      PROVE  links' \in [Links -> LinkRows] /\ signIns' \in [Links -> Nat]
  BY <1>t, <1>0, <1>2 DEF RevokeLink, Revoke
<1>3. ASSUME NEW r \in Requests, SpendLink(r)
      PROVE  links' \in [Links -> LinkRows] /\ signIns' \in [Links -> Nat]
  <2> DEFINE l == req[r].tgt
  <2>1. l \in Links
    BY <1>3 DEF SpendLink, RequestsTrue, RequestAt
  <2>2. \/ UNCHANGED <<links, signIns>>
        \/ links' = [links EXCEPT ![l].state = "spent"] /\ signIns' = [signIns EXCEPT ![l] = @ + 1]
    BY <1>3 DEF SpendLink
  <2> HIDE DEF l
  <2>3. CASE links' = [links EXCEPT ![l].state = "spent"] /\ signIns' = [signIns EXCEPT ![l] = @ + 1]
    <3>1. links' \in [Links -> LinkRows]
      BY <1>t, <1>0, <2>1, <2>3
    <3>2. signIns[l] + 1 \in Nat
      BY <1>t, <2>1
    <3>3. signIns' \in [Links -> Nat]
      BY <1>t, <2>1, <2>3, <3>2
    <3> QED
      BY <3>1, <3>3
  <2> QED
    BY <1>t, <2>2, <2>3
<1>4. ASSUME NEW l \in Links, ExpireLink(l)
      PROVE  links' \in [Links -> LinkRows] /\ signIns' \in [Links -> Nat]
  BY <1>t, <1>0, <1>4 DEF ExpireLink
<1>5. ASSUME Restart
      PROVE  links' \in [Links -> LinkRows] /\ signIns' \in [Links -> Nat]
  BY <1>t, <1>0, <1>5 DEF Restart
<1> QED
  BY <1>t, <1>1, <1>2, <1>3, <1>4, <1>5, LinkWriters

KeyAt(k) == /\ pend[k].kind \in {"none", "gone", "register", "assert", "reauth"}
            /\ pend[k].kind = "register" => pend[k].scope \in Scopes /\ pend[k].link \in BOOLEAN
            /\ pend[k].kind = "reauth" => pend[k].op \in ReauthOps /\ pend[k].tgt \in {"none"} \cup Creds
PendOK == DOMAIN pend = Keys /\ \A k \in Keys : KeyAt(k)

\* Challenges keep their types.
LEMMA PendTyped ==
    ASSUME TypeOK, LinksTrue, [Next]_vars
    PROVE  PendOK'
<1>t. PendOK
  BY DEF TypeOK, PendOK, KeyAt
<1>0. ASSUME NEW k \in Keys, pend' = [pend EXCEPT ![k] = [kind |-> "gone"]]
      PROVE  PendOK'
  BY <1>t, <1>0 DEF PendOK, KeyAt
<1>c. ASSUME NEW k \in Keys, NEW rp, NEW scope \in Scopes, NEW link \in BOOLEAN,
             Challenge(k, rp, scope, link)
      PROVE  PendOK'
  BY <1>t, <1>c DEF PendOK, KeyAt, Challenge, PendingCeremony
<1>a. "admin" \in Scopes /\ Devices \subseteq Scopes
  BY DEF Scopes
<1>1. ASSUME NEW s \in Sessions, NEW k \in Keys, NEW rp \in Rps, NEW op \in ReauthOps,
             NEW c \in Creds,
             BeginReauth(s, k, rp, op, c)
      PROVE  PendOK'
  BY <1>t, <1>1 DEF BeginReauth, Asks, PendingReauth, Target, PendOK, KeyAt
<1>2. ASSUME NEW k \in Keys, NEW rp, BeginPasskeyAssertion(k, rp)
      PROVE  PendOK'
  BY <1>t, <1>2 DEF BeginPasskeyAssertion, PendOK, KeyAt
<1>3. ASSUME NEW k \in Keys, NEW rp, BeginSetupPasskey(k, rp)
      PROVE  PendOK'
  BY <1>3, <1>c, <1>a DEF BeginSetupPasskey
<1>4. ASSUME NEW k \in Keys, NEW r \in Requests, BeginPasskeyRegistration(r, k)
      PROVE  PendOK'
  BY <1>4, <1>c, <1>a DEF BeginPasskeyRegistration
<1>5. ASSUME NEW k \in Keys, NEW rp, NEW l \in Links, BeginEnrolment(l, k, rp)
      PROVE  PendOK'
  BY <1>5, <1>c, <1>a DEF BeginEnrolment, LinksTrue
<1>6. ASSUME NEW k \in Keys,
             \/ \E s \in Sessions, c \in Creds : FinishPasskeyRegistration(s, k, c)
             \/ \E s \in Sessions, c \in Creds, p \in Proofs : FinishReauth(s, k, c, p)
             \/ \E r \in Requests, c \in Creds, prior \in {NoSession} \cup Sessions :
                FinishPasskeyAssertion(r, k, c, prior)
             \/ \E r \in Requests, c \in Creds : FinishSetupPasskey(r, k, c)
             \/ \E r \in Requests, l \in Links, c \in Creds, prior \in {NoSession} \cup Sessions :
                FinishEnrolment(r, l, k, c, prior)
             \/ ExpireKey(k)
      PROVE  PendOK'
  BY <1>6, <1>0 DEF FinishPasskeyRegistration, FinishReauth, FinishPasskeyAssertion,
     FinishSetupPasskey,
                    FinishEnrolment, ExpireKey, Register
<1>6a. ASSUME NEW k \in Keys, NEW r \in Requests, RefuseSetup(r, k)
       PROVE  PendOK'
  <2>1. CASE UNCHANGED pend
    BY <1>t, <2>1 DEF PendOK, KeyAt
  <2>2. CASE pend' = [pend EXCEPT ![k] = [kind |-> "gone"]]
    BY <1>0, <2>2
  <2> QED
    BY <1>6a, <2>1, <2>2 DEF RefuseSetup
<1>7. ASSUME Restart
      PROVE  PendOK'
  BY <1>t, <1>7 DEF Restart, PendOK, KeyAt, NoKey
<1>8. ASSUME UNCHANGED pend
      PROVE  PendOK'
  BY <1>t, <1>8 DEF PendOK, KeyAt
<1> QED
  BY <1>1, <1>2, <1>3, <1>4, <1>5, <1>6, <1>6a, <1>7, <1>8, PendWriters

\* Every step keeps the types.
LEMMA TypeStep ==
    ASSUME TypeOK, RequestsTrue, LinksTrue, [Next]_vars
    PROVE  TypeOK'
<1>1. mix' \in Mixes /\ reset' \in {"no", "password", "passkeys", "done"}
  BY ResetWriters DEF TypeOK, Reset
<1> QED
  BY <1>1, PasswordTyped, PasskeyTyped, SessionTyped, SubTyped, PendTyped, ProofTyped, LinkTyped,
     ReqStep
     DEF TypeOK, PasskeysTyped, PendOK, KeyAt, ProofRows, LinkRows, ReqTyped

-----------------------------------------------------------------------------
(* Requests                                                                *)

\* A request nobody touched is still where its facts say.
LEMMA RequestUntouched ==
    ASSUME NEW q \in Requests, RequestAt(q), req'[q] = req[q], UNCHANGED <<password, passkeys>>
    PROVE  RequestAt(q)'
  BY DEF RequestAt, SigningIn, Removing, Backed, Have, AdminAt, Accepts

\* A request that was overtaken is still where its facts say.
LEMMA RequestMarked ==
    ASSUME TypeOK, NEW q \in Requests, RequestAt(q), Marked(q)
    PROVE  RequestAt(q)'
  BY DEF TypeOK, RequestStates, RequestAt, SigningIn, Removing, Marked

\* Nothing needs to be known of an idle request.
LEMMA RequestIdle ==
    ASSUME NEW q \in Requests, req'[q] = Idle
    PROVE  RequestAt(q)'
  BY DEF RequestAt, SigningIn, Removing, Idle

\* A passkey more takes nothing away.
LEMMA RequestRegister ==
    ASSUME TypeOK, NEW q \in Requests, RequestAt(q), req'[q] = req[q], NEW k \in Keys, NEW c \in Creds,
           NEW scope, Register(k, c, scope), password' = password
    PROVE  RequestAt(q)'
<1>1. /\ scope \in Scopes /\ passkeys[c] = "unused" /\ passkeys' = [passkeys EXCEPT ![c] = scope] /\ ~Have(c)
      /\ passkeys \in [Creds -> Scopes \cup {"unused", "gone"}]
  BY RegisterTyped DEF TypeOK
<1>2. \A x \in Creds : /\ Have(x) => Have(x)'
                       /\ passkeys[x] = "gone" => passkeys'[x] = "gone"
                       /\ passkeys[x] = "admin" => passkeys'[x] = "admin"
  BY <1>1, AuthAssumption DEF Have, Scopes
<1>3. \A rp : AdminAt(rp) \subseteq AdminAt(rp)'
  BY <1>2 DEF AdminAt
<1>4. \A by, hash : Backed(by, hash) => Backed(by, hash)'
  BY <1>2 DEF Backed
<1>5. \A op, rp, tgt : Accepts(op, rp, tgt) \subseteq Accepts(op, rp, tgt)'
  BY <1>3 DEF Accepts
<1> QED
  BY <1>2, <1>3, <1>4, <1>5 DEF RequestAt, SigningIn, Removing

\* A request that neither signs in nor removes anything has nothing to keep.
LEMMA RequestPlain ==
    ASSUME NEW q \in Requests, ~SigningIn(q)', ~Removing(q)', req'[q].at # "spend",
           req'[q].op = "removePasskey" => req'[q].tgt \in Creds
    PROVE  RequestAt(q)'
  BY DEF RequestAt

\* RequestsTrue after a step that concerns one request.
LEMMA OthersUntouched ==
    ASSUME RequestsTrue, NEW r \in Requests, Others(r), UNCHANGED <<password, passkeys>>, RequestAt(r)'
    PROVE  RequestsTrue'
  BY RequestUntouched DEF RequestsTrue, Others

\* RequestsTrue after a step that overtakes every other request.
LEMMA OthersMarked ==
    ASSUME TypeOK, RequestsTrue, NEW r, \A q \in Requests \ {r} : Marked(q), r \in Requests => RequestAt(r)'
    PROVE  RequestsTrue'
  BY RequestMarked DEF RequestsTrue

\* Every step keeps what is known of the requests in flight.
LEMMA RequestStep ==
    ASSUME TypeOK, RequestsTrue, [Next]_vars
    PROVE  RequestsTrue'
<1>t. ReqTyped
  BY DEF TypeOK, ReqTyped
<1>r. \A r \in Requests : RequestAt(r)
  BY DEF RequestsTrue
<1>q. ASSUME UNCHANGED <<req, password, passkeys>> PROVE RequestsTrue'
  BY <1>r, <1>q, RequestUntouched DEF RequestsTrue
<1>1. ASSUME NEW r \in Requests, BeginSetPassword(r) PROVE RequestsTrue'
  <2>1. Enter(r, "setup", "write", NoSession, "none", "none") /\ UNCHANGED <<password, passkeys>>
    BY <1>1 DEF BeginSetPassword
  <2>2. Others(r) /\ req'[r].at = "write" /\ req'[r].op = "setup"
    BY <1>t, Names, <2>1, EnterFields
  <2>3. RequestAt(r)'
    BY <2>2 DEF RequestAt, SigningIn, Removing
  <2> QED
    BY <2>1, <2>2, <2>3, OthersUntouched
<1>2. ASSUME NEW r \in Requests, SetPassword(r) PROVE RequestsTrue'
  <2> DEFINE m == FALSE
  <2>1. Store(r, m) /\ UNCHANGED passkeys
    BY <1>2 DEF SetPassword
  <2>2. CASE Others(r) /\ req'[r] = Idle /\ UNCHANGED password
    BY <2>1, <2>2, RequestIdle, OthersUntouched
  <2>3. CASE /\ \A q \in Requests \ {r} : Marked(q)
             /\ SameClaim(r) /\ req'[r].at \in {"verify", "sweep"}
    <3>1. RequestAt(r)'
      BY <1>r, <2>3 DEF RequestAt, SigningIn, Removing, SameClaim
    <3> QED
      BY <2>3, <3>1, OthersMarked
  <2> HIDE DEF m
  <2> QED
    BY <2>1, <2>2, <2>3, StoreEffect
<1>3. ASSUME NEW r \in Requests, Verify(r) PROVE RequestsTrue'
  <2>1. UNCHANGED <<password, passkeys>>
    BY <1>3 DEF Verify
  <2>2. RequestAt(r)'
    BY <1>r, <2>1, <1>3, VerifyEffect, RequestIdle DEF RequestAt, SigningIn, Removing, SameClaim,
       Backed, Have
  <2> QED
    BY <2>1, <2>2, <1>3, VerifyEffect, OthersUntouched
<1>4. ASSUME NEW r \in Requests, DropPrior(r) PROVE RequestsTrue'
  <2>1. Step(r, "create") /\ req[r].at = "prior" /\ UNCHANGED <<password, passkeys>>
    BY <1>4 DEF DropPrior
  <2>2. /\ Others(r) /\ SameClaim(r) /\ req'[r].at = "create" /\ req'[r].subj = req[r].subj
        /\ req'[r].hash = req[r].hash /\ (req'[r].stale <=> req[r].stale)
    BY <1>t, Names, <2>1, StepFields
  <2>3. RequestAt(r)'
    BY <1>r, <2>1, <2>2 DEF RequestAt, SigningIn, Removing, SameClaim, Backed, Have
  <2> QED
    BY <2>1, <2>2, <2>3, OthersUntouched
<1>5. ASSUME NEW r \in Requests, CreateSession(r) PROVE RequestsTrue'
  BY <1>t, <1>5, DoneFields, RequestIdle, OthersUntouched DEF CreateSession
<1>6. ASSUME NEW r \in Requests, NEW prior \in {NoSession} \cup Sessions, BeginLogin(r, prior)
      PROVE  RequestsTrue'
  <2>1. Enter(r, "login", "verify", prior, "none", "none") /\ UNCHANGED <<password, passkeys>>
    BY <1>6 DEF BeginLogin
  <2>2. Others(r) /\ req'[r].at = "verify" /\ req'[r].op = "login"
    BY <1>t, Names, <2>1, EnterFields
  <2>3. RequestAt(r)'
    BY <2>2 DEF RequestAt, SigningIn, Removing
  <2> QED
    BY <2>1, <2>2, <2>3, OthersUntouched
<1>7. ASSUME NEW r \in Requests, NEW k \in Keys, NEW c \in Creds,
             NEW prior \in {NoSession} \cup Sessions, FinishPasskeyAssertion(r, k, c, prior)
      PROVE  RequestsTrue'
  <2>1. UNCHANGED <<password, passkeys>>
    BY <1>7 DEF FinishPasskeyAssertion
  <2>2. CASE UNCHANGED req
    BY <1>r, <2>1, <2>2, RequestUntouched DEF RequestsTrue
  <2>3. CASE LoginFinish(r, c, prior) /\ Have(c)
    <3>1. /\ Others(r) /\ req'[r].at = "prior" /\ req'[r].op = "login" /\ req'[r].subj = c
      BY <1>t, <2>3, LoginFields
    <3>2. RequestAt(r)'
      BY <2>1, <2>3, <3>1, AuthAssumption DEF RequestAt, SigningIn, Removing, Backed, Have
    <3> QED
      BY <2>1, <3>1, <3>2, OthersUntouched
  <2> QED
    BY <1>7, <2>2, <2>3 DEF FinishPasskeyAssertion
<1>8. ASSUME NEW r \in Requests, NEW k \in Keys, NEW c \in Creds, FinishSetupPasskey(r, k, c)
      PROVE  RequestsTrue'
  <2>1. Register(k, c, "admin") /\ UNCHANGED password
    BY <1>t, <1>8, SetupFields
  <2>2. /\ Others(r) /\ req'[r].at = "prior" /\ req'[r].op = "login" /\ req'[r].subj = c
    BY <1>t, <1>8, SetupFields
  <2>3. passkeys'[c] \in Scopes
    BY <2>1, RegisterTyped DEF TypeOK
  <2>4. RequestAt(r)'
    BY <2>2, <2>3, AuthAssumption DEF RequestAt, SigningIn, Removing, Backed, Have
  <2> QED
    BY <1>r, <2>1, <2>2, <2>4, RequestRegister DEF RequestsTrue, Others
<1>8a. ASSUME NEW r \in Requests, NEW prior \in {NoSession} \cup Sessions, SetupChecks(r, prior)
       PROVE  RequestsTrue'
  <2>1. Enter(r, "setupPasskey", "setup", prior, "none", "none") /\ UNCHANGED <<password, passkeys>>
    BY <1>8a DEF SetupChecks
  <2>2. Others(r) /\ req'[r].at = "setup" /\ req'[r].op = "setupPasskey"
    BY <1>t, Names, <2>1, EnterFields
  <2>3. RequestAt(r)'
    BY <2>2 DEF RequestAt, SigningIn, Removing
  <2> QED
    BY <2>1, <2>2, <2>3, OthersUntouched
<1>8b. ASSUME NEW r \in Requests, NEW k \in Keys, RefuseSetup(r, k) PROVE RequestsTrue'
  BY <1>t, <1>8b, DoneFields, RequestIdle, OthersUntouched DEF RefuseSetup
<1>9. ASSUME NEW r \in Requests, Present(r) PROVE RequestsTrue'
  <2>1. UNCHANGED <<password, passkeys>> /\ req[r].at = "present"
    BY <1>9 DEF Present
  <2>2. Others(r)
    BY <1>9, PresentEffect
  <2>3. CASE req'[r] = Idle
    BY <2>1, <2>2, <2>3, RequestIdle, OthersUntouched
  <2>4. CASE SameClaim(r) /\ req'[r].at = AfterPresent(req[r].op) /\ (req'[r].stale <=> req[r].stale)
    <3>1. RequestAt(r)'
      BY <1>r, <2>1, <2>4 DEF RequestAt, SigningIn, Removing, SameClaim, AfterPresent, Accepts,
         AdminAt
    <3> QED
      BY <2>1, <2>2, <3>1, OthersUntouched
  <2> QED
    BY <1>9, <2>3, <2>4, PresentEffect
<1>10. ASSUME NEW r \in Requests, ChangePassword(r) PROVE RequestsTrue'
  <2> DEFINE m == TRUE
  <2>1. Store(r, m) /\ UNCHANGED passkeys
    BY <1>10 DEF ChangePassword
  <2>2. CASE Others(r) /\ req'[r] = Idle /\ UNCHANGED password
    BY <2>1, <2>2, RequestIdle, OthersUntouched
  <2>3. CASE /\ \A q \in Requests \ {r} : Marked(q)
             /\ SameClaim(r) /\ req'[r].at \in {"verify", "sweep"}
    <3>1. RequestAt(r)'
      BY <1>r, <2>3 DEF RequestAt, SigningIn, Removing, SameClaim
    <3> QED
      BY <2>3, <3>1, OthersMarked
  <2> HIDE DEF m
  <2> QED
    BY <2>1, <2>2, <2>3, StoreEffect
<1>11. ASSUME NEW r \in Requests, RemovePassword(r) PROVE RequestsTrue'
  <2>1. (\A q \in Requests \ {r} : Marked(q)) /\ SameClaim(r) /\ req'[r].at = "sweep"
    BY <1>11, RemovePasswordEffect
  <2>2. RequestAt(r)'
    BY <1>r, <2>1 DEF RequestAt, SigningIn, Removing, SameClaim
  <2> QED
    BY <2>1, <2>2, OthersMarked
<1>12. ASSUME NEW r \in Requests, RemovePasskey(r) PROVE RequestsTrue'
  <2>1. CASE Others(r) /\ req'[r] = Idle /\ UNCHANGED passkeys
    <3>1. UNCHANGED password
      BY <1>12 DEF RemovePasskey
    <3> QED
      BY <2>1, <3>1, RequestIdle, OthersUntouched
  <2>2. CASE (\A q \in Requests \ {r} : Marked(q)) /\ SameClaim(r) /\ req'[r].at = "sweep"
    <3>1. RequestAt(r)'
      BY <1>r, <2>2 DEF RequestAt, SigningIn, Removing, SameClaim
    <3> QED
      BY <2>2, <3>1, OthersMarked
  <2> QED
    BY <1>12, <2>1, <2>2, RemovePasskeyEffect
<1>13. ASSUME NEW r \in Requests, EndSessions(r) PROVE RequestsTrue'
  <2>1. CASE Done(r) /\ UNCHANGED <<password, passkeys>>
    BY <1>t, <2>1, DoneFields, RequestIdle, OthersUntouched
  <2>2. CASE Step(r, "subs") /\ UNCHANGED <<password, passkeys>>
    <3>1. Others(r) /\ SameClaim(r) /\ req'[r].at = "subs"
      BY <1>t, Names, <2>2, StepFields
    <3>2. RequestAt(r)'
      BY <1>r, <3>1 DEF RequestAt, SigningIn, Removing, SameClaim
    <3> QED
      BY <2>2, <3>1, <3>2, OthersUntouched
  <2> QED
    BY <1>13, <2>1, <2>2 DEF EndSessions
<1>14. ASSUME NEW r \in Requests, EndSubscriptions(r) PROVE RequestsTrue'
  BY <1>t, <1>14, DoneFields, RequestIdle, OthersUntouched DEF EndSubscriptions
<1>15. ASSUME NEW r \in Requests, NEW s \in Sessions, BeginChangePassword(r, s) PROVE RequestsTrue'
  <2>1. Enter(r, "changePassword", "present", s, "none", "none") /\ UNCHANGED <<password, passkeys>>
    BY <1>15 DEF BeginChangePassword
  <2>2. Others(r) /\ req'[r].at = "present" /\ req'[r].op = "changePassword"
    BY <1>t, Names, <2>1, EnterFields
  <2>3. RequestAt(r)'
    BY <2>2 DEF RequestAt, SigningIn, Removing
  <2> QED
    BY <2>1, <2>2, <2>3, OthersUntouched
<1>16. ASSUME NEW r \in Requests, NEW s \in Sessions, NEW rp \in Rps, BeginAddPasskey(r, s, rp)
       PROVE  RequestsTrue'
  <2>1. Enter(r, "addPasskey", "present", s, rp, "none") /\ UNCHANGED <<password, passkeys>>
    BY <1>16 DEF BeginAddPasskey
  <2>2. Others(r) /\ req'[r].at = "present" /\ req'[r].op = "addPasskey"
    BY <1>t, Names, <2>1, EnterFields
  <2>3. RequestAt(r)'
    BY <2>2 DEF RequestAt, SigningIn, Removing
  <2> QED
    BY <2>1, <2>2, <2>3, OthersUntouched
<1>17. ASSUME NEW r \in Requests, NEW s \in Sessions, NEW rp \in Rps, BeginRemovePassword(r, s, rp)
       PROVE  RequestsTrue'
  <2>1. Enter(r, "removePassword", "present", s, rp, "none") /\ UNCHANGED <<password, passkeys>>
    BY <1>17 DEF BeginRemovePassword
  <2>2. Others(r) /\ req'[r].at = "present" /\ req'[r].op = "removePassword" /\ req'[r].rp = rp
    BY <1>t, Names, <2>1, EnterFields
  <2>3. password = 0 \/ AdminAt(rp) # {}
    BY <1>17 DEF BeginRemovePassword, RemovalAllowed, Configured, Accepts
  <2>4. RequestAt(r)'
    BY <2>1, <2>2, <2>3 DEF RequestAt, SigningIn, Removing, AdminAt
  <2> QED
    BY <2>1, <2>2, <2>4, OthersUntouched
<1>18. ASSUME NEW r \in Requests, NEW s \in Sessions, NEW rp \in Rps, NEW c \in Creds,
              BeginRemovePasskey(r, s, rp, c)
       PROVE  RequestsTrue'
  <2>1. Enter(r, "removePasskey", "present", s, rp, c) /\ UNCHANGED <<password, passkeys>>
    BY <1>18 DEF BeginRemovePasskey
  <2>2. Others(r) /\ req'[r].at = "present" /\ req'[r].op = "removePasskey" /\ req'[r].rp = rp
        /\ req'[r].tgt = c
    BY <1>t, Names, <2>1, EnterFields
  <2>3. passkeys[c] = "gone" \/ Accepts("removePasskey", rp, c) # {}
    BY <1>18 DEF BeginRemovePasskey, RemovalAllowed, Configured, TypeOK, Have
  <2>4. RequestAt(r)'
    BY <2>1, <2>2, <2>3 DEF RequestAt, SigningIn, Removing, AdminAt, Accepts
  <2> QED
    BY <2>1, <2>2, <2>4, OthersUntouched
<1>19. ASSUME NEW r \in Requests, NEW k \in Keys, BeginPasskeyRegistration(r, k) PROVE RequestsTrue'
  BY <1>t, <1>19, DoneFields, RequestIdle, OthersUntouched DEF BeginPasskeyRegistration
<1>20. ASSUME NEW r \in Requests, NEW l \in Links, NEW k \in Keys, NEW c \in Creds,
              NEW prior \in {NoSession} \cup Sessions, FinishEnrolment(r, l, k, c, prior)
       PROVE  RequestsTrue'
  <2>1. Register(k, c, links[l].dev) /\ EnrolFinish(r, l, c, prior) /\ UNCHANGED password
    BY <1>20 DEF FinishEnrolment
  <2>2. /\ Others(r) /\ req'[r].at = "spend" /\ req'[r].op = "login" /\ req'[r].subj = c /\ req'[r].tgt = l
    BY <1>t, <2>1, EnrolFields
  <2>3. passkeys'[c] \in Scopes
    BY <2>1, RegisterTyped DEF TypeOK
  <2>4. RequestAt(r)'
    BY <2>2, <2>3, AuthAssumption DEF RequestAt, SigningIn, Removing, Backed, Have
  <2> QED
    BY <1>r, <2>1, <2>2, <2>4, RequestRegister DEF RequestsTrue, Others
<1>21. ASSUME NEW r \in Requests, SpendLink(r) PROVE RequestsTrue'
  <2>0. CASE Done(r) /\ UNCHANGED <<password, passkeys>>
    BY <1>t, <2>0, DoneFields, RequestIdle, OthersUntouched
  <2>1. ASSUME Step(r, "prior"), req[r].at = "spend", UNCHANGED <<password, passkeys>>
        PROVE  RequestsTrue'
    <3>2. /\ Others(r) /\ SameClaim(r) /\ req'[r].at = "prior" /\ req'[r].subj = req[r].subj
          /\ req'[r].hash = req[r].hash /\ (req'[r].stale <=> req[r].stale)
      BY <1>t, Names, <2>1, StepFields
    <3>3. RequestAt(r)'
      BY <1>r, <2>1, <3>2 DEF RequestAt, SigningIn, Removing, SameClaim, Backed, Have
    <3> QED
      BY <2>1, <3>2, <3>3, OthersUntouched
  <2> QED
    BY <1>21, <2>0, <2>1 DEF SpendLink
<1>22. ASSUME NEW s \in Sessions, NEW k \in Keys, NEW c \in Creds,
              FinishPasskeyRegistration(s, k, c)
       PROVE  RequestsTrue'
  BY <1>r, <1>22, RequestRegister DEF FinishPasskeyRegistration, RequestsTrue
<1>23. ASSUME Restart PROVE RequestsTrue'
  BY <1>23, RequestIdle DEF Restart, RequestsTrue
<1>24. ASSUME Reset PROVE RequestsTrue'
  BY <1>t, <1>24, RacingFields, OthersMarked, AuthAssumption DEF Reset
<1> QED
  BY <1>q, <1>1, <1>2, <1>3, <1>4, <1>5, <1>6, <1>7, <1>8, <1>8a, <1>8b, <1>9, <1>10, <1>11, <1>12, <1>13, <1>14,
     <1>15, <1>16, <1>17, <1>18, <1>19, <1>20, <1>21, <1>22, <1>23, <1>24, Actions DEF vars,
     BeginSetupPasskey, BeginPasskeyAssertion, BeginEnrolment, BeginReauth, FinishReauth,
     RevokeLink, MintLink, EndSession, Subscribe, ExpireKey, ExpireProof, ExpireLink

\* A step that takes request q neither through a write nor out of a sweep.
Calm(q) ==
    /\ req'[q].proof \in {req[q].proof, NoProof}
    /\ req[q].at = "write" => req'[q].at \in {"write", "idle"}
    /\ req[q].at = "sweep" => /\ req'[q].at = "sweep" /\ req'[q].sess = req[q].sess
                              /\ req'[q].op = req[q].op /\ req'[q].tgt = req[q].tgt

\* A step of one request takes no other through a write or out of a sweep.
LEMMA CalmOthers ==
    ASSUME NEW r, NEW q \in Requests \ {r}, Others(r) \/ \A x \in Requests \ {r} : Marked(x)
    PROVE  Calm(q)
  BY DEF Others, Marked, Calm

\* The only steps that take a request through a write or out of a sweep.
LEMMA CalmStep ==
    ASSUME TypeOK, [Next]_vars, NEW q \in Requests
    PROVE  \/ Calm(q) \/ SetPassword(q) \/ ChangePassword(q) \/ RemovePassword(q) \/ RemovePasskey(q)
           \/ Present(q) \/ EndSessions(q) \/ Restart
<1> DEFINE Goal == \/ Calm(q) \/ SetPassword(q) \/ ChangePassword(q) \/ RemovePassword(q) \/ RemovePasskey(q)
                   \/ Present(q) \/ EndSessions(q) \/ Restart
<1>t. ReqTyped
  BY DEF TypeOK, ReqTyped
<1>e. ASSUME NEW r \in Requests, NEW op \in Kinds, NEW a \in Places,
             NEW s \in {NoSession} \cup Sessions,
             NEW rp \in Rps \cup {"none"}, NEW tgt \in {"none"} \cup Creds, Enter(r, op, a, s, rp, tgt)
      PROVE  Calm(q)
  BY <1>t, <1>e, EnterFields, CalmOthers, IdleTyped DEF Calm
<1>d. ASSUME NEW r \in Requests, Done(r), req[r].at # "sweep"
      PROVE  Calm(q)
  BY <1>t, <1>d, DoneFields, CalmOthers, IdleTyped DEF Calm
<1>s. ASSUME NEW r \in Requests, NEW a \in Places, Step(r, a), req[r].at \notin {"sweep", "write"}
      PROVE  Calm(q)
  BY <1>t, <1>s, StepFields, CalmOthers DEF Calm
<1>u. ASSUME UNCHANGED req
      PROVE  Calm(q)
  BY <1>u DEF Calm
<1>l. ASSUME NEW r \in Requests, NEW c \in Creds, NEW prior \in {NoSession} \cup Sessions,
             req[r] = Idle,
             LoginFinish(r, c, prior)
      PROVE  Calm(q)
  BY <1>t, <1>l, LoginFields, CalmOthers, IdleTyped DEF Calm
<1>f. ASSUME NEW r \in Requests, NEW l \in Links, NEW c \in Creds,
             NEW prior \in {NoSession} \cup Sessions,
             req[r] = Idle, EnrolFinish(r, l, c, prior)
      PROVE  Calm(q)
  BY <1>t, <1>f, EnrolFields, CalmOthers, IdleTyped DEF Calm
<1>1. ASSUME NEW r \in Requests, BeginSetPassword(r) PROVE Goal
  BY Names, <1>1, <1>e DEF BeginSetPassword
<1>2. ASSUME NEW r \in Requests, SetPassword(r) PROVE Goal
  BY <1>2, StoreEffect, CalmOthers DEF SetPassword
<1>3. ASSUME NEW r \in Requests, Verify(r) PROVE Goal
  <2>1. req[r].at = "verify"
    BY <1>3 DEF Verify
  <2> QED
    BY <1>3, <2>1, VerifyEffect, CalmOthers, IdleTyped DEF Calm
<1>4. ASSUME NEW r \in Requests, DropPrior(r) PROVE Goal
  BY Names, <1>4, <1>s DEF DropPrior
<1>5. ASSUME NEW r \in Requests, CreateSession(r) PROVE Goal
  BY <1>5, <1>d DEF CreateSession
<1>6. ASSUME NEW r \in Requests, NEW prior \in {NoSession} \cup Sessions, BeginLogin(r, prior)
      PROVE  Goal
  BY Names, <1>6, <1>e DEF BeginLogin
<1>7. ASSUME NEW r \in Requests, NEW k \in Keys, NEW c \in Creds,
             NEW prior \in {NoSession} \cup Sessions, FinishPasskeyAssertion(r, k, c, prior)
      PROVE  Goal
  BY <1>7, <1>l, <1>u DEF FinishPasskeyAssertion
<1>8. ASSUME NEW r \in Requests, NEW k \in Keys, NEW c \in Creds, FinishSetupPasskey(r, k, c)
      PROVE  Goal
  BY <1>t, <1>8, SetupFields, CalmOthers DEF Calm
<1>8a. ASSUME NEW r \in Requests, NEW prior \in {NoSession} \cup Sessions, SetupChecks(r, prior)
       PROVE  Goal
  BY Names, <1>8a, <1>e DEF SetupChecks
<1>8b. ASSUME NEW r \in Requests, NEW k \in Keys, RefuseSetup(r, k) PROVE Goal
  BY <1>8b, <1>d DEF RefuseSetup
<1>9. ASSUME NEW r \in Requests, Present(r) PROVE Goal
  BY <1>9, PresentEffect, CalmOthers
<1>10. ASSUME NEW r \in Requests, ChangePassword(r) PROVE Goal
  BY <1>10, StoreEffect, CalmOthers DEF ChangePassword
<1>11. ASSUME NEW r \in Requests, RemovePassword(r) PROVE Goal
  BY <1>11, RemovePasswordEffect, CalmOthers
<1>12. ASSUME NEW r \in Requests, RemovePasskey(r) PROVE Goal
  BY <1>12, RemovePasskeyEffect, CalmOthers
<1>13. ASSUME NEW r \in Requests, EndSessions(r) PROVE Goal
  <2>1. Step(r, "subs") \/ Done(r)
    BY <1>13 DEF EndSessions
  <2>2. Others(r)
    BY <1>t, Names, <2>1, StepFields, DoneFields
  <2> QED
    BY <1>13, <2>2, CalmOthers
<1>14. ASSUME NEW r \in Requests, EndSubscriptions(r) PROVE Goal
  BY <1>14, <1>d DEF EndSubscriptions
<1>15. ASSUME NEW r \in Requests, NEW s \in Sessions, BeginChangePassword(r, s) PROVE Goal
  BY Names, <1>15, <1>e DEF BeginChangePassword
<1>16. ASSUME NEW r \in Requests, NEW s \in Sessions, NEW rp \in Rps, BeginAddPasskey(r, s, rp)
       PROVE  Goal
  BY Names, <1>16, <1>e DEF BeginAddPasskey
<1>17. ASSUME NEW r \in Requests, NEW s \in Sessions, NEW rp \in Rps, BeginRemovePassword(r, s, rp)
       PROVE  Goal
  BY Names, <1>17, <1>e DEF BeginRemovePassword
<1>18. ASSUME NEW r \in Requests, NEW s \in Sessions, NEW rp \in Rps, NEW c \in Creds,
              BeginRemovePasskey(r, s, rp, c)
       PROVE  Goal
  BY Names, <1>18, <1>e DEF BeginRemovePasskey
<1>19. ASSUME NEW r \in Requests, NEW k \in Keys, BeginPasskeyRegistration(r, k) PROVE Goal
  BY <1>19, <1>d DEF BeginPasskeyRegistration
<1>20. ASSUME NEW r \in Requests, NEW l \in Links, NEW k \in Keys, NEW c \in Creds,
              NEW prior \in {NoSession} \cup Sessions, FinishEnrolment(r, l, k, c, prior)
       PROVE  Goal
  BY <1>20, <1>f DEF FinishEnrolment
<1>21. ASSUME NEW r \in Requests, SpendLink(r) PROVE Goal
  BY Names, <1>21, <1>s, <1>d DEF SpendLink
<1>22. ASSUME Reset PROVE Goal
  BY <1>t, <1>22, RacingFields, CalmOthers, AuthAssumption DEF Reset
<1>r. ASSUME Restart PROVE Goal
  BY <1>r
<1>g. ASSUME UNCHANGED req PROVE Goal
  BY <1>g, <1>u
<1> HIDE DEF Goal
<1>z. Goal
  BY <1>g, <1>r, <1>1, <1>2, <1>3, <1>4, <1>5, <1>6, <1>7, <1>8, <1>8a, <1>8b, <1>9, <1>10, <1>11, <1>12, <1>13,
     <1>14, <1>15, <1>16, <1>17, <1>18, <1>19, <1>20, <1>21, <1>22, Actions DEF vars,
     BeginSetupPasskey, BeginPasskeyAssertion, BeginEnrolment, BeginReauth,
     FinishPasskeyRegistration, FinishReauth, RevokeLink, MintLink, EndSession, Subscribe,
     ExpireKey, ExpireProof, ExpireLink
<1> QED
  BY <1>z DEF Goal

-----------------------------------------------------------------------------
(* Sessions                                                                *)

SweepKept(q) == req[q].at = "sweep" => /\ req'[q].at = "sweep" /\ req'[q].sess = req[q].sess
                                       /\ req'[q].op = req[q].op /\ req'[q].tgt = req[q].tgt
StillBacked(s) == Backed(sessions[s].by, sessions[s].hash) => Backed(sessions[s].by, sessions[s].hash)'
SameSession(s) == /\ sessions'[s].by = sessions[s].by /\ sessions'[s].hash = sessions[s].hash
                  /\ (sessions[s].excused => sessions'[s].excused)

\* No request but one in EndSessions, and none through a restart, leaves a sweep.
LEMMA SweepsKept ==
    ASSUME TypeOK, [Next]_vars, NEW q \in Requests, ~EndSessions(q), ~Restart
    PROVE  SweepKept(q)
  BY CalmStep DEF Calm, SweepKept, SetPassword, ChangePassword, RemovePassword, RemovePasskey,
     Present

\* A session whose credential is still there, or which has ended, stays backed.
LEMMA SessionKept ==
    ASSUME NEW s \in Sessions, SessionAt(s),
           (SameSession(s) /\ StillBacked(s)) \/ sessions'[s].by = "gone",
           reset' = reset, \A q \in Requests : SweepKept(q)
    PROVE  SessionAt(s)'
  BY DEF SessionAt, SameSession, StillBacked, SweepKept, Swept, Live

\* A session stays backed when no credential is written.
LEMMA SessionUntouched ==
    ASSUME NEW s \in Sessions, SessionAt(s), sessions'[s] = sessions[s] \/ sessions'[s].by = "gone",
           UNCHANGED <<password, passkeys, reset>>, \A q \in Requests : SweepKept(q)
    PROVE  SessionAt(s)'
  BY SessionKept DEF SameSession, StillBacked, Backed, Have

\* Every step keeps each session backed, or leaves it to a sweep or the reset.
LEMMA SessionStep ==
    ASSUME TypeOK, RequestsTrue, LinksTrue, [Next]_vars, NEW s \in Sessions, SessionAt(s)
    PROVE  SessionAt(s)'
<1>t. sessions[s] \in SessionRows /\ ReqTyped /\ passkeys \in [Creds -> Scopes \cup {"unused", "gone"}]
  BY DEF TypeOK, ReqTyped
<1>1. ASSUME NEW r \in Requests, SetPassword(r) PROVE SessionAt(s)'
  <2>1. UNCHANGED <<sessions, passkeys, reset>> /\ req[r].at = "write" /\ (password = 0 \/ UNCHANGED password)
    BY <1>1 DEF SetPassword, Store
  <2>2. \A q \in Requests : SweepKept(q)
    <3>1. Others(r) \/ \A q \in Requests \ {r} : Marked(q)
      BY <1>1, StoreEffect DEF SetPassword
    <3> QED
      BY <2>1, <3>1 DEF SweepKept, Others, Marked
  <2> QED
    BY <2>1, <2>2, SessionKept DEF SameSession, StillBacked, Backed, Have
<1>2. ASSUME NEW r \in Requests, ChangePassword(r) \/ RemovePassword(r) PROVE SessionAt(s)'
  <2>1. /\ UNCHANGED <<sessions, passkeys, reset>> /\ req[r].at = "write"
        /\ req[r].op \in {"changePassword", "removePassword"}
    BY <1>2 DEF ChangePassword, RemovePassword
  <2>2. \/ UNCHANGED password /\ Others(r)
        \/ /\ \A q \in Requests \ {r} : Marked(q)
           /\ SameClaim(r) /\ req'[r].at = "sweep"
    BY <1>2, <2>1, StoreEffect, RemovePasswordEffect DEF ChangePassword
  <2>3. \A q \in Requests : SweepKept(q)
    BY <2>1, <2>2 DEF SweepKept, Others, Marked
  <2>4. CASE UNCHANGED password
    BY <2>1, <2>3, <2>4, SessionUntouched
  <2>5. CASE sessions[s].by # "password"
    BY <2>1, <2>3, <2>5, SessionKept DEF SameSession, StillBacked, Backed, Have
  <2>6. CASE sessions[s].by = "password" /\ SameClaim(r) /\ req'[r].at = "sweep"
    BY <2>1, <2>6 DEF SessionAt, Swept, SameClaim
  <2> QED
    BY <2>2, <2>4, <2>5, <2>6
<1>3. ASSUME NEW r \in Requests, RemovePasskey(r) PROVE SessionAt(s)'
  <2>1. /\ UNCHANGED <<sessions, password, reset>> /\ req[r].at = "write" /\ req[r].op = "removePasskey"
    BY <1>3 DEF RemovePasskey
  <2>2. \/ UNCHANGED passkeys /\ Others(r)
        \/ /\ \A q \in Requests \ {r} : Marked(q)
           /\ SameClaim(r) /\ req'[r].at = "sweep" /\ passkeys' = [passkeys EXCEPT ![req[r].tgt] = "gone"]
    BY <1>3, RemovePasskeyEffect
  <2>3. \A q \in Requests : SweepKept(q)
    BY <2>1, <2>2 DEF SweepKept, Others, Marked
  <2>4. CASE UNCHANGED passkeys
    BY <2>1, <2>3, <2>4, SessionUntouched
  <2>5. CASE sessions[s].by # req[r].tgt /\ passkeys' = [passkeys EXCEPT ![req[r].tgt] = "gone"]
    BY <1>t, <2>1, <2>3, <2>5, SessionKept DEF SameSession, StillBacked, Backed, Have
  <2>6. CASE sessions[s].by = req[r].tgt /\ SameClaim(r) /\ req'[r].at = "sweep"
    BY <2>1, <2>6 DEF SessionAt, Swept, SameClaim
  <2> QED
    BY <2>2, <2>4, <2>5, <2>6
<1>4. ASSUME NEW r \in Requests, DropPrior(r) PROVE SessionAt(s)'
  <2>1. UNCHANGED <<password, passkeys, reset>> /\ (sessions'[s] = sessions[s] \/ sessions'[s].by = "gone")
    BY <1>4 DEF DropPrior, TypeOK, SessionRows
  <2>2. \A q \in Requests : SweepKept(q)
    BY <1>4, <1>t, StepFields DEF DropPrior, SweepKept, Others, Places
  <2> QED
    BY <2>1, <2>2, SessionUntouched
<1>5. ASSUME NEW r \in Requests, CreateSession(r) PROVE SessionAt(s)'
  <2>1. /\ UNCHANGED <<password, passkeys, reset>> /\ req[r].at = "create"
        /\ req[r].op # "addPasskey" /\ Done(r)
        /\ \/ sessions'[s] = sessions[s]
           \/ sessions'[s] = [by |-> req[r].subj, hash |-> req[r].hash, excused |-> req[r].stale]
    BY <1>5 DEF CreateSession, TypeOK
  <2>2. \A q \in Requests : SweepKept(q)
    BY <1>t, <2>1, DoneFields DEF SweepKept, Others
  <2>3. CASE sessions'[s] = sessions[s]
    BY <2>1, <2>2, <2>3, SessionUntouched
  <2>4. CASE sessions'[s] = [by |-> req[r].subj, hash |-> req[r].hash, excused |-> req[r].stale]
    BY <2>1, <2>4 DEF RequestsTrue, RequestAt, SigningIn, SessionAt, Backed, Have
  <2> QED
    BY <2>1, <2>3, <2>4
<1>6. ASSUME NEW r \in Requests, EndSessions(r) PROVE SessionAt(s)'
  <2>1. UNCHANGED <<password, passkeys, reset>> /\ req[r].at = "sweep" /\ (Step(r, "subs") \/ Done(r))
    BY <1>6 DEF EndSessions
  <2>2. Others(r)
    BY <1>t, <2>1, StepFields, DoneFields DEF Places
  <2>3. /\ SameSession(s) \/ sessions'[s].by = "gone"
        /\ Swept(s, r) /\ Live(s) => sessions'[s].excused \/ sessions'[s].by = "gone"
    <3>1. s # NoSession
      BY DEF Sessions, NoSession
    <3>2. /\ s \in EndedBy(r) <=> Live(s) /\ s # req[r].sess /\
                  sessions[s].by = IF req[r].op = "removePasskey" THEN req[r].tgt ELSE "password"
      BY DEF EndedBy
    <3>3. /\ sessions'[s].hash = sessions[s].hash
          /\ \/ /\ sessions'[s].by = IF s \in EndedBy(r) THEN "gone" ELSE sessions[s].by
                /\ sessions'[s].excused <=> (sessions[s].excused \/ s = req[r].sess)
             \/ /\ sessions'[s].by = sessions[s].by
                /\ sessions'[s].excused <=> (sessions[s].excused \/ s = req[r].sess \/ s \in EndedBy(r))
      <4> DEFINE own == IF req[r].sess = NoSession THEN {} ELSE {req[r].sess}
      <4>1. s \in own <=> s = req[r].sess
        BY <3>1
      <4>2. \/ sessions' = [x \in Sessions |-> [sessions[x] EXCEPT
                  !.by = IF x \in EndedBy(r) THEN "gone" ELSE @, !.excused = @ \/ x \in own]]
            \/ sessions' = [x \in Sessions |-> [sessions[x] EXCEPT !.excused = @ \/ x \in own \cup EndedBy(r)]]
        BY <1>6 DEF EndSessions
      <4> HIDE DEF own
      <4>3. \/ sessions'[s] = [sessions[s] EXCEPT
                  !.by = IF s \in EndedBy(r) THEN "gone" ELSE @, !.excused = @ \/ s \in own]
            \/ sessions'[s] = [sessions[s] EXCEPT !.excused = @ \/ s \in own \cup EndedBy(r)]
        BY <4>2
      <4> QED
        BY <1>t, <4>1, <4>3 DEF SessionRows
    <3> QED
      BY <1>t, <3>2, <3>3 DEF Swept, SameSession, SessionRows
  <2> QED
    BY <2>1, <2>2, <2>3 DEF SessionAt, SameSession, Swept, Live, Backed, Have, Others
<1>7. ASSUME NEW x \in Sessions, EndSession(x) PROVE SessionAt(s)'
  <2>1. UNCHANGED <<password, passkeys, reset, req>> /\ (sessions'[s] = sessions[s] \/ sessions'[s].by = "gone")
    BY <1>7 DEF EndSession, TypeOK, SessionRows
  <2> QED
    BY <2>1, SessionUntouched DEF SweepKept
<1>8. ASSUME Restart PROVE SessionAt(s)'
  <2> DEFINE b == \E r \in Requests : req[r].at = "sweep" /\ s \in EndedBy(r) \cup {req[r].sess}
  <2>1. /\ UNCHANGED <<password, passkeys, reset>> /\ sessions'[s] = [sessions[s] EXCEPT !.excused = @ \/ b]
    BY <1>8 DEF Restart
  <2>2. (\E r \in Requests : Swept(s, r)) /\ Live(s) => b
    BY DEF Swept, EndedBy
  <2> HIDE DEF b
  <2>3. SameSession(s) /\ (b => sessions'[s].excused)
    BY <1>t, <2>1 DEF SameSession, SessionRows
  <2> QED
    BY <2>1, <2>2, <2>3 DEF SessionAt, SameSession, Live, Backed, Have
<1>9. ASSUME Reset PROVE SessionAt(s)'
  <2>1. reset' \in {"password", "passkeys"} \/ ~Live(s)'
    BY <1>9, <1>t DEF Reset, Live, SessionRows
  <2> QED
    BY <2>1 DEF SessionAt
<1>10. ASSUME NEW k \in Keys, NEW c \in Creds, NEW scope, Register(k, c, scope),
              UNCHANGED <<sessions, password, reset>>,
              \A q \in Requests : SweepKept(q)
       PROVE  SessionAt(s)'
  <2>1. passkeys' = [passkeys EXCEPT ![c] = scope] /\ ~Have(c)
    BY <1>10, RegisterTyped
  <2> QED
    BY <1>t, <1>10, <2>1, SessionKept DEF SameSession, StillBacked, Backed, Have
<1>11. ASSUME NEW r \in Requests, NEW l \in Links, NEW k \in Keys, NEW c \in Creds,
              NEW prior \in {NoSession} \cup Sessions, FinishEnrolment(r, l, k, c, prior) PROVE SessionAt(s)'
  <2>1. /\ Register(k, c, links[l].dev) /\ UNCHANGED <<sessions, password, reset>> /\ req[r] = Idle
        /\ EnrolFinish(r, l, c, prior)
    BY <1>11 DEF FinishEnrolment
  <2>2. \A q \in Requests : SweepKept(q)
    BY <1>t, <2>1, EnrolFields, IdleTyped DEF SweepKept, Others
  <2> QED
    BY <1>10, <2>1, <2>2
<1>12. ASSUME NEW r \in Requests, NEW k \in Keys, NEW c \in Creds, FinishSetupPasskey(r, k, c)
       PROVE  SessionAt(s)'
  <2>1. Register(k, c, "admin") /\ UNCHANGED <<sessions, password, reset>>
    BY <1>t, <1>12, SetupFields
  <2>2. \A q \in Requests : SweepKept(q)
    BY <1>t, <1>12, SetupFields DEF SweepKept, Others
  <2> QED
    BY <1>10, <2>1, <2>2
<1>13. ASSUME NEW x \in Sessions, NEW k \in Keys, NEW c \in Creds,
              FinishPasskeyRegistration(x, k, c)
       PROVE SessionAt(s)'
  BY <1>10, <1>13 DEF FinishPasskeyRegistration, SweepKept
<1>14. ASSUME UNCHANGED <<sessions, password, passkeys, reset>>, ~Restart,
              ~\E q \in Requests : EndSessions(q)
       PROVE  SessionAt(s)'
  BY <1>14, SessionUntouched, SweepsKept
<1> QED
  BY <1>1, <1>2, <1>3, <1>4, <1>5, <1>6, <1>7, <1>8, <1>9, <1>11, <1>12, <1>13, <1>14,
     SessionWriters, PasswordWriters, PasskeyWriters, ResetWriters

-----------------------------------------------------------------------------
(* Links and proofs                                                        *)

LinkAt(l) == /\ links[l].state = "live" => links[l].dev \in Devices
             /\ links[l].state \in {"unused", "live"} => signIns[l] = 0
             /\ signIns[l] <= 1
ScopedKey(k) == pend[k].kind = "register" /\ pend[k].link => pend[k].scope \in Devices

\* Every step keeps a link's count of sign-ins in line with its state.
LEMMA LinkStep ==
    ASSUME TypeOK, RequestsTrue, [Next]_vars, NEW l \in Links, LinkAt(l)
    PROVE  LinkAt(l)'
<1>t. links \in [Links -> LinkRows] /\ signIns \in [Links -> Nat]
  BY DEF TypeOK, LinkRows
<1> USE DEF LinkAt
<1>1. ASSUME NEW s \in Sessions, NEW x \in Links, NEW d \in Devices, MintLink(s, x, d)
      PROVE  LinkAt(l)'
  BY <1>t, <1>1 DEF MintLink, Mint, LinkRows
<1>2. ASSUME NEW s \in Sessions, NEW x \in Links, RevokeLink(s, x)
      PROVE  LinkAt(l)'
  BY <1>t, <1>2 DEF RevokeLink, Revoke, LinkRows
<1>3. ASSUME NEW r \in Requests, SpendLink(r)
      PROVE  LinkAt(l)'
  <2>1. \/ UNCHANGED <<links, signIns>>
        \/ /\ links[req[r].tgt].state = "live" /\ links' = [links EXCEPT ![req[r].tgt].state = "spent"]
           /\ signIns' = [signIns EXCEPT ![req[r].tgt] = @ + 1]
    BY <1>3 DEF SpendLink, StillLive
  <2> QED
    BY <1>t, <2>1 DEF LinkRows
<1>4. ASSUME NEW x \in Links, ExpireLink(x)
      PROVE  LinkAt(l)'
  BY <1>t, <1>4 DEF ExpireLink, LinkRows
<1>5. ASSUME Restart
      PROVE  LinkAt(l)'
  BY <1>t, <1>5 DEF Restart, LinkRows
<1> QED
  BY <1>t, <1>1, <1>2, <1>3, <1>4, <1>5, LinkWriters

\* A challenge begun from a link keeps the link's scope.
LEMMA ScopedKeyStep ==
    ASSUME TypeOK, LinksTrue, [Next]_vars, NEW k \in Keys
    PROVE  ScopedKey(k)'
<1>t. DOMAIN pend = Keys /\ ScopedKey(k)
  BY DEF TypeOK, LinksTrue, ScopedKey
<1> USE DEF ScopedKey
<1>0. ASSUME NEW x \in Keys, pend' = [pend EXCEPT ![x] = [kind |-> "gone"]]
      PROVE  ScopedKey(k)'
  BY <1>t, <1>0
<1>1. ASSUME NEW s \in Sessions, NEW x \in Keys, NEW rp \in Rps, NEW op \in ReauthOps,
             NEW c \in Creds,
             BeginReauth(s, x, rp, op, c)
      PROVE  ScopedKey(k)'
  BY <1>t, <1>1 DEF BeginReauth, Asks, PendingReauth
<1>2. ASSUME NEW x \in Keys, NEW rp, BeginPasskeyAssertion(x, rp)
      PROVE  ScopedKey(k)'
  BY <1>t, <1>2 DEF BeginPasskeyAssertion
<1>3. ASSUME NEW x \in Keys, NEW rp, BeginSetupPasskey(x, rp)
      PROVE  ScopedKey(k)'
  BY <1>t, <1>3 DEF BeginSetupPasskey, Challenge, PendingCeremony
<1>4. ASSUME NEW x \in Keys, NEW r \in Requests, BeginPasskeyRegistration(r, x)
      PROVE  ScopedKey(k)'
  BY <1>t, <1>4 DEF BeginPasskeyRegistration, Challenge, PendingCeremony
<1>5. ASSUME NEW x \in Keys, NEW rp, NEW l \in Links, BeginEnrolment(l, x, rp)
      PROVE  ScopedKey(k)'
  BY <1>t, <1>5 DEF BeginEnrolment, LinksTrue, Challenge, PendingCeremony
<1>6. ASSUME NEW x \in Keys,
             \/ \E s \in Sessions, c \in Creds : FinishPasskeyRegistration(s, x, c)
             \/ \E s \in Sessions, c \in Creds, p \in Proofs : FinishReauth(s, x, c, p)
             \/ \E r \in Requests, c \in Creds, prior \in {NoSession} \cup Sessions :
                FinishPasskeyAssertion(r, x, c, prior)
             \/ \E r \in Requests, c \in Creds : FinishSetupPasskey(r, x, c)
             \/ \E r \in Requests, l \in Links, c \in Creds, prior \in {NoSession} \cup Sessions :
                FinishEnrolment(r, l, x, c, prior)
             \/ ExpireKey(x)
      PROVE  ScopedKey(k)'
  BY <1>6, <1>0 DEF FinishPasskeyRegistration, FinishReauth, FinishPasskeyAssertion,
     FinishSetupPasskey,
                    FinishEnrolment, ExpireKey, Register
<1>6a. ASSUME NEW x \in Keys, NEW r \in Requests, RefuseSetup(r, x)
       PROVE  ScopedKey(k)'
  <2>1. CASE UNCHANGED pend
    BY <1>t, <2>1
  <2>2. CASE pend' = [pend EXCEPT ![x] = [kind |-> "gone"]]
    BY <1>0, <2>2
  <2> QED
    BY <1>6a, <2>1, <2>2 DEF RefuseSetup
<1>7. ASSUME Restart
      PROVE  ScopedKey(k)'
  BY <1>t, <1>7 DEF Restart, NoKey
<1>8. ASSUME UNCHANGED pend
      PROVE  ScopedKey(k)'
  BY <1>t, <1>8
<1> QED
  BY <1>1, <1>2, <1>3, <1>4, <1>5, <1>6, <1>6a, <1>7, <1>8, PendWriters

ScopedCreds == \A c \in fromLink : passkeys[c] \in Devices \cup {"gone"}

\* A credential registered by a link keeps the link's scope.
LEMMA ScopedCredStep ==
    ASSUME TypeOK, LinksTrue, [Next]_vars
    PROVE  ScopedCreds'
<1>t. /\ passkeys \in [Creds -> Scopes \cup {"unused", "gone"}] /\ fromLink \subseteq Creds
      /\ ScopedCreds /\ \A k \in Keys : ScopedKey(k)
  BY DEF TypeOK, LinksTrue, ScopedKey, ScopedCreds
<1>0. ASSUME NEW k \in Keys, NEW c \in Creds, NEW scope, Register(k, c, scope)
      PROVE  ScopedCreds'
  BY <1>t, <1>0, AuthAssumption DEF Register, Takes, ScopedCreds, ScopedKey
<1>1. ASSUME NEW r \in Requests, RemovePasskey(r)
      PROVE  ScopedCreds'
  BY <1>t, <1>1 DEF RemovePasskey, ScopedCreds
<1>2. ASSUME Reset
      PROVE  ScopedCreds'
  BY <1>t, <1>2 DEF Reset, ScopedCreds
<1>3. ASSUME UNCHANGED <<passkeys, fromLink>>
      PROVE  ScopedCreds'
  BY <1>t, <1>3 DEF ScopedCreds
<1> QED
  BY <1>0, <1>1, <1>2, <1>3, PasskeyWriters DEF FinishPasskeyRegistration, FinishSetupPasskey,
     FinishEnrolment

\* Every step keeps LinksTrue.
LEMMA LinksStep ==
    ASSUME TypeOK, RequestsTrue, LinksTrue, [Next]_vars
    PROVE  LinksTrue'
  BY LinkStep, ScopedKeyStep, ScopedCredStep DEF LinksTrue, LinkAt, ScopedKey, ScopedCreds

\* A spent proof is never usable again.
LEMMA ProofStep ==
    ASSUME TypeOK, ProofsTrue, [Next]_vars
    PROVE  ProofsTrue'
<1>t. proofs \in [Proofs -> ProofRows] /\ spent \subseteq Proofs
  BY DEF TypeOK, ProofRows
<1> USE DEF ProofsTrue
<1>1. ASSUME NEW r \in Requests, Present(r)
      PROVE  ProofsTrue'
  <2>1. \/ UNCHANGED <<proofs, spent>>
        \/ \E p \in Proofs : Consume(p) /\ (spent' = spent \cup {p} \/ UNCHANGED spent)
    BY <1>1 DEF Present
  <2> QED
    BY <1>t, <2>1 DEF Consume, ProofRows
<1>2. ASSUME NEW s \in Sessions, NEW k \in Keys, NEW c \in Creds, NEW p \in Proofs,
             FinishReauth(s, k, c, p)
      PROVE  ProofsTrue'
  BY <1>t, <1>2 DEF FinishReauth, ProofRows
<1>3. ASSUME NEW p \in Proofs, ExpireProof(p)
      PROVE  ProofsTrue'
  BY <1>t, <1>3 DEF ExpireProof, ProofRows
<1>4. ASSUME Restart
      PROVE  ProofsTrue'
  BY <1>t, <1>4 DEF Restart, ProofRows
<1> QED
  BY <1>t, <1>1, <1>2, <1>3, <1>4, ProofWriters

-----------------------------------------------------------------------------
AuthInv == TypeOK /\ RequestsTrue /\ SessionsTrue /\ LinksTrue /\ ProofsTrue

\* The invariant holds at start-up.
LEMMA InitInv == Init => AuthInv
<1> SUFFICES ASSUME Init PROVE AuthInv
  OBVIOUS
<1>1. TypeOK
  <2>1. /\ password \in 0..MaxPasswords /\ nextPw \in 1..MaxPasswords + 1
        /\ passkeys \in [Creds -> Scopes \cup {"unused", "gone"}]
    BY AuthAssumption DEF Init, Scopes
  <2>2. sessions \in [Sessions -> SessionRows]
    <3>1. Absent \in SessionRows /\ [by |-> "password", hash |-> 1, excused |-> FALSE] \in SessionRows
      BY AuthAssumption DEF SessionRows, Absent
    <3> QED
      BY <3>1 DEF Init
  <2>3. req \in [Requests -> RequestStates]
    BY IdleTyped DEF Init
  <2>4. PendOK
    BY DEF Init, PendOK, KeyAt, NoKey
  <2>5. /\ proofs \in [Proofs -> ProofRows] /\ links \in [Links -> LinkRows] /\ signIns \in [Links -> Nat]
    BY DEF Init, ProofRows, LinkRows
  <2>6. /\ subs \subseteq [by : Devices, scope : Devices \cup {"admin"}] /\ mix \in Mixes /\ reset = "no"
        /\ spent \subseteq Proofs /\ fromLink \subseteq Creds
    BY DEF Init
  <2> QED
    BY <2>1, <2>2, <2>3, <2>4, <2>5, <2>6 DEF TypeOK, PendOK, KeyAt, ProofRows, LinkRows
<1>2. RequestsTrue
  BY DEF Init, RequestsTrue, RequestAt, SigningIn, Removing, Idle
<1>3. SessionsTrue
  BY DEF Init, SessionsTrue, SessionAt, Live, Backed, Absent
<1>4. LinksTrue /\ ProofsTrue
  BY DEF Init, LinksTrue, ProofsTrue, NoKey
<1> QED
  BY <1>1, <1>2, <1>3, <1>4 DEF AuthInv

\* Every step keeps the invariant.
LEMMA InvStep == AuthInv /\ [Next]_vars => AuthInv'
  BY TypeStep, RequestStep, SessionStep, LinksStep, ProofStep DEF AuthInv, SessionsTrue

\* The tables stay what they are taken for, together: the type of a session
\* rests on what its request knows, that on the table of links, and so on.
THEOREM Inductive == Spec => []AuthInv
  BY InitInv, InvStep, PTL DEF Spec

\* A live session always rests on a credential that still exists, whatever
\* removals, changes and sign-ins interleave, but for the exceptions named in
\* SessionBacked (the sweep of EndAuthSessions, and a reset under way).
THEOREM SessionsBacked == Spec => []SessionBacked
<1>1. AuthInv => SessionBacked
  BY DEF AuthInv, SessionsTrue, SessionAt, SessionBacked, Backed, Swept
<1> QED
  BY <1>1, Inductive, PTL

\* An enrolment link signs in at most once and its challenge never becomes an
\* admin credential, however Check, Register and Spend interleave.
THEOREM LinksBounded == Spec => []LinkBounded
<1>1. AuthInv => LinkBounded
  BY AuthAssumption DEF AuthInv, LinksTrue, LinkBounded, LinkYieldsScoped, LinkSignsInOnce
<1> QED
  BY <1>1, Inductive, PTL

\* A removal that nobody overtook leaves another way in at its address.
LEMMA WayInStep ==
    ASSUME AuthInv, [Next]_vars, NEW r \in Requests, req[r].at = "write", req'[r].at = "sweep", ~req[r].stale,
           req[r].op \in {"removePassword", "removePasskey"}, CanSignInAt(req[r].rp)
    PROVE  CanSignInAt(req[r].rp)'
<1>t. TypeOK /\ RequestAt(r) /\ Removing(r)
  BY DEF AuthInv, RequestsTrue, Removing
<1>0. req'[r].rp = req[r].rp /\ (RemovePassword(r) \/ RemovePasskey(r))
  <2>1. RemovePassword(r) \/ RemovePasskey(r)
    <3>1. ~Restart
      BY IdleTyped DEF Restart
    <3> QED
      BY <1>t, <3>1, CalmStep DEF Calm, SetPassword, ChangePassword, Present, EndSessions
  <2> QED
    BY <1>t, <2>1, RemovePasswordEffect, RemovePasskeyEffect, IdleTyped DEF SameClaim
<1>1. CASE RemovePassword(r)
  BY <1>t, <1>0, <1>1 DEF RemovePassword, RequestAt, CanSignInAt, AdminAt
<1>2. CASE RemovePasskey(r)
  <2>1. /\ passkeys' = [passkeys EXCEPT ![req[r].tgt] = "gone"] /\ Have(req[r].tgt) /\ UNCHANGED password
        /\ req[r].op = "removePasskey"
    BY <1>t, <1>2, RemovePasskeyEffect, IdleTyped DEF RemovePasskey
  <2>2. Accepts("removePasskey", req[r].rp, req[r].tgt) # {}
    BY <1>t, <2>1, AuthAssumption DEF RequestAt, Have, Scopes
  <2> QED
    BY <1>t, <1>0, <2>1, <2>2 DEF Accepts, CanSignInAt, AdminAt, TypeOK
<1> QED
  BY <1>0, <1>1, <1>2

\* A removal that nothing overtook leaves a way in at its origin: what
\* RemovePassword and RemovePasskey refused is still refused at the write.
THEOREM RemovalsKeepWayIn == Spec => WayInKept
<1>1. AuthInv /\ [Next]_vars => [\A r \in Requests :
        req[r].at = "write" /\ req'[r].at = "sweep" /\ ~req[r].stale
          /\ req[r].op \in {"removePassword", "removePasskey"} /\ CanSignInAt(req[r].rp)
        => CanSignInAt(req[r].rp)']_vars
  BY WayInStep
<1> QED
  BY <1>1, Inductive, PTL DEF Spec, WayInKept

\* A request accepts a proof that is unspent and was minted for it.
LEMMA ProofOnceStep ==
    ASSUME AuthInv, [Next]_vars, NEW r \in Requests, req'[r].proof # req[r].proof, req'[r].proof # NoProof
    PROVE  LET p == req'[r].proof IN
           p \notin spent /\ proofs[p].op = req[r].op /\ proofs[p].tgt = req[r].tgt
             /\ proofs[p].sess = req[r].sess
<1>t. TypeOK /\ ProofsTrue
  BY DEF AuthInv
<1>1. Present(r)
  <2>1. ~Restart
    BY IdleTyped DEF Restart
  <2>2. ~EndSessions(r)
    <3>1. SUFFICES ASSUME EndSessions(r) PROVE FALSE
      OBVIOUS
    <3>2. ReqTyped /\ (Step(r, "subs") \/ Done(r)) /\ "subs" \in Places
      BY <1>t, <3>1 DEF EndSessions, TypeOK, ReqTyped, Places
    <3> QED
      BY <3>2, StepFields, DoneFields, IdleTyped
  <2>3. ~SetPassword(r) /\ ~ChangePassword(r)
    BY <1>t, StoreEffect, IdleTyped DEF SetPassword, ChangePassword
  <2>4. ~RemovePassword(r) /\ ~RemovePasskey(r)
    BY <1>t, RemovePasswordEffect, RemovePasskeyEffect, IdleTyped
  <2> QED
    BY <1>t, <2>1, <2>2, <2>3, <2>4, CalmStep DEF Calm
<1>2. ClaimsMatch(req'[r].proof, r) /\ proofs[req'[r].proof].subj \in Creds
  BY <1>t, <1>1, PresentEffect, IdleTyped
<1> QED
  BY <1>t, <1>2, AuthAssumption DEF ClaimsMatch, ProofsTrue

\* RequirePresent lets a proof authorise one request, of the operation, target
\* and session it was minted for.
THEOREM ProofsSpentOnce == Spec => ProofSpentOnce
<1>1. AuthInv /\ [Next]_vars => [\A r \in Requests :
        req'[r].proof # req[r].proof /\ req'[r].proof # NoProof
        => LET p == req'[r].proof IN
           p \notin spent /\ proofs[p].op = req[r].op /\ proofs[p].tgt = req[r].tgt
             /\ proofs[p].sess = req[r].sess]_vars
  BY ProofOnceStep
<1> QED
  BY <1>1, Inductive, PTL DEF Spec, ProofSpentOnce

\* First-run setup stores its hash only where none is stored, however many
\* setups saw an install without one.
THEOREM SetupNeverReplacesOne == Spec => SetupNeverReplaces
<1>1. ASSUME AuthInv, [Next]_vars, NEW r \in Requests, req[r].op = "setup", req[r].at = "write",
             req'[r].at = "verify"
      PROVE  password = 0
  <2>t. TypeOK
    BY <1>1 DEF AuthInv
  <2>1. ~Restart
    BY <1>1, IdleTyped DEF Restart
  <2>2. SetPassword(r)
    BY <1>1, <2>t, <2>1, CalmStep DEF Calm, ChangePassword, RemovePassword, RemovePasskey, Present,
       EndSessions
  <2> QED
    BY <1>1, <2>t, <2>2, StoreEffect, IdleTyped DEF SetPassword
<1>2. AuthInv /\ [Next]_vars => [\A r \in Requests :
        req[r].op = "setup" /\ req[r].at = "write" /\ req'[r].at = "verify"
                           => password = 0]_vars
  BY <1>1
<1> QED
  BY <1>2, Inductive, PTL DEF Spec, SetupNeverReplaces

-----------------------------------------------------------------------------
(* The guards of the API                                                   *)

\* What the proof needs of the route tables: who is exempt from what, and which
\* routes concern a device.
LEMMA Tables ==
    /\ CsrfExempt \subseteq Exempt /\ Everyones \subseteq AdminOnly \ Exempt
    /\ ScopedOwnDevice \cap (AdminOnly \cup Exempt \cup Everyones \cup {"transport"}) = {}
    /\ ScopedFiltered \cap (AdminOnly \cup Exempt \cup ScopedOwnDevice) = {}
    /\ ScopedProjection \cap (AdminOnly \cup Exempt \cup ScopedOwnDevice \cup ScopedFiltered) = {}
    /\ Exempt \ Safe \subseteq OnceOnly \cup {"transport", "login", "enrol"}
    /\ OnceOnly \subseteq Exempt /\ "transport" \in Exempt \ (OnceOnly \cup Safe)
    /\ OnceOnly \cap Safe = {}
    /\ "status" \in Exempt \ (AdminOnly \cup ScopedOwnDevice) /\ "deviceNotify" \in ScopedOwnDevice
    /\ "status" \in Safe /\ ScopedProjection \subseteq Safe /\ ScopedFiltered \subseteq Safe
    /\ ScopedOwnDevice \subseteq Resolvable /\ "deviceNotify" \in ByPath
    /\ AdminOnly \cup ScopedOwnDevice \cup ScopedFiltered \cup ScopedProjection \subseteq Routes
  BY DEF Exempt, Safe, CsrfExempt, AdminOnly, ScopedOwnDevice, ScopedFiltered, ScopedProjection, OpenToAll,
     Routes, OnceOnly, EnforcesItsOwn, Everyones, Resolvable, ByPath, ByBody, ByLookup

\* What a request is does not change on its way.
SameRequest == /\ http'.route = http.route /\ http'.by = http.by /\ http'.token = http.token /\ http'.dev = http.dev
               /\ http'.late = http.late /\ http'.claimed = http.claimed
Kept == http'.bound = http.bound /\ http'.used = http.used

\* Passing a guard, or being refused by it, changes the request's place only.
LEMMA ToDoes ==
    ASSUME ApiTypeOK, NEW a \in Stages, To(a)
    PROVE  ApiTypeOK' /\ SameRequest /\ Kept /\ http'.at = a /\ inst' = inst
  BY DEF ApiTypeOK, To, SameRequest, Kept

\* A handler that ran says what it showed.
LEMMA RanDoes ==
    ASSUME ApiTypeOK, NEW saw \in SUBSET {"own", "other"}, NEW told \in Tells, Ran(saw, told)
    PROVE  /\ ApiTypeOK' /\ SameRequest /\ Kept /\ http'.at = "ran" /\ http'.saw = saw /\ http'.told = told
           /\ inst' = inst
  BY DEF ApiTypeOK, Ran, SameRequest, Kept, Stages

\* The states a guard may refuse a request to.
Refusals == {"unauthorized", "csrf_refused", "storage_required", "forbidden", "already_configured", "not_found"}
\* A refusal needs no more than that a member is not wrongly sent away.
LEMMA RefuseSafe ==
    ASSUME ApiInv, NEW code \in Refusals, Refuse(code), OwnGranted'
    PROVE  ApiInv'
<1>1. code \in Stages /\ To(code)
  BY DEF Refusals, Stages, Refuse
<1>2. ApiTypeOK' /\ SameRequest /\ Kept /\ http'.at \in Refusals /\ inst' = inst
  BY <1>1, ToDoes DEF ApiInv
<1> QED
  BY <1>2 DEF ApiInv, CameTrue, GuardsTrue, PlacesTrue, ScopeHolds, WritesHeld, OwnDeviceOnly, RevokedRefused,
     UnclaimedWrites, SessionNeedsToken, SameRequest, Kept, Refusals, Past
\* Most refusals are not of a scope.
LEMMA OtherRefusal ==
    ASSUME ApiInv, NEW code \in Refusals \ {"forbidden"}, Refuse(code)
    PROVE  ApiInv'
<1>1. code \in Stages /\ To(code)
  BY DEF Refusals, Stages, Refuse
<1>2. http'.at = code
  BY <1>1, ToDoes DEF ApiInv
<1> QED
  BY <1>2, RefuseSafe DEF OwnGranted

\* Passing a guard: what the next place requires.
LEMMA PassSafe ==
    ASSUME ApiInv, NEW a \in {"csrf", "setup", "scope", "resource", "handler", "own", "act"}, To(a),
           GuardsTrue', PlacesTrue'
    PROVE  ApiInv'
<1>1. ApiTypeOK' /\ SameRequest /\ Kept /\ http'.at = a /\ inst' = inst
  BY ToDoes DEF ApiInv, Stages
<1> QED
  BY <1>1 DEF ApiInv, CameTrue, ScopeHolds, WritesHeld, OwnDeviceOnly, RevokedRefused,
     UnclaimedWrites, SessionNeedsToken, OwnGranted, SameRequest

\* authGuard keeps the invariant.
LEMMA AuthGuardSafe == ASSUME ApiInv, AuthGuard PROVE ApiInv'
<1>1. CASE http.route \in Exempt /\ To("csrf")
  <2>1. SameRequest /\ Kept /\ http'.at = "csrf"
    BY <1>1, ToDoes DEF ApiInv, Stages
  <2> QED
    BY <1>1, <2>1, PassSafe DEF ApiInv, GuardsTrue, PlacesTrue, SameRequest, Kept, Past
<1>2. CASE /\ http.route \notin Exempt /\ Authenticated
           /\ http' = [http EXCEPT !.at = "csrf", !.bound = TRUE, !.used = TRUE] /\ UNCHANGED inst
  <2>1. /\ ApiTypeOK' /\ SameRequest /\ http'.at = "csrf" /\ http'.bound /\ http'.used /\ inst' = inst
    BY <1>2 DEF ApiInv, ApiTypeOK, SameRequest, Stages
  <2> QED
    BY <1>2, <2>1 DEF ApiInv, CameTrue, GuardsTrue, PlacesTrue, ScopeHolds, WritesHeld, OwnDeviceOnly, RevokedRefused,
       UnclaimedWrites, SessionNeedsToken, OwnGranted, SameRequest, Past, Authenticated
<1>3. CASE Refuse("unauthorized")
  BY <1>3, OtherRefusal DEF Refusals
<1> QED
  BY <1>1, <1>2, <1>3 DEF AuthGuard

\* csrfGuard keeps the invariant.
LEMMA CsrfGuardSafe == ASSUME ApiInv, CsrfGuard PROVE ApiInv'
<1>1. CASE (http.route \in Safe \cup CsrfExempt \/ http.token) /\ To("setup")
  <2>1. SameRequest /\ Kept /\ http'.at = "setup"
    BY <1>1, ToDoes DEF ApiInv, Stages
  <2> QED
    BY <1>1, <2>1, PassSafe DEF ApiInv, GuardsTrue, PlacesTrue, SameRequest, Kept, Past, CsrfGuard
<1>2. CASE Refuse("csrf_refused")
  BY <1>2, OtherRefusal DEF Refusals
<1> QED
  BY <1>1, <1>2 DEF CsrfGuard

\* setupGuard keeps the invariant.
LEMMA SetupGuardSafe == ASSUME ApiInv, SetupGuard PROVE ApiInv'
<1>1. CASE To("scope")
  <2>1. SameRequest /\ Kept /\ http'.at = "scope"
    BY <1>1, ToDoes DEF ApiInv, Stages
  <2> QED
    BY <1>1, <2>1, PassSafe DEF ApiInv, GuardsTrue, PlacesTrue, SameRequest, Kept, Past, SetupGuard
<1>2. CASE Refuse("storage_required")
  BY <1>2, OtherRefusal DEF Refusals
<1> QED
  BY <1>1, <1>2 DEF SetupGuard

\* The scope decision keeps the invariant: who passes it is not a member, or goes
\* on to the resource.
LEMMA ScopeGuardSafe == ASSUME ApiInv, ScopeGuard PROVE ApiInv'
<1>1. CASE To("handler")
  <2>1. SameRequest /\ Kept /\ http'.at = "handler"
    BY <1>1, ToDoes DEF ApiInv, Stages
  <2>2. http.at = "scope" /\ (http.bound /\ http.route \in AdminOnly \cup ScopedOwnDevice => ScopeIs = "admin")
    <3>1. http' # [http EXCEPT !.at = "unauthorized"] /\ http' # [http EXCEPT !.at = "forbidden"]
          /\ http' # [http EXCEPT !.at = "resource"]
      BY <2>1 DEF ApiInv, ApiTypeOK
    <3> QED
      BY <3>1 DEF ScopeGuard, To, Refuse
  <2>3. http.bound /\ http.route \in AdminOnly \cup ScopedOwnDevice => http.by = "admin"
    BY <2>2 DEF ScopeIs, ApiInv, ApiTypeOK, GuardsTrue, Principals
  <2> QED
    BY <1>1, <2>1, <2>2, <2>3, PassSafe DEF ApiInv, GuardsTrue, PlacesTrue, SameRequest, Kept, Past
<1>2. CASE ScopeIs = "member" /\ http.route \in ScopedOwnDevice /\ http.at = "scope" /\ To("resource")
  <2>1. SameRequest /\ Kept /\ http'.at = "resource"
    BY <1>2, ToDoes DEF ApiInv, Stages
  <2>2. http.by = "member" /\ ~http.late
    BY <1>2 DEF ScopeIs, ApiInv, CameTrue
  <2> QED
    BY <1>2, <2>1, <2>2, PassSafe DEF ApiInv, GuardsTrue, PlacesTrue, SameRequest, Kept, Past
<1>3. CASE Refuse("unauthorized")
  BY <1>3, OtherRefusal DEF Refusals
<1>4. CASE http.route \in AdminOnly /\ Refuse("forbidden")
  <2>1. SameRequest
    BY <1>4, ToDoes DEF ApiInv, Stages, Refuse
  <2> QED
    BY <1>4, <2>1, Tables, RefuseSafe DEF Refusals, OwnGranted, SameRequest
<1> QED
  BY <1>1, <1>2, <1>3, <1>4 DEF ScopeGuard

\* The resource decision keeps the invariant.
LEMMA ResourceGuardSafe == ASSUME ApiInv, ResourceGuard PROVE ApiInv'
<1>0. http.at = "resource" /\ http.route \in ScopedOwnDevice /\ ~http.late
  BY DEF ResourceGuard, ApiInv, PlacesTrue
<1>1. CASE http.dev = "own" /\ To("handler")
  <2>1. SameRequest /\ Kept /\ http'.at = "handler"
    BY <1>1, ToDoes DEF ApiInv, Stages
  <2> QED
    BY <1>0, <1>1, <2>1, PassSafe DEF ApiInv, GuardsTrue, PlacesTrue, SameRequest, Kept, Past
<1>2. CASE ~(http.route \in Resolvable /\ Found /\ http.dev = "own") /\ Refuse("forbidden")
  <2>1. SameRequest /\ inst' = inst
    BY <1>2, ToDoes DEF ApiInv, Stages, Refuse
  <2>2. http.dev = "own" => ~inst.there
    BY <1>0, <1>2, Tables DEF Found
  <2> QED
    BY <1>2, <2>1, <2>2, RefuseSafe DEF Refusals, OwnGranted, SameRequest
<1> QED
  BY <1>1, <1>2 DEF ResourceGuard

\* A handler that ran showed nothing to a member but their own device, told no
\* more to one whose credential is gone, and changed nothing for nobody.
LEMMA RanSafe ==
    ASSUME ApiInv, NEW saw \in SUBSET {"own", "other"}, NEW told \in Tells, Ran(saw, told),
           http.at \in {"handler", "act"},
           http.by = "member" => saw \subseteq {"own"},
           http.by = "member" /\ http.late =>
               http.route \notin (AdminOnly \ Exempt) \cup ScopedOwnDevice \cup ScopedFiltered
               /\ told \notin {"full", "admin", "member"},
           http.by = "nobody" /\ http.route \notin Safe \cup {"login", "enrol"} => ~http.claimed
    PROVE  ApiInv'
<1>1. /\ ApiTypeOK' /\ SameRequest /\ Kept /\ http'.at = "ran" /\ http'.saw = saw /\ http'.told = told
      /\ inst' = inst
  BY RanDoes DEF ApiInv
<1>2. CameTrue' /\ GuardsTrue'
  BY <1>1 DEF ApiInv, CameTrue, GuardsTrue, SameRequest, Kept, Past
<1>3. PlacesTrue'
  BY <1>1, Tables DEF ApiInv, GuardsTrue, PlacesTrue, SameRequest, Kept
<1>4. ScopeHolds' /\ UnclaimedWrites'
  BY <1>1 DEF ScopeHolds, OwnDeviceOnly, RevokedRefused, OwnGranted, UnclaimedWrites, SameRequest
<1>5. SessionNeedsToken'
  BY <1>1, <1>2, Tables DEF SessionNeedsToken, GuardsTrue, SameRequest, Kept, Past
<1> QED
  BY <1>1, <1>2, <1>3, <1>4, <1>5 DEF ApiInv, WritesHeld

\* Every kind of handler keeps the invariant.
LEMMA HandlerSafe == ASSUME ApiInv, Handler PROVE ApiInv'
<1>0. /\ http.at = "handler" /\ http.route \in Routes /\ http.by \in Principals /\ http.dev \in Devs
      /\ http.query \in {"own", "other", "all"}
      /\ http.route \notin Exempt => http.bound
      /\ http.bound => http.by # "nobody" /\ http.route \notin Exempt
      /\ http.bound /\ http.route \in AdminOnly \cup ScopedOwnDevice =>
            http.by = "admin" \/ (~http.late /\ http.route \in ScopedOwnDevice /\ http.dev = "own")
      /\ http.late => ~inst.cred /\ http.by = "member"
      /\ http.claimed => inst.claimed
      /\ http.route \in ByPath => http.dev # "none"
  BY DEF Handler, ApiInv, ApiTypeOK, GuardsTrue, PlacesTrue, CameTrue, Past
<1>1. CASE Listing
  <2>1. CASE Refuse("unauthorized")
    BY <2>1, OtherRefusal DEF Refusals
  <2>2. CASE ScopeIs # "revoked" /\ Ran(Rows(ListUDID), "none")
    <3>1. http.by = "member" => ~http.late /\ ListUDID = "own"
      BY <1>0, <2>2 DEF ScopeIs, ListUDID
    <3>2. Rows(ListUDID) \in SUBSET {"own", "other"} /\ (http.by = "member" => Rows(ListUDID) \subseteq {"own"})
      BY <1>0, <3>1 DEF Rows, ListUDID
    <3> QED
      BY <1>0, <1>1, <2>2, <3>1, <3>2, Tables, RanSafe DEF Listing, Tells
  <2> QED
    BY <1>1, <2>1, <2>2 DEF Listing
<1>2. CASE Storages
  BY <1>0, <1>2, Tables, RanSafe DEF Storages, Tells, ScopeIs
<1>3. CASE Status
  BY <1>0, <1>3, Tables, RanSafe DEF Status, Tells, ScopeIs
<1>4. CASE Notify
  <2>1. CASE Refuse("unauthorized")
    BY <2>1, OtherRefusal DEF Refusals
  <2>2. CASE Ran({http.dev}, "none") /\ http.dev # "none"
    BY <1>0, <1>4, <2>2, Tables, RanSafe DEF Notify, Tells, Devs, Principals
  <2> QED
    BY <1>0, <1>4, <2>1, <2>2, Tables DEF Notify
<1>5. CASE Plain
  <2>1. CASE http.route \in ScopedOwnDevice /\ Found /\ Ran({http.dev}, "none")
    BY <1>0, <2>1, Tables, RanSafe DEF Found, Tells, Devs, Principals
  <2>2. CASE Refuse("not_found")
    BY <2>2, OtherRefusal DEF Refusals
  <2>3. CASE http.route \in Everyones /\ Ran({"own", "other"}, "none")
    BY <1>0, <2>3, Tables, RanSafe DEF Tells
  <2>4. CASE /\ http.route \notin ScopedOwnDevice \cup Everyones /\ Ran({}, "none")
             /\ http.route \notin ScopedFiltered \cup OnceOnly \cup {"transport"}
    BY <1>0, <2>4, Tables, RanSafe DEF Tells
  <2> QED
    BY <1>5, <2>1, <2>2, <2>3, <2>4 DEF Plain
<1>6. CASE Once
  <2>1. CASE Refuse("already_configured")
    BY <2>1, OtherRefusal DEF Refusals
  <2>2. CASE ~inst.claimed /\ http.route \in OnceOnly /\ To("act")
    <3>1. SameRequest /\ Kept /\ http'.at = "act"
      BY <2>2, ToDoes DEF ApiInv, Stages
    <3> QED
      BY <1>0, <2>2, <3>1, PassSafe DEF ApiInv, GuardsTrue, PlacesTrue, SameRequest, Kept, Past
  <2> QED
    BY <1>6, <2>1, <2>2 DEF Once, Gated
<1>7. CASE Transport
  <2>1. CASE To("own")
    <3>1. SameRequest /\ Kept /\ http'.at = "own"
      BY <2>1, ToDoes DEF ApiInv, Stages
    <3> QED
      BY <1>0, <1>7, <2>1, <3>1, PassSafe DEF Transport, ApiInv, GuardsTrue, PlacesTrue, SameRequest, Kept, Past
  <2>2. CASE ~inst.claimed /\ To("act")
    <3>1. SameRequest /\ Kept /\ http'.at = "act"
      BY <2>2, ToDoes DEF ApiInv, Stages
    <3> QED
      BY <1>0, <1>7, <2>2, <3>1, PassSafe DEF Transport, ApiInv, GuardsTrue, PlacesTrue, SameRequest, Kept, Past
  <2> QED
    BY <1>7, <2>1, <2>2 DEF Transport
<1> QED
  BY <1>1, <1>2, <1>3, <1>4, <1>5, <1>6, <1>7 DEF Handler

\* The check in handleInsecureTransportSet keeps the invariant.
LEMMA TransportOwnSafe == ASSUME ApiInv, TransportOwn PROVE ApiInv'
<1>0. http.at = "own" /\ http.route = "transport"
  BY DEF TransportOwn, ApiInv, PlacesTrue
<1>1. CASE Refuse("already_configured")
  BY <1>1, OtherRefusal DEF Refusals
<1>2. CASE Refuse("forbidden")
  <2>1. SameRequest
    BY <1>2, ToDoes DEF ApiInv, Stages, Refuse
  <2> QED
    BY <1>0, <1>2, <2>1, Tables, RefuseSafe DEF Refusals, OwnGranted, SameRequest
<1>3. CASE Authenticated /\ TransportChecks /\ http' = [http EXCEPT !.at = "act", !.used = TRUE] /\ UNCHANGED inst
  <2>1. /\ ApiTypeOK' /\ SameRequest /\ http'.at = "act" /\ http'.bound = http.bound /\ http'.used /\ inst' = inst
    BY <1>3 DEF ApiInv, ApiTypeOK, SameRequest, Stages
  <2> QED
    BY <1>0, <1>3, <2>1, Tables DEF ApiInv, CameTrue, GuardsTrue, PlacesTrue, ScopeHolds, WritesHeld, OwnDeviceOnly,
       RevokedRefused, UnclaimedWrites, SessionNeedsToken, OwnGranted, SameRequest, Past, Authenticated, TransportChecks
<1> QED
  BY <1>1, <1>2, <1>3 DEF TransportOwn

\* A route that is open until the claim keeps the invariant when it acts.
LEMMA ActSafe == ASSUME ApiInv, Act PROVE ApiInv'
<1>1. /\ http.at = "act" /\ http.route \in OnceOnly \cup {"transport"} /\ (http.claimed => http.used)
      /\ http.used => http.by # "nobody"
  BY DEF Act, ApiInv, PlacesTrue, GuardsTrue
<1> QED
  BY <1>1, Tables, RanSafe DEF Act, Tells

\* The install changes beside a request that is pending.
LEMMA MeanwhileSafe ==
    ASSUME ApiInv, ClaimInstall \/ DeclareStorage \/ SessionEnds \/ CredentialGoes \/ ResourceGoes
    PROVE  ApiInv'
<1>1. /\ Pending /\ http' = http /\ inst' \in Installs
      /\ (inst.claimed => inst'.claimed) /\ (~inst.cred => ~inst'.cred)
  BY DEF ClaimInstall, DeclareStorage, SessionEnds, CredentialGoes, ResourceGoes, Becomes, ApiInv, ApiTypeOK, Installs
<1> QED
  BY <1>1 DEF ApiInv, ApiTypeOK, CameTrue, GuardsTrue, PlacesTrue, ScopeHolds, WritesHeld, OwnDeviceOnly,
     RevokedRefused, UnclaimedWrites, SessionNeedsToken, OwnGranted, Pending

\* The invariant holds when a request comes.
LEMMA ApiStart == ApiInit => ApiInv
<1> SUFFICES ASSUME ApiInit PROVE ApiInv
  OBVIOUS
<1>1. /\ inst \in Installs
      /\ http.by # "nobody" => inst.claimed
      /\ inst.cred \/ http.by = "member"
      /\ http.dev = "none" => http.route \notin ByPath \cup ByLookup
  BY DEF ApiInit, Installs
<1>2. PICK r \in Routes, c \in Principals, t \in BOOLEAN, d \in Devs, q \in {"own", "other", "all"} :
        http = [NoRequest EXCEPT !.at = "auth", !.route = r, !.by = c, !.token = t, !.dev = d, !.query = q,
                                 !.late = ~inst.cred, !.claimed = inst.claimed]
  BY DEF ApiInit
<1>3. ApiTypeOK
  BY <1>1, <1>2 DEF NoRequest, ApiTypeOK, Stages, Tells, Installs
<1>4. /\ http.at = "auth" /\ ~http.bound /\ ~http.used
      /\ (http.late <=> ~inst.cred) /\ (http.claimed <=> inst.claimed)
  BY <1>2 DEF NoRequest
<1> QED
  BY <1>1, <1>3, <1>4 DEF ApiInv, CameTrue, GuardsTrue, PlacesTrue, ScopeHolds, WritesHeld, OwnDeviceOnly,
     RevokedRefused, UnclaimedWrites, SessionNeedsToken, OwnGranted, Past

\* Every step keeps the invariant.
LEMMA ApiStep == ApiInv /\ [ApiNext]_apiVars => ApiInv'
<1>1. ASSUME ApiInv, UNCHANGED apiVars PROVE ApiInv'
  BY <1>1 DEF apiVars, ApiInv, ApiTypeOK, CameTrue, GuardsTrue, PlacesTrue, ScopeHolds, WritesHeld, OwnDeviceOnly,
     RevokedRefused, UnclaimedWrites, SessionNeedsToken, OwnGranted
<1> QED
  BY <1>1, AuthGuardSafe, CsrfGuardSafe, SetupGuardSafe, ScopeGuardSafe, ResourceGuardSafe, HandlerSafe,
     TransportOwnSafe, ActSafe, MeanwhileSafe DEF ApiNext

\* What each guard has established still holds where it is relied upon, though
\* every guard reads the install afresh.
THEOREM GuardsInductive == ApiSpec => []ApiInv
  BY ApiStart, ApiStep, PTL DEF ApiSpec

\* A member reaches their own device and no other, and a credential that was gone
\* when the request came reaches nothing, at whichever guard things change.
THEOREM ScopesHold == ApiSpec => []ScopeHolds
<1>1. ApiInv => ScopeHolds
  BY DEF ApiInv
<1> QED
  BY <1>1, GuardsInductive, PTL

\* Nothing is changed without a session on an install that was claimed when the
\* request came, nor with one without its token.
THEOREM WritesAreHeld == ApiSpec => []WritesHeld
<1>1. ApiInv => WritesHeld
  BY DEF ApiInv
<1> QED
  BY <1>1, GuardsInductive, PTL
=============================================================================
