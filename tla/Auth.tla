-------------------------------- MODULE Auth --------------------------------
(***************************************************************************)
(* Signing in, and the credentials one signs in with: the password hash in *)
(* settings, the passkeys table, sessions_auth, the push subscriptions of  *)
(* a scoped device, and the in-memory tables of challenges, proofs and     *)
(* enrolment links.  auth.Service has no lock: a request is a sequence of  *)
(* SQLite statements and locked map operations, and requests interleave    *)
(* between them.  The guards of the router and the reads that follow them  *)
(* up to the first decision are one step; every write is a step.           *)
(*                                                                         *)
(* A password is the number of its hash, 0 when there is none.  Expiry is  *)
(* a step of its own.  The client is assumed to present the right secret:  *)
(* a wrong one ends the request with nothing changed.                      *)
(***************************************************************************)
EXTENDS Naturals, FiniteSets

CONSTANTS
    Requests,      \* bound: requests in flight at once
    Creds,         \* bound: credentials ever registered
    RpOf,          \* the origin (rpId) each credential works at
    Devices,       \* the devices a credential can be scoped to
    Keys,          \* bound: challenges ever issued
    Links,         \* bound: enrolment links ever minted
    MaxPasswords,  \* bound: hashes ever stored
    MaxSessions,   \* bound: sessions ever created
    MaxProofs,     \* bound: proofs ever minted
    Mixes          \* bound: the sets of requests and faults that may meet in one behaviour

Rps == {RpOf[c] : c \in Creds}
Sessions == 1..MaxSessions
Proofs == 1..MaxProofs

Kinds == {"setup", "setupPasskey", "login", "passkeyLogin", "changePassword", "removePassword",
          "removePasskey", "addPasskey", "reauth", "enrol", "subscribe", "logout", "expiry",
          "sweepFails", "restart", "reset"}

ASSUME AuthAssumption ==
    /\ Mixes \subseteq SUBSET Kinds
    /\ MaxPasswords \in Nat \ {0} /\ MaxSessions \in Nat \ {0} /\ MaxProofs \in Nat
    /\ Devices \cap {"admin", "unused", "gone", "none"} = {}
    /\ Creds \cap {"password", "unused", "gone", "none"} = {} /\ "cli" \notin Requests

VARIABLES
    password, nextPw,   \* settings.password_hash, and the next hash
    passkeys,           \* per credential: unused, gone, or its scope
    sessions, subs,     \* sessions_auth; push_subscriptions of a device's holder
    pend,               \* PasskeyCeremonies and ReauthCeremonies
    proofs, links,      \* Proofs.in; Enrolments
    req,                \* the requests in flight
    reset,              \* `quince auth reset`, between its statements
    mix,                \* what may happen in this behaviour; never changes
    spent, fromLink,    \* history: proofs consumed; credentials a link's challenge made;
    signIns             \* sessions each link minted

dbVars == <<password, nextPw, passkeys, sessions, subs>>
memVars == <<pend, proofs, links>>
ghosts == <<spent, fromLink, signIns>>
vars == <<dbVars, memVars, req, reset, mix, ghosts>>

NoKey == [kind |-> "none"]
NoProof == 0
NoSession == 0

Absent == [by |-> "unused", hash |-> 0, excused |-> FALSE]
Idle == [at |-> "idle", op |-> "none", sess |-> NoSession, rp |-> "none", tgt |-> "none",
         subj |-> "none", hash |-> 0, dev |-> "none", proof |-> NoProof, stale |-> FALSE]

Scopes == {"admin"} \cup Devices
Live(s) == sessions[s].by \notin {"unused", "gone"}
Have(c) == passkeys[c] \in Scopes
AdminAt(rp) == {c \in Creds : passkeys[c] = "admin" /\ RpOf[c] = rp}

SessionRows == [by : {"unused", "gone", "password"} \cup Creds, hash : 0..MaxPasswords, excused : BOOLEAN]
Places == {"idle", "present", "write", "sweep", "subs", "verify", "prior", "create", "spend", "setup"}
RequestStates == [at : Places, op : Kinds \cup {"none"}, sess : {NoSession} \cup Sessions,
                  rp : Rps \cup {"none"}, tgt : {"none"} \cup Creds \cup Links, subj : {"none", "password"} \cup Creds,
                  hash : 0..MaxPasswords, dev : Devices \cup {"none"}, proof : {NoProof} \cup Proofs,
                  stale : BOOLEAN]
ReauthOps == {"changePassword", "removePassword", "addPasskey", "removePasskey"}

TypeOK ==
    /\ password \in 0..MaxPasswords /\ nextPw \in 1..MaxPasswords + 1
    /\ passkeys \in [Creds -> Scopes \cup {"unused", "gone"}]
    /\ sessions \in [Sessions -> SessionRows]
    /\ subs \subseteq [by : Devices, scope : Devices \cup {"admin"}]
    /\ DOMAIN pend = Keys
    /\ \A k \in Keys : /\ pend[k].kind \in {"none", "gone", "register", "assert", "reauth"}
                       /\ pend[k].kind = "register" => pend[k].scope \in Scopes /\ pend[k].link \in BOOLEAN
                       /\ pend[k].kind = "reauth" => /\ pend[k].op \in ReauthOps
                                                     /\ pend[k].tgt \in {"none"} \cup Creds
    /\ proofs \in [Proofs -> [op : ReauthOps \cup {"none"}, tgt : {"none"} \cup Creds,
                              subj : {"unused", "gone"} \cup Creds, sess : {NoSession} \cup Sessions]]
    /\ links \in [Links -> [state : {"unused", "live", "spent", "revoked", "gone"}, dev : Devices \cup {"none"}]]
    /\ req \in [Requests -> RequestStates]
    /\ mix \in Mixes /\ reset \in {"no", "password", "passkeys", "done"}
    /\ spent \subseteq Proofs /\ fromLink \subseteq Creds /\ signIns \in [Links -> Nat]

\* Either nobody has set this install up, or an admin with a password, and
\* perhaps a passkey, is signed in by password.
Init ==
    /\ \/ password = 0 /\ passkeys = [c \in Creds |-> "unused"]
          /\ sessions = [s \in Sessions |-> Absent]
       \/ \E keys \in {K \in SUBSET Creds : Cardinality(K) <= 1} :
          /\ password = 1 /\ passkeys = [c \in Creds |-> IF c \in keys THEN "admin" ELSE "unused"]
          /\ sessions = [s \in Sessions |-> IF s = 1 THEN [by |-> "password", hash |-> 1, excused |-> FALSE]
                                                     ELSE Absent]
    /\ nextPw = password + 1 /\ subs = {}
    /\ pend = [k \in Keys |-> NoKey]
    /\ proofs = [p \in Proofs |-> [op |-> "none", tgt |-> "none", subj |-> "unused", sess |-> NoSession]]
    /\ links = [l \in Links |-> [state |-> "unused", dev |-> "none"]]
    /\ req = [r \in Requests |-> Idle] /\ reset = "no" /\ mix \in Mixes
    /\ spent = {} /\ fromLink = {} /\ signIns = [l \in Links |-> 0]

-----------------------------------------------------------------------------
(* Who is asking                                                           *)

Configured == password # 0 \/ \E c \in Creds : Have(c)

\* Authenticate: the session row; ScopeOf: the password's, or its credential's.
ScopeOf(s) == IF sessions[s].by = "password" THEN "admin" ELSE passkeys[sessions[s].by]
MayManage(s) == Live(s) /\ ScopeOf(s) = "admin"

\* Accepts, and the two refusals it stands before: the factors that could prove
\* the operation at this origin.
Accepts(op, rp, tgt) ==
    (IF op # "removePassword" /\ password # 0 THEN {"password"} ELSE {}) \cup (AdminAt(rp) \ {tgt})

\* A request in flight when a credential goes is marked: what it decides from
\* here on, it decided before.
Racing(r) == [q \in Requests |-> IF q # r /\ req[q].at # "idle" THEN [req[q] EXCEPT !.stale = TRUE]
                                                                ELSE req[q]]
Step(r, at) == req' = [req EXCEPT ![r].at = at]
Done(r) == req' = [req EXCEPT ![r] = Idle]
Enter(r, op, at, s, rp, tgt) ==
    /\ op \in mix /\ req[r] = Idle
    /\ req' = [req EXCEPT ![r] = [Idle EXCEPT !.op = op, !.at = at, !.sess = s, !.rp = rp, !.tgt = tgt]]

-----------------------------------------------------------------------------
(* RequirePresent: present possession, proved once per operation           *)

\* Mutation: the token stays in the table when it is consumed.
ConsumeKeeps(p) == UNCHANGED proofs
Consume(p) == proofs' = [proofs EXCEPT ![p].subj = "gone"]

ClaimsMatch(p, r) ==
    proofs[p].op = req[r].op /\ proofs[p].tgt = req[r].tgt /\ proofs[p].sess = req[r].sess

\* What may not prove it: a password its own removal, a passkey its own.
SelfProof(r, subj) == \/ req[r].op = "removePassword" /\ subj = "password"
                      \/ req[r].op = "removePasskey" /\ subj = req[r].tgt

AfterPresent(op) == IF op = "addPasskey" THEN "create" ELSE "write"

Present(r) ==
    /\ req[r].at = "present"
    /\ \/ /\ ~Configured                      \* nothing to prove possession of
          /\ Step(r, AfterPresent(req[r].op)) /\ UNCHANGED <<proofs, spent>>
       \/ \E p \in Proofs :
          /\ Configured /\ proofs[p].subj \in Creds
          /\ Consume(p)
          /\ IF ClaimsMatch(p, r) /\ ~SelfProof(r, proofs[p].subj)
             THEN /\ req' = [req EXCEPT ![r].at = AfterPresent(req[r].op), ![r].proof = p,
                                        ![r].subj = proofs[p].subj]
                  /\ spent' = spent \cup {p}
             ELSE Done(r) /\ UNCHANGED spent
       \/ /\ Configured /\ password # 0       \* the password itself
          /\ IF SelfProof(r, "password") THEN Done(r)
             ELSE req' = [req EXCEPT ![r].at = AfterPresent(req[r].op), ![r].subj = "password"]
          /\ UNCHANGED <<proofs, spent>>
       \/ Done(r) /\ UNCHANGED <<proofs, spent>>   \* no proof, or a wrong or limited one
    /\ UNCHANGED <<dbVars, pend, links, reset, mix, fromLink, signIns>>

\* provable, adminCredentials and allowedForRemoval: who may answer the challenge.
Provable(op, rp, tgt) == AdminAt(rp) \ {tgt}

Target(op, c) == IF op = "removePasskey" THEN c ELSE "none"

PendingReauth(rp, op, tgt, s) ==
    [kind |-> "reauth", rp |-> rp, op |-> op, tgt |-> tgt, sess |-> s, allow |-> Provable(op, rp, tgt)]

\* BeginReauth: nobody is asked for a removal that nobody could prove.
Asks(k, rp, op, tgt, s) ==
    /\ pend[k] = NoKey
    /\ op \in {"removePasskey", "removePassword"} => Provable(op, rp, tgt) # {}
    /\ pend' = [pend EXCEPT ![k] = PendingReauth(rp, op, tgt, s)]

BeginReauth(s, k, rp, op, c) ==
    /\ {"reauth", op} \subseteq mix /\ MayManage(s) /\ Asks(k, rp, op, Target(op, c), s)
    /\ UNCHANGED <<dbVars, proofs, links, req, reset, mix, ghosts>>

\* The session that began it, a credential of the origin that still exists and
\* that was asked for.
Proves(k, c, s) == /\ pend[k].sess = s /\ RpOf[c] = pend[k].rp /\ Have(c)
                   /\ pend[k].allow = {} \/ c \in pend[k].allow

\* FinishReauth takes the challenge whatever follows, and mints a proof for the
\* operation it was begun for.
FinishReauth(s, k, c, p) ==
    /\ MayManage(s) /\ pend[k].kind = "reauth"
    /\ pend' = [pend EXCEPT ![k] = [kind |-> "gone"]]
    /\ IF Proves(k, c, s)
       THEN /\ proofs[p].subj = "unused" /\ \A q \in Proofs : q < p => proofs[q].subj # "unused"
            /\ proofs' = [proofs EXCEPT ![p] = [op |-> pend[k].op, tgt |-> pend[k].tgt,
                                                subj |-> c, sess |-> s]]
       ELSE UNCHANGED proofs
    /\ UNCHANGED <<dbVars, links, req, reset, mix, ghosts>>

-----------------------------------------------------------------------------
(* Setup and sign-in                                                       *)

\* SetPassword reads Configured ...
BeginSetPassword(r) ==
    /\ ~Configured /\ Enter(r, "setup", "write", NoSession, "none", "none")
    /\ UNCHANGED <<dbVars, memVars, reset, mix, ghosts>>

Store(r, mayReplace) ==
    /\ nextPw <= MaxPasswords
    /\ IF password = 0 \/ mayReplace
       THEN password' = nextPw /\ nextPw' = nextPw + 1
            /\ req' = [Racing(r) EXCEPT ![r].at = IF req[r].op = "setup" THEN "verify" ELSE "sweep",
                                        ![r].hash = nextPw]
       ELSE UNCHANGED <<password, nextPw>> /\ Done(r)

\* ... hashes, which is slow, and stores only where nothing is stored; then
\* the handler logs in.
SetPassword(r) ==
    /\ req[r].op = "setup" /\ req[r].at = "write" /\ Store(r, FALSE)
    /\ UNCHANGED <<passkeys, sessions, subs, memVars, reset, mix, ghosts>>

BeginLogin(r, prior) ==
    /\ Enter(r, "login", "verify", prior, "none", "none")
    /\ UNCHANGED <<dbVars, memVars, reset, mix, ghosts>>

\* Login: the hash read and verified.  Setup's login presents the password it set.
Verify(r) ==
    /\ req[r].at = "verify"
    /\ IF password # 0 /\ (req[r].op = "setup" => password = req[r].hash)
       THEN req' = [req EXCEPT ![r].at = "prior", ![r].hash = password, ![r].subj = "password",
                               ![r].stale = FALSE]
       ELSE Done(r)
    /\ UNCHANGED <<dbVars, memVars, reset, mix, ghosts>>

BeginPasskeyAssertion(k, rp) ==
    /\ "passkeyLogin" \in mix /\ pend[k] = NoKey
    /\ pend' = [pend EXCEPT ![k] = [kind |-> "assert", rp |-> rp, scope |-> "none", link |-> FALSE]]
    /\ UNCHANGED <<dbVars, proofs, links, req, reset, mix, ghosts>>

\* A verified passkey signs in: the prior session goes, then a new one comes.
LoginFinish(r, c, prior) ==
    req' = [req EXCEPT ![r] = [Idle EXCEPT !.op = "login", !.at = "prior", !.sess = prior, !.subj = c]]

\* FinishPasskeyAssertion: the challenge taken, the credential resolved.
FinishPasskeyAssertion(r, k, c, prior) ==
    /\ pend[k].kind = "assert" /\ req[r] = Idle
    /\ pend' = [pend EXCEPT ![k] = [kind |-> "gone"]]
    /\ IF RpOf[c] = pend[k].rp /\ Have(c)
       THEN LoginFinish(r, c, prior)
       ELSE UNCHANGED req
    /\ UNCHANGED <<dbVars, proofs, links, reset, mix, ghosts>>

\* The session the cookie carried is rotated out, in the store ...
DropPrior(r) ==
    /\ req[r].at = "prior"
    /\ sessions' = IF req[r].sess = NoSession THEN sessions
                   ELSE [sessions EXCEPT ![req[r].sess].by = "gone"]
    /\ Step(r, "create")
    /\ UNCHANGED <<password, nextPw, passkeys, subs, memVars, reset, mix, ghosts>>

\* ... before the new one is created.
CreateSession(r) ==
    /\ req[r].at = "create" /\ req[r].op # "addPasskey"
    /\ \E s \in Sessions :
       /\ sessions[s] = Absent /\ \A t \in Sessions : t < s => sessions[t] # Absent
       /\ sessions' = [sessions EXCEPT ![s] = [by |-> req[r].subj, hash |-> req[r].hash,
                                               excused |-> req[r].stale]]
    /\ Done(r)
    /\ UNCHANGED <<password, nextPw, passkeys, subs, memVars, reset, mix, ghosts>>

\* Logout, or Authenticate finding the session expired or idle.
EndSession(s) ==
    /\ "logout" \in mix /\ Live(s) /\ sessions' = [sessions EXCEPT ![s].by = "gone"]
    /\ UNCHANGED <<password, nextPw, passkeys, subs, memVars, req, reset, mix, ghosts>>

-----------------------------------------------------------------------------
(* Changing and removing credentials                                       *)

Manage(r, s) == MayManage(s) /\ req[r] = Idle

BeginChangePassword(r, s) ==
    /\ Manage(r, s) /\ Enter(r, "changePassword", "present", s, "none", "none")
    /\ UNCHANGED <<dbVars, memVars, reset, mix, ghosts>>

ChangePassword(r) ==
    /\ req[r].op = "changePassword" /\ req[r].at = "write" /\ Store(r, TRUE)
    /\ UNCHANGED <<passkeys, sessions, subs, memVars, reset, mix, ghosts>>

\* Mutation: the refusal is left to the interface.
RemovalAllowedAlways(op, rp, tgt) == TRUE
\* RemovePassword and RemovePasskey refuse what would leave no way in.
RemovalAllowed(op, rp, tgt) == ~Configured \/ Accepts(op, rp, tgt) # {}

BeginRemovePassword(r, s, rp) ==
    /\ Manage(r, s) /\ RemovalAllowed("removePassword", rp, "none")
    /\ Enter(r, "removePassword", "present", s, rp, "none")
    /\ UNCHANGED <<dbVars, memVars, reset, mix, ghosts>>

\* Authenticators mint the ids: a client names a credential it has seen.
BeginRemovePasskey(r, s, rp, c) ==
    /\ passkeys[c] # "unused" /\ Manage(r, s) /\ RemovalAllowed("removePasskey", rp, c)
    /\ Enter(r, "removePasskey", "present", s, rp, c)
    /\ UNCHANGED <<dbVars, memVars, reset, mix, ghosts>>

RemovePassword(r) ==
    /\ req[r].op = "removePassword" /\ req[r].at = "write"
    /\ password' = 0
    /\ req' = [Racing(r) EXCEPT ![r].at = "sweep"]
    /\ UNCHANGED <<nextPw, passkeys, sessions, subs, memVars, reset, mix, ghosts>>

\* The scope is read before the row goes; a row already gone ends the request.
RemovePasskey(r) ==
    /\ req[r].op = "removePasskey" /\ req[r].at = "write"
    /\ IF Have(req[r].tgt)
       THEN /\ passkeys' = [passkeys EXCEPT ![req[r].tgt] = "gone"]
            /\ req' = [Racing(r) EXCEPT ![r].at = "sweep",
                         ![r].dev = IF passkeys[req[r].tgt] \in Devices THEN passkeys[req[r].tgt] ELSE "none"]
       ELSE UNCHANGED passkeys /\ Done(r)
    /\ UNCHANGED <<password, nextPw, sessions, subs, memVars, reset, mix, ghosts>>

\* Mutation: a removed passkey's sessions are left to the scope check.
EndedByPassword(r) == {s \in Sessions : Live(s) /\ s # req[r].sess /\ sessions[s].by = "password"
                                         /\ req[r].op # "removePasskey"}
EndedBy(r) == {s \in Sessions : Live(s) /\ s # req[r].sess /\
                  sessions[s].by = IF req[r].op = "removePasskey" THEN req[r].tgt ELSE "password"}

\* DeleteAuthSessionsFor, sparing the caller's own session; its failure is only
\* warned of, since the credential has already gone.
EndSessions(r) ==
    /\ req[r].at = "sweep"
    /\ LET own == IF req[r].sess = NoSession THEN {} ELSE {req[r].sess}
       IN \/ sessions' = [s \in Sessions |-> [sessions[s] EXCEPT
                !.by = IF s \in EndedBy(r) THEN "gone" ELSE @, !.excused = @ \/ s \in own]]
          \/ /\ "sweepFails" \in mix
             /\ sessions' = [s \in Sessions |-> [sessions[s] EXCEPT
                  !.excused = @ \/ s \in own \cup EndedBy(r)]]
    /\ IF req[r].dev \in Devices THEN Step(r, "subs") ELSE Done(r)
    /\ UNCHANGED <<password, nextPw, passkeys, subs, memVars, reset, mix, ghosts>>

ScopeHasCredential(d) == \E c \in Creds : passkeys[c] = d

\* DeletePushSubscriptionsForScope, by the scope the row was stored with.
EndSubscriptions(r) ==
    /\ req[r].at = "subs"
    /\ subs' = IF ScopeHasCredential(req[r].dev) THEN subs ELSE {x \in subs : x.scope # req[r].dev}
    /\ Done(r)
    /\ UNCHANGED <<password, nextPw, passkeys, sessions, memVars, reset, mix, ghosts>>

-----------------------------------------------------------------------------
(* Registering passkeys: at setup, by the admin, and through a link        *)

PendingCeremony(rp, scope, link) == [kind |-> "register", rp |-> rp, scope |-> scope, link |-> link]

Challenge(k, rp, scope, link) ==
    pend[k] = NoKey /\ pend' = [pend EXCEPT ![k] = PendingCeremony(rp, scope, link)]

BeginSetupPasskey(k, rp) ==
    /\ "setupPasskey" \in mix /\ ~Configured /\ Challenge(k, rp, "admin", FALSE)
    /\ UNCHANGED <<dbVars, proofs, links, req, reset, mix, ghosts>>

BeginAddPasskey(r, s, rp) ==
    /\ Manage(r, s) /\ Enter(r, "addPasskey", "present", s, rp, "none")
    /\ UNCHANGED <<dbVars, memVars, reset, mix, ghosts>>

BeginPasskeyRegistration(r, k) ==
    /\ req[r].op = "addPasskey" /\ req[r].at = "create"
    /\ Challenge(k, req[r].rp, "admin", FALSE) /\ Done(r)
    /\ UNCHANGED <<dbVars, proofs, links, reset, mix, ghosts>>

Takes(k, c, scope) == RpOf[c] = pend[k].rp /\ pend[k].scope = scope

\* FinishPasskeyRegistration: the challenge taken, the row inserted.
Register(k, c, scope) ==
    /\ pend[k].kind = "register" /\ passkeys[c] = "unused" /\ Takes(k, c, scope)
    /\ pend' = [pend EXCEPT ![k] = [kind |-> "gone"]]
    /\ passkeys' = [passkeys EXCEPT ![c] = scope]
    /\ fromLink' = IF pend[k].link THEN fromLink \cup {c} ELSE fromLink

\* Behind authGuard, with no second proof: the challenge was the proof.
FinishPasskeyRegistration(s, k, c) ==
    /\ MayManage(s) /\ Register(k, c, "admin")
    /\ UNCHANGED <<password, nextPw, sessions, subs, proofs, links, req, reset, mix, spent, signIns>>

\* FinishSetupPasskey reads Configured again ...
SetupChecks(r, prior) ==
    /\ ~Configured /\ Enter(r, "setupPasskey", "setup", prior, "none", "none")
    /\ UNCHANGED <<dbVars, memVars, reset, mix, ghosts>>

\* ... and only then registers and signs in: the install may have been set up in
\* between, and the credential is stored all the same.
FinishSetupPasskey(r, k, c) ==
    /\ req[r].at = "setup" /\ Register(k, c, "admin") /\ LoginFinish(r, c, req[r].sess)
    /\ UNCHANGED <<password, nextPw, sessions, subs, proofs, links, reset, mix, spent, signIns>>

\* No such challenge, or one that was taken and not answered, or not stored.
RefuseSetup(r, k) ==
    /\ req[r].at = "setup" /\ Done(r)
    /\ pend' \in {pend, [pend EXCEPT ![k] = [kind |-> "gone"]]}
    /\ UNCHANGED <<dbVars, proofs, links, reset, mix, ghosts>>

Mint(l, d) == links[l].state = "unused" /\ links' = [links EXCEPT ![l] = [state |-> "live", dev |-> d]]

MintLink(s, l, d) ==
    /\ "enrol" \in mix /\ MayManage(s) /\ Mint(l, d)
    /\ UNCHANGED <<dbVars, pend, proofs, req, reset, mix, ghosts>>

Revoke(l) == links[l].state = "live" /\ links' = [links EXCEPT ![l].state = "revoked"]

RevokeLink(s, l) ==
    /\ MayManage(s) /\ Revoke(l)
    /\ UNCHANGED <<dbVars, pend, proofs, req, reset, mix, ghosts>>

BeginEnrolment(l, k, rp) ==
    /\ links[l].state = "live" /\ Challenge(k, rp, links[l].dev, TRUE)
    /\ UNCHANGED <<dbVars, proofs, links, req, reset, mix, ghosts>>

\* The phone signs in once its link is spent; its cookie may carry a session.
EnrolFinish(r, l, c, prior) ==
    req' = [req EXCEPT ![r] = [Idle EXCEPT !.op = "login", !.at = "spend", !.sess = prior, !.tgt = l, !.subj = c]]

\* FinishEnrolment checks the link again and registers ...
FinishEnrolment(r, l, k, c, prior) ==
    /\ links[l].state = "live" /\ req[r] = Idle /\ Register(k, c, links[l].dev) /\ EnrolFinish(r, l, c, prior)
    /\ UNCHANGED <<password, nextPw, sessions, subs, proofs, links, reset, mix, spent, signIns>>

\* Mutation: Spend is told the link is good because Check said so.
StillLiveSkipped(l) == links[l].state \in {"live", "spent"}
StillLive(l) == links[l].state = "live"

\* ... then spends it: a link spent or revoked meanwhile leaves the credential
\* registered and mints no session.
SpendLink(r) ==
    /\ req[r].at = "spend"
    /\ IF StillLive(req[r].tgt)
       THEN /\ links' = [links EXCEPT ![req[r].tgt].state = "spent"]
            /\ signIns' = [signIns EXCEPT ![req[r].tgt] = @ + 1]
            /\ Step(r, "prior")
       ELSE UNCHANGED <<links, signIns>> /\ Done(r)
    /\ UNCHANGED <<dbVars, pend, proofs, reset, mix, spent, fromLink>>

\* A device's holder subscribes.  The route is open to every session and
\* pushsvc.Subscribe stores no scope, which reads as the admin's.
Subscribe(s) ==
    /\ "subscribe" \in mix /\ Live(s) /\ ScopeOf(s) \in Devices
    /\ subs' = subs \cup {[by |-> ScopeOf(s), scope |-> "admin"]}
    /\ UNCHANGED <<password, nextPw, passkeys, sessions, memVars, req, reset, mix, ghosts>>

-----------------------------------------------------------------------------
(* Expiry, restart, reset                                                  *)

ExpireKey(k) ==
    /\ "expiry" \in mix /\ pend[k].kind \notin {"none", "gone"} /\ pend' = [pend EXCEPT ![k] = [kind |-> "gone"]]
    /\ UNCHANGED <<dbVars, proofs, links, req, reset, mix, ghosts>>
ExpireProof(p) ==
    /\ "expiry" \in mix /\ proofs[p].subj \in Creds /\ proofs' = [proofs EXCEPT ![p].subj = "gone"]
    /\ UNCHANGED <<dbVars, pend, links, req, reset, mix, ghosts>>
ExpireLink(l) ==
    /\ "expiry" \in mix /\ links[l].state = "live" /\ links' = [links EXCEPT ![l].state = "gone"]
    /\ UNCHANGED <<dbVars, pend, proofs, req, reset, mix, ghosts>>

\* Everything in memory goes, requests between two statements included.
Restart ==
    /\ "restart" \in mix
    /\ pend' = [k \in Keys |-> IF pend[k] = NoKey THEN NoKey ELSE [kind |-> "gone"]]
    /\ proofs' = [p \in Proofs |-> IF proofs[p].subj = "unused" THEN proofs[p]
                                   ELSE [proofs[p] EXCEPT !.subj = "gone"]]
    /\ links' = [l \in Links |-> IF links[l].state = "unused" THEN links[l]
                                 ELSE [links[l] EXCEPT !.state = "gone"]]
    /\ sessions' = [s \in Sessions |-> [sessions[s] EXCEPT
          !.excused = @ \/ \E r \in Requests : req[r].at = "sweep" /\ s \in EndedBy(r) \cup {req[r].sess}]]
    /\ req' = [r \in Requests |-> Idle]
    /\ UNCHANGED <<password, nextPw, passkeys, subs, reset, mix, spent, fromLink, signIns>>

\* auth.Reset: three statements, another process.
Reset ==
    /\ "reset" \in mix /\ req' = Racing("cli")
    /\ \/ reset = "no" /\ reset' = "password" /\ password' = 0
          /\ UNCHANGED <<passkeys, sessions>>
       \/ /\ reset = "password" /\ reset' = "passkeys"
          /\ passkeys' = [c \in Creds |-> IF Have(c) THEN "gone" ELSE passkeys[c]]
          /\ UNCHANGED <<password, sessions>>
       \/ /\ reset = "passkeys" /\ reset' = "done"
          /\ sessions' = [s \in Sessions |-> IF Live(s) THEN [sessions[s] EXCEPT !.by = "gone"]
                                                        ELSE sessions[s]]
          /\ UNCHANGED <<password, passkeys>>
    /\ UNCHANGED <<nextPw, subs, memVars, mix, spent, fromLink, signIns>>

-----------------------------------------------------------------------------
SignIn(r) ==
    \/ BeginSetPassword(r) \/ SetPassword(r) \/ Verify(r) \/ DropPrior(r) \/ CreateSession(r)
    \/ \E prior \in {NoSession} \cup {s \in Sessions : Live(s)} :
       \/ BeginLogin(r, prior) \/ SetupChecks(r, prior)
       \/ \E k \in Keys, c \in Creds : FinishPasskeyAssertion(r, k, c, prior)
    \/ \E k \in Keys : RefuseSetup(r, k) \/ \E c \in Creds : FinishSetupPasskey(r, k, c)

Management(r) ==
    \/ Present(r) \/ ChangePassword(r) \/ RemovePassword(r) \/ RemovePasskey(r)
    \/ EndSessions(r) \/ EndSubscriptions(r)
    \/ \E s \in Sessions : BeginChangePassword(r, s)
    \/ \E s \in Sessions, rp \in Rps :
       \/ BeginAddPasskey(r, s, rp) \/ BeginRemovePassword(r, s, rp)
       \/ \E c \in Creds : BeginRemovePasskey(r, s, rp, c)

Ceremonies ==
    \/ \E k \in Keys, rp \in Rps :
       \/ BeginSetupPasskey(k, rp) \/ BeginPasskeyAssertion(k, rp)
       \/ \E l \in Links : BeginEnrolment(l, k, rp)
       \/ \E s \in Sessions, op \in ReauthOps, c \in Creds : BeginReauth(s, k, rp, op, c)
    \/ \E r \in Requests, k \in Keys : BeginPasskeyRegistration(r, k)
    \/ \E r \in Requests, l \in Links, k \in Keys, c \in Creds :
       \E prior \in {NoSession} \cup {s \in Sessions : Live(s)} : FinishEnrolment(r, l, k, c, prior)
    \/ \E r \in Requests : SpendLink(r)
    \/ \E s \in Sessions, k \in Keys, c \in Creds :
       FinishPasskeyRegistration(s, k, c) \/ \E p \in Proofs : FinishReauth(s, k, c, p)
    \/ \E s \in Sessions, l \in Links : RevokeLink(s, l) \/ \E d \in Devices : MintLink(s, l, d)

Environment ==
    \/ \E s \in Sessions : EndSession(s) \/ Subscribe(s)
    \/ \E k \in Keys : ExpireKey(k)
    \/ \E p \in Proofs : ExpireProof(p)
    \/ \E l \in Links : ExpireLink(l)
    \/ Restart \/ Reset

Next == (\E r \in Requests : SignIn(r) \/ Management(r)) \/ Ceremonies \/ Environment

Spec == Init /\ [][Next]_vars

-----------------------------------------------------------------------------
(* Properties                                                              *)

CanSignInAt(rp) == password # 0 \/ AdminAt(rp) # {}

\* A removal that no other removal, change or reset overtook leaves a way to
\* sign in at the origin it was asked at: the refusals of RemovePassword and
\* RemovePasskey hold through the proof and up to the write.
WayInKept ==
    [][\A r \in Requests :
        req[r].at = "write" /\ req'[r].at = "sweep" /\ ~req[r].stale
          /\ req[r].op \in {"removePassword", "removePasskey"} /\ CanSignInAt(req[r].rp)
        => CanSignInAt(req[r].rp)']_vars

\* A proof authorises one request, once, and only the operation, target and
\* session it was minted for, whichever requests race for it.
ProofSpentOnce ==
    [][\A r \in Requests :
        req'[r].proof # req[r].proof /\ req'[r].proof # NoProof
        => LET p == req'[r].proof IN
           p \notin spent /\ proofs[p].op = req[r].op /\ proofs[p].tgt = req[r].tgt
             /\ proofs[p].sess = req[r].sess]_vars

\* A session rests on a credential that still exists, the password it was
\* verified against or a passkey in the table, except: the session that asked
\* for the change, one whose sign-in was under way during it, one the failed
\* sweep was warned of, and while a sweep or a reset is still under way.
SessionBacked ==
    \A s \in Sessions : Live(s) =>
        \/ sessions[s].by = "password" /\ sessions[s].hash = password
        \/ sessions[s].by \in Creds /\ Have(sessions[s].by)
        \/ sessions[s].excused
        \/ \E r \in Requests : req[r].at = "sweep"
        \/ reset \in {"password", "passkeys"}

\* First-run setup never replaces a password: of two setups that both saw an
\* install with none, one stores its hash.
SetupNeverReplaces ==
    [][\A r \in Requests : req[r].op = "setup" /\ req[r].at = "write" /\ req'[r].at = "verify"
                           => password = 0]_vars

\* However the doors are mixed, a challenge begun with an enrolment link never
\* becomes an admin credential.
LinkYieldsScoped == \A c \in fromLink : passkeys[c] # "admin"

\* A link signs in at most once, though two ceremonies begun from it may both
\* register.
LinkSignsInOnce == \A l \in Links : signIns[l] <= 1
\* A link gives what the admin issued it for, and once.
LinkBounded == LinkYieldsScoped /\ LinkSignsInOnce

\* What RemovePasskey's comment says: a subscription ends when its holder has
\* lost every way in.
SubscriptionBacked ==
    \A x \in subs : \/ \E c \in Creds : passkeys[c] = x.by
                    \/ \E r \in Requests : req[r].at \in {"sweep", "subs"} /\ req[r].dev = x.by
-----------------------------------------------------------------------------
(* The inductive invariants behind the theorems                            *)

\* What a sign-in under way, or a session, rests on.
Backed(by, hash) == (by = "password" /\ hash = password /\ hash # 0) \/ (by \in Creds /\ Have(by))
SigningIn(r) == req[r].at \in {"spend", "prior", "create"} /\ req[r].op # "addPasskey"
\* A removal past its refusals, which nothing has overtaken, is still allowed,
\* or there is nothing left to remove.
Removing(r) == req[r].at \in {"present", "write"} /\ ~req[r].stale
RequestAt(r) ==
    /\ req[r].at = "spend" => req[r].tgt \in Links
    /\ SigningIn(r) => /\ req[r].subj # "none"
                       /\ req[r].stale \/ Backed(req[r].subj, req[r].hash)
    /\ req[r].op = "removePasskey" => req[r].tgt \in Creds
    /\ Removing(r) /\ req[r].op = "removePassword" => password = 0 \/ AdminAt(req[r].rp) # {}
    /\ Removing(r) /\ req[r].op = "removePasskey" =>
          \/ passkeys[req[r].tgt] = "gone" \/ Accepts("removePasskey", req[r].rp, req[r].tgt) # {}
RequestsTrue == \A r \in Requests : RequestAt(r)

\* The sweep that will end session s, or has been told to spare it.
Swept(s, r) ==
    /\ req[r].at = "sweep"
    /\ \/ s = req[r].sess
       \/ sessions[s].by = IF req[r].op = "removePasskey" THEN req[r].tgt ELSE "password"
SessionAt(s) ==
    Live(s) => \/ Backed(sessions[s].by, sessions[s].hash) \/ sessions[s].excused
               \/ \E r \in Requests : Swept(s, r)
               \/ reset \in {"password", "passkeys"}
SessionsTrue == \A s \in Sessions : SessionAt(s)

LinksTrue ==
    /\ \A l \in Links : /\ links[l].state = "live" => links[l].dev \in Devices
                        /\ links[l].state \in {"unused", "live"} => signIns[l] = 0
                        /\ signIns[l] <= 1
    /\ \A k \in Keys : pend[k].kind = "register" /\ pend[k].link => pend[k].scope \in Devices
    /\ \A c \in fromLink : passkeys[c] \in Devices \cup {"gone"}

ProofsTrue == \A p \in spent : proofs[p].subj = "gone"
=============================================================================
