------------------------------ MODULE ApiGuards ------------------------------
(***************************************************************************)
(* A request on its way through the HTTP API: authGuard, csrfGuard,        *)
(* setupGuard, the scope decision of its route, the device its resource    *)
(* belongs to, and what the handler checks for itself.  Each guard reads   *)
(* the install afresh, which is claimed, given a storage, or loses the     *)
(* caller's session or credential between any two of them.                 *)
(*                                                                         *)
(* A route stands for all those every table decides alike.  The caller is  *)
(* nobody, the admin, or a member whose credential is for one device.      *)
(***************************************************************************)
EXTENDS Naturals, FiniteSets

Principals == {"nobody", "admin", "member"}
Devs == {"own", "other", "none"}

-----------------------------------------------------------------------------
(* The tables                                                              *)

\* authExempt
Exempt == {"health", "status", "login", "setup", "enrol", "https", "certProbe", "certApply",
           "certAnswer", "transport"}
\* isSafeMethod
Safe == {"health", "status", "https", "config", "storages", "zfsHelper", "passkeys", "devices", "device",
         "job", "op", "jobs", "versions", "vaultRead", "versionOverview", "notifications", "enrolments"}
CsrfExempt == {"login", "setup", "enrol", "transport", "certAnswer"}
SetupAllowed == {"health", "status", "login", "setup", "logout", "https", "certProbe", "certApply",
                 "certAnswer", "config", "configPut", "storageAdd", "transport", "storageProbe", "zfsHelper"}

\* routeScope
AdminOnly == {"config", "configPut", "storageAdd", "storageEdit", "transport", "storageProbe", "zfsHelper",
              "recheck", "https", "certProbe", "certApply", "certAnswer", "passkeys", "credentials",
              "devices", "rescan", "enrolments", "enrolmentEdit", "versionDelete"}
ScopedOwnDevice == {"device", "deviceOp", "deviceNotify", "job", "jobCancel", "op", "jobCreate",
                    "unlock", "lock", "vaultRead", "versionOverview"}
ScopedFiltered == {"jobs", "versions"}
ScopedProjection == {"storages"}
OpenToAll == {"health", "status", "login", "setup", "enrol", "logout", "notifications", "notify", "unknown"}
Routes == AdminOnly \cup ScopedOwnDevice \cup ScopedFiltered \cup ScopedProjection \cup OpenToAll

\* enforcesItsOwnPrincipal: refused once claimed, checked in the handler, or
\* readable by anybody.
OnceOnly == {"setup", "certProbe", "certApply", "certAnswer"}
EnforcesItsOwn == (OnceOnly \ {"setup"}) \cup {"transport", "https"}

\* resourceDevice: where a route finds its device.
ByPath == {"device", "deviceOp", "deviceNotify"}
ByLookup == {"job", "jobCancel", "op", "unlock", "lock", "vaultRead", "versionOverview"}
ByBody == {"jobCreate"}
Resolvable == ByPath \cup ByBody \cup ByLookup

\* What NewRouter refuses to be built without: a decision for every route, a
\* resolver or a refusal for each that needs one, and a check in the handler of
\* each exempt route whose decision no guard can apply.
ASSUME RoutesDecided ==
    /\ Cardinality(Routes) = Cardinality(AdminOnly) + Cardinality(ScopedOwnDevice) + Cardinality(ScopedFiltered)
                             + Cardinality(ScopedProjection) + Cardinality(OpenToAll)
    /\ ScopedOwnDevice \subseteq ByPath \cup ByBody \cup ByLookup
    /\ (Exempt \ OpenToAll) \subseteq EnforcesItsOwn

-----------------------------------------------------------------------------
VARIABLES
    inst,   \* claimed, storage declared; the caller's session and credential, the named resource
    http    \* the request: what it is, where it is, what it was bound to, and its outcome

apiVars == <<inst, http>>

NoRequest == [route |-> "health", by |-> "nobody", token |-> FALSE, dev |-> "none", query |-> "all", at |-> "none",
              bound |-> FALSE, used |-> FALSE, saw |-> {}, told |-> "none", late |-> FALSE, claimed |-> FALSE]

Stages == {"none", "auth", "csrf", "setup", "scope", "resource", "handler", "own", "act", "ran",
           "unauthorized", "csrf_refused", "storage_required", "forbidden", "already_configured", "not_found"}
Tells == {"none", "needs_setup", "needs_login", "admin", "member", "choices", "full"}
Installs == [claimed : BOOLEAN, storage : BOOLEAN, session : BOOLEAN, cred : BOOLEAN, there : BOOLEAN]
ApiTypeOK ==
    /\ inst \in Installs
    /\ http \in [route : Routes, by : Principals, token : BOOLEAN, dev : Devs, query : {"own", "other", "all"},
                 at : Stages, bound : BOOLEAN, used : BOOLEAN, saw : SUBSET {"own", "other"}, told : Tells,
                 late : BOOLEAN, claimed : BOOLEAN]

\* A member was enrolled by an admin: the install is claimed.
ApiInit ==
    /\ inst \in [claimed : BOOLEAN, storage : BOOLEAN, session : {TRUE}, cred : BOOLEAN, there : BOOLEAN]
    /\ \E r \in Routes, c \in Principals, t \in BOOLEAN, d \in Devs, q \in {"own", "other", "all"} :
          http = [NoRequest EXCEPT !.at = "auth", !.route = r, !.by = c, !.token = t, !.dev = d, !.query = q,
                                   !.late = ~inst.cred, !.claimed = inst.claimed]
    /\ http.by # "nobody" => inst.claimed
    /\ inst.cred \/ http.by = "member"
    /\ http.route \in ScopedOwnDevice \/ http.dev = "none"
    /\ http.dev = "none" => http.route \notin ByPath \cup ByLookup
    /\ http.route \in ScopedFiltered \/ http.query = "all"
    /\ http.route \in ByLookup \/ inst.there
    /\ http.route \in Safe => ~http.token
ApiOff == inst = [claimed |-> FALSE, storage |-> FALSE, session |-> FALSE, cred |-> TRUE, there |-> TRUE] /\ http = NoRequest

To(at) == http' = [http EXCEPT !.at = at] /\ UNCHANGED inst
Refuse(code) == To(code)

\* Authenticate: a session that has not ended.
Authenticated == http.by # "nobody" /\ inst.session
\* ScopeOf: the admin's is empty, and a credential that is gone is an error.
ScopeIs == IF http.by # "member" THEN "admin" ELSE IF inst.cred THEN "member" ELSE "revoked"

-----------------------------------------------------------------------------
(* The guards                                                              *)

AuthGuard ==
    /\ http.at = "auth"
    /\ \/ http.route \in Exempt /\ To("csrf")
       \/ http.route \notin Exempt /\ Authenticated
          /\ http' = [http EXCEPT !.at = "csrf", !.bound = TRUE, !.used = TRUE] /\ UNCHANGED inst
       \/ http.route \notin Exempt /\ ~Authenticated /\ Refuse("unauthorized")

CsrfGuard ==
    /\ http.at = "csrf"
    /\ IF http.route \in Safe \cup CsrfExempt \/ http.token THEN To("setup") ELSE Refuse("csrf_refused")

SetupGuard ==
    /\ http.at = "setup"
    /\ IF inst.storage \/ http.route \in SetupAllowed THEN To("scope") ELSE Refuse("storage_required")

\* The class decides; without a principal there is nobody to decide about.
ScopeGuard ==
    /\ http.at = "scope"
    /\ \/ ~(http.bound /\ http.route \in AdminOnly \cup ScopedOwnDevice) /\ To("handler")
       \/ /\ http.bound /\ http.route \in AdminOnly \cup ScopedOwnDevice
          /\ \/ ScopeIs = "revoked" /\ Refuse("unauthorized")
             \/ ScopeIs = "admin" /\ To("handler")
             \/ ScopeIs = "member" /\ http.route \in AdminOnly /\ Refuse("forbidden")
             \/ ScopeIs = "member" /\ http.route \in ScopedOwnDevice /\ To("resource")

\* The device in the path, in the body if it parses, or of what the path names.
Found == http.dev # "none" /\ (http.route \in ByLookup => inst.there)
ResourceGuard ==
    /\ http.at = "resource"
    /\ IF http.route \in Resolvable /\ Found /\ http.dev = "own" THEN To("handler") ELSE Refuse("forbidden")

-----------------------------------------------------------------------------
(* What the handlers check themselves                                      *)

Gated == OnceOnly

\* Mutation: the query is honoured when there is one.
ListUDIDDefaults == IF http.query # "all" \/ ScopeIs = "admin" THEN http.query ELSE "own"
\* listUDID: a member's filter is forced, not defaulted.
ListUDID == IF ScopeIs = "admin" THEN http.query ELSE "own"
Rows(udid) == IF udid = "all" THEN {"own", "other"} ELSE {udid}

Ran(saw, told) == http' = [http EXCEPT !.at = "ran", !.saw = saw, !.told = told] /\ UNCHANGED inst

Listing ==
    /\ http.route \in ScopedFiltered
    /\ IF ScopeIs = "revoked" THEN Refuse("unauthorized") ELSE Ran(Rows(ListUDID), "none")
\* handleStorages: a caller it cannot place gets the short list.
Storages == http.route \in ScopedProjection /\ Ran({}, IF ScopeIs = "admin" THEN "full" ELSE "choices")
\* authStatusFor: a session that has ended, or whose credential is gone, is to
\* sign in again.
Status ==
    /\ http.route = "status"
    /\ Ran({}, IF ~inst.claimed THEN "needs_setup" ELSE IF ~Authenticated \/ ScopeIs = "revoked" THEN "needs_login" ELSE ScopeIs)
\* callerScope, for the owner of the row that is written.
Notify == http.route = "deviceNotify" /\ IF ScopeIs = "revoked" THEN Refuse("unauthorized") ELSE Ran({http.dev}, "none")
Everyones == {"devices", "versionDelete", "enrolments", "enrolmentEdit", "rescan"}
\* Whatever else reads or changes one device, or all of them.
Plain ==
    /\ http.route \notin ScopedFiltered \cup ScopedProjection \cup OnceOnly \cup {"status", "deviceNotify", "transport"}
    /\ \/ http.route \in ScopedOwnDevice /\ Found /\ Ran({http.dev}, "none")
       \/ http.route \in ScopedOwnDevice /\ ~Found /\ Refuse("not_found")
       \/ http.route \in Everyones /\ Ran({"own", "other"}, "none")
       \/ http.route \notin ScopedOwnDevice \cup Everyones /\ Ran({}, "none")
Once ==
    /\ http.route \in OnceOnly
    /\ IF http.route \in Gated /\ inst.claimed THEN Refuse("already_configured") ELSE To("act")
\* handleInsecureTransportSet: open until the install is claimed, the admin's after.
Transport == http.route = "transport" /\ To(IF inst.claimed THEN "own" ELSE "act")
Handler == http.at = "handler" /\ (Listing \/ Storages \/ Status \/ Notify \/ Plain \/ Once \/ Transport)

\* Mutation: the exemption from the token is inherited.
TransportChecksExempt == ScopeIs = "admin"
TransportChecks == ScopeIs = "admin" /\ http.token
TransportOwn ==
    /\ http.at = "own"
    /\ \/ ~Authenticated /\ Refuse("already_configured")
       \/ Authenticated /\ ~TransportChecks /\ Refuse("forbidden")
       \/ Authenticated /\ TransportChecks /\ http' = [http EXCEPT !.at = "act", !.used = TRUE] /\ UNCHANGED inst
Act == http.at = "act" /\ Ran({}, "none")

-----------------------------------------------------------------------------
(* Meanwhile                                                               *)

Pending == http.at \in {"auth", "csrf", "setup", "scope", "resource", "handler", "own", "act"}
Becomes(new) == Pending /\ inst' = new /\ UNCHANGED http
ClaimInstall == ~inst.claimed /\ Becomes([inst EXCEPT !.claimed = TRUE])
DeclareStorage == Becomes([inst EXCEPT !.storage = ~@])
SessionEnds == inst.session /\ http.by # "nobody" /\ Becomes([inst EXCEPT !.session = FALSE])
CredentialGoes == inst.cred /\ http.by = "member" /\ Becomes([inst EXCEPT !.cred = FALSE])
ResourceGoes == inst.there /\ http.route \in ByLookup /\ Becomes([inst EXCEPT !.there = FALSE])

ApiNext == \/ AuthGuard \/ CsrfGuard \/ SetupGuard \/ ScopeGuard \/ ResourceGuard
           \/ Handler \/ TransportOwn \/ Act
           \/ ClaimInstall \/ DeclareStorage \/ SessionEnds \/ CredentialGoes \/ ResourceGoes
ApiSpec == ApiInit /\ [][ApiNext]_apiVars

-----------------------------------------------------------------------------
(* Properties                                                              *)

\* Whatever a member asks for, and whatever changes while it is asked for, no
\* handler shows or changes a device that is not theirs.
OwnDeviceOnly == (http.at = "ran" /\ http.by = "member") => http.saw \subseteq {"own"}

\* A credential that was gone when the request came is nobody's: no device is
\* shown, the storages are the short list, and the status does not say admin.
RevokedRefused ==
    (http.at = "ran" /\ http.by = "member" /\ http.late) =>
        /\ http.route \notin (AdminOnly \ Exempt) \cup ScopedOwnDevice \cup ScopedFiltered
        /\ http.told \notin {"full", "admin", "member"}

\* Without a session nothing is changed on an install that was claimed when the
\* request came, except by signing in or by a link.
UnclaimedWrites ==
    (http.at = "ran" /\ http.by = "nobody" /\ http.route \notin Safe \cup {"login", "enrol"}) => ~http.claimed

\* What is changed on the strength of a session carried the session's token,
\* also where the route is exempt because most of its callers have none.
SessionNeedsToken == (http.at = "ran" /\ http.used /\ http.route \notin Safe) => http.token

\* A member is not told that their own device is out of their reach, unless
\* what they named is gone or the credential is.
OwnGranted ==
    (http.at = "forbidden" /\ http.by = "member" /\ http.route \in ScopedOwnDevice /\ http.dev = "own") =>
        ~inst.there \/ ~inst.cred

\* A scope is neither wider nor narrower than its device, at whichever of the
\* guards the credential or the resource goes.
ScopeHolds == OwnDeviceOnly /\ RevokedRefused /\ OwnGranted
\* Every change has somebody who may make it: the routes that are open before
\* the claim are not open after it, nor to a session without its token.
WritesHeld == UnclaimedWrites /\ SessionNeedsToken

-----------------------------------------------------------------------------
(* The inductive invariant behind ScopeHolds and WritesHeld                *)

\* What was so when the request came is still so: an install is not unclaimed, a
\* credential does not come back, and a path names what it names.
CameTrue ==
    /\ http.route \in ByPath => http.dev # "none"
    /\ http.late => ~inst.cred /\ http.by = "member"
    /\ http.claimed \/ http.by # "nobody" => inst.claimed

\* What each guard has established for those behind it.
Past == {"csrf", "setup", "scope", "resource", "handler", "own", "act", "ran"}
GuardsTrue ==
    /\ http.bound => http.by # "nobody" /\ http.route \notin Exempt
    /\ http.used /\ ~http.bound => http.by # "nobody" /\ http.token /\ http.route = "transport"
    /\ http.at \in Past /\ http.route \notin Exempt => http.bound
    /\ http.at \in Past \ {"csrf"} => http.route \in Safe \cup CsrfExempt \/ http.token

\* Whoever is behind the scope guard is the admin, or a member at their own device.
PlacesTrue ==
    /\ http.at = "resource" => http.by = "member" /\ ~http.late /\ http.route \in ScopedOwnDevice
    /\ http.at \in {"handler", "ran"} /\ http.bound /\ http.route \in AdminOnly \cup ScopedOwnDevice =>
          http.by = "admin" \/ (~http.late /\ http.route \in ScopedOwnDevice /\ http.dev = "own")
    /\ http.at = "own" => http.route = "transport"
    /\ http.at = "act" => http.route \in OnceOnly \cup {"transport"} /\ (http.claimed => http.used)

ApiInv == ApiTypeOK /\ CameTrue /\ GuardsTrue /\ PlacesTrue /\ ScopeHolds /\ WritesHeld
=============================================================================
