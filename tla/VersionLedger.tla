--------------------------- MODULE VersionLedger ---------------------------
(***************************************************************************)
(* What a storage promises about one device's versions, whatever the       *)
(* backend: a version enters the ledger once, whole; it leaves only after  *)
(* a user or the retention policy condemned it; it never changes and never *)
(* returns.                                                                *)
(***************************************************************************)
CONSTANT Versions

VARIABLES
    kept,       \* versions whose verified content is on the storage
    ever,       \* versions ever committed
    condemned   \* versions a user or retention asked to delete

ledgerVars == <<kept, ever, condemned>>

Init == kept = {} /\ ever = {} /\ condemned = {}

Commit(v) == /\ v \notin ever
             /\ kept' = kept \cup {v} /\ ever' = ever \cup {v}
             /\ UNCHANGED condemned

\* Retention condemns a batch, a user one version.
Condemn(S) == condemned' = condemned \cup S /\ UNCHANGED <<kept, ever>>

Drop(v) == /\ v \in kept \cap condemned
           /\ kept' = kept \ {v}
           /\ UNCHANGED <<ever, condemned>>

Next == \/ \E v \in Versions : Commit(v) \/ Drop(v)
        \/ \E S \in SUBSET Versions : Condemn(S)

Spec == Init /\ [][Next]_ledgerVars
=============================================================================
