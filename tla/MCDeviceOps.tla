---------------------------- MODULE MCDeviceOps ----------------------------
EXTENDS DeviceOps, CertTrial

Kinds(a, b) == [i \in Ids |-> IF i = "o1" THEN a ELSE b]

\* Two operations against each other and the driver; an operation against a
\* preflight's probe; and the readers alone, with cables coming and going.
NoOps == [kinds |-> Kinds({}, {}), readers |-> {}, moves |-> 0]
MCMixes ==
    {[kinds |-> Kinds({"pair"}, {"wifi_sync"}), readers |-> {}, moves |-> 1],
     [kinds |-> Kinds({"encryption"}, {"wifi_sync"}), readers |-> {}, moves |-> 0],
     [kinds |-> Kinds({"wifi_sync"}, {}), readers |-> {"d1"}, moves |-> 1],
     [kinds |-> Kinds({"encryption"}, {}), readers |-> {"probe"}, moves |-> 2],
     [kinds |-> Kinds({}, {}), readers |-> {"d1", "d2", "probe"}, moves |-> 3],
     NoOps}

\* The certificate trial, in behaviours of its own: the other part of the API
\* whose requests meet a timer and a file that changes under them.
Tried(n, may) == [trials |-> n, may |-> may]
MCCertMixes == {Tried(2, {}), Tried(1, {"rewrite"}), Tried(1, {"edit"}), Tried(0, {"edit", "rewrite"}),
                Tried(1, {"claim", "unsaved", "restart"})}
NoCerts == Tried(0, {})
MCNoCerts == {NoCerts}
MCTwoTrials == {Tried(2, {})}
MCEdited == {Tried(1, {"edit"})}
MCRenewed == {Tried(0, {"rewrite"})}
MCOnlyCerts == {NoOps}

Alone == mix = NoOps
Fixed == dev.here = {} /\ ~dev.paired /\ ident = Unread
\* The two pairs are alike: config.yml names none of them or the first.
ServedInit ==
    /\ Init
    /\ \/ ~Alone /\ CertInit({NoCerts}) /\ named = Off /\ \A p \in Pairs : disk[p].is = "good"
       \/ Alone /\ Fixed /\ CertInit(CertMixes) /\ named # "q" /\ disk["p"].is = "good"
ServedNext == \/ ~Alone /\ Next /\ UNCHANGED certVars
              \/ Alone /\ CertNext /\ UNCHANGED <<vars, mix>>
ServedSpec == ServedInit /\ [][ServedNext]_<<vars, mix, certVars>> /\ Fairness /\ CertFairness
=============================================================================
