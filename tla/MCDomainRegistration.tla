------------------------- MODULE MCDomainRegistration -------------------------
(* Small instances of DomainRegistration.                                  *)
EXTENDS DomainRegistration, TLC

CONSTANTS r1, r2, r3, v1, v2, v3, s1, s2, d1, d2, a1, c1, k1, hostA, hostB

\* Every version moves something: v1 has one server, v2 two in a cluster,
\* v3 drops the first server and a datasource.
NewConfig ==
    v1 :> [new |-> TRUE, servers |-> {s1}, databases |-> {d1},
           uses |-> s1 :> {d1} @@ s2 :> {}, apps |-> {a1},
           targets |-> a1 :> {s1}, onClusters |-> a1 :> {}, members |-> k1 :> {},
           conns |-> s1 :> {c1} @@ s2 :> {}]
 @@ v2 :> [new |-> TRUE, servers |-> {s1, s2}, databases |-> {d1, d2},
           uses |-> s1 :> {d2} @@ s2 :> {d1, d2}, apps |-> {a1},
           targets |-> a1 :> {}, onClusters |-> a1 :> {k1}, members |-> k1 :> {s1, s2},
           conns |-> s1 :> {} @@ s2 :> {c1}]
 @@ v3 :> [new |-> TRUE, servers |-> {s2}, databases |-> {d2},
           uses |-> s1 :> {} @@ s2 :> {}, apps |-> {},
           targets |-> a1 :> {}, onClusters |-> a1 :> {}, members |-> k1 :> {},
           conns |-> s1 :> {} @@ s2 :> {}]

\* An upgrade from JEUSMain.xml, whose connectors come from WEBMain.xml, to
\* domain.xml: the first server is gone, the second has another datasource.
UpgradeConfig ==
    v1 :> [new |-> FALSE, servers |-> {s1, s2}, databases |-> {d1},
           uses |-> s1 :> {} @@ s2 :> {}, apps |-> {a1},
           targets |-> a1 :> {s1, s2}, onClusters |-> a1 :> {}, members |-> k1 :> {},
           conns |-> s1 :> {} @@ s2 :> {}]
 @@ v2 :> [new |-> TRUE, servers |-> {s2}, databases |-> {d1, d2},
           uses |-> s1 :> {} @@ s2 :> {d2}, apps |-> {a1},
           targets |-> a1 :> {}, onClusters |-> a1 :> {k1}, members |-> k1 :> {s2},
           conns |-> s1 :> {} @@ s2 :> {c1}]

SentThree == r1 :> v1 @@ r2 :> v2 @@ r3 :> v3
SentTwo == r1 :> v1 @@ r2 :> v2
FromThree == r1 :> hostA @@ r2 :> hostB @@ r3 :> hostA
FromTwo == r1 :> hostA @@ r2 :> hostA
=============================================================================
