------------------------------ MODULE MCUbTask ------------------------------
(***************************************************************************)
(* An instance of UbTask: two WQE tasks that share a TP, two memory tasks, *)
(* and traffic files that order them in different ways.                    *)
(***************************************************************************)
EXTENDS UbTask

CONSTANTS w1, w2, m1, m2, t1, t2

SharedPath == w1 :> <<t1, t2>> @@ w2 :> <<t2>>

TwoThreads == <<0, 1>>

OneLoadTwoStores == [type \in Types |-> IF type = "LOAD" THEN 1 ELSE 2]

\* Of m1 a thread sends two packets, of m2 one.
FiveAndTwo == m1 :> 5 @@ m2 :> 2

\* Phase 0 before phase 1, whose tasks come first in the file.
InOrder(first, second) ==
    [order |-> second \o first,
     phase |-> [k \in Tasks |-> IF k \in ToSet(second) THEN 1 ELSE 0],
     dependOn |-> [k \in Tasks |-> IF k \in ToSet(second) THEN {0} ELSE {}]]

TrafficFiles == {InOrder(<<w1, w2>>, <<m1>>), InOrder(<<m1, m2>>, <<w2>>), InOrder(<<w1, m1>>, <<w2>>)}
=============================================================================
