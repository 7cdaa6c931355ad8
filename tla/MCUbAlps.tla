------------------------------ MODULE MCUbAlps ------------------------------
(***************************************************************************)
(* Instances of UbAlps: what the TPs send and what goes wrong.             *)
(***************************************************************************)
EXTENDS UbAlps

CONSTANTS t1, t2, p1, p2

Base == [load |-> t1 :> <<2>> @@ t2 :> <<>>, tpLimit |-> 0, pathLimit |-> 0,
         remove |-> FALSE, dataLoss |-> 0, ackLoss |-> 0, early |-> 0]

\* One TP: a loss, in-flight limits of one packet, a lost ack, an early timeout.
Alone == [Base EXCEPT !.load = t1 :> <<1, 2>> @@ t2 :> <<>>, !.dataLoss = 1]
Limited == [Alone EXCEPT !.tpLimit = 1, !.pathLimit = 1]
Deaf == [Alone EXCEPT !.ackLoss = 1]
Late == [Alone EXCEPT !.load = t1 :> <<1, 1>> @@ t2 :> <<>>, !.early = 1]

\* Two TPs on the same paths; TPs that are removed once their tasks end.
Shared == [Limited EXCEPT !.load = t1 :> <<1>> @@ t2 :> <<1>>]
Removed == [Shared EXCEPT !.load = t1 :> <<2>> @@ t2 :> <<1>>, !.remove = TRUE]

Spraying == {Alone, Limited, Deaf, Late, Shared, Removed}

\* Two TPs, and a packet that is lost twice.
LostTwice == {[Base EXCEPT !.load = t1 :> <<2>> @@ t2 :> <<2>>, !.dataLoss = 2]}
=============================================================================
