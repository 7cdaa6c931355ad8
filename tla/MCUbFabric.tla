----------------------------- MODULE MCUbFabric -----------------------------
(***************************************************************************)
(* Instances of UbFabric: two devices, a and b, at a switch s.             *)
(*                                                                         *)
(*       a 1 ------ 2 s 3 ------ 4 b                                       *)
(***************************************************************************)
EXTENDS UbFabric

ChainPorts   == 1 .. 4
ChainNodeOf  == <<"a", "s", "s", "b">>
ChainPeer    == <<2, 1, 4, 3>>
ChainDevices == {"a", "b"}
ChainRoute   == [n \in {"a", "s", "b"} |-> [dst \in {"a", "b"} |->
                    CASE n = "a" -> 1 [] n = "b" -> 4
                      [] n = "s" /\ dst = "a" -> 2 [] n = "s" /\ dst = "b" -> 3]]

\* Work of a for b; announced is what GetNextPacketSize says of bytes.
Work(via, vl, bytes, announced) ==
    [src |-> 1, dst |-> "b", vl |-> vl, bytes |-> bytes, announced |-> announced,
     via |-> via]

\* Packets of three cells and of one; a VOQ announces the size of a frame.
ThreeFlows == <<Work("TP", 1, 6, 6), Work("TP", 1, 2, 2), Work("LDST", 1, 2, 1)>>
Loads == {<<"CBFC", <<2, 0, 0>>>>, <<"CBFC_SHARED", <<2, 0, 0>>>>,
          <<"PFC", <<0, 0, 3>>>>, <<"NONE", <<1, 2, 1>>>>}

\* A network header of one byte makes the packet one cell longer than announced.
LongHeaders == <<Work("TP", 1, 3, 2)>>
ThreeUnderCredits == {<<"CBFC", <<3>>>>}

\* The instance without long headers meets the conditions of the proofs.
ASSUME ConditionsMet ==
    Flows = ThreeFlows =>
        NoWorkOnVlZero /\ RoomForThree /\ CreditsTaken /\ BufferHoldsCredits
=============================================================================
