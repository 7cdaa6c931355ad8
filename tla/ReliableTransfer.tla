-------------------------- MODULE ReliableTransfer --------------------------
(***************************************************************************)
(* What a transport channel promises to the transaction layer: the packets *)
(* it accepts are delivered in the order it numbered them, and confirmed   *)
(* to the sender only when delivered.                                      *)
(***************************************************************************)
EXTENDS Naturals

VARIABLES
    accepted,   \* packets handed to the channel
    delivered,  \* packets delivered in sequence
    confirmed   \* packets the sender knows to be delivered

vars == <<accepted, delivered, confirmed>>

Init == accepted = 0 /\ delivered = 0 /\ confirmed = 0

\* The upper layer hands packets to the channel.
Accept ==
    /\ accepted' \in Nat /\ accepted' > accepted
    /\ UNCHANGED <<delivered, confirmed>>

\* Packets become available in sequence at the receiver.
Deliver ==
    /\ delivered' \in (delivered + 1)..accepted
    /\ UNCHANGED <<accepted, confirmed>>

\* The sender learns that packets have been delivered.
Confirm ==
    /\ confirmed' \in (confirmed + 1)..delivered
    /\ UNCHANGED <<accepted, delivered>>

Next == Accept \/ Deliver \/ Confirm

Spec == Init /\ [][Next]_vars

FairSpec == Spec /\ WF_vars(Deliver) /\ WF_vars(Confirm)
=============================================================================
