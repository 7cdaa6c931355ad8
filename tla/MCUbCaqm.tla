------------------------------ MODULE MCUbCaqm ------------------------------
(***************************************************************************)
(* Instances of UbCaqm: payloads, and byte counts just below their reset.  *)
(***************************************************************************)
EXTENDS UbCaqm

\* Segments whose last packet is half an MTU.
HalfPackets == [n \in 0..MaxPsn |-> 2 * n - (n \div 2)]

\* A new channel, and one whose count is about to be reset.
NewAndOld == {0, ResetThreshold - 3}
=============================================================================
