--------------------------- MODULE UbFlowControl ---------------------------
(***************************************************************************)
(* The flow control objects of a port (UbFlowControl and its subclasses),  *)
(* as operators on the record that stands for the object's fields:         *)
(*                                                                         *)
(*   txfree    m_crdTxfree, cells the port may still send, per VL          *)
(*   toReturn  m_crdToReturn, cells received and not yet given back        *)
(*   share     m_shareCrd, the pool of the shared-credit mode              *)
(*   open      m_portCredits, zero for a VL that the peer has paused       *)
(*   snd       m_pfcSndCredits, what the port would tell its peer          *)
(*   last      m_pfcLastSndCredits, what it told its peer last             *)
(*                                                                         *)
(* A handler that may send a control frame returns the record with the     *)
(* credits of the frame, or with NoFrame.                                  *)
(***************************************************************************)
EXTENDS Integers, FiniteSetsExt, Functions

CONSTANTS
    VlNum,      \* g_ub_vl_num
    CellBytes,  \* m_flitLen * m_nFlitPerCell
    Grain,      \* m_retCellGrainControlPacket, cells a returned credit is worth
    CreditMod,  \* 2^6: the control header has 6 bits for the credits of a VL
    InitCrd,    \* m_cbfcPortTxfree, the reserved cells of each VL
    SharedCrd,  \* m_cbfcSharedInitCells
    PfcUpThld,  \* m_portpfcUpThld
    PfcLowThld, \* m_portpfcLowThld
    CtrlBytes   \* size of a control credit frame

ASSUME FlowControlAssumption ==
    /\ VlNum \in Nat \ {0} /\ CellBytes \in Nat \ {0}
    /\ Grain \in Nat \ {0} /\ CreditMod \in Nat \ {0, 1}
    /\ InitCrd \in Nat /\ SharedCrd \in Nat
    /\ PfcUpThld \in Nat /\ PfcLowThld \in Nat /\ CtrlBytes \in Nat \ {0}

VLs == 0 .. VlNum - 1

\* FcType; the attribute FlowControl of UbSwitch gives all its ports one of them.
FcTypes == {"NONE", "CBFC", "CBFC_SHARED", "PFC"}
CreditTypes == {"CBFC", "CBFC_SHARED"}

\* UB_CREDIT_MAX_VALUE
CreditMax == CreditMod - 1

NoFrame == [vl \in {} |-> 0]

FlowControlInit ==
    [txfree |-> [vl \in VLs |-> InitCrd], toReturn |-> [vl \in VLs |-> 0],
     share |-> SharedCrd,
     open |-> [vl \in VLs |-> CreditMax],
     snd |-> [vl \in VLs |-> CreditMax], last |-> [vl \in VLs |-> CreditMax]]

\* Cells a packet of that many bytes takes, the last one perhaps in part.
Cells(bytes) == (bytes + CellBytes - 1) \div CellBytes

-----------------------------------------------------------------------------
(* The sending side.                                                       *)

\* A queue is [type, out, vl, in]; no packet is generated on VL 0 but control.
IsControlFrame(q) == q.vl = 0 /\ q.in = q.out

IsGeneratedDataPacketMutant(q) == FALSE

IsGeneratedDataPacket(q) == q.vl # 0 /\ q.in = q.out

IsFcLimitedMutant(mode, fc, q, bytes) == FALSE

\* IsFcLimited of each class; the size is what GetNextPacketSize announces.
IsFcLimited(mode, fc, q, bytes) ==
    /\ ~(q.type = "VOQ" /\ IsControlFrame(q))
    /\ \/ mode = "CBFC" /\ fc.txfree[q.vl] < Cells(bytes)
       \/ mode = "CBFC_SHARED" /\ fc.share + fc.txfree[q.vl] < Cells(bytes)
       \/ mode = "PFC" /\ fc.open[q.vl] = 0

\* The packet is sent also when its credits are not there to be taken.
CbfcConsumeCrd(fc, vl, bytes) ==
    IF fc.txfree[vl] >= Cells(bytes)
    THEN [fc EXCEPT !.txfree[vl] = @ - Cells(bytes)]
    ELSE fc

\* The pool first, then the credits of the VL, which stop at zero.
CbfcSharedConsumeCrd(fc, vl, bytes) ==
    LET fromPool == Min({fc.share, Cells(bytes)})
        fromVl   == Min({fc.txfree[vl], Cells(bytes) - fromPool})
    IN  [fc EXCEPT !.share = @ - fromPool, !.txfree[vl] = @ - fromVl]

\* Nothing is taken for a queue that looks like the one of the control frames.
HandleSentPacket(mode, fc, q, vl, bytes) ==
    IF IsControlFrame(q) THEN fc
    ELSE CASE mode = "CBFC" -> CbfcConsumeCrd(fc, vl, bytes)
           [] mode = "CBFC_SHARED" -> CbfcSharedConsumeCrd(fc, vl, bytes)
           [] OTHER -> fc

CbfcRestoreCrd(fc, credits) ==
    [fc EXCEPT !.txfree = [vl \in VLs |-> @[vl] + credits[vl] * Grain]]

\* The pool takes all that returns, then fills the VLs up to their reserve,
\* lowest first, as far as it goes.
CbfcSharedRestoreCrd(fc, credits) ==
    LET returned == SumFunction(credits) * Grain
        pool     == fc.share + returned
        need     == [vl \in VLs |-> Max({0, InitCrd - fc.txfree[vl]})]
        give     == [vl \in VLs |->
                       Min({need[vl], Max({0, pool - SumFunctionOnSet(need, 0 .. vl - 1)})})]
    IN  IF returned = 0 THEN fc
        ELSE [fc EXCEPT !.share = pool - SumFunction(give),
                        !.txfree = [vl \in VLs |-> @[vl] + give[vl]]]

\* HandleReceivedControlPacket of each class.
HandleReceivedControlPacket(mode, fc, credits) ==
    CASE mode = "CBFC" -> CbfcRestoreCrd(fc, credits)
      [] mode = "CBFC_SHARED" -> CbfcSharedRestoreCrd(fc, credits)
      [] mode = "PFC" -> [fc EXCEPT !.open = credits]
      [] OTHER -> fc

-----------------------------------------------------------------------------
(* The receiving side.                                                     *)

ReleaseOccupiedCrdMutant(fc, vl, bytes) ==
    LET due    == [fc.toReturn EXCEPT ![vl] = @ + Cells(bytes)]
        grains == [w \in VLs |-> due[w] \div Grain]
    IN  [fc    |-> [fc EXCEPT !.toReturn = [w \in VLs |-> 0]],
         frame |-> IF \E w \in VLs : grains[w] > 0
                   THEN [w \in VLs |-> grains[w] % CreditMod] ELSE NoFrame]

\* Whole grains are told and subtracted, but only 6 bits of them fit the frame.
ReleaseOccupiedCrd(fc, vl, bytes) ==
    LET due    == [fc.toReturn EXCEPT ![vl] = @ + Cells(bytes)]
        grains == [w \in VLs |-> due[w] \div Grain]
    IN  [fc    |-> [fc EXCEPT !.toReturn = [w \in VLs |-> due[w] % Grain]],
         frame |-> IF \E w \in VLs : grains[w] > 0
                   THEN [w \in VLs |-> grains[w] % CreditMod] ELSE NoFrame]

\* As below, but what was told is not noted.
CheckPfcThresholdMutant(fc, used) ==
    LET snd == [vl \in VLs |->
                  CASE used[vl] >= PfcUpThld -> 0
                    [] used[vl] < PfcLowThld -> CreditMax
                    [] OTHER -> fc.snd[vl]]
    IN  [fc    |-> [fc EXCEPT !.snd = snd],
         frame |-> IF snd = fc.snd THEN NoFrame ELSE snd]

\* Bytes used per VL are unsigned: below zero they are above every threshold.
CheckPfcThreshold(fc, used) ==
    LET snd == [vl \in VLs |->
                  CASE used[vl] < 0 \/ used[vl] >= PfcUpThld -> 0
                    [] used[vl] \in 0 .. PfcLowThld - 1
                       /\ used[vl] < PfcUpThld -> CreditMax
                    [] OTHER -> fc.snd[vl]]
    IN  IF snd = fc.last
        THEN [fc |-> [fc EXCEPT !.snd = snd], frame |-> NoFrame]
        ELSE [fc |-> [fc EXCEPT !.snd = snd, !.last = snd], frame |-> snd]
=============================================================================
