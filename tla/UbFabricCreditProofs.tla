------------------------ MODULE UbFabricCreditProofs ------------------------
(***************************************************************************)
(* Proofs about the credits of UbFabric, for every fabric and value of its *)
(* constants: on every link they are conserved, and no buffer overflows.   *)
(*                                                                         *)
(* Between two states of the nodes the cells that a port is to get back    *)
(* shift from one place to another: to the line, to a VOQ of the peer, to  *)
(* its notes and to the frames on their way back.  Each relation of        *)
(* UbFabricProofs is shown to shift so many cells, and the shifts of an    *)
(* action to add up to the credits it takes or restores.                   *)
(***************************************************************************)
EXTENDS UbFabricProofs

-----------------------------------------------------------------------------
(* Cells of data packets, and credits of frames, in a queue.               *)

CellsOf(vl, pkt) == IF IsData(pkt) /\ Flows[pkt.flow].vl = vl THEN Cells(Bytes(pkt)) ELSE 0
CreditsOf(vl, pkt) == IF IsData(pkt) THEN 0 ELSE pkt.credits[vl]

\* As functions.
CellWeights(mode, vl) == [pkt \in Packets(mode) |-> CellsOf(vl, pkt)]
CreditWeights(mode, vl) == [pkt \in Packets(mode) |-> CreditsOf(vl, pkt)]

LEMMA WeightsTyped ==
    ASSUME NEW mode, NEW vl \in VLs
    PROVE  /\ CellWeights(mode, vl) \in [Packets(mode) -> Nat]
           /\ CreditWeights(mode, vl) \in [Packets(mode) -> Nat]
           /\ \A pkt \in Packets(mode) : /\ CellsOf(vl, pkt) \in Nat /\ CreditsOf(vl, pkt) \in Nat
                                         /\ CellWeights(mode, vl)[pkt] = CellsOf(vl, pkt)
                                         /\ CreditWeights(mode, vl)[pkt] = CreditsOf(vl, pkt)
<1>1. ASSUME NEW pkt \in Packets(mode) PROVE CellsOf(vl, pkt) \in Nat /\ CreditsOf(vl, pkt) \in Nat
  <2>1. Bytes(pkt) \in Nat /\ Cells(Bytes(pkt)) \in Nat
    <3>1. Bytes(pkt) \in Nat
      BY PacketKinds
    <3> QED
      BY <3>1, CellsTyped
  <2>2. ASSUME ~IsData(pkt) PROVE pkt.credits[vl] \in Nat
    BY <2>2, PacketKinds, NumbersTyped DEF Frames
  <2> QED
    BY <2>1, <2>2 DEF CellsOf, CreditsOf
<1> QED
  BY <1>1 DEF CellWeights, CreditWeights

\* What a weight adds up to in a queue that changes.
LEMMA SumSeqLaws ==
    ASSUME NEW S, NEW w \in [S -> Nat], NEW x \in Seq(S)
    PROVE  /\ SumSeq(w, x) \in Nat
           /\ \A e \in S : SumSeq(w, Append(x, e)) = SumSeq(w, x) + w[e]
           /\ x # <<>> => SumSeq(w, Tail(x)) = SumSeq(w, x) - w[Head(x)] /\ Head(x) \in S
           /\ \A y \in Seq(S) : SumSeq(w, x \o y) = SumSeq(w, x) + SumSeq(w, y)
<1>1. SumSeq(w, x) \in Nat
  BY SumSeqNat
<1>2. \A e \in S : SumSeq(w, Append(x, e)) = SumSeq(w, x) + w[e]
  BY SumSeqAppend
<1>3. ASSUME x # <<>> PROVE SumSeq(w, Tail(x)) = SumSeq(w, x) - w[Head(x)] /\ Head(x) \in S
  <2>1. Tail(x) \in Seq(S) /\ Head(x) \in S
    BY <1>3, HeadTailSeq
  <2>2. SumSeq(w, Tail(x)) \in Nat
    BY <2>1, SumSeqNat
  <2>3. SumSeq(w, x) = w[Head(x)] + SumSeq(w, Tail(x))
    BY <1>3, SumSeqTail
  <2> QED
    BY <2>1, <2>2, <2>3
<1>4. \A y \in Seq(S) : SumSeq(w, x \o y) = SumSeq(w, x) + SumSeq(w, y)
  BY SumSeqConcat
<1> QED
  BY <1>1, <1>2, <1>3, <1>4

LEMMA WeighedSums ==
    ASSUME NEW mode, NEW vl \in VLs, NEW x \in Seq(Packets(mode))
    PROVE  /\ CellsOn(vl, x) = SumSeq(CellWeights(mode, vl), x)
           /\ CreditsIn(vl, x) = SumSeq(CreditWeights(mode, vl), x)
<1>1. \A i \in DOMAIN x : x[i] \in Packets(mode)
  BY SeqElement
<1>2. [i \in DOMAIN x |-> IF IsData(x[i]) /\ Flows[x[i].flow].vl = vl THEN Cells(Bytes(x[i])) ELSE 0]
      = [i \in DOMAIN x |-> CellWeights(mode, vl)[x[i]]]
  BY <1>1 DEF CellWeights, CellsOf
<1>3. [i \in DOMAIN x |-> IF IsData(x[i]) THEN 0 ELSE x[i].credits[vl]]
      = [i \in DOMAIN x |-> CreditWeights(mode, vl)[x[i]]]
  BY <1>1 DEF CreditWeights, CreditsOf
<1> QED
  BY <1>2, <1>3 DEF CellsOn, CreditsIn, SumSeq

LEMMA WeighedTail ==
    ASSUME NEW mode, NEW vl \in VLs, NEW x \in Seq(Packets(mode)), x # <<>>
    PROVE  /\ CellsOn(vl, Tail(x)) = CellsOn(vl, x) - CellsOf(vl, Head(x))
           /\ CreditsIn(vl, Tail(x)) = CreditsIn(vl, x) - CreditsOf(vl, Head(x))
<1> DEFINE v == CellWeights(mode, vl)
           w == CreditWeights(mode, vl)
<1>1. v \in [Packets(mode) -> Nat] /\ w \in [Packets(mode) -> Nat]
  BY WeightsTyped
<1>2. Tail(x) \in Seq(Packets(mode)) /\ Head(x) \in Packets(mode)
  BY HeadTailSeq
<1>3. /\ CellsOn(vl, x) = SumSeq(v, x) /\ CreditsIn(vl, x) = SumSeq(w, x)
      /\ CellsOn(vl, Tail(x)) = SumSeq(v, Tail(x)) /\ CreditsIn(vl, Tail(x)) = SumSeq(w, Tail(x))
  BY <1>2, WeighedSums
<1>4. v[Head(x)] = CellsOf(vl, Head(x)) /\ w[Head(x)] = CreditsOf(vl, Head(x))
  BY <1>2, WeightsTyped
<1> HIDE DEF v, w
<1>5. SumSeq(v, Tail(x)) = SumSeq(v, x) - v[Head(x)]
  BY <1>1, SumSeqLaws
<1>6. SumSeq(w, Tail(x)) = SumSeq(w, x) - w[Head(x)]
  BY <1>1, SumSeqLaws
<1> QED
  BY <1>3, <1>4, <1>5, <1>6

LEMMA WeighedAppend ==
    ASSUME NEW mode, NEW vl \in VLs, NEW x \in Seq(Packets(mode)), NEW pkt \in Packets(mode)
    PROVE  /\ CellsOn(vl, Append(x, pkt)) = CellsOn(vl, x) + CellsOf(vl, pkt)
           /\ CreditsIn(vl, Append(x, pkt)) = CreditsIn(vl, x) + CreditsOf(vl, pkt)
<1> DEFINE v == CellWeights(mode, vl)
           w == CreditWeights(mode, vl)
<1>1. v \in [Packets(mode) -> Nat] /\ w \in [Packets(mode) -> Nat]
  BY WeightsTyped
<1>2. Append(x, pkt) \in Seq(Packets(mode))
  BY AppendSeq
<1>3. /\ CellsOn(vl, x) = SumSeq(v, x) /\ CreditsIn(vl, x) = SumSeq(w, x)
      /\ CellsOn(vl, Append(x, pkt)) = SumSeq(v, Append(x, pkt))
      /\ CreditsIn(vl, Append(x, pkt)) = SumSeq(w, Append(x, pkt))
  BY <1>2, WeighedSums
<1>4. v[pkt] = CellsOf(vl, pkt) /\ w[pkt] = CreditsOf(vl, pkt)
  BY WeightsTyped
<1> HIDE DEF v, w
<1>5. SumSeq(v, Append(x, pkt)) = SumSeq(v, x) + v[pkt]
  BY <1>1, SumSeqLaws
<1>6. SumSeq(w, Append(x, pkt)) = SumSeq(w, x) + w[pkt]
  BY <1>1, SumSeqLaws
<1> QED
  BY <1>3, <1>4, <1>5, <1>6

LEMMA WeighedTyped ==
    ASSUME NEW mode, NEW vl \in VLs, NEW x \in Seq(Packets(mode))
    PROVE  CellsOn(vl, x) \in Nat /\ CreditsIn(vl, x) \in Nat
<1>1. CellsOn(vl, x) \in Nat
  <2>1. SumSeq(CellWeights(mode, vl), x) \in Nat
    BY WeightsTyped, SumSeqNat
  <2> QED
    BY <2>1, WeighedSums
<1>2. CreditsIn(vl, x) \in Nat
  <2>1. SumSeq(CreditWeights(mode, vl), x) \in Nat
    BY WeightsTyped, SumSeqNat
  <2> QED
    BY <2>1, WeighedSums
<1> QED
  BY <1>1, <1>2

LEMMA CreditsConcat ==
    ASSUME NEW mode, NEW vl \in VLs, NEW x \in Seq(Packets(mode)), NEW y \in Seq(Packets(mode))
    PROVE  CreditsIn(vl, x \o y) = CreditsIn(vl, x) + CreditsIn(vl, y)
<1>1. x \o y \in Seq(Packets(mode))
  BY ConcatProperties
<1>2. CreditWeights(mode, vl) \in [Packets(mode) -> Nat]
  BY WeightsTyped
<1>3. SumSeq(CreditWeights(mode, vl), x \o y)
      = SumSeq(CreditWeights(mode, vl), x) + SumSeq(CreditWeights(mode, vl), y)
  BY <1>2, SumSeqConcat
<1> QED
  BY <1>1, <1>3, WeighedSums

LEMMA WeighedEmpty ==
    ASSUME NEW vl \in VLs
    PROVE  CellsOn(vl, <<>>) = 0 /\ CreditsIn(vl, <<>>) = 0
<1>1. <<>> \in Seq(Packets("CBFC"))
  OBVIOUS
<1>2. /\ CellWeights("CBFC", vl) \in [Packets("CBFC") -> Nat]
      /\ CreditWeights("CBFC", vl) \in [Packets("CBFC") -> Nat]
  BY WeightsTyped
<1>3. SumSeq(CellWeights("CBFC", vl), <<>>) = 0 /\ SumSeq(CreditWeights("CBFC", vl), <<>>) = 0
  BY <1>2, SumSeqEmpty
<1> QED
  BY <1>1, <1>3, WeighedSums

-----------------------------------------------------------------------------
(* The cells of a VL that a port took credits for and its peer has not     *)
(* given back: on the line to the peer, in the VOQs the peer's link feeds, *)
(* noted for return, and in the frames on their way to the port.           *)

LineCells(s, p, w) == CellsOn(w, Line(s, p))
FedCells(s, q, w) == SumFunction([out \in FedBy(q) |-> CellsOn(w, s.voq[<<out, w, q>>])])
Coming(s, q, w) == CreditsIn(w, Line(s, q)) + CreditsIn(w, s.voq[<<q, 0, q>>])
Owed(s, q, w) == s.fc[q].toReturn[w] + Grain * Coming(s, q, w)
Under(s, p, w) == LineCells(s, p, w) + FedCells(s, Peer[p], w) + Owed(s, Peer[p], w)

LEMMA LineSeq ==
    ASSUME NEW mode, NEW s \in NodeStates(mode), NEW p \in Ports
    PROVE  Line(s, p) \in Seq(Packets(mode))
<1>1. s.port[p].wire \in Seq(Packets(mode)) /\ s.port[p].egress \in Seq(Packets(mode))
  BY PortFields
<1> QED
  BY <1>1, ConcatProperties DEF Line

LEMMA FedTyped ==
    ASSUME NEW mode, NEW s \in NodeStates(mode), NEW p \in Ports, NEW w \in VLs
    PROVE  /\ \A out \in FedBy(p) : CellsOn(w, s.voq[<<out, w, p>>]) \in Nat
           /\ FedCells(s, p, w) \in Nat
<1>1. ASSUME NEW out \in FedBy(p) PROVE CellsOn(w, s.voq[<<out, w, p>>]) \in Nat
  <2>1. <<out, w, p>> \in VoqKeys
    BY KeysTyped DEF FedBy
  <2>2. s.voq[<<out, w, p>>] \in Seq(Packets(mode))
    BY <2>1, NodeFields
  <2> QED
    BY <2>2, WeighedTyped
<1> DEFINE f == [out \in FedBy(p) |-> CellsOn(w, s.voq[<<out, w, p>>])]
<1>2. (\A x \in FedBy(p) : f[x] \in Nat) /\ DOMAIN f = FedBy(p) /\ FedCells(s, p, w) = SumFunction(f)
  BY <1>1 DEF FedCells
<1> HIDE DEF f
<1>3. SumFunction(f) \in Nat
  BY <1>2, SumAll, SumNat, PortsTyped
<1> QED
  BY <1>1, <1>2, <1>3

LEMMA OwedTyped ==
    ASSUME NEW mode, NEW s \in NodeStates(mode), NEW p \in Ports, NEW w \in VLs
    PROVE  /\ s.fc[p].toReturn[w] \in Nat /\ Coming(s, p, w) \in Nat
           /\ Grain * Coming(s, p, w) \in Nat /\ Owed(s, p, w) \in Nat
<1>1. s.fc[p].toReturn[w] \in Nat
  BY PortFields DEF FcStates
<1>2. CreditsIn(w, Line(s, p)) \in Nat
  BY LineSeq, WeighedTyped
<1>3. CreditsIn(w, s.voq[<<p, 0, p>>]) \in Nat
  <2>1. s.voq[<<p, 0, p>>] \in Seq(Packets(mode))
    BY ControlKey, NodeFields
  <2> QED
    BY <2>1, WeighedTyped
<1>4. Coming(s, p, w) \in Nat
  BY <1>2, <1>3 DEF Coming
<1>5. Grain * Coming(s, p, w) \in Nat
  <2> DEFINE n == Coming(s, p, w)
  <2>1. n \in Nat /\ Grain \in Nat
    BY <1>4, NumbersTyped
  <2> HIDE DEF n
  <2>2. Grain * n \in Nat
    BY <2>1
  <2> QED
    BY <2>2 DEF n
<1> QED
  BY <1>1, <1>4, <1>5 DEF Owed

LEMMA UnderTyped ==
    ASSUME NEW mode, NEW s \in NodeStates(mode), NEW p \in Ports, NEW w \in VLs
    PROVE  /\ LineCells(s, p, w) \in Nat /\ FedCells(s, Peer[p], w) \in Nat
           /\ Owed(s, Peer[p], w) \in Nat /\ Under(s, p, w) \in Nat /\ Peer[p] \in Ports
<1>1. Peer[p] \in Ports
  BY PortsTyped
<1>2. LineCells(s, p, w) \in Nat
  BY LineSeq, WeighedTyped DEF LineCells
<1>3. FedCells(s, Peer[p], w) \in Nat
  BY <1>1, FedTyped
<1>4. Owed(s, Peer[p], w) \in Nat
  BY <1>1, OwedTyped
<1> QED
  BY <1>1, <1>2, <1>3, <1>4 DEF Under

\* From s to t the cells of the VL v that r is to get back grow by n.
Shift(s, t, r, v, n) ==
    \A p \in Ports : \A w \in VLs : Under(t, p, w) = Under(s, p, w) + (IF p = r /\ w = v THEN n ELSE 0)

LEMMA UnderChanges ==
    ASSUME NEW mode, NEW s \in NodeStates(mode), NEW t \in NodeStates(mode), NEW p \in Ports, NEW w \in VLs,
           NEW a \in Int, NEW b \in Int, NEW c \in Int, NEW q, q = Peer[p],
           LineCells(t, p, w) = LineCells(s, p, w) + a,
           FedCells(t, q, w) = FedCells(s, q, w) + b,
           Owed(t, q, w) = Owed(s, q, w) + c
    PROVE  Under(t, p, w) = Under(s, p, w) + (a + b + c)
<1>1. /\ LineCells(s, p, w) \in Nat /\ FedCells(s, q, w) \in Nat /\ Owed(s, q, w) \in Nat
      /\ Under(s, p, w) = LineCells(s, p, w) + FedCells(s, q, w) + Owed(s, q, w)
      /\ Under(t, p, w) = LineCells(t, p, w) + FedCells(t, q, w) + Owed(t, q, w)
  BY UnderTyped DEF Under
<1> QED
  BY <1>1

\* The VOQs that links feed: none changes, or one does.
LEMMA FedSame ==
    ASSUME NEW s, NEW t, NEW p \in Ports, NEW w \in VLs,
           \A j \in VoqKeys : j[1] # j[3] => t.voq[j] = s.voq[j]
    PROVE  FedCells(t, p, w) = FedCells(s, p, w)
<1>1. ASSUME NEW out \in FedBy(p) PROVE t.voq[<<out, w, p>>] = s.voq[<<out, w, p>>]
  <2>1. <<out, w, p>> \in VoqKeys /\ out # p
    BY KeysTyped DEF FedBy
  <2> QED
    BY <2>1
<1> QED
  BY <1>1 DEF FedCells

LEMMA FedChanges ==
    ASSUME NEW mode, NEW s \in NodeStates(mode), NEW t,
           NEW out \in Ports, NEW vl \in VLs, NEW in \in Ports, <<out, vl, in>> \in VoqKeys, out # in,
           \A j \in VoqKeys \ {<<out, vl, in>>} : t.voq[j] = s.voq[j],
           NEW d \in Int,
           CellsOn(vl, t.voq[<<out, vl, in>>]) = CellsOn(vl, s.voq[<<out, vl, in>>]) + d,
           NEW p \in Ports, NEW w \in VLs
    PROVE  FedCells(t, p, w) = FedCells(s, p, w) + (IF p = in /\ w = vl THEN d ELSE 0)
<1> DEFINE f == [q \in FedBy(p) |-> CellsOn(w, s.voq[<<q, w, p>>])]
           g == [q \in FedBy(p) |-> CellsOn(w, t.voq[<<q, w, p>>])]
<1>1. /\ NodeOf[out] = NodeOf[in] /\ IsFiniteSet(FedBy(p))
      /\ \A q \in FedBy(p) : <<q, w, p>> \in VoqKeys
  BY KeysTyped, PortsTyped DEF FedBy
<1>2. (\A x \in FedBy(p) : f[x] \in Int) /\ FedCells(s, p, w) \in Int
  BY FedTyped
<1>3. /\ FedCells(s, p, w) = SumFunctionOnSet(f, FedBy(p))
      /\ FedCells(t, p, w) = SumFunctionOnSet(g, FedBy(p))
  BY SumAll DEF FedCells
<1>4. ASSUME p = in /\ w = vl PROVE FedCells(t, p, w) = FedCells(s, p, w) + d
  <2>1. out \in FedBy(p) /\ (\A x \in FedBy(p) : x # out => g[x] = f[x]) /\ g[out] = f[out] + d
    BY <1>1, <1>4 DEF PortsOf, FedBy
  <2> HIDE DEF f, g
  <2>2. SumFunctionOnSet(g, FedBy(p)) = SumFunctionOnSet(f, FedBy(p)) + d
    BY <1>1, <1>2, <2>1, SumChange
  <2> QED
    BY <1>3, <1>4, <2>2
<1>5. ASSUME ~(p = in /\ w = vl) PROVE FedCells(t, p, w) = FedCells(s, p, w)
  <2>1. \A x \in FedBy(p) : <<x, w, p>> # <<out, vl, in>>
    BY <1>5
  <2>2. \A x \in FedBy(p) : g[x] = f[x]
    BY <1>1, <2>1
  <2> HIDE DEF f, g
  <2>3. SumFunctionOnSet(g, FedBy(p)) = SumFunctionOnSet(f, FedBy(p))
    BY <1>1, <1>2, <2>2, SumSame
  <2> QED
    BY <1>3, <1>5, <2>3
<1> QED
  BY <1>2, <1>4, <1>5

\* Each of the parts changes alone.
Steady(s, t) == \A p \in Ports : \A w \in VLs : Under(t, p, w) = Under(s, p, w)

LEMMA SteadyShift ==
    ASSUME NEW mode, NEW s \in NodeStates(mode), NEW t, NEW r, NEW v
    PROVE  Steady(s, t) <=> Shift(s, t, r, v, 0)
<1>1. \A p \in Ports : \A w \in VLs : Under(s, p, w) + (IF p = r /\ w = v THEN 0 ELSE 0) = Under(s, p, w)
  BY UnderTyped
<1> QED
  BY <1>1 DEF Steady, Shift

LEMMA SteadyQueues ==
    ASSUME NEW s, NEW t, SameQueues(s, t), \A q \in Ports : t.fc[q].toReturn = s.fc[q].toReturn
    PROVE  Steady(s, t)
<1>1. ASSUME NEW p \in Ports, NEW w \in VLs
      PROVE  /\ LineCells(t, p, w) = LineCells(s, p, w) /\ FedCells(t, p, w) = FedCells(s, p, w)
             /\ Owed(t, p, w) = Owed(s, p, w)
  BY DEF SameQueues, LineCells, FedCells, Owed, Coming
<1> QED
  BY <1>1, PortsTyped DEF Steady, Under

\* A VOQ of packets that are generated at the port.
LEMMA SteadyOwn ==
    ASSUME NEW s, NEW t, NEW p, NEW vl, vl # 0,
           t.fc = s.fc, \A q \in Ports : Line(t, q) = Line(s, q),
           \A j \in VoqKeys \ {<<p, vl, p>>} : t.voq[j] = s.voq[j]
    PROVE  Steady(s, t)
<1>1. ASSUME NEW q \in Ports, NEW w \in VLs
      PROVE  /\ LineCells(t, q, w) = LineCells(s, q, w) /\ FedCells(t, q, w) = FedCells(s, q, w)
             /\ Owed(t, q, w) = Owed(s, q, w)
  <2>1. LineCells(t, q, w) = LineCells(s, q, w)
    BY DEF LineCells
  <2>2. \A j \in VoqKeys : j[1] # j[3] => t.voq[j] = s.voq[j]
    OBVIOUS
  <2>3. FedCells(t, q, w) = FedCells(s, q, w)
    BY <2>2, FedSame
  <2>4. t.voq[<<q, 0, q>>] = s.voq[<<q, 0, q>>]
    BY ControlKey
  <2>5. Owed(t, q, w) = Owed(s, q, w)
    BY <2>4 DEF Owed, Coming
  <2> QED
    BY <2>1, <2>3, <2>5
<1> QED
  BY <1>1, PortsTyped DEF Steady, Under

\* A VOQ of packets that came by a link.
LEMMA ShiftFed ==
    ASSUME NEW mode, NEW s \in NodeStates(mode), NEW t \in NodeStates(mode),
           NEW out \in Ports, NEW vl \in VLs, NEW in \in Ports, <<out, vl, in>> \in VoqKeys, out # in,
           \A j \in VoqKeys \ {<<out, vl, in>>} : t.voq[j] = s.voq[j],
           \A q \in Ports : Line(t, q) = Line(s, q), t.fc = s.fc, NEW d \in Int,
           CellsOn(vl, t.voq[<<out, vl, in>>]) = CellsOn(vl, s.voq[<<out, vl, in>>]) + d
    PROVE  Shift(s, t, Peer[in], vl, d)
<1>1. ASSUME NEW p \in Ports, NEW w \in VLs
      PROVE  Under(t, p, w) = Under(s, p, w) + (IF p = Peer[in] /\ w = vl THEN d ELSE 0)
  <2> DEFINE q == Peer[p]
             b == IF q = in /\ w = vl THEN d ELSE 0
  <2>1. q \in Ports /\ (p = Peer[in] <=> q = in) /\ b \in Int
    BY PortsTyped
  <2> HIDE DEF q
  <2>2. LineCells(t, p, w) = LineCells(s, p, w) /\ LineCells(s, p, w) \in Nat
    BY UnderTyped DEF LineCells
  <2>3. FedCells(t, q, w) = FedCells(s, q, w) + b
    BY <2>1, FedChanges
  <2>4. t.voq[<<q, 0, q>>] = s.voq[<<q, 0, q>>]
    BY <2>1, ControlKey
  <2>5. Owed(t, q, w) = Owed(s, q, w) /\ Owed(s, q, w) \in Nat
    BY <2>1, <2>4, OwedTyped DEF Owed, Coming
  <2>6. b = IF p = Peer[in] /\ w = vl THEN d ELSE 0
    BY <2>1
  <2> HIDE DEF b
  <2>7. Under(t, p, w) = Under(s, p, w) + (0 + b + 0)
    <3>1. LineCells(t, p, w) = LineCells(s, p, w) + 0 /\ Owed(t, q, w) = Owed(s, q, w) + 0
      BY <2>2, <2>5
    <3>2. q = Peer[p]
      BY DEF q
    <3> QED
      BY <2>1, <2>3, <3>1, <3>2, UnderChanges
  <2> QED
    BY <2>1, <2>6, <2>7, UnderTyped
<1> QED
  BY <1>1 DEF Shift

\* Data on the line of a port.
LEMMA ShiftLine ==
    ASSUME NEW mode, NEW s \in NodeStates(mode), NEW t \in NodeStates(mode), t.voq = s.voq,
           \A q \in Ports : t.fc[q].toReturn = s.fc[q].toReturn, NEW r \in Ports,
           \A q \in Ports \ {r} : Line(t, q) = Line(s, q), NEW v \in VLs, NEW d \in Int,
           \A w \in VLs : /\ CreditsIn(w, Line(t, r)) = CreditsIn(w, Line(s, r))
                          /\ CellsOn(w, Line(t, r)) = CellsOn(w, Line(s, r)) + (IF w = v THEN d ELSE 0)
    PROVE  Shift(s, t, r, v, d)
<1>1. ASSUME NEW p \in Ports, NEW w \in VLs
      PROVE  Under(t, p, w) = Under(s, p, w) + (IF p = r /\ w = v THEN d ELSE 0)
  <2> DEFINE q == Peer[p]
             a == IF p = r /\ w = v THEN d ELSE 0
  <2>1. q \in Ports /\ a \in Int /\ q = Peer[p]
    BY PortsTyped
  <2> HIDE DEF q
  <2>2. LineCells(t, p, w) = LineCells(s, p, w) + a
    <3>1. CASE p = r
      BY <3>1 DEF LineCells
    <3>2. CASE p # r
      <4>1. LineCells(t, p, w) = LineCells(s, p, w) /\ LineCells(s, p, w) \in Nat
        BY <3>2, UnderTyped DEF LineCells
      <4> QED
        BY <3>2, <4>1
    <3> QED
      BY <3>1, <3>2
  <2>3. FedCells(t, q, w) = FedCells(s, q, w) + 0
    <3>1. FedCells(t, q, w) = FedCells(s, q, w) /\ FedCells(s, q, w) \in Nat
      BY <2>1, FedTyped DEF FedCells
    <3> QED
      BY <3>1
  <2>4. Owed(t, q, w) = Owed(s, q, w) + 0
    <3>1. CreditsIn(w, Line(t, q)) = CreditsIn(w, Line(s, q))
      BY <2>1
    <3>2. Owed(t, q, w) = Owed(s, q, w) /\ Owed(s, q, w) \in Nat
      BY <2>1, <3>1, OwedTyped DEF Owed, Coming
    <3> QED
      BY <3>2
  <2> HIDE DEF a
  <2>5. Under(t, p, w) = Under(s, p, w) + (a + 0 + 0)
    BY <2>1, <2>2, <2>3, <2>4, UnderChanges
  <2>6. Under(t, p, w) = Under(s, p, w) + a
    BY <2>1, <2>5, UnderTyped
  <2> QED
    BY <2>6 DEF a
<1> QED
  BY <1>1 DEF Shift

\* What is owed by the port r.
LEMMA OwedOnly ==
    ASSUME NEW mode, NEW s \in NodeStates(mode), NEW t \in NodeStates(mode),
           \A q \in Ports : \A w \in VLs : CellsOn(w, Line(t, q)) = CellsOn(w, Line(s, q)),
           \A j \in VoqKeys : j[1] # j[3] => t.voq[j] = s.voq[j], NEW r \in Ports,
           \A q \in Ports \ {r} : \A w \in VLs : Owed(t, q, w) = Owed(s, q, w),
           NEW n, \A w \in VLs : n[w] \in Int /\ Owed(t, r, w) = Owed(s, r, w) + n[w]
    PROVE  \A p \in Ports : \A w \in VLs :
              Under(t, p, w) = Under(s, p, w) + (IF p = Peer[r] THEN n[w] ELSE 0)
<1>1. ASSUME NEW p \in Ports, NEW w \in VLs
      PROVE  Under(t, p, w) = Under(s, p, w) + (IF p = Peer[r] THEN n[w] ELSE 0)
  <2> DEFINE q == Peer[p]
             c == IF q = r THEN n[w] ELSE 0
  <2>1. q \in Ports /\ (p = Peer[r] <=> q = r) /\ c \in Int /\ q = Peer[p]
    BY PortsTyped
  <2> HIDE DEF q
  <2>2. LineCells(t, p, w) = LineCells(s, p, w) + 0
    <3>1. LineCells(t, p, w) = LineCells(s, p, w) /\ LineCells(s, p, w) \in Nat
      BY UnderTyped DEF LineCells
    <3> QED
      BY <3>1
  <2>3. FedCells(t, q, w) = FedCells(s, q, w) + 0
    <3>1. FedCells(t, q, w) = FedCells(s, q, w)
      BY <2>1, FedSame
    <3>2. FedCells(s, q, w) \in Nat
      BY <2>1, FedTyped
    <3> QED
      BY <3>1, <3>2
  <2>4. Owed(t, q, w) = Owed(s, q, w) + c
    <3>1. CASE q = r
      BY <3>1
    <3>2. CASE q # r
      <4>1. Owed(s, q, w) \in Nat /\ Owed(t, q, w) = Owed(s, q, w)
        BY <2>1, <3>2, OwedTyped
      <4> QED
        BY <3>2, <4>1
    <3> QED
      BY <3>1, <3>2
  <2>5. c = IF p = Peer[r] THEN n[w] ELSE 0
    BY <2>1
  <2> HIDE DEF c
  <2>6. Under(t, p, w) = Under(s, p, w) + (0 + 0 + c)
    BY <2>1, <2>2, <2>3, <2>4, UnderChanges
  <2> QED
    BY <2>1, <2>5, <2>6, UnderTyped
<1> QED
  BY <1>1

LEMMA OwedMoves ==
    ASSUME NEW mode, NEW s \in NodeStates(mode), NEW t \in NodeStates(mode), NEW q \in Ports, NEW w \in VLs,
           NEW k \in Int, Coming(t, q, w) = Coming(s, q, w) + k
    PROVE  /\ Owed(t, q, w) = Owed(s, q, w) + (t.fc[q].toReturn[w] - s.fc[q].toReturn[w]) + Grain * k
           /\ Grain * k \in Int
<1> DEFINE x == Coming(s, q, w)
           y == Coming(t, q, w)
<1>1. x \in Nat /\ y \in Nat /\ y = x + k /\ Grain \in Nat
  BY OwedTyped, NumbersTyped
<1>2. /\ Owed(s, q, w) = s.fc[q].toReturn[w] + Grain * x /\ Owed(t, q, w) = t.fc[q].toReturn[w] + Grain * y
      /\ s.fc[q].toReturn[w] \in Nat /\ t.fc[q].toReturn[w] \in Nat
  BY OwedTyped DEF Owed
<1> HIDE DEF x, y
<1>3. Grain * y = Grain * x + Grain * k /\ Grain * k \in Int /\ Grain * x \in Int
  BY <1>1
<1> QED
  BY <1>2, <1>3

\* The counts of cells noted for return stay below a grain.
ReturnsSmall(s) == \A q \in Ports : \A w \in VLs : s.fc[q].toReturn[w] < Grain
Enough(bytes) == (Grain - 1 + Cells(bytes)) \div Grain <= CreditMax
SameHeld(s, t) == \A q \in Ports : SameCredits(s.fc[q], t.fc[q])

\* A frame is put in the queue of r.
LEMMA ComingTells ==
    ASSUME NEW mode \in CreditTypes, NEW s \in NodeStates(mode), NEW t \in NodeStates(mode), NEW r \in Ports,
           NEW frame, frame = NoFrame \/ frame \in Frames(mode), Tells(s, t, r, frame)
    PROVE  /\ \A q \in Ports : Line(t, q) = Line(s, q)
           /\ \A q \in Ports \ {r} : \A w \in VLs : Owed(t, q, w) = Owed(s, q, w)
           /\ \A w \in VLs : Told(frame, w) \in Int /\ Coming(t, r, w) = Coming(s, r, w) + Told(frame, w)
<1>1. \A q \in Ports : Line(t, q) = Line(s, q)
  BY DEF Tells, Line
<1>2. ASSUME NEW q \in Ports \ {r}, NEW w \in VLs PROVE Owed(t, q, w) = Owed(s, q, w)
  <2>1. <<q, 0, q>> \in VoqKeys \ {<<r, 0, r>>}
    BY ControlKey
  <2>2. t.voq[<<q, 0, q>>] = s.voq[<<q, 0, q>>] /\ t.fc[q] = s.fc[q]
    BY <2>1 DEF Tells
  <2> QED
    BY <1>1, <2>2 DEF Owed, Coming
<1>3. ASSUME NEW w \in VLs
      PROVE  Told(frame, w) \in Int /\ Coming(t, r, w) = Coming(s, r, w) + Told(frame, w)
  <2> DEFINE k == <<r, 0, r>>
  <2>1. k \in VoqKeys
    BY ControlKey
  <2>2. s.voq[k] \in Seq(Packets(mode))
    BY <2>1, NodeFields
  <2>3. CreditsIn(w, s.voq[k]) \in Nat /\ CreditsIn(w, Line(s, r)) \in Nat
    BY <2>2, LineSeq, WeighedTyped
  <2>4. CASE frame = NoFrame
    <3>1. t.voq[k] = s.voq[k] /\ Told(frame, w) = 0
      BY <2>4 DEF Tells, Told
    <3> QED
      BY <1>1, <2>3, <3>1 DEF Coming
  <2>5. CASE frame # NoFrame
    <3>1. frame \in Frames(mode) /\ Control(frame) \in Packets(mode) /\ ~IsData(Control(frame))
          /\ Control(frame).credits = frame
      BY <2>5, ControlPacket
    <3>2. frame[w] \in Nat
      BY <3>1, NumbersTyped DEF Frames
    <3>3. Told(frame, w) = frame[w] /\ CreditsOf(w, Control(frame)) = frame[w]
      BY <2>5, <3>1 DEF Told, CreditsOf
    <3>4. t.voq[k] = Append(s.voq[k], Control(frame))
      BY <2>5 DEF Tells
    <3>5. CreditsIn(w, t.voq[k]) = CreditsIn(w, s.voq[k]) + frame[w]
      BY <2>2, <3>1, <3>3, <3>4, WeighedAppend
    <3> QED
      BY <1>1, <2>3, <3>2, <3>3, <3>5 DEF Coming
  <2> QED
    BY <2>4, <2>5
<1> QED
  BY <1>1, <1>2, <1>3

\* What a VL is owed more after a release is what was released.
LEMMA ShiftTold ==
    ASSUME NEW mode \in CreditTypes, NEW s \in NodeStates(mode), NEW t \in NodeStates(mode), NEW r \in Ports,
           NEW vl \in VLs, NEW bytes \in Nat, CreditTells(s, t, r, vl, bytes), ReturnsSmall(s), Enough(bytes)
    PROVE  Shift(s, t, Peer[r], vl, Cells(bytes)) /\ ReturnsSmall(t) /\ SameHeld(s, t)
<1>1. PICK rel : Released(s.fc[r], rel, vl, bytes) /\ t.fc[r] = rel.fc /\ Tells(s, t, r, rel.frame)
  BY DEF CreditTells
<1>2. rel.frame = NoFrame \/ rel.frame \in Frames(mode)
  BY <1>1 DEF Released, Frames, CreditTypes
<1>3. /\ \A w \in VLs : t.fc[r].toReturn[w] < Grain
      /\ \A w \in VLs : t.fc[r].toReturn[w] + Grain * Told(rel.frame, w)
                        = s.fc[r].toReturn[w] + Taken(vl, bytes, w)
      /\ SameCredits(s.fc[r], t.fc[r])
  BY <1>1 DEF Released, ReturnsSmall, Enough
<1>4. \A q \in Ports \ {r} : t.fc[q] = s.fc[q]
  BY <1>1 DEF Tells
<1>5. ReturnsSmall(t) /\ SameHeld(s, t)
  BY <1>3, <1>4 DEF ReturnsSmall, SameHeld, SameCredits
<1>6. /\ \A q \in Ports : Line(t, q) = Line(s, q)
      /\ \A q \in Ports \ {r} : \A w \in VLs : Owed(t, q, w) = Owed(s, q, w)
      /\ \A w \in VLs : Told(rel.frame, w) \in Int /\ Coming(t, r, w) = Coming(s, r, w) + Told(rel.frame, w)
  BY <1>1, <1>2, ComingTells
<1> DEFINE n == [w \in VLs |-> Taken(vl, bytes, w)]
<1>7. ASSUME NEW w \in VLs
      PROVE  n[w] \in Int /\ Owed(t, r, w) = Owed(s, r, w) + n[w]
  <2> DEFINE g == Grain * Told(rel.frame, w)
             x == Taken(vl, bytes, w)
  <2>1. x \in Int
    BY CellsTyped DEF Taken
  <2>2. Owed(t, r, w) = Owed(s, r, w) + (t.fc[r].toReturn[w] - s.fc[r].toReturn[w]) + g /\ g \in Int
    BY <1>6, OwedMoves
  <2>3. /\ t.fc[r].toReturn[w] \in Nat /\ s.fc[r].toReturn[w] \in Nat /\ Owed(s, r, w) \in Nat
        /\ t.fc[r].toReturn[w] + g = s.fc[r].toReturn[w] + x
    BY <1>3, OwedTyped
  <2> HIDE DEF g, x
  <2>4. Owed(t, r, w) = Owed(s, r, w) + x
    BY <2>1, <2>2, <2>3
  <2> QED
    BY <2>1, <2>4 DEF x
<1>8. \A j \in VoqKeys : j[1] # j[3] => t.voq[j] = s.voq[j]
  BY <1>1 DEF Tells
<1> HIDE DEF n
<1>9. \A p \in Ports : \A w \in VLs :
              Under(t, p, w) = Under(s, p, w) + (IF p = Peer[r] THEN n[w] ELSE 0)
  BY <1>6, <1>7, <1>8, OwedOnly
<1>10. Shift(s, t, Peer[r], vl, Cells(bytes))
  BY <1>9 DEF Shift, Taken, n
<1> QED
  BY <1>5, <1>10

LEMMA ShiftReturned ==
    ASSUME NEW mode \in CreditTypes, NEW s \in NodeStates(mode), NEW t \in NodeStates(mode), NEW r \in Ports,
           NEW vl \in VLs, NEW bytes \in Nat, CreditsReturned(mode, s, t, r, vl, bytes),
           ReturnsSmall(s), Enough(bytes)
    PROVE  Shift(s, t, Peer[r], vl, Cells(bytes)) /\ ReturnsSmall(t) /\ SameHeld(s, t)
<1>1. PICK m \in NodeStates(mode) :
         CreditTells(s, m, r, vl, bytes) /\ ((t = m /\ Still(s, t)) \/ Pumped(m, t, r))
  BY DEF CreditsReturned
<1>2. Shift(s, m, Peer[r], vl, Cells(bytes)) /\ ReturnsSmall(m) /\ SameHeld(s, m)
  BY <1>1, ShiftTold
<1>3. CASE t = m
  BY <1>2, <1>3
<1>4. CASE Pumped(m, t, r)
  <2>1. SameQueues(m, t)
    BY <1>4, SameQueuesOf
  <2>2. t.fc = m.fc
    BY <1>4 DEF Pumped, PortOnly
  <2>3. Steady(m, t)
    BY <2>1, <2>2, SteadyQueues
  <2> QED
    BY <1>2, <2>2, <2>3 DEF Shift, Steady, ReturnsSmall, SameHeld
<1> QED
  BY <1>1, <1>3, <1>4

\* A packet of the VL of its queue.
LEMMA CellsOfData ==
    ASSUME NEW mode, NEW pkt \in Packets(mode), IsData(pkt)
    PROVE  /\ pkt.flow \in FlowIds /\ Flows[pkt.flow].vl \in VLs /\ Cells(Bytes(pkt)) \in Nat
           /\ Bytes(pkt) \in Nat \ {0} /\ Bytes(pkt) = Flows[pkt.flow].bytes
           /\ \A w \in VLs : /\ CreditsOf(w, pkt) = 0
                             /\ CellsOf(w, pkt) = IF w = Flows[pkt.flow].vl THEN Cells(Bytes(pkt)) ELSE 0
<1>1. pkt.flow \in FlowIds /\ Bytes(pkt) \in Nat \ {0}
  BY PacketKinds
<1>2. Cells(Bytes(pkt)) \in Nat /\ Flows[pkt.flow].vl \in VLs
  BY <1>1, CellsTyped, FlowsTyped
<1> QED
  BY <1>1, <1>2 DEF CreditsOf, CellsOf, Bytes

LEMMA CellsOfControl ==
    ASSUME NEW mode, NEW pkt \in Packets(mode), ~IsData(pkt)
    PROVE  \A w \in VLs : CellsOf(w, pkt) = 0 /\ CreditsOf(w, pkt) = pkt.credits[w] /\ pkt.credits[w] \in Nat
<1>1. pkt.credits \in Frames(mode)
  BY PacketKinds
<1>2. \A w \in VLs : pkt.credits[w] \in Nat
  <2> DEFINE c == pkt.credits
             T == IF mode = "PFC" THEN {0, CreditMax} ELSE 0 .. CreditMax
  <2>1. c \in [VLs -> T] /\ CreditMax \in Nat
    BY <1>1, NumbersTyped DEF Frames
  <2>2. \A e \in T : e \in Nat
    BY <2>1
  <2> HIDE DEF c, T
  <2>3. \A w \in VLs : c[w] \in Nat
    BY <2>1, <2>2
  <2> QED
    BY <2>3 DEF c
<1> QED
  BY <1>2 DEF CellsOf, CreditsOf

LEMMA ShiftTail ==
    ASSUME NEW mode, NEW s \in PlacedStates(mode), NEW t \in NodeStates(mode),
           NEW out \in Ports, NEW vl \in VLs, NEW in \in Ports, <<out, vl, in>> \in VoqKeys, out # in,
           s.voq[<<out, vl, in>>] # <<>>, VoqSet(s, t, <<out, vl, in>>, Tail(s.voq[<<out, vl, in>>])),
           NEW pkt, pkt = Head(s.voq[<<out, vl, in>>])
    PROVE  /\ IsData(pkt) /\ Flows[pkt.flow].vl = vl /\ pkt \in Packets(mode)
           /\ Shift(s, t, Peer[in], vl, -Cells(Bytes(pkt)))
<1> DEFINE k == <<out, vl, in>>
           x == s.voq[k]
<1>1. k \in VoqKeys /\ k[1] = out /\ k[2] = vl /\ k[3] = in /\ x # <<>> /\ pkt = Head(x)
  OBVIOUS
<1>2. pkt \in InVoq(mode, k) /\ pkt \in Packets(mode)
  BY <1>1, HeadOfVoq
<1> HIDE DEF k
<1>3. IsData(pkt) /\ Flows[pkt.flow].vl = vl
  BY <1>1, <1>2 DEF InVoq
<1>4. s \in NodeStates(mode) /\ x \in Seq(Packets(mode))
  BY <1>1, NodeFields DEF PlacedStates
<1>5. t.voq[k] = Tail(x) /\ t.fc = s.fc /\ (\A j \in VoqKeys \ {k} : t.voq[j] = s.voq[j])
      /\ \A q \in Ports : Line(t, q) = Line(s, q)
  BY DEF VoqSet, Line, k, x
<1> HIDE DEF x
<1>6. CellsOn(vl, Tail(x)) = CellsOn(vl, x) - CellsOf(vl, pkt) /\ CellsOn(vl, x) \in Nat
  BY <1>1, <1>4, WeighedTail, WeighedTyped
<1>7. CellsOf(vl, pkt) = Cells(Bytes(pkt)) /\ Cells(Bytes(pkt)) \in Nat
  BY <1>2, <1>3, CellsOfData
<1>8. CellsOn(vl, t.voq[k]) = CellsOn(vl, s.voq[k]) + (-Cells(Bytes(pkt)))
  BY <1>5, <1>6, <1>7 DEF x
<1>9. -Cells(Bytes(pkt)) \in Int
  BY <1>7
<1>10. Shift(s, t, Peer[in], vl, -Cells(Bytes(pkt)))
  BY <1>4, <1>5, <1>8, <1>9, ShiftFed DEF k
<1> QED
  BY <1>2, <1>3, <1>10

LEMMA ShiftPushed ==
    ASSUME NEW mode, NEW s \in NodeStates(mode), NEW t \in NodeStates(mode), NEW pkt \in Packets(mode),
           IsData(pkt), NEW vl \in VLs, Flows[pkt.flow].vl = vl,
           NEW out \in Ports, NEW in \in Ports, <<out, vl, in>> \in VoqKeys, out # in,
           Pushed(s, t, pkt, in, out, vl)
    PROVE  Shift(s, t, Peer[in], vl, Cells(Bytes(pkt))) /\ t.fc = s.fc
<1> DEFINE k == <<out, vl, in>>
           x == s.voq[k]
<1>1. k \in VoqKeys /\ x \in Seq(Packets(mode))
  BY NodeFields
<1>2. t.voq[k] = Append(x, pkt) /\ t.fc = s.fc /\ (\A j \in VoqKeys \ {k} : t.voq[j] = s.voq[j])
      /\ \A q \in Ports : Line(t, q) = Line(s, q)
  BY DEF Pushed, Line
<1> HIDE DEF x
<1>3. CellsOn(vl, Append(x, pkt)) = CellsOn(vl, x) + CellsOf(vl, pkt)
  BY <1>1, WeighedAppend
<1>4. CellsOf(vl, pkt) = Cells(Bytes(pkt)) /\ Cells(Bytes(pkt)) \in Int
  BY CellsOfData
<1>5. CellsOn(vl, t.voq[k]) = CellsOn(vl, s.voq[k]) + Cells(Bytes(pkt))
  BY <1>2, <1>3, <1>4 DEF x
<1> HIDE DEF k
<1>6. Shift(s, t, Peer[in], vl, Cells(Bytes(pkt)))
  BY <1>2, <1>4, <1>5, ShiftFed DEF k
<1> QED
  BY <1>2, <1>6

\* The packet joins the line of the port.
LEMMA LineGrows ==
    ASSUME NEW mode, NEW s \in NodeStates(mode), NEW t, NEW p \in Ports, NEW q, q.vl \in VLs,
           NEW pkt \in Packets(mode), Enqueued(mode, s, t, p, q, pkt), EgressHasRoom(s.port[p], pkt)
    PROVE  /\ Line(t, p) = Append(Line(s, p), pkt) /\ t.voq = s.voq
           /\ \A r \in Ports \ {p} : Line(t, r) = Line(s, r) /\ t.fc[r] = s.fc[r]
           /\ t.fc[p] = HandleSentPacket(mode, s.fc[p], q, q.vl, Bytes(pkt))
           /\ \A r \in Ports : t.fc[r].toReturn = s.fc[r].toReturn
<1> DEFINE w == s.port[p].wire
           x == s.port[p].egress
<1>1. w \in Seq(Packets(mode)) /\ x \in Seq(Packets(mode))
  BY PortFields
<1>2. t.port[p].wire = w /\ t.port[p].egress = Append(x, pkt)
  BY DEF Enqueued
<1>3. Line(s, p) = w \o x /\ Line(t, p) = t.port[p].wire \o t.port[p].egress
  BY DEF Line
<1> HIDE DEF w, x
<1>4. Line(t, p) = Append(Line(s, p), pkt)
  BY <1>1, <1>2, <1>3, ConcatAppend
<1>5. /\ t.voq = s.voq /\ \A r \in Ports \ {p} : Line(t, r) = Line(s, r) /\ t.fc[r] = s.fc[r]
      /\ t.fc[p] = HandleSentPacket(mode, s.fc[p], q, q.vl, Bytes(pkt))
  BY DEF Enqueued, Line
<1>6. SameNotes(s.fc[p], t.fc[p])
  <2>1. Bytes(pkt) \in Nat /\ s.fc[p] \in FcStates
    BY PacketKinds, PortFields
  <2> QED
    BY <1>5, <2>1, HandleSentPacketDoes
<1>7. \A r \in Ports : t.fc[r].toReturn = s.fc[r].toReturn
  BY <1>5, <1>6 DEF SameNotes
<1> QED
  BY <1>4, <1>5, <1>7

LEMMA ShiftEnqueued ==
    ASSUME NEW mode, NEW s \in NodeStates(mode), NEW t \in NodeStates(mode), NEW p \in Ports, NEW q, q.vl \in VLs,
           NEW pkt \in Packets(mode), IsData(pkt), Enqueued(mode, s, t, p, q, pkt),
           EgressHasRoom(s.port[p], pkt)
    PROVE  Shift(s, t, p, Flows[pkt.flow].vl, Cells(Bytes(pkt)))
<1>1. /\ Line(t, p) = Append(Line(s, p), pkt) /\ t.voq = s.voq
      /\ \A r \in Ports \ {p} : Line(t, r) = Line(s, r)
      /\ \A r \in Ports : t.fc[r].toReturn = s.fc[r].toReturn
  BY LineGrows
<1> DEFINE x == Line(s, p)
           v == Flows[pkt.flow].vl
           d == Cells(Bytes(pkt))
<1>2. x \in Seq(Packets(mode)) /\ v \in VLs /\ d \in Int
  BY LineSeq, CellsOfData
<1>3. \A w \in VLs : CreditsOf(w, pkt) = 0 /\ CellsOf(w, pkt) = IF w = v THEN d ELSE 0
  BY CellsOfData
<1>4. Line(t, p) = Append(x, pkt)
  BY <1>1
<1> HIDE DEF x, v, d
<1>5. \A w \in VLs : /\ CreditsIn(w, Append(x, pkt)) = CreditsIn(w, x)
                     /\ CellsOn(w, Append(x, pkt)) = CellsOn(w, x) + (IF w = v THEN d ELSE 0)
  <2> TAKE w \in VLs
  <2>1. /\ CellsOn(w, Append(x, pkt)) = CellsOn(w, x) + CellsOf(w, pkt)
        /\ CreditsIn(w, Append(x, pkt)) = CreditsIn(w, x) + CreditsOf(w, pkt)
    BY <1>2, WeighedAppend
  <2>2. CreditsIn(w, x) \in Nat
    BY <1>2, WeighedTyped
  <2> QED
    BY <1>3, <2>1, <2>2
<1>6. \A w \in VLs : /\ CreditsIn(w, Line(t, p)) = CreditsIn(w, Line(s, p))
                     /\ CellsOn(w, Line(t, p)) = CellsOn(w, Line(s, p)) + (IF w = v THEN d ELSE 0)
  BY <1>4, <1>5 DEF x
<1>7. Shift(s, t, p, v, d)
  BY <1>1, <1>2, <1>6, ShiftLine
<1> QED
  BY <1>7 DEF v, d

\* A packet of data arrives at p.
LEMMA ShiftArrived ==
    ASSUME NEW mode, NEW s \in PlacedStates(mode), NEW t \in NodeStates(mode), NEW p \in Ports,
           Received(s, t, p), NEW pkt, pkt = Head(s.port[Peer[p]].wire), IsData(pkt)
    PROVE  /\ pkt \in Packets(mode)
           /\ Shift(s, t, Peer[p], Flows[pkt.flow].vl, -Cells(Bytes(pkt)))
           /\ LineCells(s, Peer[p], Flows[pkt.flow].vl) >= Cells(Bytes(pkt))
           /\ t.fc = s.fc
<1> DEFINE r == Peer[p]
           x == Line(s, r)
           v == Flows[pkt.flow].vl
           d == -Cells(Bytes(pkt))
<1>1. r \in Ports /\ s \in NodeStates(mode)
  BY PortsTyped DEF PlacedStates
<1>2. /\ x # <<>> /\ Head(x) = pkt /\ Line(t, r) = Tail(x)
      /\ (\A q \in Ports \ {r} : t.port[q] = s.port[q]) /\ t.fc = s.fc /\ t.voq = s.voq
  BY PlacedReceived
<1>3. \A q \in Ports \ {r} : Line(t, q) = Line(s, q)
  BY <1>2 DEF Line
<1>4. x \in Seq(Packets(mode))
  BY <1>1, LineSeq
<1> HIDE DEF x, r
<1>5. pkt \in Packets(mode) /\ Tail(x) \in Seq(Packets(mode))
  BY <1>2, <1>4, HeadTailSeq
<1>6. v \in VLs /\ d \in Int /\ Cells(Bytes(pkt)) \in Nat
      /\ \A w \in VLs : CreditsOf(w, pkt) = 0 /\ CellsOf(w, pkt) = IF w = v THEN -d ELSE 0
  BY <1>5, CellsOfData, SMTT(30)
<1> HIDE DEF v
<1>7. \A w \in VLs : /\ CreditsIn(w, Tail(x)) = CreditsIn(w, x)
                     /\ CellsOn(w, Tail(x)) = CellsOn(w, x) + (IF w = v THEN d ELSE 0)
                     /\ w = v => CellsOn(w, x) >= -d
  <2> TAKE w \in VLs
  <2>1. /\ CellsOn(w, Tail(x)) = CellsOn(w, x) - CellsOf(w, pkt)
        /\ CreditsIn(w, Tail(x)) = CreditsIn(w, x) - CreditsOf(w, pkt)
    BY <1>2, <1>4, WeighedTail
  <2>2. CreditsIn(w, x) \in Nat /\ CellsOn(w, x) \in Nat /\ CellsOn(w, Tail(x)) \in Nat
    BY <1>4, <1>5, WeighedTyped
  <2> HIDE DEF d
  <2> QED
    BY <1>6, <2>1, <2>2
<1>8. \A w \in VLs : /\ CreditsIn(w, Line(t, r)) = CreditsIn(w, Line(s, r))
                     /\ CellsOn(w, Line(t, r)) = CellsOn(w, Line(s, r)) + (IF w = v THEN d ELSE 0)
  BY <1>2, <1>7 DEF x
<1>9. Shift(s, t, r, v, d)
  <2> HIDE DEF d
  <2> QED
    BY <1>1, <1>2, <1>3, <1>6, <1>8, ShiftLine
<1>10. LineCells(s, r, v) >= Cells(Bytes(pkt))
  <2>1. CellsOn(v, x) >= -d
    BY <1>6, <1>7
  <2>2. LineCells(s, r, v) = CellsOn(v, x)
    BY DEF LineCells, x
  <2>3. CellsOn(v, x) \in Nat
    BY <1>4, <1>6, WeighedTyped
  <2> QED
    BY <1>6, <2>1, <2>2, <2>3
<1> QED
  BY <1>2, <1>5, <1>9, <1>10 DEF r, v

\* A control frame moves from its VOQ to the line of its port.
LEMMA SteadyControl ==
    ASSUME NEW mode, NEW s \in NodeStates(mode), NEW a \in NodeStates(mode), NEW t \in NodeStates(mode),
           NEW p \in Ports, NEW q, q.vl \in VLs, NEW pkt \in Packets(mode), ~IsData(pkt),
           s.voq[<<p, 0, p>>] # <<>>, pkt = Head(s.voq[<<p, 0, p>>]),
           VoqSet(s, a, <<p, 0, p>>, Tail(s.voq[<<p, 0, p>>])),
           Enqueued(mode, a, t, p, q, pkt), EgressHasRoom(a.port[p], pkt)
    PROVE  Steady(s, t)
<1> DEFINE k == <<p, 0, p>>
           y == s.voq[k]
           x == Line(s, p)
<1>1. k \in VoqKeys /\ y \in Seq(Packets(mode)) /\ x \in Seq(Packets(mode)) /\ y # <<>> /\ pkt = Head(y)
  BY ControlKey, NodeFields, LineSeq
<1>2. /\ a.voq[k] = Tail(y) /\ a.fc = s.fc /\ (\A j \in VoqKeys \ {k} : a.voq[j] = s.voq[j])
      /\ \A r \in Ports : Line(a, r) = Line(s, r)
  BY DEF VoqSet, Line
<1>3. /\ Line(t, p) = Append(Line(a, p), pkt) /\ t.voq = a.voq
      /\ \A r \in Ports \ {p} : Line(t, r) = Line(a, r)
      /\ \A r \in Ports : t.fc[r].toReturn = a.fc[r].toReturn
  BY LineGrows
<1>4. /\ Line(t, p) = Append(x, pkt) /\ t.voq[k] = Tail(y)
      /\ (\A j \in VoqKeys \ {k} : t.voq[j] = s.voq[j])
      /\ \A r \in Ports \ {p} : Line(t, r) = Line(s, r)
      /\ \A r \in Ports : t.fc[r].toReturn = s.fc[r].toReturn
  BY <1>2, <1>3
<1>5. ASSUME NEW w \in VLs
      PROVE  CellsOn(w, Line(t, p)) = CellsOn(w, Line(s, p)) /\ Owed(t, p, w) = Owed(s, p, w)
  <2>1. CellsOf(w, pkt) = 0 /\ CreditsOf(w, pkt) \in Nat
    BY CellsOfControl
  <2>2. /\ CellsOn(w, Append(x, pkt)) = CellsOn(w, x) + CellsOf(w, pkt)
        /\ CreditsIn(w, Append(x, pkt)) = CreditsIn(w, x) + CreditsOf(w, pkt)
    BY <1>1, WeighedAppend
  <2>3. CreditsIn(w, Tail(y)) = CreditsIn(w, y) - CreditsOf(w, pkt)
    BY <1>1, WeighedTail
  <2>4. CellsOn(w, x) \in Nat /\ CreditsIn(w, x) \in Nat /\ CreditsIn(w, y) \in Nat
    BY <1>1, WeighedTyped
  <2>5. CreditsIn(w, Append(x, pkt)) + CreditsIn(w, Tail(y)) = CreditsIn(w, x) + CreditsIn(w, y)
        /\ CellsOn(w, Append(x, pkt)) = CellsOn(w, x)
    BY <2>1, <2>2, <2>3, <2>4
  <2>6. Coming(t, p, w) = Coming(s, p, w)
    BY <1>4, <2>5 DEF Coming
  <2> QED
    BY <1>4, <2>5, <2>6 DEF Owed
<1>6. \A r \in Ports \ {p} : \A w \in VLs : Owed(t, r, w) = Owed(s, r, w)
  <2> TAKE r \in Ports \ {p}
  <2>1. t.voq[<<r, 0, r>>] = s.voq[<<r, 0, r>>]
    BY <1>4, ControlKey
  <2> QED
    BY <1>4, <2>1 DEF Owed, Coming
<1>7. \A r \in Ports : \A w \in VLs : CellsOn(w, Line(t, r)) = CellsOn(w, Line(s, r))
  BY <1>4, <1>5
<1>8. \A j \in VoqKeys : j[1] # j[3] => t.voq[j] = s.voq[j]
  BY <1>4
<1>9. \A r \in Ports : \A w \in VLs :
          /\ LineCells(t, r, w) = LineCells(s, r, w) /\ FedCells(t, r, w) = FedCells(s, r, w)
          /\ Owed(t, r, w) = Owed(s, r, w)
  <2> TAKE r \in Ports
  <2> TAKE w \in VLs
  <2>1. FedCells(t, r, w) = FedCells(s, r, w)
    BY <1>8, FedSame
  <2> QED
    BY <1>5, <1>6, <1>7, <2>1 DEF LineCells
<1> QED
  BY <1>9, PortsTyped DEF Steady, Under

\* A control frame arrives at p.
ComesBack(s, t, p, c) ==
    \A q \in Ports : \A w \in VLs :
        /\ Grain * c[w] \in Nat
        /\ Under(t, q, w) = Under(s, q, w) + (IF q = p THEN -(Grain * c[w]) ELSE 0)

LEMMA UnderArrived ==
    ASSUME NEW mode, NEW s \in PlacedStates(mode), NEW t \in NodeStates(mode), NEW p \in Ports,
           Received(s, t, p), NEW pkt, pkt = Head(s.port[Peer[p]].wire), ~IsData(pkt), NEW c, c = pkt.credits
    PROVE  c \in Frames(mode) /\ ComesBack(s, t, p, c)
<1> DEFINE r == Peer[p]
           x == Line(s, r)
<1>1. r \in Ports /\ s \in NodeStates(mode) /\ Peer[r] = p
  BY PortsTyped DEF PlacedStates
<1>2. /\ x # <<>> /\ Head(x) = pkt /\ Line(t, r) = Tail(x)
      /\ (\A q \in Ports \ {r} : t.port[q] = s.port[q]) /\ t.fc = s.fc /\ t.voq = s.voq
  BY PlacedReceived
<1>3. \A q \in Ports \ {r} : Line(t, q) = Line(s, q)
  BY <1>2 DEF Line
<1>4. x \in Seq(Packets(mode))
  BY <1>1, LineSeq
<1> HIDE DEF x, r
<1>5. pkt \in Packets(mode)
  BY <1>2, <1>4, HeadTailSeq
<1>6. c \in Frames(mode)
  BY <1>5, PacketKinds
<1> DEFINE n == [w \in VLs |-> -(Grain * c[w])]
<1>7. ASSUME NEW w \in VLs
      PROVE  /\ CellsOn(w, Line(t, r)) = CellsOn(w, Line(s, r)) /\ Grain * c[w] \in Nat
             /\ n[w] \in Int /\ Owed(t, r, w) = Owed(s, r, w) + n[w]
  <2>1. CellsOf(w, pkt) = 0 /\ CreditsOf(w, pkt) = c[w] /\ c[w] \in Nat
    BY <1>5, CellsOfControl
  <2>2. /\ CellsOn(w, Tail(x)) = CellsOn(w, x) - CellsOf(w, pkt)
        /\ CreditsIn(w, Tail(x)) = CreditsIn(w, x) - CreditsOf(w, pkt)
    BY <1>2, <1>4, WeighedTail
  <2>3. CellsOn(w, x) \in Nat /\ CreditsIn(w, x) \in Nat
    BY <1>4, WeighedTyped
  <2>4. CellsOn(w, Tail(x)) = CellsOn(w, x) /\ CreditsIn(w, Tail(x)) = CreditsIn(w, x) - c[w]
    BY <2>1, <2>2, <2>3
  <2>5. CellsOn(w, Line(t, r)) = CellsOn(w, Line(s, r))
        /\ CreditsIn(w, Line(t, r)) = CreditsIn(w, Line(s, r)) - c[w]
    BY <1>2, <2>4 DEF x
  <2>6. Coming(t, r, w) = Coming(s, r, w) + (-c[w])
    <3>1. CreditsIn(w, s.voq[<<r, 0, r>>]) \in Nat
      <4>1. s.voq[<<r, 0, r>>] \in Seq(Packets(mode))
        BY <1>1, ControlKey, NodeFields
      <4> QED
        BY <4>1, WeighedTyped
    <3>2. CreditsIn(w, Line(s, r)) \in Nat
      BY <2>3 DEF x
    <3>3. t.voq[<<r, 0, r>>] = s.voq[<<r, 0, r>>]
      BY <1>2
    <3> QED
      BY <2>1, <2>5, <3>1, <3>2, <3>3, SMTT(30) DEF Coming
  <2> DEFINE k == -c[w]
  <2>7. k \in Int /\ Coming(t, r, w) = Coming(s, r, w) + k
    BY <2>1, <2>6
  <2> HIDE DEF k
  <2>8. Owed(t, r, w) = Owed(s, r, w) + (t.fc[r].toReturn[w] - s.fc[r].toReturn[w]) + Grain * k
        /\ Grain * k \in Int
    BY <1>1, <2>7, OwedMoves
  <2>9. s.fc[r].toReturn[w] \in Nat /\ Owed(s, r, w) \in Nat /\ t.fc[r].toReturn[w] = s.fc[r].toReturn[w]
    BY <1>1, <1>2, OwedTyped
  <2>10. Grain * k = -(Grain * c[w]) /\ Grain * c[w] \in Nat
    BY <2>1, NumbersTyped DEF k
  <2>11. n[w] = Grain * k
    BY <2>10
  <2> HIDE DEF n
  <2>12. n[w] \in Int /\ Owed(t, r, w) = Owed(s, r, w) + n[w]
    BY <2>8, <2>9, <2>11
  <2> QED
    BY <2>5, <2>10, <2>12
<1>8. \A q \in Ports : \A w \in VLs : CellsOn(w, Line(t, q)) = CellsOn(w, Line(s, q))
  BY <1>3, <1>7
<1>9. \A q \in Ports \ {r} : \A w \in VLs : Owed(t, q, w) = Owed(s, q, w)
  BY <1>2, <1>3 DEF Owed, Coming
<1>10. \A j \in VoqKeys : j[1] # j[3] => t.voq[j] = s.voq[j]
  BY <1>2
<1>11. \A w \in VLs : n[w] = -(Grain * c[w])
  OBVIOUS
<1> HIDE DEF n
<1>12. \A w \in VLs : n[w] \in Int /\ Owed(t, r, w) = Owed(s, r, w) + n[w]
  BY <1>7 DEF n
<1>13. \A q \in Ports : \A w \in VLs : Under(t, q, w) = Under(s, q, w) + (IF q = Peer[r] THEN n[w] ELSE 0)
  BY <1>1, <1>8, <1>9, <1>10, <1>12, OwedOnly
<1> QED
  BY <1>1, <1>6, <1>7, <1>11, <1>13 DEF ComesBack

-----------------------------------------------------------------------------
(* The law of the credits: what a port holds and is owed always adds up.   *)
(* Between two calls of a step n cells of the VL v may be nowhere.         *)

Account(s, p) == [w \in VLs |-> s.fc[p].txfree[w] + Under(s, p, w)]
Pool == SharedCrd + VlNum * InitCrd
Law(mode, s, p, v, n) ==
    /\ mode = "CBFC" => \A w \in VLs : Account(s, p)[w] + (IF w = v THEN n ELSE 0) = InitCrd
    /\ mode = "CBFC_SHARED" => s.fc[p].share + SumFunctionOnSet(Account(s, p), VLs) + n = Pool
Laws(mode, s, r, v, n) == \A p \in Ports : Law(mode, s, p, v, IF p = r THEN n ELSE 0)

LEMMA AccountOf ==
    ASSUME NEW mode, NEW s \in NodeStates(mode), NEW p \in Ports
    PROVE  /\ Account(s, p) \in [VLs -> Nat] /\ IsFiniteSet(VLs)
           /\ \A w \in VLs : Account(s, p)[w] \in Int
           /\ SumFunctionOnSet(Account(s, p), VLs) \in Int
           /\ s.fc[p] \in FcStates /\ s.fc[p].share \in Nat /\ s.fc[p].txfree \in [VLs -> Nat]
           /\ \A w \in VLs : /\ s.fc[p].txfree[w] \in Nat /\ Under(s, p, w) \in Nat
                             /\ Account(s, p)[w] = s.fc[p].txfree[w] + Under(s, p, w)
<1>1. s.fc[p] \in FcStates /\ s.fc[p].share \in Nat /\ s.fc[p].txfree \in [VLs -> Nat]
  BY PortFields DEF FcStates
<1>2. \A w \in VLs : s.fc[p].txfree[w] \in Nat /\ Under(s, p, w) \in Nat
  BY <1>1, UnderTyped
<1>3. Account(s, p) \in [VLs -> Nat]
  BY <1>2 DEF Account
<1>4. \A w \in VLs : Account(s, p)[w] \in Int
  BY <1>3
<1>5. IsFiniteSet(VLs)
  BY PortsTyped
<1>6. SumFunctionOnSet(Account(s, p), VLs) \in Int
  BY <1>4, <1>5, SumInt
<1>7. \A w \in VLs : Account(s, p)[w] = s.fc[p].txfree[w] + Under(s, p, w)
  BY DEF Account
<1> QED
  BY <1>1, <1>2, <1>3, <1>4, <1>5, <1>6, <1>7

LEMMA NumbersOfPool ==
    Pool \in Int /\ InitCrd \in Int
<1>1. VlNum * InitCrd \in Int
  BY NumbersTyped
<1> QED
  BY <1>1, NumbersTyped DEF Pool

\* Nothing is missing.
Conserved(mode, s) == \A p \in Ports : Law(mode, s, p, 0, 0)

LEMMA ConservedIs ==
    ASSUME NEW mode, NEW s \in NodeStates(mode), NEW r, NEW v
    PROVE  Conserved(mode, s) <=> Laws(mode, s, r, v, 0)
<1>1. \A p \in Ports : Law(mode, s, p, 0, 0) <=> Law(mode, s, p, v, 0)
  BY AccountOf DEF Law
<1>2. \A p \in Ports : (IF p = r THEN 0 ELSE 0) = 0
  OBVIOUS
<1> QED
  BY <1>1, <1>2 DEF Conserved, Laws

\* One VL of one port changes: the sums do as well.
LEMMA AccountMoves ==
    ASSUME NEW mode, NEW s \in NodeStates(mode), NEW t \in NodeStates(mode), NEW p \in Ports,
           NEW v \in VLs, NEW d \in Int,
           \A w \in VLs : Account(t, p)[w] = Account(s, p)[w] + (IF w = v THEN d ELSE 0)
    PROVE  SumFunctionOnSet(Account(t, p), VLs) = SumFunctionOnSet(Account(s, p), VLs) + d
<1> DEFINE f == Account(s, p)
           g == Account(t, p)
<1>1. IsFiniteSet(VLs) /\ \A w \in VLs : f[w] \in Int
  BY AccountOf
<1>2. (\A w \in VLs : w # v => g[w] = f[w]) /\ g[v] = f[v] + d
  BY <1>1
<1> HIDE DEF f, g
<1>3. SumFunctionOnSet(g, VLs) = SumFunctionOnSet(f, VLs) + d
  BY <1>1, <1>2, SumChange
<1> QED
  BY <1>3 DEF f, g

LEMMA AccountStays ==
    ASSUME NEW mode, NEW s \in NodeStates(mode), NEW t \in NodeStates(mode), NEW p \in Ports,
           \A w \in VLs : Account(t, p)[w] = Account(s, p)[w]
    PROVE  SumFunctionOnSet(Account(t, p), VLs) = SumFunctionOnSet(Account(s, p), VLs)
<1> DEFINE f == Account(s, p)
           g == Account(t, p)
<1>1. IsFiniteSet(VLs) /\ (\A w \in VLs : f[w] \in Int) /\ \A w \in VLs : g[w] = f[w]
  BY AccountOf
<1> HIDE DEF f, g
<1>2. SumFunctionOnSet(g, VLs) = SumFunctionOnSet(f, VLs)
  BY <1>1, SumSame
<1> QED
  BY <1>2 DEF f, g

\* What is neither in a port's hands nor owed to it becomes so.
LEMMA LawsShift ==
    ASSUME NEW mode, NEW s \in NodeStates(mode), NEW t \in NodeStates(mode), SameHeld(s, t),
           NEW r, NEW v \in VLs, NEW d \in Int, Shift(s, t, r, v, d), NEW n \in Int, Laws(mode, s, r, v, n),
           NEW k, k = n - d
    PROVE  Laws(mode, t, r, v, k)
<1>1. ASSUME NEW p \in Ports PROVE Law(mode, t, p, v, IF p = r THEN k ELSE 0)
  <2> DEFINE e == IF p = r THEN d ELSE 0
             m == IF p = r THEN n ELSE 0
  <2>1. e \in Int /\ m \in Int /\ (IF p = r THEN k ELSE 0) = m - e
    OBVIOUS
  <2>2. Law(mode, s, p, v, m)
    BY DEF Laws
  <2>3. t.fc[p].txfree = s.fc[p].txfree /\ t.fc[p].share = s.fc[p].share
    BY DEF SameHeld, SameCredits
  <2>4. \A w \in VLs : Account(t, p)[w] = Account(s, p)[w] + (IF w = v THEN e ELSE 0)
    <3> TAKE w \in VLs
    <3>1. Under(t, p, w) = Under(s, p, w) + (IF p = r /\ w = v THEN d ELSE 0)
      BY DEF Shift
    <3>2. /\ Account(s, p)[w] = s.fc[p].txfree[w] + Under(s, p, w)
          /\ Account(t, p)[w] = s.fc[p].txfree[w] + Under(t, p, w)
          /\ s.fc[p].txfree[w] \in Nat /\ Under(s, p, w) \in Nat
      BY <2>3, AccountOf
    <3> QED
      BY <3>1, <3>2
  <2> HIDE DEF e, m
  <2>5. SumFunctionOnSet(Account(t, p), VLs) = SumFunctionOnSet(Account(s, p), VLs) + e
    BY <2>1, <2>4, AccountMoves
  <2>6. /\ SumFunctionOnSet(Account(s, p), VLs) \in Int /\ s.fc[p].share \in Nat
        /\ \A w \in VLs : Account(s, p)[w] \in Int
    BY AccountOf
  <2>7. Law(mode, t, p, v, m - e)
    <3>1. ASSUME mode = "CBFC", NEW w \in VLs
          PROVE  Account(t, p)[w] + (IF w = v THEN m - e ELSE 0) = InitCrd
      <4>1. Account(s, p)[w] + (IF w = v THEN m ELSE 0) = InitCrd
        BY <2>2, <3>1 DEF Law
      <4> QED
        BY <2>1, <2>4, <2>6, <4>1
    <3>2. ASSUME mode = "CBFC_SHARED"
          PROVE  t.fc[p].share + SumFunctionOnSet(Account(t, p), VLs) + (m - e) = Pool
      <4>1. s.fc[p].share + SumFunctionOnSet(Account(s, p), VLs) + m = Pool
        BY <2>2, <3>2 DEF Law
      <4> QED
        BY <2>1, <2>3, <2>5, <2>6, <4>1
    <3> QED
      BY <3>1, <3>2 DEF Law
  <2> QED
    BY <2>1, <2>7
<1> QED
  BY <1>1 DEF Laws

LEMMA LawsSteady ==
    ASSUME NEW mode, NEW s \in NodeStates(mode), NEW t \in NodeStates(mode), SameHeld(s, t), Steady(s, t),
           NEW r, NEW v \in VLs, NEW n \in Int, Laws(mode, s, r, v, n)
    PROVE  Laws(mode, t, r, v, n)
<1>1. Shift(s, t, r, v, 0) /\ n = n - 0
  BY SteadyShift
<1> QED
  BY <1>1, LawsShift

\* The credits of a packet of c cells are there, and are taken.
Affordable(mode, x, vl, c) ==
    /\ mode = "CBFC" => c <= x.txfree[vl]
    /\ mode = "CBFC_SHARED" => c <= x.share + x.txfree[vl]
Consumed(mode, x, y, vl, c) ==
    /\ y.toReturn = x.toReturn
    /\ \E n \in 0 .. c :
          /\ mode = "CBFC" => n = 0
          /\ y.share = x.share - n
          /\ \A w \in VLs : y.txfree[w] = x.txfree[w] - (IF w = vl THEN c - n ELSE 0)

LEMMA ConsumedDoes ==
    ASSUME NEW mode \in CreditTypes, NEW x \in FcStates, NEW q, NEW vl \in VLs, NEW bytes \in Nat,
           ~IsControlFrame(q), Affordable(mode, x, vl, Cells(bytes))
    PROVE  Consumed(mode, x, HandleSentPacket(mode, x, q, vl, bytes), vl, Cells(bytes))
<1> DEFINE c == Cells(bytes)
           y == HandleSentPacket(mode, x, q, vl, bytes)
<1>1. c \in Nat /\ x.share \in Nat /\ x.txfree \in [VLs -> Nat] /\ x.txfree[vl] \in Nat
  BY CellsTyped DEF FcStates
<1>2. CASE mode = "CBFC"
  <2>1. y = CbfcConsumeCrd(x, vl, bytes)
    BY <1>2 DEF HandleSentPacket
  <2>2. c <= x.txfree[vl]
    BY <1>2 DEF Affordable
  <2>3. y = [x EXCEPT !.txfree[vl] = @ - c]
    BY <1>1, <2>1, <2>2 DEF CbfcConsumeCrd
  <2> HIDE DEF y
  <2>4. /\ y.share = x.share /\ y.toReturn = x.toReturn
        /\ y.txfree = [x.txfree EXCEPT ![vl] = @ - c]
    BY <2>3 DEF FcStates
  <2> HIDE DEF c
  <2>5. 0 \in 0 .. c /\ y.share = x.share - 0
        /\ \A w \in VLs : y.txfree[w] = x.txfree[w] - (IF w = vl THEN c - 0 ELSE 0)
    BY <1>1, <2>4
  <2>6. Consumed(mode, x, y, vl, c)
    BY <1>2, <2>4, <2>5 DEF Consumed
  <2> QED
    BY <2>6 DEF y, c
<1>3. CASE mode = "CBFC_SHARED"
  <2> DEFINE n == Min({x.share, c})
             m == Min({x.txfree[vl], c - n})
  <2>1. y = CbfcSharedConsumeCrd(x, vl, bytes)
    BY <1>3 DEF HandleSentPacket
  <2>2. c <= x.share + x.txfree[vl]
    BY <1>3 DEF Affordable
  <2>3. y = [x EXCEPT !.share = @ - n, !.txfree[vl] = @ - m]
    BY <2>1 DEF CbfcSharedConsumeCrd
  <2>4. n = (IF x.share <= c THEN x.share ELSE c) /\ n \in Int
    BY <1>1, MinMax
  <2> HIDE DEF n
  <2>5. m = IF x.txfree[vl] <= c - n THEN x.txfree[vl] ELSE c - n
    BY <1>1, <2>4, MinMax
  <2> HIDE DEF y, m
  <2>6. /\ y.share = x.share - n /\ y.toReturn = x.toReturn
        /\ y.txfree = [x.txfree EXCEPT ![vl] = @ - m]
    BY <2>3 DEF FcStates
  <2> HIDE DEF c
  <2>7. n \in 0 .. c /\ m = c - n
    BY <1>1, <2>2, <2>4, <2>5
  <2>8. \A w \in VLs : y.txfree[w] = x.txfree[w] - (IF w = vl THEN c - n ELSE 0)
    BY <1>1, <2>6, <2>7
  <2>9. Consumed(mode, x, y, vl, c)
    BY <1>3, <2>6, <2>7, <2>8 DEF Consumed
  <2> QED
    BY <2>9 DEF y, c
<1> QED
  BY <1>2, <1>3 DEF CreditTypes

\* The credits taken for a packet are owed from then on.
LEMMA LawsConsumed ==
    ASSUME NEW mode \in CreditTypes, NEW s \in NodeStates(mode), NEW t \in NodeStates(mode),
           NEW p \in Ports, NEW vl \in VLs, NEW c \in Nat, Shift(s, t, p, vl, c),
           Consumed(mode, s.fc[p], t.fc[p], vl, c), \A q \in Ports \ {p} : t.fc[q] = s.fc[q],
           NEW r, NEW v \in VLs, NEW n \in Int, Laws(mode, s, r, v, n)
    PROVE  Laws(mode, t, r, v, n)
<1>1. ASSUME NEW q \in Ports PROVE Law(mode, t, q, v, IF q = r THEN n ELSE 0)
  <2> DEFINE m == IF q = r THEN n ELSE 0
  <2>1. m \in Int /\ Law(mode, s, q, v, m)
    BY DEF Laws
  <2> HIDE DEF m
  <2>2. /\ SumFunctionOnSet(Account(s, q), VLs) \in Int /\ s.fc[q].share \in Nat
        /\ \A w \in VLs : /\ Account(s, q)[w] \in Int
                          /\ s.fc[q].txfree[w] \in Nat /\ Under(s, q, w) \in Nat
                          /\ Account(s, q)[w] = s.fc[q].txfree[w] + Under(s, q, w)
                          /\ Account(t, q)[w] = t.fc[q].txfree[w] + Under(t, q, w)
    BY AccountOf
  <2>3. CASE q # p
    <3>1. t.fc[q] = s.fc[q] /\ \A w \in VLs : Under(t, q, w) = Under(s, q, w) + 0
      BY <2>3 DEF Shift
    <3>2. \A w \in VLs : Account(t, q)[w] = Account(s, q)[w]
      BY <2>2, <3>1
    <3>3. SumFunctionOnSet(Account(t, q), VLs) = SumFunctionOnSet(Account(s, q), VLs)
      BY <3>2, AccountStays
    <3>4. Law(mode, t, q, v, m)
      BY <2>1, <3>1, <3>2, <3>3 DEF Law
    <3> QED
      BY <3>4 DEF m
  <2>4. CASE q = p
    <3>1. PICK k \in 0 .. c :
             /\ mode = "CBFC" => k = 0
             /\ t.fc[q].share = s.fc[q].share - k
             /\ \A w \in VLs : t.fc[q].txfree[w] = s.fc[q].txfree[w] - (IF w = vl THEN c - k ELSE 0)
      BY <2>4 DEF Consumed
    <3>2. \A w \in VLs : Under(t, q, w) = Under(s, q, w) + (IF w = vl THEN c ELSE 0)
      BY <2>4 DEF Shift
    <3>3. k \in Int
      OBVIOUS
    <3>4. \A w \in VLs : Account(t, q)[w] = Account(s, q)[w] + (IF w = vl THEN k ELSE 0)
      <4> TAKE w \in VLs
      <4>1. t.fc[q].txfree[w] = s.fc[q].txfree[w] - (IF w = vl THEN c - k ELSE 0)
        BY <3>1
      <4>2. Under(t, q, w) = Under(s, q, w) + (IF w = vl THEN c ELSE 0)
        BY <3>2
      <4>3. /\ s.fc[q].txfree[w] \in Nat /\ Under(s, q, w) \in Nat
            /\ Account(s, q)[w] = s.fc[q].txfree[w] + Under(s, q, w)
            /\ Account(t, q)[w] = t.fc[q].txfree[w] + Under(t, q, w)
        BY <2>2
      <4> QED
        BY <3>3, <4>1, <4>2, <4>3
    <3>5. SumFunctionOnSet(Account(t, q), VLs) = SumFunctionOnSet(Account(s, q), VLs) + k
      BY <3>3, <3>4, AccountMoves
    <3>6. Law(mode, t, q, v, m)
      <4>1. ASSUME mode = "CBFC", NEW w \in VLs
            PROVE  Account(t, q)[w] + (IF w = v THEN m ELSE 0) = InitCrd
        <5>1. Account(s, q)[w] + (IF w = v THEN m ELSE 0) = InitCrd
          BY <2>1, <4>1 DEF Law
        <5>2. Account(t, q)[w] = Account(s, q)[w]
          BY <2>2, <3>1, <3>4, <4>1
        <5> QED
          BY <5>1, <5>2
      <4>2. ASSUME mode = "CBFC_SHARED"
            PROVE  t.fc[q].share + SumFunctionOnSet(Account(t, q), VLs) + m = Pool
        <5>1. s.fc[q].share + SumFunctionOnSet(Account(s, q), VLs) + m = Pool
          BY <2>1, <4>2 DEF Law
        <5>2. t.fc[q].share = s.fc[q].share - k
          BY <3>1
        <5> QED
          BY <2>1, <2>2, <3>3, <3>5, <5>1, <5>2
      <4> QED
        BY <4>1, <4>2 DEF Law
    <3> QED
      BY <3>6 DEF m
  <2> QED
    BY <2>3, <2>4
<1> QED
  BY <1>1 DEF Laws

\* The credits of a frame are in the hands of the port again.
Given(x, y, c) ==
    \E give \in [VLs -> Nat] :
        /\ y.share = x.share + Returned(c) - SumFunctionOnSet(give, VLs)
        /\ \A w \in VLs : /\ y.txfree[w] = x.txfree[w] + give[w]
                          /\ InitCrd <= x.txfree[w] => give[w] = 0

LEMMA SharedRestores ==
    ASSUME NEW x \in FcStates, NEW c \in [VLs -> 0 .. CreditMax], NEW y, y = CbfcSharedRestoreCrd(x, c)
    PROVE  Given(x, y, c)
<1>1. SharedRestored(x, y, c)
  BY SharedRestoreIs
<1>2. Returned(c) \in Nat /\ x.share \in Nat /\ x.txfree \in [VLs -> Nat]
  BY ReturnedTyped DEF FcStates
<1>3. CASE Returned(c) = 0
  <2> DEFINE g == [w \in VLs |-> 0]
  <2>1. y = x
    BY <1>1, <1>3 DEF SharedRestored
  <2>2. g \in [VLs -> Nat] /\ \A w \in VLs : g[w] = 0
    OBVIOUS
  <2> HIDE DEF g
  <2>3. SumFunctionOnSet(g, VLs) = 0
    BY <2>2, SumZero, PortsTyped
  <2>4. /\ y.share = x.share + Returned(c) - SumFunctionOnSet(g, VLs)
        /\ \A w \in VLs : /\ y.txfree[w] = x.txfree[w] + g[w]
                          /\ InitCrd <= x.txfree[w] => g[w] = 0
    BY <1>2, <1>3, <2>1, <2>2, <2>3
  <2> QED
    BY <2>2, <2>4 DEF Given
<1>4. CASE Returned(c) # 0
  <2> DEFINE pool == x.share + Returned(c)
             need == Need(x)
             give == Give(need, pool)
  <2>1. pool \in Nat /\ need \in [VLs -> Nat]
        /\ \A w \in VLs : need[w] = IF InitCrd <= x.txfree[w] THEN 0 ELSE InitCrd - x.txfree[w]
    BY <1>2, NeedTyped
  <2>2. y = [x EXCEPT !.share = pool - SumFunction(give), !.txfree = [vl \in VLs |-> @[vl] + give[vl]]]
    BY <1>1, <1>4 DEF SharedRestored
  <2>8. pool = x.share + Returned(c)
    OBVIOUS
  <2> HIDE DEF pool, need
  <2>3. give \in [VLs -> Nat] /\ \A w \in VLs : give[w] <= need[w]
    BY <2>1, GiveSum
  <2> HIDE DEF give
  <2>4. y.share = pool - SumFunction(give) /\ y.txfree = [vl \in VLs |-> x.txfree[vl] + give[vl]]
    BY <2>2 DEF FcStates
  <2>5. SumFunction(give) = SumFunctionOnSet(give, VLs)
    <3>1. DOMAIN give = VLs
      BY <2>3
    <3> QED
      BY <3>1, SumAll
  <2>6. \A w \in VLs : /\ y.txfree[w] = x.txfree[w] + give[w]
                       /\ InitCrd <= x.txfree[w] => give[w] = 0
    <3> TAKE w \in VLs
    <3>1. give[w] \in Nat /\ give[w] <= need[w] /\ need[w] = IF InitCrd <= x.txfree[w] THEN 0 ELSE InitCrd - x.txfree[w]
      BY <2>1, <2>3
    <3> QED
      BY <2>4, <3>1
  <2>7. y.share = x.share + Returned(c) - SumFunctionOnSet(give, VLs)
    <3> DEFINE a == SumFunctionOnSet(give, VLs)
    <3>1. y.share = pool - a
      BY <2>4, <2>5
    <3>2. a \in Int
      BY <2>3, SumInt, PortsTyped
    <3> HIDE DEF a
    <3>3. y.share = x.share + Returned(c) - a
      BY <1>2, <2>8, <3>1, <3>2
    <3> QED
      BY <3>3 DEF a
  <2> QED
    BY <2>3, <2>6, <2>7 DEF Given
<1> QED
  BY <1>3, <1>4

\* The sum of what a VL is given and no longer owed.
LEMMA RestoredSum ==
    ASSUME NEW f, \A w \in VLs : f[w] \in Int, NEW give \in [VLs -> Nat],
           NEW c \in [VLs -> 0 .. CreditMax], NEW h,
           \A w \in VLs : h[w] = f[w] + (give[w] - Grain * c[w])
    PROVE  SumFunctionOnSet(h, VLs)
           = SumFunctionOnSet(f, VLs) + SumFunctionOnSet(give, VLs) - Returned(c)
<1> DEFINE m == -Grain
           g == [w \in VLs |-> m * c[w]]
           e == [w \in VLs |-> give[w] + g[w]]
<1>1. IsFiniteSet(VLs) /\ m \in Int /\ Grain \in Nat
  BY PortsTyped, NumbersTyped
<1>2. \A w \in VLs : c[w] \in Int /\ give[w] \in Int
  BY NumbersTyped
<1>3. \A w \in VLs : g[w] \in Int /\ g[w] = m * c[w] /\ g[w] = -(Grain * c[w])
  BY <1>1, <1>2
<1>4. \A w \in VLs : e[w] \in Int /\ e[w] = give[w] + g[w]
  BY <1>2, <1>3
<1> HIDE DEF m, g, e
<1>5. SumFunctionOnSet(g, VLs) = m * SumFunctionOnSet(c, VLs)
  BY <1>1, <1>2, <1>3, SumTimes
<1>6. SumFunctionOnSet(e, VLs) = SumFunctionOnSet(give, VLs) + SumFunctionOnSet(g, VLs)
  BY <1>1, <1>2, <1>3, <1>4, SumPlus
<1>7. \A w \in VLs : h[w] = f[w] + e[w]
  <2> TAKE w \in VLs
  <2> DEFINE n == Grain * c[w]
  <2>1. h[w] = f[w] + (give[w] - n) /\ g[w] = -n
    BY <1>3
  <2>2. n \in Int
    BY <1>1, <1>2
  <2> HIDE DEF n
  <2> QED
    BY <1>2, <1>4, <2>1, <2>2
<1>8. SumFunctionOnSet(h, VLs) = SumFunctionOnSet(f, VLs) + SumFunctionOnSet(e, VLs)
  BY <1>1, <1>4, <1>7, SumPlus
<1>9. Returned(c) = SumFunctionOnSet(c, VLs) * Grain
  <2>1. DOMAIN c = VLs
    OBVIOUS
  <2> QED
    BY <2>1, SumAll DEF Returned
<1>10. SumFunctionOnSet(c, VLs) \in Int /\ SumFunctionOnSet(f, VLs) \in Int /\ SumFunctionOnSet(give, VLs) \in Int
  BY <1>1, <1>2, SumInt
<1> DEFINE k == SumFunctionOnSet(c, VLs)
<1>11. SumFunctionOnSet(g, VLs) = -Returned(c) /\ Returned(c) \in Int
  <2>1. k \in Int /\ SumFunctionOnSet(g, VLs) = m * k /\ Returned(c) = k * Grain
    BY <1>5, <1>9, <1>10
  <2> HIDE DEF k
  <2> QED
    BY <1>1, <2>1 DEF m
<1> QED
  BY <1>6, <1>8, <1>10, <1>11

LEMMA LawsRestored ==
    ASSUME NEW mode \in CreditTypes, NEW s \in NodeStates(mode), NEW t \in NodeStates(mode), NEW p \in Ports,
           NEW c \in Frames(mode), t.fc[p] = HandleReceivedControlPacket(mode, s.fc[p], c),
           \A q \in Ports \ {p} : t.fc[q] = s.fc[q],
           ComesBack(s, t, p, c),
           Conserved(mode, s)
    PROVE  Conserved(mode, t)
<1>1. ASSUME NEW q \in Ports PROVE Law(mode, t, q, 0, 0)
  <2>1. Law(mode, s, q, 0, 0) /\ c \in [VLs -> 0 .. CreditMax]
    BY DEF Conserved, Frames, CreditTypes
  <2>2. /\ SumFunctionOnSet(Account(s, q), VLs) \in Int /\ s.fc[q].share \in Nat /\ s.fc[q] \in FcStates
        /\ \A w \in VLs : /\ Account(s, q)[w] \in Int
                          /\ s.fc[q].txfree[w] \in Nat /\ Under(s, q, w) \in Nat
                          /\ Account(s, q)[w] = s.fc[q].txfree[w] + Under(s, q, w)
                          /\ Account(t, q)[w] = t.fc[q].txfree[w] + Under(t, q, w)
    BY AccountOf
  <2>3. CASE q # p
    <3>1. t.fc[q] = s.fc[q] /\ \A w \in VLs : Under(t, q, w) = Under(s, q, w) + 0
      BY <2>3 DEF ComesBack
    <3>2. \A w \in VLs : Account(t, q)[w] = Account(s, q)[w]
      BY <2>2, <3>1
    <3>3. SumFunctionOnSet(Account(t, q), VLs) = SumFunctionOnSet(Account(s, q), VLs)
      BY <3>2, AccountStays
    <3> QED
      BY <2>1, <3>1, <3>2, <3>3 DEF Law
  <2>4. CASE q = p
    <3>1. \A w \in VLs : Grain * c[w] \in Nat /\ Under(t, q, w) = Under(s, q, w) + -(Grain * c[w])
      BY <2>4 DEF ComesBack
    <3>2. CASE mode = "CBFC"
      <4>1. t.fc[q] = CbfcRestoreCrd(s.fc[q], c)
        BY <2>4, <3>2 DEF HandleReceivedControlPacket
      <4>2. \A w \in VLs : t.fc[q].txfree[w] = s.fc[q].txfree[w] + c[w] * Grain
        BY <2>2, <4>1 DEF CbfcRestoreCrd, FcStates
      <4>3. \A w \in VLs : c[w] * Grain = Grain * c[w]
        <5> TAKE w \in VLs
        <5>1. c[w] \in Int /\ Grain \in Int
          BY <2>1, NumbersTyped
        <5> QED
          BY <5>1
      <4>4. \A w \in VLs : Account(t, q)[w] = Account(s, q)[w]
        <5> TAKE w \in VLs
        <5> DEFINE n == Grain * c[w]
        <5>1. n \in Nat /\ Under(t, q, w) = Under(s, q, w) + -n /\ t.fc[q].txfree[w] = s.fc[q].txfree[w] + n
          BY <3>1, <4>2, <4>3
        <5> HIDE DEF n
        <5> QED
          BY <2>2, <5>1
      <4> QED
        BY <2>1, <3>2, <4>4 DEF Law
    <3>3. CASE mode = "CBFC_SHARED"
      <4>1. t.fc[q] = CbfcSharedRestoreCrd(s.fc[q], c)
        BY <2>4, <3>3 DEF HandleReceivedControlPacket
      <4>2. PICK give \in [VLs -> Nat] :
               /\ t.fc[q].share = s.fc[q].share + Returned(c) - SumFunctionOnSet(give, VLs)
               /\ \A w \in VLs : t.fc[q].txfree[w] = s.fc[q].txfree[w] + give[w]
        <5>1. Given(s.fc[q], t.fc[q], c)
          BY <2>1, <2>2, <4>1, SharedRestores
        <5> QED
          BY <5>1 DEF Given
      <4> DEFINE f == Account(s, q)
                 h == Account(t, q)
      <4>3. \A w \in VLs : h[w] = f[w] + (give[w] - Grain * c[w])
        <5> TAKE w \in VLs
        <5> DEFINE n == Grain * c[w]
        <5>1. n \in Nat /\ Under(t, q, w) = Under(s, q, w) + -n /\ t.fc[q].txfree[w] = s.fc[q].txfree[w] + give[w]
          BY <3>1, <4>2
        <5>2. give[w] \in Nat
          OBVIOUS
        <5>3. f[w] = s.fc[q].txfree[w] + Under(s, q, w) /\ h[w] = t.fc[q].txfree[w] + Under(t, q, w)
          BY <2>2
        <5> HIDE DEF n, f, h
        <5>4. h[w] = f[w] + (give[w] - n)
          BY <2>2, <5>1, <5>2, <5>3
        <5> QED
          BY <5>4 DEF n
      <4>4. \A w \in VLs : f[w] \in Int
        BY <2>2
      <4>5. SumFunctionOnSet(f, VLs) \in Int
        BY <2>2
      <4>6. s.fc[q].share + SumFunctionOnSet(f, VLs) + 0 = Pool
        BY <2>1, <3>3 DEF Law
      <4> HIDE DEF f, h
      <4>7. SumFunctionOnSet(h, VLs) = SumFunctionOnSet(f, VLs) + SumFunctionOnSet(give, VLs) - Returned(c)
        BY <2>1, <4>3, <4>4, RestoredSum
      <4>8. SumFunctionOnSet(give, VLs) \in Int /\ Returned(c) \in Int
        <5>1. \A w \in VLs : give[w] \in Int
          OBVIOUS
        <5> QED
          BY <2>1, <5>1, SumInt, PortsTyped, ReturnedTyped
      <4>9. t.fc[q].share + SumFunctionOnSet(h, VLs) + 0 = Pool
        BY <2>2, <4>2, <4>5, <4>6, <4>7, <4>8
      <4> QED
        BY <3>3, <4>9 DEF Law, h
    <3> QED
      BY <3>2, <3>3 DEF CreditTypes
  <2> QED
    BY <2>3, <2>4
<1> QED
  BY <1>1 DEF Conserved

\* With the law, what it takes to keep it and to bound the cells under way.
ReserveKept(mode, s) == mode = "CBFC_SHARED" => \A p \in Ports : s.fc[p].txfree[0] = InitCrd
FundedBut(mode, s, r, v, n) == Laws(mode, s, r, v, n) /\ ReturnsSmall(s) /\ ReserveKept(mode, s)
Funded(mode, s) == Conserved(mode, s) /\ ReturnsSmall(s) /\ ReserveKept(mode, s)

LEMMA FundedIs ==
    ASSUME NEW mode, NEW s \in NodeStates(mode), NEW r, NEW v
    PROVE  Funded(mode, s) <=> FundedBut(mode, s, r, v, 0)
  BY ConservedIs DEF Funded, FundedBut

LEMMA FundedSteady ==
    ASSUME NEW mode, NEW s \in NodeStates(mode), NEW t \in NodeStates(mode), t.fc = s.fc, Steady(s, t),
           NEW r, NEW v \in VLs, NEW n \in Int, FundedBut(mode, s, r, v, n)
    PROVE  FundedBut(mode, t, r, v, n)
<1>1. SameHeld(s, t)
  BY DEF SameHeld, SameCredits
<1>2. Laws(mode, t, r, v, n)
  BY <1>1, LawsSteady DEF FundedBut
<1> QED
  BY <1>2 DEF FundedBut, ReturnsSmall, ReserveKept

LEMMA FundedQueues ==
    ASSUME NEW mode, NEW s \in NodeStates(mode), NEW t \in NodeStates(mode), t.fc = s.fc, SameQueues(s, t),
           NEW r, NEW v \in VLs, NEW n \in Int, FundedBut(mode, s, r, v, n)
    PROVE  FundedBut(mode, t, r, v, n)
<1>1. Steady(s, t)
  BY SteadyQueues
<1> QED
  BY <1>1, FundedSteady

LEMMA FundedSame ==
    ASSUME NEW mode, NEW s \in NodeStates(mode), NEW t \in NodeStates(mode), t.fc = s.fc,
           SameQueues(s, t) \/ Steady(s, t), Funded(mode, s)
    PROVE  Funded(mode, t)
<1>1. Steady(s, t)
  BY SteadyQueues
<1>2. FundedBut(mode, s, 0, 0, 0) /\ 0 \in VLs /\ 0 \in Int
  BY FundedIs, NumbersTyped
<1>3. FundedBut(mode, t, 0, 0, 0)
  BY <1>1, <1>2, FundedSteady
<1> QED
  BY <1>3, FundedIs

\* The steps that move no credit and no packet between queues.
LEMMA SameFcOf ==
    ASSUME NEW s, NEW t, NEW p \in Ports,
           \/ \E kind : EventTaken(s, t, p, kind) \/ EventMore(s, t, p, kind)
           \/ RoundEnd(s, t, p) \/ AllocatorTriggered(s, t, p) \/ Notified(s, t, p) \/ Pumped(s, t, p)
           \/ \E in, out, vl, n : Shrunk(s, t, in, out, vl, n)
    PROVE  t.fc = s.fc /\ SameQueues(s, t)
<1>1. t.fc = s.fc
  BY DEF EventTaken, EventMore, RoundEnd, AllocatorTriggered, PortSet, Notified, Pumped, PortOnly, Shrunk
<1>2. SameQueues(s, t)
  BY SameQueuesOf
<1> QED
  BY <1>1, <1>2

LEMMA FundedRun ==
    ASSUME NEW mode, NEW s \in NodeStates(mode), NEW t \in NodeStates(mode), NEW p \in Ports,
           RunShape(mode, s, t, p), Funded(mode, s)
    PROVE  Funded(mode, t)
<1>1. PICK m \in NodeStates(mode), kind \in Kinds : EventTaken(s, m, p, kind) /\ Ran(m, t, p, kind)
  BY DEF RunShape
<1>2. m.fc = s.fc /\ SameQueues(s, m)
  BY <1>1, SameFcOf
<1>3. AllocatorTriggered(m, t, p) \/ Notified(m, t, p) \/ Pumped(m, t, p)
  BY <1>1 DEF Ran
<1>4. t.fc = m.fc /\ SameQueues(m, t)
  BY <1>3, SameFcOf
<1>5. Funded(mode, m)
  BY <1>2, FundedSame
<1> QED
  BY <1>4, <1>5, FundedSame

LEMMA FundedComplete ==
    ASSUME NEW mode, NEW s \in NodeStates(mode), NEW t \in NodeStates(mode), NEW p \in Ports,
           CompleteShape(mode, s, t, p), Funded(mode, s)
    PROVE  Funded(mode, t)
<1>1. PICK m \in NodeStates(mode) : /\ PortSet(s, m, p, [s.port[p] EXCEPT !.busy = FALSE])
                                    /\ EventMore(m, t, p, "TriggerTransmit")
  BY DEF CompleteShape
<1>2. m.fc = s.fc /\ SameQueues(s, m)
  <2>1. s.port[p] \in PortStates(mode)
    BY PortFields
  <2>2. m.port[p].wire = s.port[p].wire /\ m.port[p].egress = s.port[p].egress
        /\ \A q \in Ports \ {p} : m.port[q] = s.port[q]
    BY <1>1, <2>1 DEF PortSet, PortStates
  <2> QED
    BY <1>1, <2>2 DEF PortSet, SameQueues, Line
<1>3. Funded(mode, m)
  BY <1>2, FundedSame
<1>4. t.fc = m.fc /\ SameQueues(m, t)
  BY <1>1, SameFcOf
<1> QED
  BY <1>3, <1>4, FundedSame

LEMMA FundedLdst ==
    ASSUME NoWorkOnVlZero, NEW mode, NEW s \in NodeStates(mode), NEW t \in NodeStates(mode), NEW f \in FlowIds,
           LdstShape(mode, s, t, f), Funded(mode, s)
    PROVE  Funded(mode, t)
<1> DEFINE p == Flows[f].src
           vl == Flows[f].vl
           k == <<p, vl, p>>
<1>0. p \in Ports /\ vl # 0
  BY FlowsTyped DEF NoWorkOnVlZero
<1>1. PICK m \in NodeStates(mode) : /\ VoqSet(s, m, k, Append(s.voq[k], Data(f)))
                                    /\ EventMore(m, t, p, "TriggerTransmit")
  BY DEF LdstShape
<1>2. m.fc = s.fc /\ (\A q \in Ports : Line(m, q) = Line(s, q))
      /\ \A j \in VoqKeys \ {k} : m.voq[j] = s.voq[j]
  BY <1>1 DEF VoqSet, Line
<1> HIDE DEF p, vl
<1>3. Steady(s, m)
  BY <1>0, <1>2, SteadyOwn
<1>4. Funded(mode, m)
  BY <1>2, <1>3, FundedSame
<1>5. t.fc = m.fc /\ SameQueues(m, t)
  BY <1>0, <1>1, SameFcOf
<1> QED
  BY <1>4, <1>5, FundedSame

\* A packet of data that the port has the credits for is sent.
LEMMA FundedEnqueued ==
    ASSUME NoWorkOnVlZero, NEW mode \in CreditTypes, NEW s \in NodeStates(mode), NEW t \in NodeStates(mode),
           NEW p \in Ports, NEW q, NEW pkt \in Packets(mode), IsData(pkt), q.vl = Flows[pkt.flow].vl,
           Enqueued(mode, s, t, p, q, pkt), EgressHasRoom(s.port[p], pkt),
           Affordable(mode, s.fc[p], Flows[pkt.flow].vl, Cells(Bytes(pkt))),
           NEW r, NEW v \in VLs, NEW n \in Int, FundedBut(mode, s, r, v, n)
    PROVE  FundedBut(mode, t, r, v, n)
<1> DEFINE vl == Flows[pkt.flow].vl
           c == Cells(Bytes(pkt))
<1>1. vl \in VLs /\ vl # 0 /\ c \in Nat /\ Bytes(pkt) \in Nat /\ q.vl = vl /\ q.vl \in VLs
  BY CellsOfData DEF NoWorkOnVlZero
<1>2. ~IsControlFrame(q)
  BY <1>1 DEF IsControlFrame
<1>3. /\ t.fc[p] = HandleSentPacket(mode, s.fc[p], q, vl, Bytes(pkt))
      /\ \A i \in Ports \ {p} : t.fc[i] = s.fc[i]
  BY <1>1 DEF Enqueued
<1>4. Shift(s, t, p, vl, c)
  BY <1>1, ShiftEnqueued
<1>5. Affordable(mode, s.fc[p], vl, c) /\ s.fc[p] \in FcStates
  BY PortFields
<1>6. Consumed(mode, s.fc[p], t.fc[p], vl, c)
  <2> HIDE DEF vl
  <2> QED
    BY <1>1, <1>2, <1>3, <1>5, ConsumedDoes
<1> HIDE DEF vl, c
<1>7. Laws(mode, t, r, v, n)
  BY <1>1, <1>3, <1>4, <1>6, LawsConsumed DEF FundedBut
<1>8. ReturnsSmall(t)
  BY <1>3, <1>6 DEF ReturnsSmall, FundedBut, Consumed
<1>9. ReserveKept(mode, t)
  <2>1. t.fc[p].txfree[0] = s.fc[p].txfree[0]
    <3>1. t.fc[p].txfree[0] = s.fc[p].txfree[0] - 0
      BY <1>1, <1>6, NumbersTyped DEF Consumed
    <3>2. s.fc[p].txfree[0] \in Nat
      BY <1>5, NumbersTyped DEF FcStates
    <3> QED
      BY <3>1, <3>2
  <2> QED
    BY <1>3, <2>1 DEF ReserveKept, FundedBut
<1> QED
  BY <1>7, <1>8, <1>9 DEF FundedBut

LEMMA FundedTp ==
    ASSUME NoWorkOnVlZero, NEW mode \in CreditTypes, NEW s \in NodeStates(mode), NEW t \in NodeStates(mode),
           NEW p \in Ports, NEW f \in FlowIds, ServeTpShape(mode, s, t, p, f),
           EgressHasRoom(s.port[p], Data(f)),
           Affordable(mode, s.fc[p], Flows[f].vl, Cells(Flows[f].bytes)), Funded(mode, s)
    PROVE  Funded(mode, t)
<1>1. PICK a \in NodeStates(mode) : Enqueued(mode, s, a, p, Tp(f), Data(f)) /\ RoundEnd(a, t, p)
  BY DEF ServeTpShape
<1> DEFINE pkt == Data(f)
           q == Tp(f)
<1>2. pkt \in Packets(mode) /\ IsData(pkt) /\ pkt.flow = f /\ Bytes(pkt) = Flows[f].bytes
  BY DataPacket
<1>3. q.vl = Flows[pkt.flow].vl
  BY <1>2, QueueFields
<1>4. Affordable(mode, s.fc[p], Flows[pkt.flow].vl, Cells(Bytes(pkt)))
  BY <1>2
<1>5. Enqueued(mode, s, a, p, q, pkt) /\ EgressHasRoom(s.port[p], pkt)
  BY <1>1
<1>6. FundedBut(mode, s, 0, 0, 0) /\ 0 \in VLs /\ 0 \in Int
  BY FundedIs, NumbersTyped
<1> HIDE DEF pkt, q
<1>7. FundedBut(mode, a, 0, 0, 0)
  BY <1>2, <1>3, <1>4, <1>5, <1>6, FundedEnqueued
<1>8. Funded(mode, a)
  BY <1>7, FundedIs
<1>9. t.fc = a.fc /\ SameQueues(a, t)
  BY <1>1, SameFcOf
<1> QED
  BY <1>8, <1>9, FundedSame

\* The cells of a packet that is released are noted for its link.
LEMMA FundedReturned ==
    ASSUME NEW mode \in CreditTypes, NEW s \in NodeStates(mode), NEW t \in NodeStates(mode), NEW r \in Ports,
           NEW vl \in VLs, NEW bytes \in Nat, CreditsReturned(mode, s, t, r, vl, bytes), Enough(bytes),
           FundedBut(mode, s, Peer[r], vl, Cells(bytes))
    PROVE  Funded(mode, t)
<1> DEFINE c == Cells(bytes)
           o == Peer[r]
<1>1. c \in Nat /\ Shift(s, t, o, vl, c) /\ ReturnsSmall(t) /\ SameHeld(s, t)
  BY CellsTyped, ShiftReturned DEF FundedBut
<1>2. Laws(mode, s, o, vl, c)
  BY DEF FundedBut
<1> HIDE DEF c, o
<1>3. Laws(mode, t, o, vl, 0)
  <2>1. 0 = c - c /\ c \in Int
    BY <1>1
  <2> QED
    BY <1>1, <1>2, <2>1, LawsShift
<1>4. ReserveKept(mode, t)
  BY <1>1 DEF ReserveKept, FundedBut, SameHeld, SameCredits
<1> QED
  BY <1>1, <1>3, <1>4, FundedIs DEF FundedBut

\* Cells of a queue of the link to q are gone from it.
LEMMA FundedGone ==
    ASSUME NEW mode, NEW s \in NodeStates(mode), NEW t \in NodeStates(mode), t.fc = s.fc,
           NEW r, NEW v \in VLs, NEW c \in Nat, Shift(s, t, r, v, -c), Funded(mode, s)
    PROVE  FundedBut(mode, t, r, v, c)
<1>1. FundedBut(mode, s, r, v, 0)
  BY FundedIs
<1>2. SameHeld(s, t)
  BY DEF SameHeld, SameCredits
<1> DEFINE d == -c
<1>3. c = 0 - d /\ d \in Int /\ 0 \in Int /\ Shift(s, t, r, v, d)
  OBVIOUS
<1> HIDE DEF d
<1>4. Laws(mode, t, r, v, c)
  BY <1>1, <1>2, <1>3, LawsShift DEF FundedBut
<1> QED
  BY <1>1, <1>4 DEF FundedBut, ReturnsSmall, ReserveKept

\* They have come to another.
LEMMA FundedThere ==
    ASSUME NEW mode, NEW s \in NodeStates(mode), NEW t \in NodeStates(mode), t.fc = s.fc,
           NEW r, NEW v \in VLs, NEW c \in Nat, Shift(s, t, r, v, c), FundedBut(mode, s, r, v, c)
    PROVE  Funded(mode, t)
<1>1. SameHeld(s, t)
  BY DEF SameHeld, SameCredits
<1>2. 0 = c - c /\ c \in Int
  OBVIOUS
<1>3. Laws(mode, t, r, v, 0)
  BY <1>1, <1>2, LawsShift DEF FundedBut
<1>4. FundedBut(mode, t, r, v, 0)
  BY <1>3 DEF FundedBut, ReturnsSmall, ReserveKept
<1> QED
  BY <1>4, FundedIs

LEMMA FundedSink ==
    ASSUME NEW mode \in CreditTypes, NEW s \in PlacedStates(mode), NEW t \in NodeStates(mode), NEW p \in Ports,
           NEW pkt, pkt = Head(s.port[Peer[p]].wire), IsData(pkt), SinkShape(mode, s, t, p, pkt),
           Enough(Bytes(pkt)), Funded(mode, s)
    PROVE  Funded(mode, t)
<1>1. PICK a \in NodeStates(mode) :
         Received(s, a, p) /\ CreditsReturned(mode, a, t, p, Flows[pkt.flow].vl, Bytes(pkt))
  BY DEF SinkShape
<1> DEFINE v == Flows[pkt.flow].vl
           c == Cells(Bytes(pkt))
           r == Peer[p]
<1>2. pkt \in Packets(mode) /\ Shift(s, a, r, v, -c) /\ a.fc = s.fc
  BY <1>1, ShiftArrived
<1>3. v \in VLs /\ c \in Nat /\ Bytes(pkt) \in Nat /\ s \in NodeStates(mode)
  BY <1>2, CellsOfData DEF PlacedStates
<1>4. CreditsReturned(mode, a, t, p, v, Bytes(pkt))
  BY <1>1
<1> HIDE DEF v
<1>5. FundedBut(mode, a, r, v, c)
  <2> HIDE DEF c, r
  <2> QED
    BY <1>2, <1>3, FundedGone
<1> QED
  BY <1>3, <1>4, <1>5, FundedReturned

LEMMA FundedForward ==
    ASSUME NEW mode \in CreditTypes, NEW s \in PlacedStates(mode), NEW t \in NodeStates(mode), NEW p \in Ports,
           NEW pkt, pkt = Head(s.port[Peer[p]].wire), IsData(pkt), ForwardShape(mode, s, t, p, pkt),
           OutPort(p, pkt.flow) \in Ports, OutPort(p, pkt.flow) # p,
           <<OutPort(p, pkt.flow), Flows[pkt.flow].vl, p>> \in VoqKeys, Funded(mode, s)
    PROVE  Funded(mode, t)
<1> DEFINE v == Flows[pkt.flow].vl
           c == Cells(Bytes(pkt))
           r == Peer[p]
           out == OutPort(p, pkt.flow)
<1>1. PICK a \in NodeStates(mode) : Received(s, a, p) /\ Forwarded(mode, a, t, pkt, p, out, v)
  BY DEF ForwardShape
<1>2. PICK b \in NodeStates(mode) : Pushed(a, b, pkt, p, out, v) /\ Pumped(b, t, out)
  BY <1>1 DEF Forwarded, CreditTypes
<1>3. pkt \in Packets(mode) /\ Shift(s, a, r, v, -c) /\ a.fc = s.fc
  <2>1. Received(s, a, p)
    BY <1>1
  <2>2. /\ pkt \in Packets(mode) /\ a.fc = s.fc
        /\ Shift(s, a, Peer[p], Flows[pkt.flow].vl, -Cells(Bytes(pkt)))
    <3>1. \A h : h = Head(s.port[Peer[p]].wire) /\ IsData(h) =>
             /\ h \in Packets(mode) /\ a.fc = s.fc
             /\ Shift(s, a, Peer[p], Flows[h.flow].vl, -Cells(Bytes(h)))
      BY <2>1, ShiftArrived
    <3> QED
      BY <3>1
  <2> QED
    BY <2>2
<1>4. v \in VLs /\ c \in Nat /\ s \in NodeStates(mode) /\ Flows[pkt.flow].vl = v
  BY <1>3, CellsOfData DEF PlacedStates
<1>5. out \in Ports /\ out # p /\ <<out, v, p>> \in VoqKeys
  OBVIOUS
<1> HIDE DEF v, out
<1>6. FundedBut(mode, a, r, v, c)
  <2> HIDE DEF c, r
  <2> QED
    BY <1>3, <1>4, FundedGone
<1>7. Shift(a, b, r, v, c) /\ b.fc = a.fc
  <2>1. Pushed(a, b, pkt, p, out, v)
    BY <1>2
  <2>2. Shift(a, b, Peer[p], v, Cells(Bytes(pkt))) /\ b.fc = a.fc
    <3>1. \A h \in Packets(mode) : IsData(h) /\ Flows[h.flow].vl = v /\ Pushed(a, b, h, p, out, v) =>
             Shift(a, b, Peer[p], v, Cells(Bytes(h))) /\ b.fc = a.fc
      BY <1>4, <1>5, ShiftPushed, SMTT(30)
    <3> QED
      BY <1>3, <1>4, <2>1, <3>1
  <2> QED
    BY <2>2
<1>8. Funded(mode, b)
  <2> HIDE DEF c, r
  <2> QED
    BY <1>4, <1>6, <1>7, FundedThere
<1>9. t.fc = b.fc /\ SameQueues(b, t)
  BY <1>2, <1>5, SameFcOf
<1> QED
  BY <1>8, <1>9, FundedSame

LEMMA FundedControl ==
    ASSUME NEW mode \in CreditTypes, NEW s \in PlacedStates(mode), NEW t \in NodeStates(mode), NEW p \in Ports,
           NEW pkt, pkt = Head(s.port[Peer[p]].wire), ~IsData(pkt), NEW x, x = pkt.credits,
           ControlShape(mode, s, t, p, x), Funded(mode, s)
    PROVE  Funded(mode, t)
<1>1. PICK a, b \in NodeStates(mode) :
         /\ Received(s, a, p)
         /\ FcSet(a, b, p, HandleReceivedControlPacket(mode, s.fc[p], x))
         /\ EventMore(b, t, p, "TriggerTransmit")
  BY DEF ControlShape
<1>2. x \in Frames(mode) /\ ComesBack(s, a, p, x)
  <2>1. Received(s, a, p)
    BY <1>1
  <2> QED
    BY <2>1, UnderArrived
<1>3. a.fc = s.fc /\ s \in NodeStates(mode)
  BY <1>1, PlacedReceived DEF PlacedStates
<1>4. SameQueues(a, b)
  BY <1>1, SameQueuesOf
<1>5. b.fc[p] = HandleReceivedControlPacket(mode, s.fc[p], x) /\ \A q \in Ports \ {p} : b.fc[q] = s.fc[q]
  BY <1>1, <1>3 DEF FcSet
<1>6. s.fc[p] \in FcStates
  BY <1>3, PortFields
<1>7. SameNotes(s.fc[p], b.fc[p])
  BY <1>2, <1>5, <1>6, HandleReceivedDoes
<1>8. \A q \in Ports : b.fc[q].toReturn = s.fc[q].toReturn
  BY <1>5, <1>7 DEF SameNotes
<1>9. \A q \in Ports : \A w \in VLs : Under(b, q, w) = Under(a, q, w)
  <2>1. \A q \in Ports : b.fc[q].toReturn = a.fc[q].toReturn
    BY <1>3, <1>8
  <2> QED
    BY <1>4, <2>1, SteadyQueues DEF Steady
<1>10. ComesBack(s, b, p, x)
  BY <1>2, <1>9 DEF ComesBack
<1>11. Conserved(mode, b)
  BY <1>2, <1>3, <1>5, <1>10, LawsRestored DEF Funded
<1>12. ReturnsSmall(b)
  BY <1>8 DEF ReturnsSmall, Funded
<1>13. ReserveKept(mode, b)
  <2> SUFFICES ASSUME mode = "CBFC_SHARED" PROVE b.fc[p].txfree[0] = InitCrd
    BY <1>5 DEF ReserveKept, Funded
  <2>1. s.fc[p].txfree[0] = InitCrd /\ InitCrd \in Nat /\ 0 \in VLs
    BY NumbersTyped DEF ReserveKept, Funded
  <2>2. b.fc[p] = CbfcSharedRestoreCrd(s.fc[p], x) /\ x \in [VLs -> 0 .. CreditMax]
    BY <1>2, <1>5 DEF HandleReceivedControlPacket, Frames
  <2>3. PICK give \in [VLs -> Nat] :
           \A w \in VLs : /\ b.fc[p].txfree[w] = s.fc[p].txfree[w] + give[w]
                          /\ InitCrd <= s.fc[p].txfree[w] => give[w] = 0
    <3>1. Given(s.fc[p], b.fc[p], x)
      BY <1>6, <2>2, SharedRestores
    <3> QED
      BY <3>1 DEF Given
  <2> QED
    BY <2>1, <2>3
<1>14. t.fc = b.fc /\ SameQueues(b, t)
  BY <1>1, SameFcOf
<1> QED
  BY <1>11, <1>12, <1>13, <1>14, FundedSame DEF Funded

\* A VOQ is served.
LEMMA VoqParts ==
    ASSUME NEW mode, NEW s, NEW t, NEW p, NEW vl, NEW in, NEW pkt, pkt = Head(s.voq[<<p, vl, in>>]),
           ServeVoqShape(mode, s, t, p, vl, in)
    PROVE  \E a, b, c, d \in NodeStates(mode) :
              /\ VoqSet(s, a, <<p, vl, in>>, Tail(s.voq[<<p, vl, in>>]))
              /\ Enqueued(mode, a, b, p, Voq(p, vl, in), pkt)
              /\ Freed(mode, b, c, pkt, in, p)
              /\ d = c \/ \E n : Shrunk(c, d, in, p, vl, n)
              /\ RoundEnd(d, t, p)
<1> DEFINE k == <<p, vl, in>>
<1>1. PICK a, b, c, d \in NodeStates(mode) :
            /\ VoqSet(s, a, k, Tail(s.voq[k]))
            /\ Enqueued(mode, a, b, p, Voq(p, vl, in), pkt)
            /\ Freed(mode, b, c, pkt, in, p)
            /\ IF IsGeneratedDataPacket(Voq(p, vl, in)) THEN d = c
               ELSE Shrunk(c, d, in, p, vl, Bytes(pkt))
            /\ RoundEnd(d, t, p)
  BY DEF ServeVoqShape
<1>2. d = c \/ \E n : Shrunk(c, d, in, p, vl, n)
  BY <1>1
<1> QED
  BY <1>1, <1>2

\* The end of the round that served it.
LEMMA FundedEnd ==
    ASSUME NEW mode, NEW c \in NodeStates(mode), NEW d \in NodeStates(mode), NEW t \in NodeStates(mode),
           NEW p \in Ports, NEW in \in Ports, NEW vl, d = c \/ \E n : Shrunk(c, d, in, p, vl, n), RoundEnd(d, t, p), Funded(mode, c)
    PROVE  Funded(mode, t)
<1>1. Funded(mode, d)
  <2>1. CASE d = c
    BY <2>1
  <2>2. CASE \E n : Shrunk(c, d, in, p, vl, n)
    <3>1. d.fc = c.fc /\ SameQueues(c, d)
      BY <2>2, SameFcOf
    <3> QED
      BY <3>1, FundedSame
  <2> QED
    BY <2>1, <2>2
<1>2. t.fc = d.fc /\ SameQueues(d, t)
  BY SameFcOf
<1> QED
  BY <1>1, <1>2, FundedSame

\* A packet that came by a link.
LEMMA FundedPassed ==
    ASSUME NoWorkOnVlZero, NEW mode \in CreditTypes, NEW s \in PlacedStates(mode),
           NEW a \in NodeStates(mode), NEW b \in NodeStates(mode), NEW c \in NodeStates(mode),
           NEW p \in Ports, NEW vl \in VLs, NEW in \in Ports, <<p, vl, in>> \in VoqKeys, p # in,
           s.voq[<<p, vl, in>>] # <<>>, NEW pkt, pkt = Head(s.voq[<<p, vl, in>>]),
           VoqSet(s, a, <<p, vl, in>>, Tail(s.voq[<<p, vl, in>>])),
           Enqueued(mode, a, b, p, Voq(p, vl, in), pkt), Freed(mode, b, c, pkt, in, p),
           EgressHasRoom(s.port[p], pkt), Affordable(mode, s.fc[p], vl, Cells(Bytes(pkt))),
           Enough(Bytes(pkt)), Funded(mode, s)
    PROVE  Funded(mode, c)
<1> DEFINE q == Voq(p, vl, in)
           n == Cells(Bytes(pkt))
           r == Peer[in]
<1>1. /\ IsData(pkt) /\ Flows[pkt.flow].vl = vl /\ pkt \in Packets(mode) /\ Shift(s, a, r, vl, -n)
      /\ s \in NodeStates(mode)
  BY ShiftTail DEF PlacedStates
<1>2. a.fc = s.fc /\ a.port = s.port
  BY DEF VoqSet
<1>3. n \in Nat /\ Bytes(pkt) \in Nat
  BY <1>1, CellsOfData
<1>4. FundedBut(mode, a, r, vl, n)
  <2> HIDE DEF n, r
  <2> QED
    BY <1>1, <1>2, <1>3, FundedGone
<1>5. q.vl = Flows[pkt.flow].vl /\ Enqueued(mode, a, b, p, q, pkt) /\ EgressHasRoom(a.port[p], pkt)
      /\ Affordable(mode, a.fc[p], Flows[pkt.flow].vl, Cells(Bytes(pkt)))
  BY <1>1, <1>2, QueueFields
<1> HIDE DEF q, r
<1>6. FundedBut(mode, b, r, vl, n)
  <2>1. n \in Int
    BY <1>3
  <2> HIDE DEF n
  <2> QED
    BY <1>1, <1>4, <1>5, <2>1, FundedEnqueued
<1>7. CreditsReturned(mode, b, c, in, vl, Bytes(pkt))
  <2>1. p # in /\ mode # "NONE" /\ mode # "PFC"
    BY DEF CreditTypes
  <2> QED
    BY <1>1, <2>1 DEF Freed
<1>8. FundedBut(mode, b, Peer[in], vl, Cells(Bytes(pkt)))
  BY <1>6 DEF r
<1> QED
  BY <1>3, <1>7, <1>8, FundedReturned

\* A packet that was generated here.
LEMMA FundedOwn ==
    ASSUME NoWorkOnVlZero, NEW mode \in CreditTypes, NEW s \in PlacedStates(mode),
           NEW a \in NodeStates(mode), NEW b \in NodeStates(mode),
           NEW p \in Ports, NEW vl \in VLs, <<p, vl, p>> \in VoqKeys, vl # 0,
           s.voq[<<p, vl, p>>] # <<>>, NEW pkt, pkt = Head(s.voq[<<p, vl, p>>]),
           VoqSet(s, a, <<p, vl, p>>, Tail(s.voq[<<p, vl, p>>])),
           Enqueued(mode, a, b, p, Voq(p, vl, p), pkt),
           EgressHasRoom(s.port[p], pkt), Affordable(mode, s.fc[p], vl, Cells(Bytes(pkt))), Funded(mode, s)
    PROVE  Funded(mode, b)
<1> DEFINE q == Voq(p, vl, p)
           k == <<p, vl, p>>
<1>1. s \in NodeStates(mode) /\ pkt \in Packets(mode) /\ pkt \in InVoq(mode, k)
  BY HeadOfVoq DEF PlacedStates
<1>2. IsData(pkt) /\ Flows[pkt.flow].vl = vl
  <2>1. k[2] = vl /\ k[2] # 0
    OBVIOUS
  <2> HIDE DEF k
  <2> QED
    BY <1>1, <2>1 DEF InVoq
<1>3. a.fc = s.fc /\ a.port = s.port /\ (\A i \in Ports : Line(a, i) = Line(s, i))
      /\ \A j \in VoqKeys \ {<<p, vl, p>>} : a.voq[j] = s.voq[j]
  BY DEF VoqSet, Line
<1>4. Steady(s, a)
  BY <1>3, SteadyOwn
<1>5. Funded(mode, a)
  BY <1>1, <1>3, <1>4, FundedSame
<1>6. FundedBut(mode, a, 0, 0, 0) /\ 0 \in VLs /\ 0 \in Int
  BY <1>5, FundedIs, NumbersTyped
<1>7. q.vl = Flows[pkt.flow].vl /\ Enqueued(mode, a, b, p, q, pkt) /\ EgressHasRoom(a.port[p], pkt)
      /\ Affordable(mode, a.fc[p], Flows[pkt.flow].vl, Cells(Bytes(pkt)))
  BY <1>2, <1>3, QueueFields
<1> HIDE DEF q, k
<1>8. FundedBut(mode, b, 0, 0, 0)
  BY <1>1, <1>2, <1>6, <1>7, FundedEnqueued
<1> QED
  BY <1>8, FundedIs

\* A control frame.
LEMMA FundedFrame ==
    ASSUME NoWorkOnVlZero, NEW mode \in CreditTypes, NEW s \in PlacedStates(mode),
           NEW a \in NodeStates(mode), NEW b \in NodeStates(mode), NEW p \in Ports,
           s.voq[<<p, 0, p>>] # <<>>, NEW pkt, pkt = Head(s.voq[<<p, 0, p>>]),
           VoqSet(s, a, <<p, 0, p>>, Tail(s.voq[<<p, 0, p>>])),
           Enqueued(mode, a, b, p, Voq(p, 0, p), pkt), EgressHasRoom(s.port[p], pkt), Funded(mode, s)
    PROVE  Funded(mode, b)
<1> DEFINE q == Voq(p, 0, p)
           k == <<p, 0, p>>
<1>0. k \in VoqKeys /\ 0 \in VLs
  BY ControlKey
<1>1. s \in NodeStates(mode) /\ pkt \in Packets(mode) /\ pkt \in InVoq(mode, k)
  BY <1>0, HeadOfVoq DEF PlacedStates
<1>2. ~IsData(pkt)
  <2>1. k[2] = 0
    OBVIOUS
  <2> HIDE DEF k
  <2>2. IsData(pkt) => pkt.flow \in FlowIds /\ Flows[pkt.flow].vl = 0
    BY <1>1, <2>1, PacketKinds DEF InVoq
  <2> QED
    BY <2>2 DEF NoWorkOnVlZero
<1>3. a.fc = s.fc /\ a.port = s.port
  BY DEF VoqSet
<1>4. q.vl = 0 /\ q.in = p /\ q.out = p
  BY QueueFields
<1>5. Steady(s, b)
  <2>1. Enqueued(mode, a, b, p, q, pkt) /\ EgressHasRoom(a.port[p], pkt) /\ q.vl \in VLs
    BY <1>0, <1>3, <1>4
  <2> HIDE DEF q
  <2> QED
    BY <1>1, <1>2, <2>1, SteadyControl
<1>6. IsControlFrame(q)
  BY <1>4 DEF IsControlFrame
<1>7. b.fc[p] = s.fc[p] /\ \A i \in Ports \ {p} : b.fc[i] = s.fc[i]
  BY <1>3, <1>6 DEF Enqueued, HandleSentPacket
<1>8. b.fc = s.fc
  <2>1. b.fc \in [Ports -> FcStates] /\ s.fc \in [Ports -> FcStates]
    BY <1>1, NodeFields
  <2>2. \A i \in Ports : b.fc[i] = s.fc[i]
    BY <1>7
  <2> QED
    BY <2>1, <2>2
<1> QED
  BY <1>1, <1>5, <1>8, FundedSame

LEMMA FundedVoq ==
    ASSUME NoWorkOnVlZero, NEW mode \in CreditTypes, NEW s \in PlacedStates(mode), NEW t \in NodeStates(mode),
           NEW p \in Ports, NEW vl \in VLs, NEW in \in PortsOf(p), ServeVoqShape(mode, s, t, p, vl, in),
           s.voq[<<p, vl, in>>] # <<>>, NEW pkt, pkt = Head(s.voq[<<p, vl, in>>]),
           EgressHasRoom(s.port[p], pkt),
           in # p \/ vl # 0 => Affordable(mode, s.fc[p], vl, Cells(Bytes(pkt))),
           IsData(pkt) => Enough(Bytes(pkt)), Funded(mode, s)
    PROVE  Funded(mode, t)
<1>0. <<p, vl, in>> \in VoqKeys /\ in \in Ports
  BY KeysTyped
<1>1. PICK a, b, c, d \in NodeStates(mode) :
              /\ VoqSet(s, a, <<p, vl, in>>, Tail(s.voq[<<p, vl, in>>]))
              /\ Enqueued(mode, a, b, p, Voq(p, vl, in), pkt)
              /\ Freed(mode, b, c, pkt, in, p)
              /\ d = c \/ \E n : Shrunk(c, d, in, p, vl, n)
              /\ RoundEnd(d, t, p)
  BY VoqParts
<1>2. CASE in # p
  <2>1. IsData(pkt)
    <3>1. VoqSet(s, a, <<p, vl, in>>, Tail(s.voq[<<p, vl, in>>]))
      BY <1>1
    <3> QED
      BY <1>0, <1>2, <3>1, ShiftTail
  <2>2. Funded(mode, c)
    BY <1>0, <1>1, <1>2, <2>1, FundedPassed
  <2> QED
    BY <1>0, <1>1, <2>2, FundedEnd
<1>3. CASE in = p
  <2>1. c = b
    BY <1>1, <1>3 DEF Freed
  <2>2. Funded(mode, b)
    <3>1. CASE vl # 0
      BY <1>0, <1>1, <1>3, <3>1, FundedOwn
    <3>2. CASE vl = 0
      BY <1>0, <1>1, <1>3, <3>2, FundedFrame
    <3> QED
      BY <3>1, <3>2
  <2> QED
    BY <1>0, <1>1, <2>1, <2>2, FundedEnd
<1> QED
  BY <1>2, <1>3

-----------------------------------------------------------------------------
(* The credits let no more into a buffer than it holds.                    *)

LEMMA SumLess ==
    ASSUME NEW S, IsFiniteSet(S), NEW f, \A x \in S : f[x] \in Int,
           NEW g, \A x \in S : g[x] \in Int /\ f[x] <= g[x]
    PROVE  SumFunctionOnSet(f, S) <= SumFunctionOnSet(g, S)
<1> DEFINE h == [x \in S |-> g[x] - f[x]]
<1>1. \A x \in S : h[x] \in Nat /\ h[x] \in Int /\ g[x] = f[x] + h[x]
  OBVIOUS
<1> HIDE DEF h
<1>2. SumFunctionOnSet(h, S) \in Nat
  BY <1>1, SumNat
<1>3. SumFunctionOnSet(g, S) = SumFunctionOnSet(f, S) + SumFunctionOnSet(h, S)
  BY <1>1, SumPlus
<1>4. SumFunctionOnSet(f, S) \in Int
  BY SumInt
<1> QED
  BY <1>2, <1>3, <1>4

\* The bytes of a VOQ that a link feeds fit the cells they are counted as.
LEMMA BytesInCells ==
    ASSUME NEW mode, NEW out \in Ports, NEW vl \in VLs, NEW in \in Ports, out # in,
           NEW x \in Seq(InVoq(mode, <<out, vl, in>>)), x \in Seq(Packets(mode))
    PROVE  AllBytes(x) <= CellBytes * CellsOn(vl, x)
<1> DEFINE f == [i \in DOMAIN x |-> Bytes(x[i])]
           g == [i \in DOMAIN x |->
                    IF IsData(x[i]) /\ Flows[x[i].flow].vl = vl THEN Cells(Bytes(x[i])) ELSE 0]
           h == [i \in DOMAIN x |-> CellBytes * g[i]]
<1>1. IsFiniteSet(DOMAIN x) /\ DOMAIN x = 1 .. Len(x) /\ Len(x) \in Nat
  BY LenProperties, FS_Interval
<1>2. CellBytes \in Int
  BY NumbersTyped
<1>3. ASSUME NEW i \in DOMAIN x
      PROVE  f[i] \in Int /\ g[i] \in Int /\ h[i] \in Int /\ h[i] = CellBytes * g[i] /\ f[i] <= h[i]
  <2>1. x[i] \in InVoq(mode, <<out, vl, in>>)
    BY SeqElement
  <2>2. x[i] \in Packets(mode) /\ IsData(x[i]) /\ Flows[x[i].flow].vl = vl
    BY <2>1 DEF InVoq
  <2>3. Bytes(x[i]) \in Nat /\ Cells(Bytes(x[i])) \in Nat /\ Bytes(x[i]) <= CellBytes * Cells(Bytes(x[i]))
    BY <2>2, CellsOfData, CellsTyped
  <2>4. f[i] = Bytes(x[i]) /\ g[i] = Cells(Bytes(x[i])) /\ h[i] = CellBytes * g[i]
    BY <2>2
  <2>5. CellBytes * Cells(Bytes(x[i])) \in Int
    BY <1>2, <2>3
  <2> HIDE DEF f, g, h
  <2> QED
    BY <2>3, <2>4, <2>5
<1>4. DOMAIN f = DOMAIN x /\ DOMAIN g = DOMAIN x /\ AllBytes(x) = SumFunction(f) /\ CellsOn(vl, x) = SumFunction(g)
  BY DEF AllBytes, CellsOn
<1> HIDE DEF f, g, h
<1>5. SumFunctionOnSet(f, DOMAIN x) <= SumFunctionOnSet(h, DOMAIN x)
  BY <1>1, <1>3, SumLess
<1>6. SumFunctionOnSet(h, DOMAIN x) = CellBytes * SumFunctionOnSet(g, DOMAIN x)
  BY <1>1, <1>2, <1>3, SumTimes
<1>7. AllBytes(x) = SumFunctionOnSet(f, DOMAIN x) /\ CellsOn(vl, x) = SumFunctionOnSet(g, DOMAIN x)
  BY <1>4, SumAll
<1> QED
  BY <1>5, <1>6, <1>7

\* The account of the link's port is of no more bytes than the cells of its VOQs.
LEMMA HeldInCells ==
    ASSUME NEW mode, NEW s \in PlacedStates(mode), NEW p \in Ports, NEW vl \in VLs, vl # 0
    PROVE  InHeld(s, p, vl) \in Nat /\ InHeld(s, p, vl) <= CellBytes * FedCells(s, p, vl)
<1> DEFINE S == PortsOf(p)
           f == [out \in S |-> Counted(s, out, vl, p)]
           g == [out \in FedBy(p) |-> CellsOn(vl, s.voq[<<out, vl, p>>])]
           h == [out \in FedBy(p) |-> CellBytes * g[out]]
<1>0. s \in NodeStates(mode) /\ CellBytes \in Int
  BY NumbersTyped DEF PlacedStates
<1>1. /\ IsFiniteSet(S) /\ p \in S /\ S \subseteq Ports /\ FedBy(p) = S \ {p} /\ IsFiniteSet(FedBy(p))
      /\ FedBy(p) \subseteq Ports
  BY PortsTyped DEF FedBy
<1>2. \A out \in S : f[out] \in Nat /\ f[out] \in Int
  <2> TAKE out \in S
  <2>1. s.voq[<<out, vl, p>>] \in Seq(Packets(mode))
    <3>1. out \in Ports /\ <<out, vl, p>> \in VoqKeys
      BY <1>1, KeysTyped
    <3> QED
      BY <1>0, <3>1, NodeFields
  <2>2. AllBytes(s.voq[<<out, vl, p>>]) \in Nat
    BY <2>1, AllBytesSum
  <2> QED
    BY <2>2 DEF Counted
<1>3. f[p] = 0
  BY <1>1 DEF Counted, IsCounted
<1>4. ASSUME NEW out \in FedBy(p)
      PROVE  g[out] \in Int /\ h[out] \in Int /\ h[out] = CellBytes * g[out] /\ f[out] <= h[out]
  <2>1. out \in Ports /\ out # p /\ out \in S /\ <<out, vl, p>> \in VoqKeys
    BY <1>1, KeysTyped DEF FedBy
  <2> DEFINE x == s.voq[<<out, vl, p>>]
  <2>2. x \in Seq(InVoq(mode, <<out, vl, p>>)) /\ x \in Seq(Packets(mode))
    BY <1>0, <2>1, NodeFields DEF PlacedStates
  <2>3. CellsOn(vl, x) \in Nat
    BY <2>2, WeighedTyped
  <2>4. f[out] = AllBytes(x) /\ g[out] = CellsOn(vl, x) /\ h[out] = CellBytes * g[out]
    BY <2>1 DEF Counted, IsCounted
  <2> HIDE DEF x, f, g, h
  <2>5. AllBytes(x) <= CellBytes * CellsOn(vl, x)
    BY <2>1, <2>2, BytesInCells
  <2>6. CellBytes * CellsOn(vl, x) \in Int
    BY <1>0, <2>3
  <2> QED
    BY <2>3, <2>4, <2>5, <2>6
<1>5. DOMAIN f = S /\ DOMAIN g = FedBy(p) /\ InHeld(s, p, vl) = SumFunction(f) /\ FedCells(s, p, vl) = SumFunction(g)
  BY DEF InHeld, FedCells
<1> HIDE DEF f, g, h, S
<1>6. InHeld(s, p, vl) = SumFunctionOnSet(f, S) /\ FedCells(s, p, vl) = SumFunctionOnSet(g, FedBy(p))
  BY <1>5, SumAll
<1>7. SumFunctionOnSet(f, S) = f[p] + SumFunctionOnSet(f, S \ {p})
  BY <1>1, <1>2, SumRemove
<1>8. SumFunctionOnSet(f, S) \in Nat
  BY <1>1, <1>2, SumNat
<1>9. SumFunctionOnSet(f, FedBy(p)) <= SumFunctionOnSet(h, FedBy(p))
  <2>1. \A out \in FedBy(p) : f[out] \in Int
    BY <1>1, <1>2
  <2> QED
    BY <1>1, <1>4, <2>1, SumLess
<1>10. SumFunctionOnSet(h, FedBy(p)) = CellBytes * SumFunctionOnSet(g, FedBy(p))
  BY <1>0, <1>1, <1>4, SumTimes
<1>11. SumFunctionOnSet(f, FedBy(p)) \in Int
  <2>1. \A out \in FedBy(p) : f[out] \in Int
    BY <1>1, <1>2
  <2> QED
    BY <1>1, <2>1, SumInt
<1> QED
  BY <1>1, <1>3, <1>6, <1>7, <1>8, <1>9, <1>10, <1>11

\* No more cells are under way on a VL than the credits that let them go.
LEMMA UnderBound ==
    ASSUME NEW mode \in CreditTypes, NEW s \in NodeStates(mode), Conserved(mode, s), ReserveKept(mode, s),
           NEW p \in Ports, NEW vl \in VLs, vl # 0
    PROVE  Under(s, p, vl) <= CellsAtMost(mode)
<1>1. /\ Account(s, p) \in [VLs -> Nat] /\ IsFiniteSet(VLs) /\ s.fc[p].share \in Nat /\ 0 \in VLs
      /\ \A w \in VLs : /\ s.fc[p].txfree[w] \in Nat /\ Under(s, p, w) \in Nat
                        /\ Account(s, p)[w] = s.fc[p].txfree[w] + Under(s, p, w)
  BY AccountOf, NumbersTyped
<1>2. Law(mode, s, p, 0, 0)
  BY DEF Conserved
<1>3. CASE mode = "CBFC"
  <2>1. Account(s, p)[vl] + 0 = InitCrd
    BY <1>2, <1>3 DEF Law
  <2>2. CellsAtMost(mode) = InitCrd
    BY <1>3 DEF CellsAtMost
  <2> QED
    BY <1>1, <2>1, <2>2, NumbersTyped
<1>4. CASE mode = "CBFC_SHARED"
  <2> DEFINE f == Account(s, p)
             T == VLs \ {0}
  <2>1. s.fc[p].share + SumFunctionOnSet(f, VLs) = Pool
    <3>1. SumFunctionOnSet(Account(s, p), VLs) \in Int
      BY AccountOf
    <3> QED
      BY <1>1, <1>2, <1>4, <3>1 DEF Law
  <2>2. f[0] >= InitCrd /\ f[0] \in Nat /\ f[vl] >= Under(s, p, vl) /\ f[vl] \in Nat /\ Under(s, p, vl) \in Nat
    <3>1. s.fc[p].txfree[0] = InitCrd
      BY <1>4 DEF ReserveKept
    <3> QED
      BY <1>1, <3>1, NumbersTyped
  <2>3. IsFiniteSet(T) /\ vl \in T /\ \A w \in T : f[w] \in Nat
    BY <1>1, FS_RemoveElement
  <2>4. \A w \in VLs : f[w] \in Int
    BY <1>1
  <2> HIDE DEF f
  <2>5. SumFunctionOnSet(f, VLs) = f[0] + SumFunctionOnSet(f, T)
    BY <1>1, <2>4, SumRemove
  <2> HIDE DEF T
  <2>6. f[vl] <= SumFunctionOnSet(f, T) /\ SumFunctionOnSet(f, T) \in Nat
    BY <2>3, SumBounds, SumNat
  <2> DEFINE m == VlNum * InitCrd
             n == (VlNum - 1) * InitCrd
  <2>7. m \in Int /\ n \in Int /\ m = n + InitCrd
    BY NumbersTyped
  <2>8. Pool = SharedCrd + m /\ CellsAtMost(mode) = SharedCrd + n
    BY <1>4 DEF Pool, CellsAtMost
  <2> HIDE DEF m, n
  <2> QED
    BY <1>1, <2>1, <2>2, <2>5, <2>6, <2>7, <2>8, NumbersTyped
<1> QED
  BY <1>3, <1>4 DEF CreditTypes

\* What arrives finds room in the buffer of its VL.
LEMMA SpaceThere ==
    ASSUME NEW mode \in CreditTypes, NEW s \in PlacedStates(mode), NEW t \in NodeStates(mode), NEW p \in Ports,
           Received(s, t, p), NEW pkt, pkt = Head(s.port[Peer[p]].wire), IsData(pkt), Flows[pkt.flow].vl # 0,
           CellBytes * CellsAtMost(mode) < InPortLimit, Balanced(s), Conserved(mode, s), ReserveKept(mode, s)
    PROVE  s.inBuf[p][Flows[pkt.flow].vl] + Bytes(pkt) \in 0 .. InPortLimit - 1
<1> DEFINE vl == Flows[pkt.flow].vl
           q == Peer[p]
           c == Cells(Bytes(pkt))
           line == LineCells(s, q, vl)
           fed == FedCells(s, p, vl)
<1>1. pkt \in Packets(mode) /\ line >= c
  BY ShiftArrived
<1>2. vl \in VLs /\ c \in Nat /\ Bytes(pkt) \in Nat /\ Bytes(pkt) <= CellBytes * c
  BY <1>1, CellsOfData, CellsTyped
<1>3. q \in Ports /\ Peer[q] = p /\ s \in NodeStates(mode)
  BY PortsTyped DEF PlacedStates
<1>4. /\ line \in Nat /\ fed \in Nat /\ Owed(s, p, vl) \in Nat
      /\ Under(s, q, vl) = line + fed + Owed(s, p, vl)
  BY <1>2, <1>3, UnderTyped DEF Under
<1>5. Under(s, q, vl) <= CellsAtMost(mode)
  BY <1>2, <1>3, UnderBound
<1>6. s.inBuf[p][vl] = InHeld(s, p, vl)
  BY <1>2 DEF Balanced
<1>7. InHeld(s, p, vl) \in Nat /\ InHeld(s, p, vl) <= CellBytes * fed
  BY <1>2, HeldInCells
<1>8. CellBytes \in Nat /\ InPortLimit \in Nat /\ CellsAtMost(mode) \in Int
  <2>1. (VlNum - 1) * InitCrd \in Int
    BY NumbersTyped
  <2> QED
    BY <2>1, NumbersTyped, FabricAssumption DEF CellsAtMost
<1> HIDE DEF vl, q, c, line, fed
<1>9. c + fed <= CellsAtMost(mode) /\ c + fed \in Nat
  BY <1>1, <1>2, <1>4, <1>5, <1>8
<1>10. CellBytes * (c + fed) <= CellBytes * CellsAtMost(mode)
  <2> DEFINE a == c + fed
             b == CellsAtMost(mode)
  <2>1. a \in Nat /\ b \in Nat /\ a <= b
    BY <1>8, <1>9
  <2> HIDE DEF a, b
  <2>2. CellBytes * a <= CellBytes * b
    BY <1>8, <2>1
  <2> QED
    BY <2>2 DEF a, b
<1>11. CellBytes * (c + fed) = CellBytes * c + CellBytes * fed
  BY <1>2, <1>4, <1>8
<1> DEFINE x == CellBytes * c
           y == CellBytes * fed
           z == CellBytes * CellsAtMost(mode)
<1>12. x \in Int /\ y \in Int /\ z \in Int /\ Bytes(pkt) <= x /\ InHeld(s, p, vl) <= y /\ x + y <= z
       /\ z < InPortLimit
  BY <1>2, <1>4, <1>7, <1>8, <1>10, <1>11
<1> HIDE DEF x, y, z
<1> DEFINE i == InHeld(s, p, vl)
           b == Bytes(pkt)
<1>13. i \in Nat /\ b \in Nat /\ i <= y /\ b <= x /\ s.inBuf[p][vl] + Bytes(pkt) = i + b
  BY <1>2, <1>6, <1>7, <1>12
<1> HIDE DEF i, b
<1>14. s.inBuf[p][vl] + Bytes(pkt) \in 0 .. InPortLimit - 1
  BY <1>8, <1>12, <1>13
<1> QED
  BY <1>14 DEF vl

\* The credits of what the allocator may serve are there to be taken.
LEMMA TpAfforded ==
    ASSUME CreditsTaken, TypeInv, flowControl \in CreditTypes, NEW p \in Ports, NEW f \in FlowIds,
           Flows[f].via = "TP", CanSend(p, Tp(f))
    PROVE  Affordable(flowControl, NodeState.fc[p], Flows[f].vl, Cells(Flows[f].bytes))
<1> DEFINE a == Cells(Flows[f].announced)
           c == Cells(Flows[f].bytes)
           vl == Flows[f].vl
           x == NodeState.fc[p]
<1>1. /\ Tp(f).type = "TP" /\ Tp(f).vl = vl /\ Tp(f).flow = f /\ vl \in VLs
      /\ Flows[f].announced \in Nat /\ Flows[f].bytes \in Nat
  BY QueueFields, FlowsTyped
<1>2. a \in Nat /\ c \in Nat
  BY <1>1, CellsTyped
<1>3. c <= a
  BY DEF CreditsTaken, Announced
<1>4. x \in FcStates /\ x = fc[p]
  BY PortFields, NodeStateFields DEF TypeInv, PlacedStates
<1>5. x.txfree[vl] \in Nat /\ x.share \in Nat
  BY <1>1, <1>4 DEF FcStates
<1>6. GetNextPacketSize(Tp(f)) = Flows[f].announced
  BY <1>1 DEF GetNextPacketSize
<1>7. ~IsFcLimited(flowControl, x, Tp(f), Flows[f].announced)
  BY <1>4, <1>6 DEF CanSend
<1>8. /\ ~(flowControl = "CBFC" /\ x.txfree[vl] < a)
      /\ ~(flowControl = "CBFC_SHARED" /\ x.share + x.txfree[vl] < a)
  BY <1>1, <1>7 DEF IsFcLimited
<1> HIDE DEF a, c, vl, x
<1>9. Affordable(flowControl, x, vl, c)
  BY <1>2, <1>3, <1>5, <1>8 DEF Affordable
<1> QED
  BY <1>9 DEF x, vl, c

LEMMA VoqAfforded ==
    ASSUME CreditsTaken, TypeInv, flowControl \in CreditTypes, NEW p \in Ports, NEW vl \in VLs,
           NEW in \in PortsOf(p), voq[<<p, vl, in>>] # <<>>, CanSend(p, Voq(p, vl, in)),
           NEW pkt, pkt = Head(voq[<<p, vl, in>>]), in # p \/ vl # 0
    PROVE  Affordable(flowControl, NodeState.fc[p], vl, Cells(Bytes(pkt)))
<1> DEFINE q == Voq(p, vl, in)
           k == <<p, vl, in>>
           n == GetNextPacketSize(q)
           a == Cells(n)
           c == Cells(Bytes(pkt))
           x == NodeState.fc[p]
<1>0. NodeState \in PlacedStates(flowControl) /\ NodeState \in NodeStates(flowControl) /\ NodeState.voq = voq
      /\ k \in VoqKeys
  BY NodeStateFields, KeysTyped DEF TypeInv, PlacedStates
<1>1. pkt \in InVoq(flowControl, k) /\ pkt \in Packets(flowControl)
  BY <1>0, HeadOfVoq
<1>2. q.type = "VOQ" /\ q.out = p /\ q.vl = vl /\ q.in = in
  BY QueueFields
<1>3. IsData(pkt) /\ Bytes(pkt) \in Nat /\ c \in Nat
  <2>1. IsData(pkt)
    BY <1>1 DEF InVoq
  <2> QED
    BY <1>1, <2>1, CellsOfData
<1>4. n \in Nat /\ a \in Nat /\ c <= a
  <2>1. CASE in # p
    <3>1. n = Bytes(pkt)
      BY <1>2, <2>1 DEF GetNextPacketSize, NextPacket
    <3> HIDE DEF n
    <3> QED
      BY <1>3, <3>1
  <2>2. CASE in = p
    <3>1. n = CtrlBytes
      BY <1>2, <2>2 DEF GetNextPacketSize
    <3>2. Flows[pkt.flow].via = "LDST" /\ pkt.flow \in FlowIds /\ Bytes(pkt) = Flows[pkt.flow].bytes
      BY <1>1, <1>3, <2>2, CellsOfData DEF InVoq
    <3>3. Cells(Flows[pkt.flow].bytes) <= Cells(CtrlBytes)
      BY <3>2 DEF CreditsTaken, Announced
    <3>4. CtrlBytes \in Nat /\ Cells(CtrlBytes) \in Nat
      BY NumbersTyped, CellsTyped
    <3> HIDE DEF n
    <3> QED
      BY <3>1, <3>2, <3>3, <3>4
  <2> QED
    BY <2>1, <2>2
<1>5. x \in FcStates /\ x = fc[p]
  BY <1>0, PortFields, NodeStateFields
<1>6. x.txfree[vl] \in Nat /\ x.share \in Nat
  BY <1>5 DEF FcStates
<1>7. ~IsFcLimited(flowControl, x, q, n)
  BY <1>5 DEF CanSend
<1> HIDE DEF n
<1>8. /\ ~(flowControl = "CBFC" /\ x.txfree[vl] < a)
      /\ ~(flowControl = "CBFC_SHARED" /\ x.share + x.txfree[vl] < a)
  <2>1. ~IsControlFrame(q)
    BY <1>2 DEF IsControlFrame
  <2> HIDE DEF q, x
  <2> QED
    BY <1>2, <1>7, <2>1 DEF IsFcLimited
<1> HIDE DEF a, c, x
<1>9. Affordable(flowControl, x, vl, c)
  BY <1>3, <1>4, <1>6, <1>8 DEF Affordable
<1> QED
  BY <1>9 DEF x, c

\* The grains of a packet fit the field of a frame.
LEMMA EnoughCredits ==
    ASSUME CreditsTaken, NEW mode, NEW pkt \in Packets(mode), IsData(pkt)
    PROVE  Enough(Bytes(pkt))
  BY CellsOfData DEF CreditsTaken, Enough

\* Steps in which the node and the lost packets are in no doubt.
NoneLost == \A f \in FlowIds : dropped[f] = 0
Paid == Funded(flowControl, NodeState) /\ NoneLost
ModeChosen == \E s \in Scenarios : flowControl = s[1]

\* A packet that arrives to be sent on is not dropped.
LEMMA ForwardFits ==
    ASSUME NoWorkOnVlZero, BufferHoldsCredits, TypeInv, Balanced(NodeState), flowControl \in CreditTypes,
           ModeChosen, Funded(flowControl, NodeState), NEW p \in Ports, ForwardDataPacket(p)
    PROVE  /\ ForwardShape(flowControl, NodeState, NodeState', p, Arriving(p)) /\ UNCHANGED dropped
           /\ NodeState' \in NodeStates(flowControl)
           /\ IsData(Arriving(p)) /\ Arriving(p) = Head(NodeState.port[Peer[p]].wire)
           /\ OutPort(p, Arriving(p).flow) \in Ports /\ OutPort(p, Arriving(p).flow) # p
           /\ <<OutPort(p, Arriving(p).flow), Flows[Arriving(p).flow].vl, p>> \in VoqKeys
<1> DEFINE pkt == Arriving(p)
           s == NodeState
           t == NodeState'
           vl == Flows[pkt.flow].vl
<1>0. s \in PlacedStates(flowControl) /\ s.inBuf = inBuf
  BY NodeStateFields DEF TypeInv
<1>1. /\ t \in NodeStates(flowControl)
      /\ IsData(pkt) /\ pkt.flow \in FlowIds /\ pkt = Head(s.port[Peer[p]].wire)
      /\ OutPort(p, pkt.flow) \in Ports /\ OutPort(p, pkt.flow) # p /\ <<OutPort(p, pkt.flow), vl, p>> \in VoqKeys
      /\ IF CheckInPortSpace(p, vl, Bytes(pkt))
         THEN ForwardShape(flowControl, s, t, p, pkt) /\ UNCHANGED dropped
         ELSE Received(s, t, p)
  BY <1>0, ForwardDoes
<1>2. CellBytes * CellsAtMost(flowControl) < InPortLimit
  BY DEF BufferHoldsCredits, ModeChosen
<1>3. vl # 0
  BY <1>1 DEF NoWorkOnVlZero
<1>4. Conserved(flowControl, s) /\ ReserveKept(flowControl, s)
  BY DEF Funded
<1>5. ASSUME Received(s, t, p) PROVE CheckInPortSpace(p, vl, Bytes(pkt))
  <2> HIDE DEF s, t, pkt
  <2>1. s.inBuf[p][vl] + Bytes(pkt) \in 0 .. InPortLimit - 1
    BY <1>0, <1>1, <1>2, <1>3, <1>4, <1>5, SpaceThere DEF s
  <2> QED
    BY <1>0, <2>1 DEF CheckInPortSpace
<1> HIDE DEF s, t, pkt, vl
<1>6. CheckInPortSpace(p, vl, Bytes(pkt))
  BY <1>1, <1>5
<1>7. ForwardShape(flowControl, s, t, p, pkt) /\ UNCHANGED dropped
  BY <1>1, <1>6
<1> QED
  BY <1>1, <1>7 DEF s, t, pkt, vl

LEMMA PaidStep ==
    ASSUME NoWorkOnVlZero, RoomForThree, CreditsTaken, BufferHoldsCredits, TypeInv, AllShort, Balanced(NodeState),
           flowControl \in CreditTypes, ModeChosen, Next, Paid
    PROVE  Funded(flowControl, NodeState') /\ NoneLost'
<1> DEFINE s == NodeState
           t == NodeState'
           mode == flowControl
<1>0. /\ s \in PlacedStates(mode) /\ s \in NodeStates(mode) /\ mode \in CreditTypes /\ mode \in FcTypes
      /\ s.voq = voq /\ s.port = port /\ Funded(mode, s) /\ (UNCHANGED dropped => NoneLost')
  BY NodeStateFields DEF TypeInv, PlacedStates, Paid, NoneLost
<1>1. ASSUME RunScheduledNow PROVE Funded(mode, t) /\ NoneLost'
  <2>1. t \in NodeStates(mode) /\ \E r \in Ports : RunShape(mode, s, t, r)
    BY <1>0, <1>1, RunDoes
  <2>2. NoneLost'
    BY <1>0, <1>1 DEF RunScheduledNow
  <2> HIDE DEF s, t, mode
  <2>3. Funded(mode, t)
    BY <1>0, <2>1, FundedRun
  <2> QED
    BY <2>2, <2>3
<1>2. ASSUME NEW f \in FlowIds, TpOffer(f) PROVE Funded(mode, t) /\ NoneLost'
  <2>1. t \in NodeStates(mode) /\ Pumped(s, t, Flows[f].src) /\ Flows[f].src \in Ports
    BY <1>0, <1>2, TpOfferDoes, FlowsTyped
  <2>2. NoneLost'
    BY <1>0, <1>2 DEF TpOffer
  <2> HIDE DEF s, t, mode
  <2>3. t.fc = s.fc /\ SameQueues(s, t)
    BY <2>1, SameFcOf
  <2>4. Funded(mode, t)
    BY <1>0, <2>1, <2>3, FundedSame
  <2> QED
    BY <2>2, <2>4
<1>3. ASSUME NEW f \in FlowIds, LdstSend(f) PROVE Funded(mode, t) /\ NoneLost'
  <2>1. t \in NodeStates(mode) /\ LdstShape(mode, s, t, f)
    BY <1>0, <1>3, LdstSendDoes
  <2>2. NoneLost'
    BY <1>0, <1>3 DEF LdstSend
  <2> HIDE DEF s, t, mode
  <2>3. Funded(mode, t)
    BY <1>0, <2>1, FundedLdst
  <2> QED
    BY <2>2, <2>3
<1>4. ASSUME NEW r \in Ports, TransmitComplete(r) PROVE Funded(mode, t) /\ NoneLost'
  <2>1. t \in NodeStates(mode) /\ CompleteShape(mode, s, t, r)
    BY <1>0, <1>4, TransmitCompleteDoes
  <2>2. NoneLost'
    BY <1>0, <1>4 DEF TransmitComplete
  <2> HIDE DEF s, t, mode
  <2>3. Funded(mode, t)
    BY <1>0, <2>1, FundedComplete
  <2> QED
    BY <2>2, <2>3
<1>5. ASSUME NEW r \in Ports, AllocateNothing(r) PROVE Funded(mode, t) /\ NoneLost'
  <2>1. t \in NodeStates(mode) /\ RoundEnd(s, t, r)
    BY <1>0, <1>5, AllocateNothingDoes
  <2>2. NoneLost'
    BY <1>0, <1>5 DEF AllocateNothing
  <2> HIDE DEF s, t, mode
  <2>3. t.fc = s.fc /\ SameQueues(s, t)
    BY <2>1, SameFcOf
  <2>4. Funded(mode, t)
    BY <1>0, <2>1, <2>3, FundedSame
  <2> QED
    BY <2>2, <2>4
<1>6. ASSUME NEW r \in Ports, AllocateNextPacket(r) PROVE Funded(mode, t) /\ NoneLost'
  <2>1. /\ t \in NodeStates(mode)
        /\ \/ \E f \in FlowIds : TpServed(r, f)
           \/ \E vl \in VLs : \E in \in PortsOf(r) : VoqServed(r, vl, in)
    BY <1>0, <1>6, AllocateDoes
  <2>2. \A pkt \in Packets(mode) : EgressHasRoom(s.port[r], pkt)
    BY <1>0, <1>6, RoundHasRoom
  <2>3. \A pkt \in Packets(mode) : Lost(r, pkt) => NoneLost'
    BY <1>0, <2>2 DEF Lost, Paid, NoneLost
  <2>4. ASSUME NEW f \in FlowIds, TpServed(r, f) PROVE Funded(mode, t) /\ NoneLost'
    <3>1. ServeTpShape(mode, s, t, r, f) /\ Flows[f].via = "TP" /\ Flows[f].src = r /\ CanSend(r, Tp(f))
          /\ Lost(r, Data(f))
      BY <2>4 DEF TpServed
    <3>2. EgressHasRoom(s.port[r], Data(f)) /\ NoneLost'
      BY <2>2, <2>3, <3>1, DataPacket
    <3>3. Affordable(mode, s.fc[r], Flows[f].vl, Cells(Flows[f].bytes))
      BY <3>1, TpAfforded
    <3>4. t \in NodeStates(mode)
      BY <2>1
    <3> HIDE DEF s, t, mode
    <3>5. Funded(mode, t)
      BY <1>0, <3>1, <3>2, <3>3, <3>4, FundedTp
    <3> QED
      BY <3>2, <3>5
  <2>5. ASSUME NEW vl \in VLs, NEW in \in PortsOf(r), VoqServed(r, vl, in) PROVE Funded(mode, t) /\ NoneLost'
    <3> DEFINE pkt == Head(s.voq[<<r, vl, in>>])
    <3>1. ServeVoqShape(mode, s, t, r, vl, in) /\ s.voq[<<r, vl, in>>] # <<>> /\ voq[<<r, vl, in>>] # <<>>
          /\ CanSend(r, Voq(r, vl, in)) /\ Lost(r, pkt)
      BY <1>0, <2>5 DEF VoqServed
    <3>2. <<r, vl, in>> \in VoqKeys
      BY KeysTyped
    <3>3. pkt \in Packets(mode) /\ EgressHasRoom(s.port[r], pkt) /\ NoneLost'
      BY <1>0, <2>2, <2>3, <3>1, <3>2, HeadOfVoq
    <3>4. in # r \/ vl # 0 => Affordable(mode, s.fc[r], vl, Cells(Bytes(pkt)))
      BY <1>0, <3>1, VoqAfforded
    <3>5. t \in NodeStates(mode)
      BY <2>1
    <3>6. IsData(pkt) => Enough(Bytes(pkt))
      BY <3>3, EnoughCredits
    <3> HIDE DEF s, t, mode
    <3>7. Funded(mode, t)
      BY <1>0, <3>1, <3>3, <3>4, <3>5, <3>6, FundedVoq
    <3> QED
      BY <3>3, <3>7
  <2> QED
    BY <2>1, <2>4, <2>5
<1>7. ASSUME NEW r \in Ports, ReceiveControlFrame(r) PROVE Funded(mode, t) /\ NoneLost'
  <2> DEFINE h == Arriving(r)
  <2>1. /\ t \in NodeStates(mode) /\ ~IsData(h)
        /\ h = Head(s.port[Peer[r]].wire) /\ ControlShape(mode, s, t, r, h.credits)
    BY <1>0, <1>7, ReceiveControlDoes
  <2>2. NoneLost'
    BY <1>0, <1>7 DEF ReceiveControlFrame
  <2> HIDE DEF s, t, h, mode
  <2>3. Funded(mode, t)
    BY <1>0, <2>1, FundedControl
  <2> QED
    BY <2>2, <2>3
<1>8. ASSUME NEW r \in Ports, SinkDataPacket(r) PROVE Funded(mode, t) /\ NoneLost'
  <2> DEFINE h == Arriving(r)
  <2>1. /\ t \in NodeStates(mode) /\ IsData(h)
        /\ h = Head(s.port[Peer[r]].wire) /\ SinkShape(mode, s, t, r, h)
    BY <1>0, <1>8, SinkDoes
  <2>2. NoneLost'
    BY <1>0, <1>8 DEF SinkDataPacket
  <2>3. h \in Packets(mode)
    BY <1>0, <1>8, UnwiredDoes DEF SinkDataPacket
  <2>4. Enough(Bytes(h))
    BY <2>1, <2>3, EnoughCredits
  <2> HIDE DEF s, t, h, mode
  <2>5. Funded(mode, t)
    BY <1>0, <2>1, <2>4, FundedSink
  <2> QED
    BY <2>2, <2>5
<1>9. ASSUME NEW r \in Ports, ForwardDataPacket(r) PROVE Funded(mode, t) /\ NoneLost'
  <2> DEFINE h == Arriving(r)
  <2>1. /\ ForwardShape(mode, s, t, r, h) /\ UNCHANGED dropped
        /\ t \in NodeStates(mode) /\ IsData(h) /\ h = Head(s.port[Peer[r]].wire)
        /\ OutPort(r, h.flow) \in Ports /\ OutPort(r, h.flow) # r
        /\ <<OutPort(r, h.flow), Flows[h.flow].vl, r>> \in VoqKeys
    BY <1>0, <1>9, ForwardFits
  <2>2. NoneLost'
    BY <1>0, <2>1
  <2> HIDE DEF s, t, h, mode
  <2>3. Funded(mode, t)
    BY <1>0, <2>1, FundedForward
  <2> QED
    BY <2>2, <2>3
<1> HIDE DEF s, t, mode
<1>10. Funded(mode, t) /\ NoneLost'
  BY <1>1, <1>2, <1>3, <1>4, <1>5, <1>6, <1>7, <1>8, <1>9 DEF Next, PortStep
<1> QED
  BY <1>10 DEF t, mode

\* What the ports of a fabric start with.
LEMMA SumReserves ==
    ASSUME NEW f, \A w \in VLs : f[w] = InitCrd
    PROVE  SumFunctionOnSet(f, VLs) = VlNum * InitCrd
<1> DEFINE P == {n \in Nat : n <= VlNum => Below(f, n) = n * InitCrd}
<1>1. /\ Below(f, 0) = 0 /\ \A n \in VLs : Below(f, n + 1) = Below(f, n) + f[n]
  <2>1. \A w \in VLs : f[w] \in Nat
    BY NumbersTyped
  <2> QED
    BY <2>1, BelowStep
<1>2. VlNum \in Nat /\ InitCrd \in Nat
  BY NumbersTyped
<1>3. 0 \in P
  BY <1>1, <1>2
<1>4. ASSUME NEW n \in Nat, n \in P PROVE n + 1 \in P
  <2> SUFFICES ASSUME n + 1 <= VlNum PROVE Below(f, n + 1) = (n + 1) * InitCrd
    OBVIOUS
  <2>1. n \in VLs /\ Below(f, n) = n * InitCrd
    BY <1>2, <1>4 DEF VLs
  <2>2. Below(f, n + 1) = n * InitCrd + InitCrd
    BY <1>1, <2>1
  <2>3. (n + 1) * InitCrd = n * InitCrd + InitCrd
    BY <1>2
  <2> QED
    BY <2>2, <2>3
<1> HIDE DEF P
<1>5. Nat \subseteq P
  BY <1>3, <1>4, NatInductiveSet
<1>6. Below(f, VlNum) = VlNum * InitCrd
  BY <1>2, <1>5 DEF P
<1> QED
  BY <1>6 DEF Below, VLs

LEMMA PaidInit ==
    ASSUME Init
    PROVE  ModeChosen /\ (flowControl \in CreditTypes => Paid)
<1>1. ModeChosen
  BY DEF Init, ModeChosen
<1> SUFFICES ASSUME flowControl \in CreditTypes PROVE Paid
  BY <1>1
<1> DEFINE s == NodeState
           mode == flowControl
<1>2. s \in NodeStates(mode)
  BY InitTyped DEF TypeInv, PlacedStates
<1>3. ASSUME NEW p \in Ports
      PROVE  /\ s.port[p].wire = <<>> /\ s.port[p].egress = <<>> /\ s.fc[p] = FlowControlInit
             /\ \A k \in VoqKeys : s.voq[k] = <<>>
  BY NodeStateFields DEF Init
<1>4. ASSUME NEW p \in Ports
      PROVE  /\ s.fc[p].share = SharedCrd
             /\ \A w \in VLs : s.fc[p].txfree[w] = InitCrd /\ s.fc[p].toReturn[w] = 0
  BY <1>3 DEF FlowControlInit
<1>5. ASSUME NEW p \in Ports PROVE Line(s, p) = <<>>
  <2>1. <<>> \o <<>> = <<>>
    OBVIOUS
  <2> HIDE DEF s
  <2> QED
    BY <1>3, <2>1, Zenon DEF Line
<1> HIDE DEF s, mode
<1>6. ASSUME NEW p \in Ports, NEW w \in VLs PROVE Under(s, p, w) = 0
  <2> DEFINE q == Peer[p]
             g == [out \in FedBy(q) |-> CellsOn(w, s.voq[<<out, w, q>>])]
  <2>1. q \in Ports /\ IsFiniteSet(FedBy(q)) /\ <<q, 0, q>> \in VoqKeys
    BY PortsTyped, ControlKey
  <2>2. CellsOn(w, <<>>) = 0 /\ CreditsIn(w, <<>>) = 0
    BY WeighedEmpty
  <2>3. LineCells(s, p, w) = 0
    BY <1>5, <2>2, Zenon DEF LineCells
  <2>4. \A out \in FedBy(q) : g[out] = 0
    <3> TAKE out \in FedBy(q)
    <3>1. out \in PortsOf(q)
      BY DEF FedBy
    <3>2. <<out, w, q>> \in VoqKeys
      BY <2>1, <3>1, KeysTyped
    <3>3. s.voq[<<out, w, q>>] = <<>>
      BY <1>3, <3>2
    <3>4. CellsOn(w, s.voq[<<out, w, q>>]) = 0
      BY <2>2, <3>3, Zenon
    <3> QED
      BY <3>4
  <2>5. DOMAIN g = FedBy(q) /\ FedCells(s, q, w) = SumFunction(g)
    BY DEF FedCells
  <2> HIDE DEF g
  <2>6. SumFunctionOnSet(g, FedBy(q)) = 0
    BY <2>1, <2>4, SumZero
  <2>7. FedCells(s, q, w) = 0
    BY <2>5, <2>6, SumAll
  <2>8. CreditsIn(w, Line(s, q)) = 0
    BY <1>5, <2>1, <2>2, Zenon
  <2>9. s.voq[<<q, 0, q>>] = <<>>
    BY <1>3, <2>1
  <2>10. CreditsIn(w, s.voq[<<q, 0, q>>]) = 0
    BY <2>2, <2>9, Zenon
  <2>11. Owed(s, q, w) = 0
    BY <1>4, <2>1, <2>8, <2>10, NumbersTyped DEF Owed, Coming
  <2> QED
    BY <2>3, <2>7, <2>11 DEF Under
<1>7. ASSUME NEW p \in Ports PROVE Law(mode, s, p, 0, 0)
  <2> DEFINE f == Account(s, p)
  <2>1. \A w \in VLs : f[w] = InitCrd
    BY <1>4, <1>6, NumbersTyped DEF Account
  <2> HIDE DEF f
  <2>2. SumFunctionOnSet(f, VLs) = VlNum * InitCrd
    BY <2>1, SumReserves
  <2>3. \A w \in VLs : f[w] + (IF w = 0 THEN 0 ELSE 0) = InitCrd
    BY <2>1, NumbersTyped
  <2>4. s.fc[p].share + SumFunctionOnSet(f, VLs) + 0 = Pool
    <3> DEFINE m == VlNum * InitCrd
    <3>1. m \in Int /\ Pool = SharedCrd + m /\ SumFunctionOnSet(f, VLs) = m
      BY <2>2, NumbersTyped DEF Pool
    <3> HIDE DEF m
    <3> QED
      BY <1>4, <3>1, NumbersTyped
  <2> QED
    BY <2>3, <2>4 DEF Law, f
<1>8. Conserved(mode, s)
  BY <1>7 DEF Conserved
<1>9. ReturnsSmall(s) /\ ReserveKept(mode, s)
  BY <1>4, NumbersTyped DEF ReturnsSmall, ReserveKept
<1>10. NoneLost
  BY DEF Init, NoneLost
<1> QED
  BY <1>8, <1>9, <1>10 DEF Paid, Funded, s, mode

\* The account of a port is what CreditsConserved adds up.
LEMMA OutstandingIs ==
    ASSUME TypeInv, NEW p \in Ports, NEW vl \in VLs
    PROVE  fc[p].txfree[vl] + CellsOutstanding(p, vl) = Account(NodeState, p)[vl]
<1> DEFINE s == NodeState
           q == Peer[p]
<1>1. s \in NodeStates(flowControl)
  BY DEF TypeInv, PlacedStates
<1>2. q \in Ports /\ <<q, 0, q>> \in VoqKeys
  BY PortsTyped, ControlKey
<1>3. Line(s, q) \in Seq(Packets(flowControl)) /\ s.voq[<<q, 0, q>>] \in Seq(Packets(flowControl))
  BY <1>1, <1>2, LineSeq, NodeFields
<1>4. /\ port[p].wire \o port[p].egress = Line(s, p)
      /\ port[q].wire \o port[q].egress \o ControlVoq(q) = Line(s, q) \o s.voq[<<q, 0, q>>]
      /\ voq = s.voq /\ fc = s.fc
  BY NodeStateFields DEF Line, ControlVoq
<1>5. CreditsIn(vl, Line(s, q) \o s.voq[<<q, 0, q>>]) = Coming(s, q, vl)
  BY <1>3, CreditsConcat DEF Coming
<1>6. CellsOutstanding(p, vl)
        = LineCells(s, p, vl) + FedCells(s, q, vl) + s.fc[q].toReturn[vl] + Grain * Coming(s, q, vl)
  BY <1>4, <1>5, Zenon DEF CellsOutstanding, LineCells, FedCells
<1>7. LineCells(s, p, vl) \in Nat /\ FedCells(s, q, vl) \in Nat
  BY <1>1, UnderTyped
<1>8. s.fc[q].toReturn[vl] \in Nat /\ Grain * Coming(s, q, vl) \in Nat
  BY <1>1, <1>2, OwedTyped
<1>9. Account(s, p)[vl] = s.fc[p].txfree[vl] + Under(s, p, vl) /\ s.fc[p].txfree[vl] \in Nat
  BY <1>1, AccountOf
<1>10. Under(s, p, vl) = LineCells(s, p, vl) + FedCells(s, q, vl) + (s.fc[q].toReturn[vl] + Grain * Coming(s, q, vl))
  BY DEF Under, Owed
<1>11. CellsOutstanding(p, vl) = Under(s, p, vl)
  BY <1>6, <1>7, <1>8, <1>10
<1> QED
  BY <1>4, <1>9, <1>11

LEMMA PaidCredits ==
    ASSUME TypeInv, flowControl \in CreditTypes => Paid
    PROVE  CreditsConserved /\ LosslessUnderCredits
<1>1. LosslessUnderCredits
  BY DEF LosslessUnderCredits, Paid, NoneLost
<1>2. ASSUME NEW p \in Ports
      PROVE  /\ flowControl = "CBFC" =>
                  \A vl \in VLs : fc[p].txfree[vl] + CellsOutstanding(p, vl) = InitCrd
             /\ flowControl = "CBFC_SHARED" =>
                  fc[p].share + SumFunction([vl \in VLs |-> fc[p].txfree[vl] + CellsOutstanding(p, vl)])
                  = SharedCrd + VlNum * InitCrd
  <2> DEFINE f == Account(NodeState, p)
             g == [vl \in VLs |-> fc[p].txfree[vl] + CellsOutstanding(p, vl)]
  <2>1. \A vl \in VLs : g[vl] = f[vl] /\ fc[p].txfree[vl] + CellsOutstanding(p, vl) = f[vl]
    BY OutstandingIs
  <2>2. /\ NodeState \in NodeStates(flowControl) /\ NodeState.fc = fc
    BY NodeStateFields DEF TypeInv, PlacedStates
  <2>3. /\ IsFiniteSet(VLs) /\ fc[p].share \in Nat /\ SumFunctionOnSet(f, VLs) \in Int
        /\ \A vl \in VLs : f[vl] \in Int
    BY <2>2, AccountOf
  <2>4. flowControl \in CreditTypes => Law(flowControl, NodeState, p, 0, 0)
    BY DEF Paid, Funded, Conserved
  <2>5. DOMAIN g = VLs
    OBVIOUS
  <2>6. CASE flowControl = "CBFC"
    <3>1. \A w \in VLs : f[w] + (IF w = 0 THEN 0 ELSE 0) = InitCrd
      BY <2>4, <2>6 DEF Law, CreditTypes
    <3> HIDE DEF f, g
    <3> QED
      BY <2>1, <2>3, <2>6, <3>1
  <2>7. CASE flowControl = "CBFC_SHARED"
    <3>1. NodeState.fc[p].share + SumFunctionOnSet(f, VLs) + 0 = Pool
      BY <2>4, <2>7 DEF Law, CreditTypes
    <3> HIDE DEF f
    <3>2. SumFunction(g) = SumFunctionOnSet(f, VLs)
      <4> HIDE DEF g
      <4>1. SumFunctionOnSet(g, VLs) = SumFunctionOnSet(f, VLs)
        BY <2>1, <2>3, SumSame
      <4> QED
        BY <2>5, <4>1, SumAll
    <3> HIDE DEF g
    <3>3. fc[p].share + SumFunction(g) = SharedCrd + VlNum * InitCrd
      BY <2>2, <2>3, <3>1, <3>2 DEF Pool
    <3> QED
      BY <2>7, <3>3 DEF g
  <2>8. CASE flowControl \notin CreditTypes
    BY <2>8 DEF CreditTypes
  <2> QED
    BY <2>6, <2>7, <2>8 DEF CreditTypes
<1> QED
  BY <1>1, <1>2 DEF CreditsConserved

\* With credits, what a port holds and what it is owed add up to what it began
\* with, and no buffer overflows.
CreditsWork == ModeChosen /\ (flowControl \in CreditTypes => Paid)

LEMMA CreditsWorkInvariant ==
    ASSUME NoWorkOnVlZero, RoomForThree, CreditsTaken, BufferHoldsCredits
    PROVE  Spec => [](TypeInv /\ CreditsWork)
<1> DEFINE Even == Balanced(NodeState)
<1>1. Init => Even /\ CreditsWork
  BY BalancedInit, PaidInit DEF CreditsWork
<1>2. TypeInv /\ AllShort /\ Even /\ CreditsWork /\ [Next]_vars => Even' /\ CreditsWork'
  <2> SUFFICES ASSUME TypeInv, AllShort, Even, CreditsWork, [Next]_vars PROVE Even' /\ CreditsWork'
    OBVIOUS
  <2>1. CASE Next
    <3>1. flowControl' = flowControl
      BY <2>1, FlowControlStays DEF TypeInv
    <3>2. Balanced(NodeState')
      BY <2>1, BalancedStep
    <3>3. ModeChosen'
      BY <3>1 DEF ModeChosen, CreditsWork
    <3>4. flowControl \in CreditTypes => Funded(flowControl, NodeState') /\ NoneLost'
      BY <2>1, PaidStep DEF CreditsWork
    <3>5. flowControl' \in CreditTypes => Paid'
      BY <3>1, <3>4 DEF Paid
    <3> QED
      BY <3>2, <3>3, <3>5 DEF CreditsWork
  <2>2. CASE UNCHANGED vars
    <3>1. NodeState' = NodeState /\ flowControl' = flowControl /\ dropped' = dropped
      BY <2>2 DEF vars, NodeState
    <3> QED
      BY <3>1 DEF CreditsWork, ModeChosen, Paid, NoneLost
  <2> QED
    BY <2>1, <2>2
<1> HIDE DEF Even
<1> QED
  BY <1>1, <1>2, FabricInvariant, AllShortInvariant, PTL DEF Spec

\* On every link, whatever is sent, forwarded, taken in or returned in whatever
\* order, the credits a port holds and the cells it took credits for and has
\* not got back add up to what it started with.
THEOREM FabricCreditsConserved ==
    ASSUME NoWorkOnVlZero, RoomForThree, CreditsTaken, BufferHoldsCredits
    PROVE  Spec => []CreditsConserved
<1>1. TypeInv /\ CreditsWork => CreditsConserved
  BY PaidCredits DEF CreditsWork
<1> QED
  BY <1>1, CreditsWorkInvariant, PTL

\* Under either kind of credits no packet is ever dropped, neither where it is
\* received nor at an egress queue.
THEOREM FabricLossless ==
    ASSUME NoWorkOnVlZero, RoomForThree, CreditsTaken, BufferHoldsCredits
    PROVE  Spec => []LosslessUnderCredits
<1>1. TypeInv /\ CreditsWork => LosslessUnderCredits
  BY PaidCredits DEF CreditsWork
<1> QED
  BY <1>1, CreditsWorkInvariant, PTL
=============================================================================
