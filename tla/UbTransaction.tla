--------------------------- MODULE UbTransaction ---------------------------
(***************************************************************************)
(* The transaction layer of one sending node: jetties with their WQEs and  *)
(* segment numbers (UbJetty), the rounds that hand segments to transport   *)
(* channels (UbTransaction), and the segment vectors of the channels.      *)
(*                                                                         *)
(* ScheduleNow events run in the order they were scheduled; acks and new   *)
(* tasks may come between any two of them.  The loop of RecvTpAck over the *)
(* segment vector is one step per segment, and nothing else runs before it *)
(* ends.  Below the segment vector a channel is abstract: what is pushed   *)
(* is acknowledged in order (module UbTransport says why).                 *)
(***************************************************************************)
EXTENDS Integers, Sequences, FiniteSets, SequencesExt

CONSTANTS
    Jetties,
    Tps,
    Paths,          \* the TPs GetTpns finds for a jetty
    Orders,         \* order types of the WQEs that are pushed
    WqeSizes,       \* sizes, in segments, of the WQEs that are pushed
    MaxWqes,        \* bound: WQEs pushed to a jetty
    JettyInflight,  \* m_inflightMax of UbJetty
    OooThreshold,   \* m_oooAckThreshold, the width of m_ssnAckBitset
    MaxWqeSegs,     \* m_maxQueueSize, segments a channel may hold
    RemoveUseless   \* m_removeUselessTp

ASSUME ConstantsAssumption ==
    /\ Paths \in [Jetties -> Seq(Tps) \ {<<>>}]
    /\ Orders \subseteq {"NO", "RO", "SO"}
    /\ WqeSizes \subseteq Nat \ {0}
    /\ MaxWqes \in Nat
    /\ JettyInflight \in Nat
    /\ OooThreshold \in Nat \ {0}
    /\ MaxWqeSegs \in Nat \ {0}
    /\ RemoveUseless \in BOOLEAN
    \* UbApp pushes one WQE to each jetty; the useless TPs go when it completes.
    /\ RemoveUseless => MaxWqes <= 1

VARIABLES
    wqes,       \* jetty: m_wqeVector
    ordered,    \* jetty: m_jettyOrderedWqe, the ids of its RO and SO WQEs
    msnCnt,     \* jetty: m_taMsnCnt
    ssnCnt,     \* jetty: m_taSsnCnt
    sndNxt,     \* jetty: m_taSsnSndNxt
    sndUna,     \* jetty: m_taSsnSndUna
    acked,      \* jetty: the set bits of m_ssnAckBitset
    group,      \* jetty: m_jettyTpGroup
    related,    \* TP: m_tpRelatedJetties
    exists,     \* TP: the TP is in m_tpnMap
    made,       \* TP: how many objects its number has had
    rrIndex,    \* TP: m_tpRRIndex
    scheduling, \* TP: m_tpSchedulingStatus
    vec,        \* TP: m_wqeSegmentVector
    pushed,     \* TP: segments pushed, what m_tpPsnCnt counts in packets
    una,        \* TP: of these, segments acknowledged
    full,       \* TP: m_tpFullFlag
    events,     \* the ScheduleNow events, in order
    acking      \* <<t, i>> while RecvTpAck of t is at the i-th segment, or <<>>

jettyVars == <<wqes, ordered, msnCnt, ssnCnt, sndNxt, sndUna, acked>>
bindVars  == <<group, related, exists, made>>
tpVars    == <<vec, pushed, una, full>>
roundVars == <<rrIndex, scheduling>>
vars == <<jettyVars, bindVars, tpVars, roundVars, events, acking>>

Wqe == [id : Nat, order : {"NO", "RO", "SO"}, start : Nat, size : Nat \ {0},
        sent : Nat, canSend : BOOLEAN]
Segment == [jetty : Jetties, wqe : Nat, ssn : Nat, num : Nat]
Event == [kind : {"schedule"}, tp : Tps, obj : Nat]
           \cup [kind : {"finish"}, tp : Tps, seg : Segment]

Init ==
    /\ wqes = [j \in Jetties |-> <<>>] /\ ordered = [j \in Jetties |-> <<>>]
    /\ msnCnt = [j \in Jetties |-> 0] /\ ssnCnt = [j \in Jetties |-> 0]
    /\ sndNxt = [j \in Jetties |-> 0] /\ sndUna = [j \in Jetties |-> 0]
    /\ acked = [j \in Jetties |-> {}]
    /\ group = [j \in Jetties |-> <<>>] /\ related = [t \in Tps |-> <<>>]
    /\ exists = [t \in Tps |-> FALSE] /\ made = [t \in Tps |-> 0]
    /\ rrIndex = [t \in Tps |-> 0] /\ scheduling = [t \in Tps |-> FALSE]
    /\ vec = [t \in Tps |-> <<>>] /\ pushed = [t \in Tps |-> 0]
    /\ una = [t \in Tps |-> 0] /\ full = [t \in Tps |-> FALSE]
    /\ events = <<>> /\ acking = <<>>

-----------------------------------------------------------------------------
(* What a jetty may hand out.                                              *)

\* UbJetty::IsLimited.
IsLimited(j) == sndNxt[j] - sndUna[j] > JettyInflight

\* A strong order that looks only for an empty queue.
IsOrderedByInitiatorMutant(j, w) == w.order # "SO" \/ ordered[j] # <<>>

\* Service mode ROI, the default: only the first RO or SO WQE of the jetty may
\* be sent if it is SO.
IsOrderedByInitiator(j, w) == w.order = "SO" => Head(ordered[j]) = w.id

\* The places in m_wqeVector GetNextWqeSegment could stop at; it takes the first.
Sendable(j) ==
    {i \in DOMAIN wqes[j] :
        LET w == wqes[j][i]
        IN  w.sent < w.size /\ (w.canSend \/ IsOrderedByInitiator(j, w))}

HasSegment(j) == ~IsLimited(j) /\ Sendable(j) # {}

FirstSendable(j) == CHOOSE i \in Sendable(j) : \A k \in Sendable(j) : i <= k

\* A WQE that was sent from stays sendable.
Sent(w) == [[w EXCEPT !.sent = @ + 1] EXCEPT !.canSend = TRUE]

\* UbJetty::GetNextWqeSegment of a jetty that has one, for TP t.
GetNextWqeSegment(j) ==
    LET i == FirstSendable(j)
    IN  /\ wqes' = [wqes EXCEPT ![j][i] = Sent(@)]
        /\ sndNxt' = [sndNxt EXCEPT ![j] = @ + 1]

NextSegment(j) == [jetty |-> j, wqe |-> wqes[j][FirstSendable(j)].id, ssn |-> sndNxt[j], num |-> 0]

-----------------------------------------------------------------------------
(* Scheduling rounds.                                                      *)

Schedule(t) == [kind |-> "schedule", tp |-> t, obj |-> made[t]]

\* TriggerScheduleWqeSegment and TriggerTpTransmit: a round of every TP in ts.
Trigger(ts) == [i \in DOMAIN ts |-> Schedule(ts[i])]

IsWqeSegmentLimited(q) == Len(q) >= MaxWqeSegs

\* The place a round of t starts from: jetties that left may have put the
\* round-robin index too high.
StartIndex(t) == IF rrIndex[t] > Len(related[t]) THEN 0 ELSE rrIndex[t]

\* The jetty that is asked i places further on.
Turn(t, i) == (StartIndex(t) + i) % Len(related[t])

Asked(t, i) == related[t][Turn(t, i) + 1]

\* The places of the round at which a jetty has a segment.
Turns(t) == {i \in 0..(Len(related[t]) - 1) : HasSegment(Asked(t, i))}

FirstTurn(t) == CHOOSE i \in Turns(t) : \A k \in Turns(t) : i <= k

\* ScheduleWqeSegment of t, whose vector is q and whose status is busy, takes
\* nothing: TP removed, already scheduling, unbound, full, or jetties idle.  An
\* index that is too high is reset only when the jetties are asked.
RoundStops(t, q, busy) ==
    /\ ~exists[t] \/ busy \/ IsWqeSegmentLimited(q) \/ Turns(t) = {}
    /\ full' = [full EXCEPT ![t] =
                  @ \/ (exists[t] /\ ~busy /\ related[t] # <<>> /\ IsWqeSegmentLimited(q))]
    /\ rrIndex' = [rrIndex EXCEPT ![t] =
                  IF exists[t] /\ ~busy /\ related[t] # <<>> /\ ~IsWqeSegmentLimited(q)
                  THEN StartIndex(t) ELSE @]
    /\ scheduling' = [scheduling EXCEPT ![t] = busy]
    /\ UNCHANGED <<wqes, sndNxt>>

\* ScheduleWqeSegment takes the first segment of the round.  With more than one
\* segment in the vector the status is reset, but the round goes on.
RoundTakes(t, q, busy) ==
    /\ exists[t] /\ ~busy /\ ~IsWqeSegmentLimited(q) /\ Turns(t) # {}
    /\ GetNextWqeSegment(Asked(t, FirstTurn(t)))
    /\ rrIndex' = [rrIndex EXCEPT ![t] = (Turn(t, FirstTurn(t)) + 1) % Len(related[t])]
    /\ scheduling' = [scheduling EXCEPT ![t] = Len(q) <= 1]
    /\ UNCHANGED full

\* What a round of t adds to the events.
Finish(t) == <<[kind |-> "finish", tp |-> t, seg |-> NextSegment(Asked(t, FirstTurn(t)))]>>

ScheduleWqeSegment(t, q, busy) ==
    \/ RoundStops(t, q, busy) /\ events' = Tail(events)
    \/ RoundTakes(t, q, busy) /\ events' = Tail(events) \o Finish(t)

Running(kind) == acking = <<>> /\ events # <<>> /\ Head(events).kind = kind

\* The event holds the TP object it was scheduled for; an object whose number
\* was given to a new one has no segments.
RunSchedule ==
    /\ Running("schedule")
    /\ LET e == Head(events)
       IN  ScheduleWqeSegment(e.tp, IF e.obj = made[e.tp] THEN vec[e.tp] ELSE <<>>, scheduling[e.tp])
    /\ UNCHANGED <<ordered, msnCnt, ssnCnt, sndUna, acked, bindVars, vec, pushed, una, acking>>

\* OnScheduleWqeSegmentFinish: number the segment, push it to the channel and
\* go on with the next round.
OnScheduleWqeSegmentFinish ==
    /\ Running("finish")
    /\ LET t == Head(events).tp
           s == [Head(events).seg EXCEPT !.num = pushed[t]]
       IN  /\ vec' = [vec EXCEPT ![t] = Append(@, s)]
           /\ pushed' = [pushed EXCEPT ![t] = @ + 1]
           /\ ScheduleWqeSegment(t, Append(vec[t], s), FALSE)
    /\ UNCHANGED <<ordered, msnCnt, ssnCnt, sndUna, acked, bindVars, una, acking>>

-----------------------------------------------------------------------------
(* New work.                                                               *)

\* JettyBindTp for every path of the jetty, after the TPs that are missing have
\* been created.
Bind(j) ==
    LET ts == ToSet(Paths[j])
        new == {t \in ts : ~exists[t]}
        Fresh(f, v) == [t \in Tps |-> IF t \in new THEN v ELSE f[t]]
    IN  /\ group' = [group EXCEPT ![j] = Paths[j]]
        /\ related' = [t \in Tps |-> IF t \in ts THEN Append(related[t], j) ELSE related[t]]
        /\ exists' = [t \in Tps |-> exists[t] \/ t \in ts]
        /\ made' = [t \in Tps |-> IF t \in new THEN made[t] + 1 ELSE made[t]]
        /\ rrIndex' = Fresh(rrIndex, 0) /\ scheduling' = Fresh(scheduling, FALSE)
        /\ vec' = Fresh(vec, <<>>) /\ full' = Fresh(full, FALSE)
        /\ pushed' = Fresh(pushed, 0) /\ una' = Fresh(una, 0)

\* UbApp::SendTraffic and UbFunction::PushWqeToJetty: a WQE of n segments goes
\* to jetty j, which is bound to its TPs before its first one.
PushWqe(j, o, n) ==
    /\ acking = <<>> /\ msnCnt[j] < MaxWqes
    /\ wqes' = [wqes EXCEPT ![j] = Append(@,
                  [id |-> msnCnt[j], order |-> o, start |-> ssnCnt[j], size |-> n,
                   sent |-> 0, canSend |-> FALSE])]
    /\ ordered' = [ordered EXCEPT ![j] = IF o = "NO" THEN @ ELSE Append(@, msnCnt[j])]
    /\ msnCnt' = [msnCnt EXCEPT ![j] = @ + 1]
    /\ ssnCnt' = [ssnCnt EXCEPT ![j] = @ + n]
    /\ IF msnCnt[j] = 0 THEN Bind(j) ELSE UNCHANGED <<bindVars, tpVars, roundVars>>
    /\ events' = events \o [i \in DOMAIN Paths[j] |->
                  [kind |-> "schedule", tp |-> Paths[j][i], obj |-> made'[Paths[j][i]]]]
    /\ UNCHANGED <<sndNxt, sndUna, acked, acking>>

-----------------------------------------------------------------------------
(* Acknowledgements.                                                       *)

\* Erasing from a vector: the elements of s that are not in S, in their order.
Without(s, S) ==
    LET kept[n \in 0..Len(s)] ==
          IF n = 0 THEN <<>> ELSE IF s[n] \in S THEN kept[n - 1] ELSE Append(kept[n - 1], s[n])
    IN  kept[Len(s)]

\* UbTransportChannel::RecvTpAck acknowledges the first n segments of t; an ack
\* inside a segment acknowledges none, but walks the vector all the same.
RecvTpAck(t, n) ==
    /\ acking = <<>> /\ exists[t] /\ una[t] < pushed[t]
    /\ n \in una[t]..pushed[t]
    /\ una' = [una EXCEPT ![t] = n]
    /\ acking' = <<t, 1>>
    /\ UNCHANGED <<jettyVars, bindVars, vec, pushed, full, roundVars, events>>

\* The walk is at a segment that is acknowledged.
AtAcked == /\ acking # <<>>
           /\ acking[2] <= Len(vec[acking[1]])
           /\ vec[acking[1]][acking[2]].num < una[acking[1]]

InWindow(j, ssn) == sndUna[j] <= ssn /\ ssn < sndNxt[j]

\* How far an ack advances m_taSsnSndUna.
RunLength(b) == CHOOSE n \in 0..OooThreshold : n \notin b /\ 0..(n - 1) \subseteq b

\* A shift that forgets to clear the bits it moves out.
RightShiftBitsetUncleared(b, n) == {i - n : i \in b}

\* A shift by one place too few.
RightShiftBitsetShort(b, n) == {i - n + 1 : i \in {k \in b : k >= n}}

RightShiftBitset(b, n) == {i - n : i \in {k \in b : k >= n}}

\* A WQE is complete when its last segment is the next to be acknowledged.
IsWqeCompletedMutant(w, u) == w.start + w.size - 1 <= u

IsWqeCompleted(w, u) == w.start + w.size - 1 < u

\* RecvTpAck when UbJetty::ProcessWqeSegmentComplete refuses the segment: it is
\* outside the window of the jetty or past its bitmap, and stays in the vector.
RefuseSegment ==
    /\ AtAcked
    /\ LET s == vec[acking[1]][acking[2]]
           j == s.jetty
       IN  /\ ~InWindow(j, s.ssn) \/ s.ssn - sndUna[j] >= OooThreshold
           /\ events' = events \o (IF InWindow(j, s.ssn) /\ IsLimited(j) THEN Trigger(group[j]) ELSE <<>>)
    /\ acking' = [acking EXCEPT ![2] = @ + 1]
    /\ UNCHANGED <<jettyVars, bindVars, tpVars, roundVars>>

\* Useless TPs are those with no jetty, the TPs of the others too.
RemoveUselessTpsMutant(j) ==
    /\ group' = [group EXCEPT ![j] = <<>>]
    /\ related' = [t \in Tps |-> Without(related[t], {j})]
    /\ exists' = [t \in Tps |-> exists[t] /\ \A i \in DOMAIN group[j] : t # group[j][i]]
    /\ UNCHANGED made

\* UbApp::OnTaskCompleted: TpConnectionManager::RemoveUselessTps unbinds the
\* jetty and destroys the TPs that no jetty is bound to.
RemoveUselessTps(j) ==
    /\ group' = [group EXCEPT ![j] = <<>>]
    /\ related' = [t \in Tps |-> Without(related[t], {j})]
    /\ exists' = [t \in Tps |-> exists[t] /\ related'[t] # <<>>]
    /\ UNCHANGED made

\* CheckAndRemoveCompletedWqe of j when its window begins at u.
RemoveCompleted(j, u) ==
    LET done == {w \in ToSet(wqes[j]) : IsWqeCompleted(w, u)}
        ids == {w.id : w \in done}
    IN  /\ wqes' = [wqes EXCEPT ![j] = Without(@, done)]
        /\ ordered' = [ordered EXCEPT ![j] = Without(@, ids)]
        /\ IF RemoveUseless /\ done # {} THEN RemoveUselessTps(j) ELSE UNCHANGED bindVars

\* A WQE that completes asks for no round.
CompletionEventsUnblocked(j, u) == IF IsLimited(j) THEN Trigger(group[j]) ELSE <<>>

\* The rounds a completed segment asks for: of every TP of the jetty if it was
\* limited, and again for each WQE that completes.
CompletionEvents(j, u) ==
    LET done == {i \in DOMAIN wqes[j] : IsWqeCompleted(wqes[j][i], u)}
    IN  (IF IsLimited(j) THEN Trigger(group[j]) ELSE <<>>)
          \o FlattenSeq([i \in 1..Cardinality(done) |-> Trigger(group'[j])])

\* RecvTpAck when UbJetty::ProcessWqeSegmentComplete accepts the segment: the
\* window of the jetty moves, its complete WQEs go, and so does the segment.
CompleteSegment ==
    /\ AtAcked
    /\ LET t == acking[1]
           s == vec[t][acking[2]]
           j == s.jetty
           bits == acked[j] \cup {s.ssn - sndUna[j]}
           n == RunLength(bits)
       IN  /\ InWindow(j, s.ssn) /\ s.ssn - sndUna[j] < OooThreshold
           /\ sndUna' = [sndUna EXCEPT ![j] = @ + n]
           /\ acked' = [acked EXCEPT ![j] = RightShiftBitset(bits, n)]
           /\ RemoveCompleted(j, sndUna[j] + n)
           /\ vec' = [vec EXCEPT ![t] = RemoveAt(@, acking[2])]
           /\ events' = events \o CompletionEvents(j, sndUna[j] + n)
                          \o (IF Len(vec[t]) <= 2 THEN <<Schedule(t)>> ELSE <<>>)
    /\ UNCHANGED <<msnCnt, ssnCnt, sndNxt, pushed, una, full, roundVars, acking>>

\* The end of RecvTpAck: a channel that was full asks for a round.
AckDone ==
    /\ acking # <<>> /\ ~AtAcked
    /\ LET t == acking[1]
           room == full[t] /\ ~IsWqeSegmentLimited(vec[t])
       IN  /\ full' = [full EXCEPT ![t] = @ /\ ~room]
           /\ events' = events \o (IF room THEN <<Schedule(t)>> ELSE <<>>)
    /\ acking' = <<>>
    /\ UNCHANGED <<jettyVars, bindVars, vec, pushed, una, roundVars>>

-----------------------------------------------------------------------------
RunEvent  == RunSchedule \/ OnScheduleWqeSegmentFinish
WalkAcked == RefuseSegment \/ CompleteSegment \/ AckDone

Next ==
    \/ \E j \in Jetties, o \in Orders, n \in WqeSizes : PushWqe(j, o, n)
    \/ RunEvent
    \/ \E t \in Tps : \E n \in una[t]..pushed[t] : RecvTpAck(t, n)
    \/ WalkAcked

Spec == Init /\ [][Next]_vars

\* Events run, a handler that has begun ends, and what a channel was given is
\* acknowledged at last (UbTransport: EveryWqeCompletes).  Strong fairness: an
\* ack inside a segment keeps the node busy for the time of its handler, and a
\* segment has finitely many packets.
Fairness ==
    /\ WF_vars(RunEvent)
    /\ WF_vars(WalkAcked)
    /\ \A t \in Tps : SF_vars(\E n \in (una[t] + 1)..pushed[t] : RecvTpAck(t, n))

FairSpec == Spec /\ Fairness

-----------------------------------------------------------------------------
(* Properties.                                                             *)

JettyOK ==
    /\ wqes \in [Jetties -> Seq(Wqe)] /\ ordered \in [Jetties -> Seq(Nat)]
    /\ msnCnt \in [Jetties -> Nat] /\ ssnCnt \in [Jetties -> Nat]
    /\ sndNxt \in [Jetties -> Nat] /\ sndUna \in [Jetties -> Nat]
    /\ acked \in [Jetties -> SUBSET (0..(OooThreshold - 1))]

ChannelOK ==
    /\ group \in [Jetties -> Seq(Tps)] /\ related \in [Tps -> Seq(Jetties)]
    /\ exists \in [Tps -> BOOLEAN] /\ made \in [Tps -> Nat]
    /\ rrIndex \in [Tps -> Nat] /\ scheduling \in [Tps -> BOOLEAN]
    /\ vec \in [Tps -> Seq(Segment)] /\ pushed \in [Tps -> Nat]
    /\ una \in [Tps -> Nat] /\ full \in [Tps -> BOOLEAN]

TypeOK ==
    /\ JettyOK /\ ChannelOK
    /\ events \in Seq(Event)
    /\ acking \in {<<>>} \cup (Tps \X (Nat \ {0}))

Pending(kind, t) == \E i \in DOMAIN events : events[i].kind = kind /\ events[i].tp = t

\* The segments that were taken and are not complete: in the vector of a channel,
\* or on the way to it.
InVector(t) == {vec[t][i] : i \in DOMAIN vec[t]}
OnTheWay == {events[i].seg : i \in {k \in DOMAIN events : events[k].kind = "finish"}}
Held(j) == {s \in OnTheWay \cup UNION {InVector(t) : t \in Tps} : s.jetty = j}

\* Every SSN a jetty has given out and not yet acknowledged belongs to exactly one
\* segment, on its way to a channel or in the vector of one, and the segments
\* that are complete are those below m_taSsnSndUna and those in the bitmap.
SegmentsAccountedFor ==
    \A j \in Jetties :
        /\ {s.ssn : s \in Held(j)} =
               (sndUna[j]..(sndNxt[j] - 1)) \ {sndUna[j] + b : b \in acked[j]}
        /\ \A s, r \in Held(j) : s.ssn = r.ssn => s = r

\* A WQE is reported complete only when all of its segments were sent and none
\* of them is unacknowledged.
CompletedWhole ==
    [][\A j \in Jetties : \A w \in ToSet(wqes[j]) :
          (\A x \in ToSet(wqes'[j]) : x.id # w.id) =>
              /\ w.sent = w.size
              /\ \A s \in Held(j)' : s.wqe # w.id]_vars

\* ub-datatype.h:110: an SO WQE does not overtake an RO WQE before it (nor, in
\* the code, an SO one): none of its segments is taken before that one completes.
StrongOrder ==
    \A j \in Jetties : \A i, k \in DOMAIN wqes[j] :
        k < i /\ wqes[j][i].order = "SO" /\ wqes[j][k].order # "NO" => wqes[j][i].sent = 0

\* A channel with room and a jetty that could hand it a segment have a round
\* pending, or the ack being handled asks for one: no trigger is lost between
\* full channels, limited jetties and blocked WQEs.
NoLostRound ==
    \A t \in Tps :
        acking = <<>> /\ exists[t] /\ ~IsWqeSegmentLimited(vec[t]) /\ Turns(t) # {} =>
            Pending("schedule", t) \/ Pending("finish", t)

\* A TP is destroyed only when it has no segment and none is on its way to it:
\* OnScheduleWqeSegmentFinish never finds the TP gone from m_tpnMap.
DestroyedIsIdle ==
    \A t \in Tps : acking = <<>> /\ ~exists[t] => vec[t] = <<>> /\ ~Pending("finish", t)

\* ub-transport.cc:703: after an ack "all WQE segments it covers are complete", if
\* not at once then when the jetty has caught up.
AckedSegmentsComplete ==
    \A t \in Tps : []<>(\A i \in DOMAIN vec[t] : vec[t][i].num >= una[t])
=============================================================================
