-------------------------- MODULE TriageGraphProofs --------------------------
(***************************************************************************)
(* The safety properties of TriageGraph for every evidence limit, trace    *)
(* capacity, set of actions and number of runs.                            *)
(***************************************************************************)
EXTENDS TriageGraph, SequenceTheorems, TLAPS

EventTypes == Nodes \union {"ai.finding_summary", "ai.context_bundle",
                            "ai.output_validation"}
Events == [event : EventTypes, validation : {"passed", "blocked"}]

\* A node other than the gate recorded that it blocked.
NodeBlocked ==
    \E i \in DOMAIN node_results :
      node_results[i][1] # "human_approval" /\ node_results[i][2] = "blocked"

PatchExplained == \E i \in DOMAIN node_results : node_results[i][1] = "patch"

TraceTypeOK == records \in Seq(Events) /\ emitted \in Seq(Events)

\* What the state says agrees with what the nodes recorded, at every node.
BlocksExplained ==
    /\ status = "blocked" <=> blocked_reasons # <<>>
    /\ NodeBlocked => status = "blocked"
    /\ status = "blocked" => NodeBlocked \/ (pc = "done" /\ decision = "rejected")
    /\ has_patch <=> PatchExplained

\* Only the gate approves, and only what it may.
GateDecides ==
    /\ status \in {"approved", "awaiting_human_approval"} => pc = "done"
    /\ approved => decision = "approved" /\ status = "approved"
    /\ status = "approved" => decision = "approved" \/ ~ HumanApprovalRequired
    /\ decision = "rejected" /\ pc = "done" => status = "blocked"
    /\ offered > MAX_TRIAGE_EVIDENCE_CHUNKS =>
         pc = "evidence_limit" \/ (pc = "done" /\ status = "blocked")

IInv == TypeOK /\ TraceTypeOK /\ TraceIsTail /\ BlocksExplained /\ GateDecides

-----------------------------------------------------------------------------
(* The trace *)

\* A sequence is the end of another: the newest records up to the capacity.
TailOf(rs, all) ==
    LET kept == IF Len(all) < MAX_TRACE_RECORDS THEN Len(all) ELSE MAX_TRACE_RECORDS
    IN rs = SubSeq(all, Len(all) - kept + 1, Len(all))

\* Making room for one event and appending it keeps the newest events.
LEMMA RecordKeepsTail ==
    ASSUME NEW rs \in Seq(Events), NEW all \in Seq(Events), NEW e \in Events, TailOf(rs, all)
    PROVE  /\ Append(Evicted(rs), e) \in Seq(Events)
           /\ TailOf(Append(Evicted(rs), e), Append(all, e))
<1> DEFINE M == MAX_TRACE_RECORDS
           n == Len(all)
           more == Append(all, e)
<1>1. M \in Nat \ {0} /\ n \in Nat
  BY TraceAssumption
<1>2. /\ more \in Seq(Events)
      /\ Len(more) = n + 1
      /\ \A i \in 1 .. n : more[i] = all[i]
      /\ more[n + 1] = e
  BY AppendProperties
<1>3. CASE n < M
  <2>1. rs = all
    <3>1. rs = SubSeq(all, 1, n)
      BY <1>1, <1>3 DEF TailOf
    <3>. QED
      BY <3>1, SubSeqFull
  <2>2. Append(Evicted(rs), e) = more
    BY <1>3, <2>1 DEF Evicted
  <2>3. more = SubSeq(more, 1, n + 1)
    BY <1>2, SubSeqFull
  <2>4. Len(more) - (IF Len(more) < M THEN Len(more) ELSE M) + 1 = 1
    BY <1>1, <1>2, <1>3
  <2>5. TailOf(more, more)
    BY <1>2, <2>3, <2>4 DEF TailOf
  <2>. QED
    BY <1>2, <2>2, <2>5
<1>4. CASE ~ (n < M)
  <2>1. rs = SubSeq(all, n - M + 1, n)
    BY <1>1, <1>4 DEF TailOf
  <2>2. Len(rs) = M /\ \A i \in 1 .. M : rs[i] = all[n - M + i]
    <3>1. \A i \in n - M + 1 .. n : all[i] \in Events
      BY <1>1, <1>4, ElementOfSeq
    <3>2. n - M + 1 \in Int /\ n \in Int /\ n - M + 1 <= n /\ n - (n - M + 1) + 1 = M
      BY <1>1, <1>4
    <3>3. /\ Len(SubSeq(all, n - M + 1, n)) = M
          /\ \A i \in 1 .. M : SubSeq(all, n - M + 1, n)[i] = all[(n - M + 1) + i - 1]
      BY <3>1, <3>2, SubSeqProperties
    <3>. QED
      BY <1>1, <2>1, <3>3
  <2>3. Evicted(rs) = SubSeq(rs, 2, M)
    BY <1>1, <2>2 DEF Evicted
  <2>4. /\ Evicted(rs) \in Seq(Events)
        /\ Len(Evicted(rs)) = M - 1
        /\ \A i \in 1 .. M - 1 : Evicted(rs)[i] = all[n - M + 1 + i]
    <3>1. \A i \in 2 .. M : rs[i] \in Events
      BY <1>1, <2>2, ElementOfSeq
    <3>2. 2 \in Int /\ M \in Int /\ M - 2 + 1 = M - 1 /\ (2 <= M \/ M - 1 = 0)
      BY <1>1
    <3>3. /\ SubSeq(rs, 2, M) \in Seq(Events)
          /\ Len(SubSeq(rs, 2, M)) = IF 2 <= M THEN M - 1 ELSE 0
          /\ \A i \in 1 .. M - 1 : SubSeq(rs, 2, M)[i] = rs[2 + i - 1]
      BY <3>1, <3>2, SubSeqProperties
    <3>4. \A i \in 1 .. M - 1 : i + 1 \in 1 .. M /\ 2 + i - 1 = i + 1
                                /\ n - M + (i + 1) = n - M + 1 + i
      BY <1>1
    <3>. QED
      BY <2>2, <2>3, <3>2, <3>3, <3>4
  <2> DEFINE left == Append(Evicted(rs), e)
             right == SubSeq(more, n - M + 2, n + 1)
  <2>5. /\ left \in Seq(Events)
        /\ Len(left) = M
        /\ \A i \in 1 .. M : left[i] = more[n - M + 1 + i]
    <3>1. /\ left \in Seq(Events)
          /\ Len(left) = (M - 1) + 1
          /\ \A i \in 1 .. M - 1 : left[i] = Evicted(rs)[i]
          /\ left[(M - 1) + 1] = e
      BY <2>4, AppendProperties
    <3>2. ASSUME NEW i \in 1 .. M PROVE left[i] = more[n - M + 1 + i]
      <4>1. CASE i = M
        BY <1>1, <1>2, <3>1, <4>1
      <4>2. CASE i # M
        <5>1. i \in 1 .. M - 1 /\ n - M + 1 + i \in 1 .. n
          BY <1>1, <1>4, <4>2
        <5>. QED
          BY <1>2, <2>4, <3>1, <5>1
      <4>. QED
        BY <4>1, <4>2
    <3> HIDE DEF left, more, n, M
    <3>. QED
      BY <1>1, <3>1, <3>2
  <2>6. /\ right \in Seq(Events)
        /\ Len(right) = M
        /\ \A i \in 1 .. M : right[i] = more[n - M + 1 + i]
    <3> DEFINE first == n - M + 2
               last == n + 1
    <3>1. /\ first \in Int /\ last \in Int
          /\ first <= last /\ last - first + 1 = M
      BY <1>1, <1>4
    <3>2. \A i \in first .. last : more[i] \in Events
      BY <1>1, <1>2, <1>4, ElementOfSeq
    <3>3. \A i \in 1 .. M : first + i - 1 = n - M + 1 + i
      BY <1>1
    <3> HIDE DEF more, n, M, first, last
    <3>4. /\ SubSeq(more, first, last) \in Seq(Events)
          /\ Len(SubSeq(more, first, last)) = M
          /\ \A i \in 1 .. M : SubSeq(more, first, last)[i] = more[first + i - 1]
      BY <3>1, <3>2, SubSeqProperties
    <3>. QED
      BY <3>3, <3>4 DEF first, last
  <2>7. left = right
    <3>1. \A i \in 1 .. Len(left) : left[i] = right[i]
      BY <2>5, <2>6
    <3>. QED
      BY <2>5, <2>6, <3>1, SeqEqual
  <2>8. Len(more) - (IF Len(more) < M THEN Len(more) ELSE M) + 1 = n - M + 2
    <3> HIDE DEF more, n, M
    <3>. QED
      BY <1>1, <1>2, <1>4
  <2>9. TailOf(left, more)
    BY <1>2, <2>7, <2>8 DEF TailOf
  <2>. QED
    BY <2>5, <2>9
<1>. QED
  BY <1>3, <1>4

-----------------------------------------------------------------------------
(* The nodes *)

Trace == TraceTypeOK /\ TraceIsTail

\* Recording one or two events keeps the trace.
LEMMA RecordEventKeepsTrace ==
    ASSUME Trace, NEW e \in Events, RecordEvent(e)
    PROVE  Trace'
<1>1. TailOf(records, emitted) /\ records \in Seq(Events) /\ emitted \in Seq(Events)
  BY DEF Trace, TraceTypeOK, TraceIsTail, TailOf
<1>2. /\ Append(Evicted(records), e) \in Seq(Events)
      /\ TailOf(Append(Evicted(records), e), Append(emitted, e))
  BY <1>1, RecordKeepsTail
<1>3. Append(emitted, e) \in Seq(Events)
  BY <1>1, AppendProperties
<1>. QED
  BY <1>2, <1>3 DEF RecordEvent, Trace, TraceTypeOK, TraceIsTail, TailOf

LEMMA RecordTwoEventsKeepsTrace ==
    ASSUME Trace, NEW e \in Events, NEW f \in Events, RecordTwoEvents(e, f)
    PROVE  Trace'
<1> DEFINE rs == Append(Evicted(records), e)
           all == Append(emitted, e)
<1>1. TailOf(records, emitted) /\ records \in Seq(Events) /\ emitted \in Seq(Events)
  BY DEF Trace, TraceTypeOK, TraceIsTail, TailOf
<1>2. rs \in Seq(Events) /\ all \in Seq(Events) /\ TailOf(rs, all)
  BY <1>1, RecordKeepsTail, AppendProperties
<1>3. /\ Append(Evicted(rs), f) \in Seq(Events)
      /\ TailOf(Append(Evicted(rs), f), Append(all, f))
      /\ Append(all, f) \in Seq(Events)
  <2> HIDE DEF rs, all
  <2>. QED
    BY <1>2, RecordKeepsTail, AppendProperties
<1>4. emitted \o <<e, f>> = Append(all, f)
  BY <1>1
<1>. QED
  BY <1>3, <1>4 DEF RecordTwoEvents, Trace, TraceTypeOK, TraceIsTail, TailOf

\* What one more node result adds to what the results tell.
LEMMA ResultAppended ==
    ASSUME TypeOK, NEW node \in Nodes, NEW validation \in {"passed", "blocked"},
           node_results' = Append(node_results, <<node, validation>>)
    PROVE  /\ node_results' \in Seq(Nodes \X {"passed", "blocked"})
           /\ NodeBlocked' <=> NodeBlocked
                               \/ (node # "human_approval" /\ validation = "blocked")
           /\ PatchExplained' <=> PatchExplained \/ node = "patch"
<1> DEFINE n == Len(node_results)
<1>1. node_results \in Seq(Nodes \X {"passed", "blocked"})
      /\ <<node, validation>> \in Nodes \X {"passed", "blocked"}
  BY DEF TypeOK
<1>2. /\ node_results' \in Seq(Nodes \X {"passed", "blocked"})
      /\ n \in Nat
      /\ DOMAIN node_results = 1 .. n
      /\ DOMAIN node_results' = 1 .. n + 1
      /\ \A i \in 1 .. n : node_results'[i] = node_results[i]
      /\ node_results'[n + 1] = <<node, validation>>
  BY <1>1, AppendProperties, LenProperties
<1>3. /\ node_results'[n + 1][1] = node
      /\ node_results'[n + 1][2] = validation
  BY <1>2
<1>4. \A i \in 1 .. n + 1 : i \in 1 .. n \/ i = n + 1
  BY <1>2
<1>5. \A i \in 1 .. n : i \in 1 .. n + 1
  BY <1>2
<1>6. n + 1 \in 1 .. n + 1
  BY <1>2
<1>7. NodeBlocked' <=> NodeBlocked \/ (node # "human_approval" /\ validation = "blocked")
  BY <1>2, <1>3, <1>4, <1>5, <1>6 DEF NodeBlocked
<1>8. PatchExplained' <=> PatchExplained \/ node = "patch"
  BY <1>2, <1>3, <1>4, <1>5, <1>6 DEF PatchExplained
<1>. QED
  BY <1>2, <1>7, <1>8

\* What a node's record_node, with or without an event before it, changes.
LEMMA NodeRecorded ==
    ASSUME IInv, NEW node \in Nodes, NEW validation \in {"passed", "blocked"},
           \/ RecordNode(node, validation)
           \/ \E event \in EventTypes : RecordNodeAfter(event, node, validation)
    PROVE  /\ Trace'
           /\ node_results' \in Seq(Nodes \X {"passed", "blocked"})
           /\ NodeBlocked' <=> NodeBlocked
                               \/ (node # "human_approval" /\ validation = "blocked")
           /\ PatchExplained' <=> PatchExplained \/ node = "patch"
<1>1. Trace /\ TypeOK
  BY DEF IInv, Trace
<1>2. \A event \in EventTypes : NodeEvent(event, validation) \in Events
  BY DEF NodeEvent, Events
<1>3. node \in EventTypes
  BY DEF EventTypes
<1>4. Trace'
  <2>1. CASE RecordNode(node, validation)
    BY <1>1, <1>2, <1>3, <2>1, RecordEventKeepsTrace DEF RecordNode
  <2>2. CASE \E event \in EventTypes : RecordNodeAfter(event, node, validation)
    BY <1>1, <1>2, <1>3, <2>2, RecordTwoEventsKeepsTrace DEF RecordNodeAfter
  <2>. QED
    BY <2>1, <2>2
<1>5. node_results' = Append(node_results, <<node, validation>>)
  BY DEF RecordNode, RecordNodeAfter
<1>. QED
  BY <1>1, <1>4, <1>5, ResultAppended

\* A node that blocks gives its reason.
LEMMA BlockGivesReason ==
    ASSUME TypeOK, NEW reason \in Reasons, Block(reason)
    PROVE  /\ blocked_reasons' \in Seq(Reasons) /\ blocked_reasons' # <<>>
           /\ status' = "blocked" /\ approved' = FALSE
BY AppendProperties DEF TypeOK, Block

-----------------------------------------------------------------------------
(* The inductive invariant *)

LEMMA InitHolds == Init => IInv
<1> SUFFICES ASSUME Init PROVE IInv
  OBVIOUS
<1> USE TraceAssumption, TriageAssumption
<1>1. blocked_reasons \in Seq(Reasons) /\ node_results \in Seq(Nodes \X {"passed", "blocked"})
  BY EmptySeq DEF Init
<1>2. TypeOK
  <2>1. runs \in 0 .. MaxRuns /\ offered \in 0 .. MAX_TRIAGE_EVIDENCE_CHUNKS + 1
        /\ evidence \in 0 .. MAX_TRIAGE_EVIDENCE_CHUNKS
    BY DEF Init
  <2>2. decision \in Decisions /\ task \in Tasks
    BY DEF Init, Decisions
  <2>. QED
    BY <1>1, <2>1, <2>2 DEF Init, TypeOK
<1>3. TraceTypeOK
  BY EmptySeq DEF Init, InitTrace, TraceTypeOK
<1>4. TraceIsTail
  BY DEF Init, InitTrace, TraceIsTail
<1>5. BlocksExplained
  BY DEF Init, BlocksExplained, NodeBlocked, PatchExplained
<1>6. GateDecides
  BY DEF Init, GateDecides
<1>. QED
  BY <1>2, <1>3, <1>4, <1>5, <1>6 DEF IInv

LEMMA StartRunKeeps == IInv /\ StartRun => IInv'
<1> SUFFICES ASSUME IInv, StartRun PROVE IInv'
  OBVIOUS
<1> USE TriageAssumption
<1>1. blocked_reasons' = <<>> /\ node_results' = <<>>
      /\ blocked_reasons' \in Seq(Reasons)
      /\ node_results' \in Seq(Nodes \X {"passed", "blocked"})
  BY EmptySeq DEF StartRun
<1>2. TypeOK'
  <2>1. runs' \in 0 .. MaxRuns
    BY DEF IInv, TypeOK, StartRun
  <2>2. pc' \in Nodes \union {"idle", "done"}
    BY DEF StartRun, Nodes
  <2>3. /\ offered' \in 0 .. MAX_TRIAGE_EVIDENCE_CHUNKS + 1
        /\ evidence' \in 0 .. MAX_TRIAGE_EVIDENCE_CHUNKS
    BY DEF StartRun, Bounded
  <2>. QED
    BY <1>1, <2>1, <2>2, <2>3 DEF StartRun, TypeOK
<1>3. TraceTypeOK' /\ TraceIsTail'
  BY DEF IInv, StartRun, traceVars, TraceTypeOK, TraceIsTail
<1>4. ~ NodeBlocked' /\ ~ PatchExplained'
  BY <1>1 DEF NodeBlocked, PatchExplained
<1>5. BlocksExplained'
  BY <1>1, <1>4 DEF StartRun, BlocksExplained
<1>6. GateDecides'
  BY DEF IInv, TypeOK, StartRun, GateDecides, Bounded
<1>. QED
  BY <1>2, <1>3, <1>5, <1>6 DEF IInv

LEMMA EvidenceLimitNodeKeeps == IInv /\ EvidenceLimitNode => IInv'
<1> SUFFICES ASSUME IInv, EvidenceLimitNode PROVE IInv'
  OBVIOUS
<1>1. "evidence_limit" \in Nodes
  BY DEF Nodes
<1>2. /\ Trace'
      /\ node_results' \in Seq(Nodes \X {"passed", "blocked"})
      /\ NodeBlocked'
      /\ PatchExplained' <=> PatchExplained
  BY <1>1, NodeRecorded DEF EvidenceLimitNode
<1>3. /\ blocked_reasons' \in Seq(Reasons) /\ blocked_reasons' # <<>>
      /\ status' = "blocked" /\ approved' = FALSE
  <2>1. "evidence limit" \in Reasons
    BY DEF Reasons
  <2>. QED
    BY <2>1, BlockGivesReason DEF IInv, EvidenceLimitNode
<1>4. TypeOK'
  BY <1>2, <1>3 DEF IInv, TypeOK, EvidenceLimitNode, input
<1>5. BlocksExplained'
  BY <1>2, <1>3 DEF IInv, BlocksExplained, EvidenceLimitNode
<1>6. GateDecides'
  BY <1>3 DEF IInv, GateDecides, EvidenceLimitNode
<1>. QED
  BY <1>2, <1>4, <1>5, <1>6 DEF IInv, Trace

LEMMA ExplanationNodeKeeps ==
    ASSUME IInv, NEW node \in Nodes \ {"evidence_limit", "human_approval"},
           NEW next \in Nodes \ {"evidence_limit"}, ExplanationNode(node, next)
    PROVE  IInv'
<1>1. /\ Trace'
      /\ node_results' \in Seq(Nodes \X {"passed", "blocked"})
      /\ NodeBlocked' <=> NodeBlocked
      /\ PatchExplained' <=> PatchExplained \/ node = "patch"
  BY NodeRecorded DEF ExplanationNode
<1>2. pc = node /\ pc' = next /\ pc # "done" /\ pc' # "done"
  BY DEF ExplanationNode, Nodes
<1>3. TypeOK'
  BY <1>1, <1>2 DEF IInv, TypeOK, ExplanationNode, input
<1>4. BlocksExplained'
  BY <1>1, <1>2 DEF IInv, TypeOK, BlocksExplained, ExplanationNode, input
<1>5. GateDecides'
  BY <1>2 DEF IInv, GateDecides, ExplanationNode, HumanApprovalRequired, input
<1>. QED
  BY <1>1, <1>3, <1>4, <1>5 DEF IInv, Trace

\* A node that checks something and blocks the state if it fails.
LEMMA CheckingNodeKeeps ==
    ASSUME IInv, NEW blocked \in BOOLEAN, NEW reason \in Reasons,
           NEW node \in {"citation_verification", "ai_context_bundle",
                         "client_ai_validation"},
           pc = node, pc' \in {"human_approval", "client_ai_validation"},
           BlockIf(blocked, reason),
           \/ RecordNode(node, ValidationStatus(blocked))
           \/ \E event \in EventTypes :
                RecordNodeAfter(event, node, ValidationStatus(blocked)),
           UNCHANGED <<input, has_patch>>
    PROVE  IInv'
<1>1. node \in Nodes /\ node # "human_approval" /\ node # "patch"
  BY DEF Nodes
<1>2. /\ ValidationStatus(blocked) \in {"passed", "blocked"}
      /\ ValidationStatus(blocked) = "blocked" <=> blocked
  BY DEF ValidationStatus
<1>3. /\ Trace'
      /\ node_results' \in Seq(Nodes \X {"passed", "blocked"})
      /\ NodeBlocked' <=> NodeBlocked \/ blocked
      /\ PatchExplained' <=> PatchExplained
  BY <1>1, <1>2, NodeRecorded
<1>4. CASE blocked
  <2>1. /\ blocked_reasons' \in Seq(Reasons) /\ blocked_reasons' # <<>>
        /\ status' = "blocked" /\ approved' = FALSE
    BY <1>4, BlockGivesReason DEF IInv, BlockIf
  <2>2. TypeOK'
    BY <1>3, <2>1 DEF IInv, TypeOK, input, Nodes
  <2>3. BlocksExplained'
    BY <1>3, <1>4, <2>1 DEF IInv, BlocksExplained
  <2>4. GateDecides'
    BY <2>1 DEF IInv, GateDecides, input
  <2>. QED
    BY <1>3, <2>2, <2>3, <2>4 DEF IInv, Trace
<1>5. CASE ~ blocked
  <2>1. UNCHANGED <<status, approved, blocked_reasons>>
    BY <1>5 DEF BlockIf
  <2>2. TypeOK'
    BY <1>3, <2>1 DEF IInv, TypeOK, input, Nodes
  <2>3. BlocksExplained'
    BY <1>3, <1>5, <2>1 DEF IInv, BlocksExplained
  <2>4. GateDecides'
    BY <2>1 DEF IInv, GateDecides, input
  <2>. QED
    BY <1>3, <2>2, <2>3, <2>4 DEF IInv, Trace
<1>. QED
  BY <1>4, <1>5

LEMMA HumanApprovalNodeKeeps == IInv /\ HumanApprovalNode => IInv'
<1> SUFFICES ASSUME IInv, HumanApprovalNode PROVE IInv'
  OBVIOUS
<1>1. "human_approval" \in Nodes
      /\ ValidationStatus(GateStatus = "blocked") \in {"passed", "blocked"}
  BY DEF Nodes, ValidationStatus
<1>2. /\ Trace'
      /\ node_results' \in Seq(Nodes \X {"passed", "blocked"})
      /\ NodeBlocked' <=> NodeBlocked
      /\ PatchExplained' <=> PatchExplained
  BY <1>1, NodeRecorded DEF HumanApprovalNode
<1>3. /\ pc = "human_approval" /\ pc' = "done"
      /\ UNCHANGED <<input, has_patch>>
      /\ status' = GateStatus
      /\ approved' = (GateStatus = "approved" /\ decision = "approved")
  BY DEF HumanApprovalNode
<1>4. /\ blocked_reasons' \in Seq(Reasons)
      /\ blocked_reasons' # <<>> <=> GateStatus = "blocked"
  <2>1. CASE blocked_reasons = <<>> /\ decision = "rejected"
    <3>1. blocked_reasons' = <<"rejected">> /\ GateStatus = "blocked"
      BY <2>1 DEF HumanApprovalNode, GateStatus
    <3>2. <<"rejected">> \in Seq(Reasons) /\ <<"rejected">> # <<>>
      BY DEF Reasons
    <3>. QED
      BY <3>1, <3>2
  <2>2. CASE ~ (blocked_reasons = <<>> /\ decision = "rejected")
    BY <2>2 DEF HumanApprovalNode, GateStatus, IInv, TypeOK
  <2>. QED
    BY <2>1, <2>2
<1>5. GateStatus \in {"blocked", "awaiting_human_approval", "approved"}
  BY DEF GateStatus
<1>6. TypeOK'
  BY <1>2, <1>3, <1>4, <1>5 DEF IInv, TypeOK, input
<1>7. blocked_reasons # <<>> <=> status = "blocked"
  BY DEF IInv, BlocksExplained
<1>8. BlocksExplained'
  <2>1. status' = "blocked" <=> blocked_reasons' # <<>>
    BY <1>3, <1>4
  <2>2. NodeBlocked' => status' = "blocked"
    BY <1>2, <1>3, <1>7 DEF IInv, BlocksExplained, GateStatus
  <2>3. status' = "blocked" => NodeBlocked' \/ (pc' = "done" /\ decision' = "rejected")
    BY <1>2, <1>3, <1>7 DEF IInv, BlocksExplained, GateStatus, input
  <2>4. has_patch' <=> PatchExplained'
    BY <1>2, <1>3 DEF IInv, BlocksExplained
  <2>. QED
    BY <2>1, <2>2, <2>3, <2>4 DEF BlocksExplained
<1>9. GateDecides'
  <2>1. HumanApprovalRequired' <=> HumanApprovalRequired
    BY <1>3 DEF HumanApprovalRequired, input
  <2>2. offered <= MAX_TRIAGE_EVIDENCE_CHUNKS
    BY <1>3, TriageAssumption DEF IInv, GateDecides, TypeOK
  <2>3. ~ (offered' > MAX_TRIAGE_EVIDENCE_CHUNKS)
    BY <1>3, <2>2, TriageAssumption DEF input, IInv, TypeOK
  <2>. QED
    BY <1>3, <2>1, <2>3 DEF GateDecides, GateStatus, input
<1>. QED
  BY <1>2, <1>6, <1>8, <1>9 DEF IInv, Trace

LEMMA ClearKeeps == IInv /\ Clear => IInv'
<1> SUFFICES ASSUME IInv, Clear PROVE IInv'
  OBVIOUS
<1>1. TypeOK'
  BY DEF IInv, TypeOK, Clear, input
<1>2. TraceTypeOK'
  BY EmptySeq DEF Clear, ClearTrace, TraceTypeOK
<1>3. TraceIsTail'
  BY TraceAssumption DEF Clear, ClearTrace, TraceIsTail
<1>4. BlocksExplained' /\ GateDecides'
  BY DEF IInv, Clear, BlocksExplained, GateDecides, NodeBlocked, PatchExplained,
         HumanApprovalRequired, input
<1>. QED
  BY <1>1, <1>2, <1>3, <1>4 DEF IInv

\* No step of any run leaves the inductive invariant.
LEMMA StepKeepsInvariant == IInv /\ [Next]_vars => IInv'
<1> SUFFICES ASSUME IInv, [Next]_vars PROVE IInv'
  OBVIOUS
<1>1. CASE StartRun
  BY <1>1, StartRunKeeps
<1>2. CASE EvidenceLimitNode
  BY <1>2, EvidenceLimitNodeKeeps
<1>3. CASE ExplanationNode("repo_context", "vulnerability_triage")
  BY <1>3, ExplanationNodeKeeps DEF Nodes
<1>4. CASE ExplanationNode("vulnerability_triage", "reachability")
  BY <1>4, ExplanationNodeKeeps DEF Nodes
<1>5. CASE ExplanationNode("reachability", "patch")
  BY <1>5, ExplanationNodeKeeps DEF Nodes
<1>6. CASE ExplanationNode("patch", "citation_verification")
  BY <1>6, ExplanationNodeKeeps DEF Nodes
<1>7. CASE CitationSetupFails
  <2>1. BlockIf(TRUE, "summary blocked") /\ "summary blocked" \in Reasons
        /\ ValidationStatus(TRUE) = "blocked"
    BY <1>7 DEF CitationSetupFails, BlockIf, Reasons, ValidationStatus
  <2>. QED
    BY <1>7, <2>1, CheckingNodeKeeps DEF CitationSetupFails
<1>8. CASE CitationVerificationNode
  <2>1. PICK blocked \in BOOLEAN :
          /\ BlockIf(blocked, "summary blocked")
          /\ RecordNodeAfter("ai.finding_summary", "citation_verification",
                             ValidationStatus(blocked))
    BY <1>8 DEF CitationVerificationNode
  <2>2. "summary blocked" \in Reasons /\ "ai.finding_summary" \in EventTypes
    BY DEF Reasons, EventTypes
  <2>. QED
    BY <1>8, <2>1, <2>2, CheckingNodeKeeps DEF CitationVerificationNode
<1>9. CASE AIContextBundleNode
  <2>1. BlockIf(FALSE, "summary blocked") /\ "summary blocked" \in Reasons
        /\ ValidationStatus(FALSE) = "passed" /\ "ai.context_bundle" \in EventTypes
    BY <1>9 DEF AIContextBundleNode, BlockIf, Reasons, ValidationStatus, EventTypes
  <2>. QED
    BY <1>9, <2>1, CheckingNodeKeeps DEF AIContextBundleNode
<1>10. CASE ClientAIValidationNode
  <2>1. PICK blocked \in BOOLEAN :
          /\ BlockIf(blocked, "client output blocked")
          /\ RecordNodeAfter("ai.output_validation", "client_ai_validation",
                             ValidationStatus(blocked))
    BY <1>10 DEF ClientAIValidationNode
  <2>2. "client output blocked" \in Reasons /\ "ai.output_validation" \in EventTypes
    BY DEF Reasons, EventTypes
  <2>. QED
    BY <1>10, <2>1, <2>2, CheckingNodeKeeps DEF ClientAIValidationNode
<1>11. CASE ClientAIErrorNode
  <2>1. BlockIf(TRUE, "client orchestration failed")
        /\ "client orchestration failed" \in Reasons
        /\ ValidationStatus(TRUE) = "blocked"
    BY <1>11 DEF ClientAIErrorNode, BlockIf, Reasons, ValidationStatus
  <2>. QED
    BY <1>11, <2>1, CheckingNodeKeeps DEF ClientAIErrorNode
<1>12. CASE HumanApprovalNode
  BY <1>12, HumanApprovalNodeKeeps
<1>13. CASE Clear
  BY <1>13, ClearKeeps
<1>14. CASE UNCHANGED vars
  BY <1>14 DEF vars, input, traceVars, IInv, TypeOK, TraceTypeOK, TraceIsTail,
               BlocksExplained, NodeBlocked, PatchExplained, GateDecides,
               HumanApprovalRequired
<1>. QED
  BY <1>1, <1>2, <1>3, <1>4, <1>5, <1>6, <1>7, <1>8, <1>9, <1>10, <1>11, <1>12,
     <1>13, <1>14 DEF Next, Node

THEOREM TriageInvariant == Spec => []IInv
BY InitHolds, StepKeepsInvariant, PTL DEF Spec

-----------------------------------------------------------------------------
(* What follows from it *)

\* The variables of the graph keep their types, the evidence its limit.
THEOREM TriageTypeCorrect == Spec => []TypeOK
<1>1. IInv => TypeOK
  BY DEF IInv
<1>. QED
  BY <1>1, TriageInvariant, PTL

\* The trace of any length of use holds the newest events, in order.
THEOREM TraceKeepsNewest == Spec => []TraceIsTail
<1>1. IInv => TraceIsTail
  BY DEF IInv
<1>. QED
  BY <1>1, TriageInvariant, PTL

\* A risky or unexamined remediation is never approved without a human.
THEOREM NoRiskyApproval == Spec => []RiskyNeedsHuman
<1>1. IInv => RiskyNeedsHuman
  <2> SUFFICES ASSUME IInv PROVE RiskyNeedsHuman
    OBVIOUS
  <2>1. (\A i \in DOMAIN node_results : node_results[i][1] # "patch") => ~ has_patch
    BY DEF IInv, BlocksExplained, PatchExplained
  <2>. QED
    BY <2>1 DEF IInv, GateDecides, HumanApprovalRequired, RiskyNeedsHuman
<1>. QED
  BY <1>1, TriageInvariant, PTL

\* Every run that ends fails closed, for every order of blocks and decisions.
THEOREM WorkflowFailsClosed == Spec => []FailsClosed
<1>1. IInv => FailsClosed
  <2> SUFFICES ASSUME IInv, pc = "done" PROVE
        /\ status = "blocked" <=> NodeBlocked \/ decision = "rejected"
                                  \/ offered > MAX_TRIAGE_EVIDENCE_CHUNKS
        /\ status = "blocked" <=> blocked_reasons # <<>>
    BY DEF FailsClosed, NodeBlocked
  <2>. QED
    BY DEF IInv, BlocksExplained, GateDecides
<1>. QED
  BY <1>1, TriageInvariant, PTL

\* Once a node blocked a run, nothing later in that run takes it back.
THEOREM BlocksAreFinal == Spec => BlockedStays
<1>1. IInv /\ [Next]_vars =>
        [Running /\ status = "blocked" => status' = "blocked" /\ ~ approved']_vars
  <2> SUFFICES ASSUME IInv, Next, Running, status = "blocked"
               PROVE  status' = "blocked" /\ ~ approved'
    OBVIOUS
  <2>1. blocked_reasons # <<>> /\ ~ approved
    BY DEF IInv, BlocksExplained, GateDecides
  <2>2. ~ StartRun /\ ~ Clear
    BY DEF StartRun, Clear
  <2>3. CASE HumanApprovalNode
    BY <2>1, <2>3 DEF HumanApprovalNode, GateStatus
  <2>4. CASE Node /\ ~ HumanApprovalNode
    BY <2>1, <2>4 DEF Node, EvidenceLimitNode, ExplanationNode, CitationSetupFails,
       CitationVerificationNode, AIContextBundleNode, ClientAIValidationNode,
       ClientAIErrorNode, Block, BlockIf
  <2>. QED
    BY <2>2, <2>3, <2>4 DEF Next
<1>. QED
  BY <1>1, TriageInvariant, PTL DEF Spec, BlockedStays
=============================================================================
