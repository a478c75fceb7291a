-------------------------- MODULE ReportToolsProofs --------------------------
(***************************************************************************)
(* What clients of ReportTools are told stays true, for every number of    *)
(* servers, scans and requests, whatever clients and their AIs send.       *)
(***************************************************************************)
EXTENDS ReportTools, OrderLemmas

Reports == {[scan |-> scan_id, tasks |-> tasks] : scan_id \in ScanIds, tasks \in Scanned}

Sequence(q) == Len(q) \in Nat /\ q = [i \in 1 .. Len(q) |-> q[i]]

-----------------------------------------------------------------------------
(* Sequences *)

LEMMA EmptySequence == Sequence(<<>>) /\ Len(<<>>) = 0 /\ Range(<<>>) = {}
BY DEF Sequence, Range

\* What is appended to a sequence is all that is new in it.
LEMMA AppendToSequence ==
    ASSUME NEW q, Sequence(q), NEW e
    PROVE  /\ Sequence(Append(q, e))
           /\ Len(Append(q, e)) = Len(q) + 1
           /\ Range(Append(q, e)) = Range(q) \union {e}
           /\ \A i \in 1 .. Len(q) : Append(q, e)[i] = q[i]
           /\ Append(q, e)[Len(q) + 1] = e
<1> DEFINE S == {q[i] : i \in 1 .. Len(q)} \union {e}
           r == Append(q, e)
<1>1. Len(q) \in Nat /\ \A i \in 1 .. Len(q) : q[i] \in S
  BY DEF Sequence
<1>2. q \in [1 .. Len(q) -> S]
  BY <1>1 DEF Sequence
<1>3. q \in Seq(S) /\ e \in S
  BY <1>1, <1>2
<1>4. /\ r \in Seq(S) /\ Len(r) = Len(q) + 1
      /\ \A i \in 1 .. Len(q) : r[i] = q[i]
      /\ r[Len(q) + 1] = e
  BY <1>3
<1>5. DOMAIN q = 1 .. Len(q) /\ DOMAIN r = 1 .. Len(q) + 1
  BY <1>3, <1>4
<1> HIDE DEF r, S
<1>6. Sequence(r)
  BY <1>1, <1>4, <1>5 DEF Sequence
<1>7. Range(r) = Range(q) \union {e}
  BY <1>1, <1>4, <1>5 DEF Range
<1> QED
  BY <1>4, <1>6, <1>7 DEF r

-----------------------------------------------------------------------------
(* The invariant *)

\* Requests and answers pile up; a server owes an answer only to its last line.
AnswersCounted ==
    /\ DOMAIN pc = Servers /\ DOMAIN line = Servers /\ DOMAIN report = Servers
    /\ DOMAIN consumed = Servers /\ DOMAIN outbox = Servers
    /\ \A s \in Servers :
         /\ Sequence(consumed[s]) /\ Sequence(outbox[s])
         /\ Len(outbox[s]) <= Len(consumed[s])
         /\ pc[s] \in {"handling", "saving", "saved"} => Len(outbox[s]) < Len(consumed[s])
         /\ pc[s] = "handling" /\ line[s].kind = "call" /\ line[s].tool \in READING_TOOLS =>
              line[s].scan \in ScanIds

\* A file has the report of its own scan, and half of it while one server saves it.
FilesOwned ==
    /\ files \in [ScanIds -> Reports \union {Absent, Half}]
    /\ \A scan_id \in ScanIds : Readable(scan_id) => files[scan_id].scan = scan_id
    /\ \A s \in Servers :
         /\ pc[s] \in {"saving", "saved"} => report[s] \in Reports
         /\ pc[s] = "saving" => files[report[s].scan] = Half
         /\ pc[s] = "saved" => files[report[s].scan] = report[s]
    /\ \A s, u \in Servers :
         pc[s] = "saving" /\ pc[u] = "saving" /\ s # u => report[s].scan # report[u].scan

\* What was answered is on disk, whole.
StoredWhole(result) ==
    /\ result.kind = "scan" =>
         /\ result.scan \in ScanIds /\ Readable(result.scan)
         /\ files[result.scan] = [scan |-> result.scan, tasks |-> result.tasks]
    /\ result.kind = "report" =>
         /\ result.scan \in ScanIds /\ Readable(result.scan)
         /\ files[result.scan] = result.content

AnswersStored ==
    \A s \in Servers : \A answer \in Range(outbox[s]) : StoredWhole(answer.result)

IInv == TypeOK /\ AnswersCounted /\ FilesOwned /\ AnswersStored

LEMMA ReportsAreWhole ==
    ASSUME NEW r \in Reports
    PROVE  r \notin {Absent, Half} /\ r.scan \in ScanIds /\ r = [scan |-> r.scan, tasks |-> r.tasks]
BY ReportsAssumption DEF Reports

LEMMA InitEstablishes == Init => IInv
<1> SUFFICES ASSUME Init
             PROVE  IInv
  OBVIOUS
<1> USE DEF Init, InitStore
<1>1. AnswersCounted /\ AnswersStored
  BY EmptySequence DEF AnswersCounted, AnswersStored, StoredWhole
<1>2. FilesOwned
  BY DEF FilesOwned, Readable
<1>3. TypeOK
  BY <1>1, ToolsAssumption DEF TypeOK, AnswersCounted, Readable
<1> QED
  BY <1>1, <1>2, <1>3 DEF IInv

\* An answer goes to the line that was waiting for one.
LEMMA AnswerKeeps ==
    ASSUME IInv, NEW s \in Servers, NEW result, Answer(s, result), UNCHANGED files,
           pc[s] \in {"handling", "saving", "saved"},
           StoredWhole(result)
    PROVE  IInv'
<1> DEFINE answer == [id |-> PublicId(line[s].id), result |-> result]
<1>1. /\ outbox' = [outbox EXCEPT ![s] = Append(@, answer)]
      /\ pc' = [pc EXCEPT ![s] = "idle"]
      /\ UNCHANGED <<files, line, report, consumed, shown, calls>>
      /\ answer.result = result
  BY DEF Answer
<1> HIDE DEF answer
<1>2. DOMAIN pc = Servers /\ DOMAIN outbox = Servers
  BY DEF IInv, AnswersCounted
<1>3. /\ pc'[s] = "idle" /\ outbox'[s] = Append(outbox[s], answer)
      /\ \A u \in Servers \ {s} : pc'[u] = pc[u] /\ outbox'[u] = outbox[u]
  BY <1>1, <1>2
<1>4. /\ Sequence(outbox'[s]) /\ Len(outbox'[s]) = Len(outbox[s]) + 1
      /\ Range(outbox'[s]) = Range(outbox[s]) \union {answer}
  BY <1>3, AppendToSequence DEF IInv, AnswersCounted
<1>5. AnswersCounted'
  <2>1. Len(outbox[s]) < Len(consumed[s]) /\ Len(outbox[s]) \in Nat /\ Len(consumed[s]) \in Nat
    BY DEF IInv, AnswersCounted, Sequence
  <2> QED
    BY <1>1, <1>2, <1>3, <1>4, <2>1 DEF IInv, AnswersCounted
<1>6. FilesOwned'
  BY <1>1, <1>2, <1>3 DEF IInv, FilesOwned, Readable
<1>7. AnswersStored'
  <2> SUFFICES ASSUME NEW u \in Servers, NEW a \in Range(outbox'[u])
               PROVE  StoredWhole(a.result)'
    BY DEF AnswersStored
  <2>1. StoredWhole(a.result)
    <3>1. CASE a \in Range(outbox[u])
      BY <3>1 DEF IInv, AnswersStored
    <3>2. CASE a \notin Range(outbox[u])
      <4>1. u = s
        BY <1>3, <3>2
      <4>2. a.result = result
        BY <1>1, <1>4, <3>2, <4>1
      <4> QED
        BY <4>2
    <3> QED
      BY <3>1, <3>2
  <2> QED
    BY <1>1, <2>1 DEF StoredWhole, Readable
<1>8. TypeOK'
  BY <1>1, <1>2, <1>3, <1>5, <1>6 DEF IInv, TypeOK, AnswersCounted, FilesOwned, Readable
<1> QED
  BY <1>5, <1>6, <1>7, <1>8 DEF IInv

LEMMA ReadLineKeeps ==
    ASSUME IInv, NEW s \in Servers, ReadLine(s)
    PROVE  IInv'
<1>1. PICK l \in Lines \union OutputLines :
        line' = [line EXCEPT ![s] = l] /\ consumed' = [consumed EXCEPT ![s] = Append(@, l)]
  BY DEF ReadLine
<1>2. /\ pc[s] = "idle" /\ calls < MaxCalls /\ calls' = calls + 1
      /\ pc' = [pc EXCEPT ![s] = "handling"]
      /\ UNCHANGED <<files, report, outbox>>
  BY DEF ReadLine
<1>3. DOMAIN pc = Servers /\ DOMAIN line = Servers /\ DOMAIN consumed = Servers
  BY DEF IInv, AnswersCounted
<1>4. /\ pc'[s] = "handling" /\ line'[s] = l /\ consumed'[s] = Append(consumed[s], l)
      /\ \A u \in Servers \ {s} :
           pc'[u] = pc[u] /\ line'[u] = line[u] /\ consumed'[u] = consumed[u]
  BY <1>1, <1>2, <1>3
<1>5. Sequence(consumed'[s]) /\ Len(consumed'[s]) = Len(consumed[s]) + 1
  BY <1>4, AppendToSequence DEF IInv, AnswersCounted
<1>6. l.kind = "call" /\ l.tool \in READING_TOOLS => l.scan \in ScanIds
  BY ToolsAssumption DEF OutputLines, READING_TOOLS
<1>7. AnswersCounted'
  <2>1. /\ Len(outbox[s]) <= Len(consumed[s])
        /\ Len(outbox[s]) \in Nat /\ Len(consumed[s]) \in Nat
    BY DEF IInv, AnswersCounted, Sequence
  <2> QED
    BY <1>1, <1>2, <1>3, <1>4, <1>5, <1>6, <2>1 DEF IInv, AnswersCounted
<1>8. FilesOwned'
  BY <1>2, <1>3, <1>4 DEF IInv, FilesOwned, Readable
<1>9. AnswersStored'
  BY <1>2 DEF IInv, AnswersStored, StoredWhole, Readable
<1>10. TypeOK'
  BY <1>2, <1>3, <1>4, <1>7, <1>8, ToolsAssumption
  DEF IInv, TypeOK, AnswersCounted, FilesOwned, Readable
<1> QED
  BY <1>7, <1>8, <1>9, <1>10 DEF IInv

\* Steps that answer nothing and leave the files alone.
LEMMA QuietStepKeeps ==
    ASSUME IInv, NEW s \in Servers, NEW state \in {"idle", "down"}, pc' = [pc EXCEPT ![s] = state],
           UNCHANGED <<files, line, report, consumed, outbox, shown, calls>>
    PROVE  IInv'
<1>1. DOMAIN pc = Servers
  BY DEF IInv, AnswersCounted
<1>2. pc'[s] = state /\ \A u \in Servers \ {s} : pc'[u] = pc[u]
  BY <1>1
<1>3. AnswersCounted'
  BY <1>1, <1>2 DEF IInv, AnswersCounted
<1>4. FilesOwned' /\ AnswersStored'
  BY <1>1, <1>2 DEF IInv, FilesOwned, AnswersStored, StoredWhole, Readable
<1>5. TypeOK'
  BY <1>1, <1>2 DEF IInv, TypeOK, AnswersCounted, Readable
<1> QED
  BY <1>3, <1>4, <1>5 DEF IInv

\* A scan takes a file nobody has; no answer is about it.
LEMMA ScanRepoKeeps ==
    ASSUME IInv, NEW s \in Servers, ScanRepo(s)
    PROVE  IInv'
<1> DEFINE scan_id == CHOOSE scan_id \in Unused : TRUE
<1>1. PICK tasks \in Scanned :
        report' = [report EXCEPT ![s] = [scan |-> scan_id, tasks |-> tasks]]
  BY DEF ScanRepo
<1>2. /\ pc[s] = "handling" /\ pc' = [pc EXCEPT ![s] = "saving"]
      /\ files' = [files EXCEPT ![scan_id] = Half]
      /\ UNCHANGED <<line, consumed, outbox, shown, calls>>
  BY DEF ScanRepo, Handles, OpenForWriting
<1>3. scan_id \in ScanIds /\ files[scan_id] = Absent
  BY DEF ScanRepo, Unused
<1> HIDE DEF scan_id
<1>4. DOMAIN pc = Servers /\ DOMAIN report = Servers /\ DOMAIN files = ScanIds
  BY DEF IInv, AnswersCounted, FilesOwned
<1>5. /\ pc'[s] = "saving" /\ report'[s] = [scan |-> scan_id, tasks |-> tasks]
      /\ \A u \in Servers \ {s} : pc'[u] = pc[u] /\ report'[u] = report[u]
      /\ files'[scan_id] = Half
      /\ \A other \in ScanIds \ {scan_id} : files'[other] = files[other]
  BY <1>1, <1>2, <1>3, <1>4
<1>6. report'[s] \in Reports /\ report'[s].scan = scan_id
  BY <1>3, <1>5 DEF Reports
<1>7. AnswersCounted'
  BY <1>1, <1>2, <1>4, <1>5 DEF IInv, AnswersCounted
<1>8. FilesOwned'
  <2>1. files' \in [ScanIds -> Reports \union {Absent, Half}]
    BY <1>2 DEF IInv, FilesOwned
  <2>2. \A id \in ScanIds : Readable(id)' => files'[id].scan = id
    BY <1>5 DEF IInv, FilesOwned, Readable
  <2>3. ASSUME NEW u \in Servers \ {s}, pc[u] \in {"saving", "saved"}
        PROVE  report[u].scan \in ScanIds /\ report[u].scan # scan_id
    BY <1>3, <2>3, ReportsAreWhole, StoreAssumption DEF IInv, FilesOwned
  <2>4. \A u \in Servers :
          /\ pc'[u] \in {"saving", "saved"} => report'[u] \in Reports
          /\ pc'[u] = "saving" => files'[report'[u].scan] = Half
          /\ pc'[u] = "saved" => files'[report'[u].scan] = report'[u]
    BY <1>5, <1>6, <2>3 DEF IInv, FilesOwned
  <2>5. \A u, v \in Servers :
          pc'[u] = "saving" /\ pc'[v] = "saving" /\ u # v => report'[u].scan # report'[v].scan
    BY <1>5, <1>6, <2>3 DEF IInv, FilesOwned
  <2> QED
    BY <2>1, <2>2, <2>4, <2>5 DEF FilesOwned
<1>9. AnswersStored'
  <2>1. \A id \in ScanIds : Readable(id) => Readable(id)' /\ files'[id] = files[id]
    BY <1>3, <1>5 DEF Readable
  <2> QED
    BY <1>2, <2>1 DEF IInv, AnswersStored, StoredWhole
<1>10. TypeOK'
  <2>1. \A u \in Servers : pc'[u] \in {"saving", "saved"} => report'[u].scan \in ScanIds
    BY <1>3, <1>5, <1>6 DEF IInv, TypeOK
  <2> QED
    BY <1>2, <1>4, <1>5, <1>7, <1>8, <2>1 DEF IInv, TypeOK, AnswersCounted, FilesOwned
<1> QED
  BY <1>7, <1>8, <1>9, <1>10 DEF IInv

LEMMA FinishSaveKeeps ==
    ASSUME IInv, NEW s \in Servers, FinishSave(s)
    PROVE  IInv'
<1> DEFINE scan_id == report[s].scan
<1>1. /\ pc[s] = "saving" /\ pc' = [pc EXCEPT ![s] = "saved"]
      /\ files' = [files EXCEPT ![scan_id] = report[s]]
      /\ UNCHANGED <<line, report, consumed, outbox, shown, calls>>
  BY DEF FinishSave, Write
<1>2. report[s] \in Reports /\ scan_id \in ScanIds /\ files[scan_id] = Half
      /\ report[s] \notin {Absent, Half}
  BY <1>1, ReportsAreWhole DEF IInv, FilesOwned
<1> HIDE DEF scan_id
<1>3. DOMAIN pc = Servers /\ DOMAIN files = ScanIds
  BY DEF IInv, AnswersCounted, FilesOwned
<1>4. /\ pc'[s] = "saved" /\ \A u \in Servers \ {s} : pc'[u] = pc[u]
      /\ files'[scan_id] = report[s]
      /\ \A other \in ScanIds \ {scan_id} : files'[other] = files[other]
  BY <1>1, <1>2, <1>3
<1>5. AnswersCounted'
  BY <1>1, <1>3, <1>4 DEF IInv, AnswersCounted
<1>6. FilesOwned'
  <2>1. files' \in [ScanIds -> Reports \union {Absent, Half}]
    BY <1>1, <1>2 DEF IInv, FilesOwned
  <2>2. \A id \in ScanIds : Readable(id)' => files'[id].scan = id
    BY <1>4 DEF IInv, FilesOwned, Readable, scan_id
  <2>3. ASSUME NEW u \in Servers \ {s}, pc[u] \in {"saving", "saved"}
        PROVE  report[u].scan \in ScanIds /\ report[u].scan # scan_id
    BY <1>1, <1>2, <2>3, ReportsAreWhole DEF IInv, FilesOwned, scan_id
  <2>4. \A u \in Servers :
          /\ pc'[u] \in {"saving", "saved"} => report'[u] \in Reports
          /\ pc'[u] = "saving" => files'[report'[u].scan] = Half
          /\ pc'[u] = "saved" => files'[report'[u].scan] = report'[u]
    BY <1>1, <1>2, <1>4, <2>3 DEF IInv, FilesOwned, scan_id
  <2>5. \A u, v \in Servers :
          pc'[u] = "saving" /\ pc'[v] = "saving" /\ u # v => report'[u].scan # report'[v].scan
    BY <1>1, <1>4 DEF IInv, FilesOwned
  <2> QED
    BY <2>1, <2>2, <2>4, <2>5 DEF FilesOwned
<1>7. AnswersStored'
  <2>1. \A id \in ScanIds : Readable(id) => Readable(id)' /\ files'[id] = files[id]
    BY <1>2, <1>4 DEF Readable
  <2> QED
    BY <1>1, <2>1 DEF IInv, AnswersStored, StoredWhole
<1>8. TypeOK'
  BY <1>1, <1>2, <1>3, <1>4, <1>5, <1>6 DEF IInv, TypeOK, AnswersCounted, FilesOwned, scan_id
<1> QED
  BY <1>5, <1>6, <1>7, <1>8 DEF IInv

\* Asking a provider changes no report and no answer.
LEMMA SummarizeKeeps ==
    ASSUME IInv, NEW scan_id \in ScanIds, Summarize(scan_id)
    PROVE  IInv'
<1>1. /\ calls < MaxCalls /\ calls' = calls + 1
      /\ UNCHANGED <<files, pc, line, report, consumed, outbox>>
  BY DEF Summarize
<1>2. AnswersCounted' /\ FilesOwned' /\ AnswersStored'
  BY <1>1 DEF IInv, AnswersCounted, FilesOwned, AnswersStored, StoredWhole, Readable
<1>3. TypeOK'
  BY <1>1, ToolsAssumption DEF IInv, TypeOK, Readable
<1> QED
  BY <1>2, <1>3 DEF IInv

LEMMA WorkKeeps ==
    ASSUME IInv, NEW s \in Servers, Work(s)
    PROVE  IInv'
<1> DEFINE Kind(kind) == [kind |-> kind]
<1>1. CASE Ignore(s)
  BY <1>1, QuietStepKeeps DEF Ignore
<1>2. CASE AnswerPlainly(s)
  <2>1. Kind("plain").kind = "plain"
    OBVIOUS
  <2> QED
    BY <1>2, <2>1, AnswerKeeps DEF AnswerPlainly, StoredWhole
<1>3. CASE ToolError(s) \/ InternalError(s) \/ SaveFails(s)
  <2>1. Kind("error").kind = "error"
    OBVIOUS
  <2>2. pc[s] \in {"handling", "saving", "saved"} /\ Answer(s, Kind("error")) /\ UNCHANGED files
    BY <1>3 DEF ToolError, InternalError, SaveFails, Handles
  <2> QED
    BY <2>1, <2>2, AnswerKeeps DEF StoredWhole
<1>4. CASE ScanRepo(s)
  BY <1>4, ScanRepoKeeps
<1>5. CASE FinishSave(s)
  BY <1>5, FinishSaveKeeps
<1>6. CASE AnswerScan(s)
  <2> DEFINE result == [kind |-> "scan", scan |-> report[s].scan, tasks |-> report[s].tasks]
  <2>1. pc[s] = "saved" /\ Answer(s, result) /\ UNCHANGED files
    BY <1>6 DEF AnswerScan
  <2>2. report[s] \in Reports /\ files[report[s].scan] = report[s]
    BY <2>1 DEF IInv, FilesOwned
  <2>3. /\ report[s].scan \in ScanIds /\ Readable(report[s].scan)
        /\ report[s] = [scan |-> report[s].scan, tasks |-> report[s].tasks]
    BY <2>2, ReportsAreWhole DEF Readable
  <2>4. result.kind = "scan" /\ result.scan = report[s].scan /\ result.tasks = report[s].tasks
    OBVIOUS
  <2> HIDE DEF result
  <2> QED
    BY <2>1, <2>2, <2>3, <2>4, AnswerKeeps DEF StoredWhole
<1>7. CASE ReadReport(s)
  <2> DEFINE result == [kind |-> "report", scan |-> line[s].scan, content |-> files[line[s].scan]]
  <2>1. /\ pc[s] = "handling" /\ line[s].kind = "call" /\ line[s].tool \in READING_TOOLS
        /\ Readable(line[s].scan) /\ Answer(s, result) /\ UNCHANGED files
    BY <1>7 DEF ReadReport, Handles
  <2>2. line[s].scan \in ScanIds
    BY <2>1 DEF IInv, AnswersCounted
  <2>3. /\ result.kind = "report" /\ result.scan = line[s].scan
        /\ result.content = files[line[s].scan]
    OBVIOUS
  <2> HIDE DEF result
  <2> QED
    BY <2>1, <2>2, <2>3, AnswerKeeps DEF StoredWhole
<1>8. CASE GetAIContextBundle(s)
  <2> DEFINE l == line[s]
             request == ContextBundle(files[l.scan], FindTask(l.scan, l.task), l.include_rag, l.top_k)
             result == [kind |-> "bundle", scan |-> l.scan, task |-> l.task,
                        include_rag |-> l.include_rag, top_k |-> l.top_k, request |-> request]
  <2>1. pc[s] = "handling" /\ Answer(s, result) /\ UNCHANGED files
    BY <1>8 DEF GetAIContextBundle, Handles
  <2>2. result.kind = "bundle"
    OBVIOUS
  <2> HIDE DEF result
  <2> QED
    BY <2>1, <2>2, AnswerKeeps DEF StoredWhole
<1>9. CASE ValidateAIOutput(s)
  <2> DEFINE l == line[s]
             verdict == ValidateClientOutput(files[l.scan], FindTask(l.scan, l.task),
                                             l.include_rag, l.top_k, l.output)
             result == [kind |-> "verdict", about |-> l, verdict |-> verdict]
  <2>1. pc[s] = "handling" /\ Answer(s, result) /\ UNCHANGED files
    BY <1>9 DEF ValidateAIOutput, Handles
  <2>2. result.kind = "verdict"
    OBVIOUS
  <2> HIDE DEF result
  <2> QED
    BY <2>1, <2>2, AnswerKeeps DEF StoredWhole
<1> QED
  BY <1>1, <1>2, <1>3, <1>4, <1>5, <1>6, <1>7, <1>8, <1>9 DEF Work

LEMMA NextKeeps == IInv /\ [Next]_vars => IInv'
<1> SUFFICES ASSUME IInv, [Next]_vars
             PROVE  IInv'
  OBVIOUS
<1>1. ASSUME NEW s \in Servers, ReadLine(s) \/ Work(s) \/ Crash(s)
      PROVE  IInv'
  <2>1. CASE Crash(s)
    BY <2>1, QuietStepKeeps DEF Crash
  <2> QED
    BY <1>1, <2>1, ReadLineKeeps, WorkKeeps
<1>2. CASE UNCHANGED vars
  BY <1>2 DEF vars, IInv, TypeOK, AnswersCounted, FilesOwned, AnswersStored, StoredWhole, Readable
<1> QED
  BY <1>1, <1>2, SummarizeKeeps DEF Next

-----------------------------------------------------------------------------
(* Theorems *)

\* The invariant holds in every state.
THEOREM InvariantHolds == Spec => []IInv
BY InitEstablishes, NextKeeps, PTL DEF Spec

\* Every file that can be read has the report of its own scan id, a server that
\* saves has one to save, and no server answers more than it is asked.
THEOREM TypeCorrect == Spec => []TypeOK
<1>1. IInv => TypeOK
  BY DEF IInv
<1> QED
  BY <1>1, InvariantHolds, PTL

\* mcp/store.py and _scan_path: a scan id that was answered names a whole report
\* for good, and what any process read from a report is what it still says.
THEOREM SavedReportsStay == Spec => []AnswersFromSavedReports
<1>1. IInv => AnswersFromSavedReports
  <2> SUFFICES ASSUME IInv, NEW result \in Results
               PROVE  /\ result.kind = "scan" =>
                           files[result.scan] = [scan |-> result.scan, tasks |-> result.tasks]
                      /\ result.kind = "report" =>
                           Readable(result.scan) /\ files[result.scan] = result.content
    BY DEF AnswersFromSavedReports, ResultsOf
  <2>1. PICK s \in Servers : \E answer \in Range(outbox[s]) : result = answer.result
    BY DEF Results
  <2> QED
    BY <2>1 DEF IInv, AnswersStored, StoredWhole
<1> QED
  BY <1>1, InvariantHolds, PTL

-----------------------------------------------------------------------------
(* Order *)

\* The lines that want an answer are counted, and each has its turn among them.
LEMMA DueCounted ==
    ASSUME NEW q, Sequence(q)
    PROVE  /\ IsFiniteSet(Due(q)) /\ Due(q) \subseteq 1 .. Len(q)
           /\ Cardinality(Due(q)) \in Nat
           /\ \A i \in Due(q) : Turn(q, i) \in 1 .. Cardinality(Due(q))
<1>1. Len(q) \in Nat /\ DOMAIN q = 1 .. Len(q)
  BY DEF Sequence
<1>2. Due(q) \subseteq 1 .. Len(q)
  BY <1>1 DEF Due
<1>3. IsFiniteSet(1 .. Len(q))
  BY <1>1, FS_Interval
<1>4. IsFiniteSet(Due(q)) /\ Cardinality(Due(q)) \in Nat
  BY <1>2, <1>3, FS_Subset, FS_CardinalityType
<1>5. ASSUME NEW i \in Due(q)
      PROVE  Turn(q, i) \in 1 .. Cardinality(Due(q))
  <2> DEFINE T == {j \in Due(q) : j <= i}
  <2>1. IsFiniteSet(T) /\ Cardinality(T) <= Cardinality(Due(q))
    BY <1>4, FS_Subset
  <2>2. Cardinality(T) \in Nat
    BY <2>1, FS_CardinalityType
  <2>3. i \in T
    BY <1>1, <1>2
  <2>4. Cardinality(T) # 0
    BY <2>1, <2>3, FS_EmptySet
  <2> QED
    BY <1>4, <2>1, <2>2, <2>4 DEF Turn
<1> QED
  BY <1>2, <1>4, <1>5

\* A line that comes last takes no turn from the others, and gets the last if any.
LEMMA DueAppended ==
    ASSUME NEW q, Sequence(q), NEW l
    PROVE  LET r == Append(q, l)
           IN /\ WantsAnswer(l) =>
                   /\ Due(r) = Due(q) \union {Len(q) + 1}
                   /\ Cardinality(Due(r)) = Cardinality(Due(q)) + 1
              /\ ~ WantsAnswer(l) => Due(r) = Due(q)
              /\ \A i \in Due(q) : Turn(r, i) = Turn(q, i) /\ r[i] = q[i]
<1> DEFINE r == Append(q, l)
           n == Len(q)
<1>1. /\ Sequence(r) /\ Len(r) = n + 1 /\ n \in Nat
      /\ \A i \in 1 .. n : r[i] = q[i]
      /\ r[n + 1] = l
  BY AppendToSequence DEF Sequence
<1> HIDE DEF r
<1>2. DOMAIN q = 1 .. n /\ DOMAIN r = 1 .. n + 1
  BY <1>1 DEF Sequence
<1> HIDE DEF n
<1>3. Due(r) = Due(q) \union {i \in {n + 1} : WantsAnswer(l)}
  <2>1. 1 .. n + 1 = (1 .. n) \union {n + 1}
    BY <1>1
  <2>2. \A i \in 1 .. n : WantsAnswer(r[i]) <=> WantsAnswer(q[i])
    BY <1>1
  <2> QED
    BY <1>1, <1>2, <2>1, <2>2 DEF Due
<1>4. IsFiniteSet(Due(q)) /\ Due(q) \subseteq 1 .. n
  BY DueCounted DEF n
<1>5. n + 1 \notin Due(q)
  BY <1>1, <1>4
<1>6. ASSUME WantsAnswer(l)
      PROVE  Due(r) = Due(q) \union {n + 1} /\ Cardinality(Due(r)) = Cardinality(Due(q)) + 1
  <2>1. Due(r) = Due(q) \union {n + 1}
    BY <1>3, <1>6
  <2> QED
    BY <1>4, <1>5, <2>1, FS_AddElement
<1>7. ASSUME NEW i \in Due(q)
      PROVE  Turn(r, i) = Turn(q, i) /\ r[i] = q[i]
  <2>1. i \in 1 .. n /\ ~ (n + 1 <= i)
    BY <1>1, <1>4
  <2>2. {j \in Due(r) : j <= i} = {j \in Due(q) : j <= i}
    BY <1>3, <2>1
  <2> QED
    BY <1>1, <2>1, <2>2 DEF Turn
<1> QED
  BY <1>3, <1>6, <1>7 DEF r, n

\* Who waits for an answer is the last line read, and the answers before are in
\* order.
OrderKept(s) ==
    LET q == consumed[s]
        answered == Len(outbox[s])
        due == Cardinality(Due(q))
    IN /\ \A i \in Due(q) :
            IF Turn(q, i) <= answered
            THEN outbox[s][Turn(q, i)].id = PublicId(q[i].id)
            ELSE i = Len(q)
       /\ pc[s] = "idle" => due = answered
       /\ pc[s] # "idle" =>
            /\ Len(q) \in DOMAIN q /\ q[Len(q)] = line[s]
            /\ due = IF WantsAnswer(line[s]) THEN answered + 1 ELSE answered
       /\ pc[s] \in {"saving", "saved"} => WantsAnswer(line[s])

OrderInv == \A s \in Servers : OrderKept(s)

\* The last line that wants an answer has the last turn.
LEMMA LastTurn ==
    ASSUME NEW q, Sequence(q), Len(q) \in Due(q)
    PROVE  Turn(q, Len(q)) = Cardinality(Due(q))
<1>1. Due(q) \subseteq 1 .. Len(q) /\ Len(q) \in Nat
  BY DueCounted DEF Sequence
<1>2. {j \in Due(q) : j <= Len(q)} = Due(q)
  BY <1>1
<1> QED
  BY <1>2 DEF Turn

LEMMA ReadLineOrders ==
    ASSUME IInv, OrderInv, NEW s \in Servers, ReadLine(s)
    PROVE  OrderInv'
<1>1. PICK l : line' = [line EXCEPT ![s] = l] /\ consumed' = [consumed EXCEPT ![s] = Append(@, l)]
  BY DEF ReadLine
<1>2. pc[s] = "idle" /\ pc' = [pc EXCEPT ![s] = "handling"] /\ outbox' = outbox
  BY DEF ReadLine
<1>3. /\ pc'[s] = "handling" /\ line'[s] = l /\ consumed'[s] = Append(consumed[s], l)
      /\ \A u \in Servers \ {s} :
           pc'[u] = pc[u] /\ line'[u] = line[u] /\ consumed'[u] = consumed[u]
  BY <1>1, <1>2 DEF IInv, AnswersCounted
<1> DEFINE q == consumed[s]
           r == consumed'[s]
<1>4. Sequence(q) /\ Sequence(outbox[s]) /\ Len(outbox[s]) \in Nat
  BY DEF IInv, AnswersCounted, Sequence
<1>5. /\ Len(r) = Len(q) + 1 /\ Len(q) \in Nat
      /\ r[Len(q) + 1] = l /\ DOMAIN r = 1 .. Len(q) + 1
  BY <1>3, <1>4, AppendToSequence DEF Sequence
<1>6. /\ WantsAnswer(l) =>
           /\ Due(r) = Due(q) \union {Len(q) + 1}
           /\ Cardinality(Due(r)) = Cardinality(Due(q)) + 1
      /\ ~ WantsAnswer(l) => Due(r) = Due(q)
      /\ \A i \in Due(q) : Turn(r, i) = Turn(q, i) /\ r[i] = q[i]
  <2>1. r = Append(q, l)
    BY <1>3
  <2> HIDE DEF q, r
  <2> QED
    BY <1>4, <2>1, DueAppended
<1>7. /\ Cardinality(Due(q)) = Len(outbox[s])
      /\ \A i \in Due(q) : Turn(q, i) <= Len(outbox[s])
  BY <1>2, <1>4, DueCounted DEF OrderInv, OrderKept
<1>8. \A i \in Due(q) :
        Turn(r, i) <= Len(outbox[s]) /\ outbox[s][Turn(r, i)].id = PublicId(r[i].id)
  BY <1>6, <1>7 DEF OrderInv, OrderKept
<1>9. \A i \in Due(r) : i \in Due(q) \/ i = Len(r)
  BY <1>5, <1>6
<1>10. \A i \in Due(r) :
             IF Turn(r, i) <= Len(outbox[s])
             THEN outbox[s][Turn(r, i)].id = PublicId(r[i].id)
             ELSE i = Len(r)
  <2> SUFFICES ASSUME NEW i \in Due(r)
               PROVE  IF Turn(r, i) <= Len(outbox[s])
                      THEN outbox[s][Turn(r, i)].id = PublicId(r[i].id)
                      ELSE i = Len(r)
    OBVIOUS
  <2>1. CASE i \in Due(q)
    BY <1>8, <2>1
  <2>2. CASE i \notin Due(q)
    <3>1. WantsAnswer(l) /\ i = Len(r) /\ i = Len(q) + 1
      BY <1>5, <1>6, <2>2
    <3>2. Sequence(r) /\ Len(r) \in Due(r)
      BY <1>3, <1>4, <3>1, AppendToSequence
    <3>3. Turn(r, i) = Cardinality(Due(r))
      BY <3>1, <3>2, LastTurn
    <3>4. Turn(r, i) = Len(outbox[s]) + 1
      BY <1>6, <1>7, <3>1, <3>3
    <3> QED
      BY <1>4, <3>1, <3>4
  <2> QED
    BY <2>1, <2>2
<1>11. /\ Len(r) \in DOMAIN r /\ r[Len(r)] = l
       /\ Cardinality(Due(r)) = IF WantsAnswer(l) THEN Len(outbox[s]) + 1 ELSE Len(outbox[s])
  BY <1>5, <1>6, <1>7
<1> HIDE DEF q, r
<1>12. OrderKept(s)'
  BY <1>2, <1>3, <1>10, <1>11 DEF OrderKept, r
<1>13. \A u \in Servers \ {s} : OrderKept(u)'
  BY <1>2, <1>3 DEF OrderInv, OrderKept
<1> QED
  BY <1>12, <1>13 DEF OrderInv

LEMMA AnswerOrders ==
    ASSUME IInv, OrderInv, NEW s \in Servers, NEW result, Answer(s, result),
           pc[s] # "idle", WantsAnswer(line[s])
    PROVE  OrderInv'
<1> DEFINE answer == [id |-> PublicId(line[s].id), result |-> result]
           q == consumed[s]
           o == outbox[s]
<1>1. /\ outbox' = [outbox EXCEPT ![s] = Append(@, answer)]
      /\ pc' = [pc EXCEPT ![s] = "idle"]
      /\ UNCHANGED <<line, consumed>>
      /\ answer.id = PublicId(line[s].id)
  BY DEF Answer
<1> HIDE DEF answer
<1>2. /\ pc'[s] = "idle" /\ outbox'[s] = Append(o, answer)
      /\ \A u \in Servers \ {s} : pc'[u] = pc[u] /\ outbox'[u] = outbox[u]
  BY <1>1 DEF IInv, AnswersCounted
<1>3. Sequence(q) /\ Sequence(o) /\ Len(o) \in Nat
  BY DEF IInv, AnswersCounted, Sequence
<1>4. /\ Len(outbox'[s]) = Len(o) + 1
      /\ \A i \in 1 .. Len(o) : outbox'[s][i] = o[i]
      /\ outbox'[s][Len(o) + 1] = answer
  BY <1>2, <1>3, AppendToSequence
<1>5. q[Len(q)] = line[s] /\ Len(q) \in DOMAIN q /\ Cardinality(Due(q)) = Len(o) + 1
  BY DEF OrderInv, OrderKept
<1>6. Len(q) \in Due(q)
  BY <1>5 DEF Due
<1>7. Turn(q, Len(q)) = Len(o) + 1
  BY <1>3, <1>5, <1>6, LastTurn
<1>8. ASSUME NEW i \in Due(q)
      PROVE  Turn(q, i) <= Len(o) + 1 /\ outbox'[s][Turn(q, i)].id = PublicId(q[i].id)
  <2>1. Turn(q, i) \in 1 .. Len(o) + 1
    BY <1>3, <1>5, DueCounted
  <2>2. CASE Turn(q, i) <= Len(o)
    BY <1>3, <1>4, <2>1, <2>2 DEF OrderInv, OrderKept
  <2>3. CASE ~ (Turn(q, i) <= Len(o))
    <3>1. i = Len(q)
      BY <2>3 DEF OrderInv, OrderKept
    <3> QED
      BY <1>1, <1>4, <1>5, <1>7, <2>1, <3>1
  <2> QED
    BY <2>1, <2>2, <2>3
<1> HIDE DEF q, o
<1>9. OrderKept(s)'
  BY <1>1, <1>2, <1>4, <1>5, <1>8 DEF OrderKept, q
<1>10. \A u \in Servers \ {s} : OrderKept(u)'
  BY <1>1, <1>2 DEF OrderInv, OrderKept
<1> QED
  BY <1>9, <1>10 DEF OrderInv

\* A step of a server that answers nothing and reads nothing.
LEMMA SilentStepOrders ==
    ASSUME OrderInv, NEW s \in Servers, NEW state, pc' = [pc EXCEPT ![s] = state],
           DOMAIN pc = Servers, pc[s] # "idle", UNCHANGED <<line, consumed, outbox>>,
           state = "idle" => ~ WantsAnswer(line[s]),
           state \in {"saving", "saved"} => WantsAnswer(line[s])
    PROVE  OrderInv'
<1>1. pc'[s] = state /\ \A u \in Servers \ {s} : pc'[u] = pc[u]
  OBVIOUS
<1> QED
  BY <1>1 DEF OrderInv, OrderKept

LEMMA WorkOrders ==
    ASSUME IInv, OrderInv, NEW s \in Servers, Work(s)
    PROVE  OrderInv'
<1>1. DOMAIN pc = Servers
  BY DEF IInv, AnswersCounted
<1>2. CASE Ignore(s)
  BY <1>1, <1>2, SilentStepOrders DEF Ignore
<1>3. CASE ScanRepo(s)
  BY <1>1, <1>3, SilentStepOrders DEF ScanRepo, Handles, WantsAnswer
<1>4. CASE FinishSave(s)
  <2>1. WantsAnswer(line[s])
    BY <1>4 DEF FinishSave, OrderInv, OrderKept
  <2> QED
    BY <1>1, <1>4, <2>1, SilentStepOrders DEF FinishSave
<1>5. CASE SaveFails(s) \/ AnswerScan(s)
  <2>1. pc[s] # "idle" /\ WantsAnswer(line[s]) /\ \E result : Answer(s, result)
    BY <1>5 DEF SaveFails, AnswerScan, OrderInv, OrderKept
  <2> QED
    BY <2>1, AnswerOrders
<1>6. CASE AnswerPlainly(s) \/ InternalError(s)
  <2>1. pc[s] # "idle" /\ WantsAnswer(line[s]) /\ \E result : Answer(s, result)
    BY <1>6 DEF AnswerPlainly, InternalError
  <2> QED
    BY <2>1, AnswerOrders
<1>7. CASE ToolError(s) \/ ReadReport(s) \/ GetAIContextBundle(s) \/ ValidateAIOutput(s)
  <2>1. \E tool : Handles(s, tool)
    BY <1>7 DEF ToolError, ReadReport, GetAIContextBundle, ValidateAIOutput
  <2>2. pc[s] # "idle" /\ WantsAnswer(line[s])
    BY <2>1 DEF Handles, WantsAnswer
  <2>3. \E result : Answer(s, result)
    BY <1>7 DEF ToolError, ReadReport, GetAIContextBundle, ValidateAIOutput
  <2> QED
    BY <2>2, <2>3, AnswerOrders
<1> QED
  BY <1>2, <1>3, <1>4, <1>5, <1>6, <1>7 DEF Work

LEMMA NextOrders == IInv /\ OrderInv /\ [Next]_vars => OrderInv'
<1> SUFFICES ASSUME IInv, OrderInv, [Next]_vars
             PROVE  OrderInv'
  OBVIOUS
<1>1. ASSUME NEW s \in Servers, Crash(s)
      PROVE  OrderInv'
  <2>1. DOMAIN pc = Servers
    BY DEF IInv, AnswersCounted
  <2> QED
    BY <1>1, <2>1, SilentStepOrders DEF Crash
<1>2. CASE UNCHANGED <<pc, line, consumed, outbox>>
  BY <1>2 DEF OrderInv, OrderKept
<1>3. \/ UNCHANGED <<pc, line, consumed, outbox>>
      \/ \E s \in Servers : ReadLine(s) \/ Work(s) \/ Crash(s)
  BY DEF Next, vars, Summarize
<1> QED
  BY <1>1, <1>2, <1>3, ReadLineOrders, WorkOrders

\* run_stdio_server: whatever lines come, each request is answered once, in order
\* and under its own id, and a notification never.
THEOREM AnswersComeInOrder == Spec => []AnswersInOrder
<1>1. Init => OrderInv
  <2> SUFFICES ASSUME Init, NEW s \in Servers
               PROVE  /\ consumed[s] = <<>> /\ outbox[s] = <<>> /\ pc[s] = "idle"
                      /\ Due(<<>>) = {} /\ Cardinality({}) = 0 /\ Len(<<>>) = 0
    BY DEF OrderInv, OrderKept
  <2> QED
    BY FS_EmptySet DEF Init, Due
<1>2. IInv /\ OrderInv => AnswersInOrder
  <2> SUFFICES ASSUME IInv, OrderInv, NEW s \in Servers
               PROVE  /\ Len(outbox[s]) <= Cardinality(Due(consumed[s]))
                      /\ \A i \in Due(consumed[s]) :
                           IF Turn(consumed[s], i) <= Len(outbox[s])
                           THEN outbox[s][Turn(consumed[s], i)].id = PublicId(consumed[s][i].id)
                           ELSE i = Len(consumed[s]) /\ pc[s] # "idle"
    BY DEF AnswersInOrder
  <2>1. Sequence(consumed[s]) /\ Len(outbox[s]) \in Nat
    BY DEF IInv, AnswersCounted, Sequence
  <2>2. Len(outbox[s]) <= Cardinality(Due(consumed[s]))
    BY <2>1 DEF OrderInv, OrderKept
  <2>3. pc[s] = "idle" => \A i \in Due(consumed[s]) : Turn(consumed[s], i) <= Len(outbox[s])
    BY <2>1, DueCounted DEF OrderInv, OrderKept
  <2> QED
    BY <2>2, <2>3 DEF OrderInv, OrderKept
<1> QED
  BY <1>1, <1>2, NextOrders, InvariantHolds, PTL DEF Spec

-----------------------------------------------------------------------------
(* Summaries *)

\* A report that can be read is never written again.
LEMMA StoredReportsStay ==
    ASSUME IInv, [Next]_vars, NEW scan_id \in ScanIds, Readable(scan_id)
    PROVE  Readable(scan_id)' /\ files'[scan_id] = files[scan_id]
<1>1. CASE UNCHANGED files
  BY <1>1 DEF Readable
<1>2. ASSUME NEW s \in Servers, ScanRepo(s)
      PROVE  Readable(scan_id)' /\ files'[scan_id] = files[scan_id]
  <2>1. PICK other \in Unused : files' = [files EXCEPT ![other] = Half]
    BY <1>2 DEF ScanRepo, OpenForWriting
  <2>2. other # scan_id
    BY DEF Readable, Unused
  <2> QED
    BY <2>1, <2>2 DEF Readable
<1>3. ASSUME NEW s \in Servers, FinishSave(s)
      PROVE  Readable(scan_id)' /\ files'[scan_id] = files[scan_id]
  <2>1. files' = [files EXCEPT ![report[s].scan] = report[s]] /\ files[report[s].scan] = Half
    BY <1>3 DEF FinishSave, Write, IInv, FilesOwned
  <2>2. report[s].scan # scan_id
    BY <2>1 DEF Readable
  <2> QED
    BY <2>1, <2>2 DEF Readable
<1>4. UNCHANGED files \/ \E s \in Servers : ScanRepo(s) \/ FinishSave(s)
  BY DEF Next, vars, Work, ReadLine, Crash, Summarize, Ignore, AnswerPlainly, ToolError,
         InternalError, SaveFails, AnswerScan, ReadReport, GetAIContextBundle, ValidateAIOutput
<1> QED
  BY <1>1, <1>2, <1>3, <1>4

\* What is shown of an answer that passed, whatever the provider answered.
Grounded(request, response) ==
    LET cited == CitationPairs(response)
    IN /\ response.priority = request.priority /\ response.score = request.score
       /\ \A pair \in cited : pair[1] \in ClaimIds(response) /\ pair[2] \in EvidenceIds(request)
       /\ \A claim \in Range(response.claims) :
            claim.disposition \in CONCRETE_DISPOSITIONS =>
              /\ claim.evidence # <<>>
              /\ \A id \in Range(claim.evidence) : <<claim.id, id>> \in cited

LEMMA ShownIsGrounded ==
    ASSUME NEW request, NEW candidate, Shown(request, candidate) # Failed
    PROVE  Grounded(request, Shown(request, candidate))
<1> DEFINE response == SafePublicResponse(request, candidate)
           Public(id) == PublicClaimId(candidate, id)
<1>1. ~ Blocked(request, candidate) /\ Shown(request, candidate) = response
  BY DEF Shown
<1>2. /\ InvalidCitationIds(request, candidate) = {}
      /\ \A pair \in CitationPairs(candidate) : pair[1] \in ClaimIds(candidate)
      /\ UnsupportedClaims(request, candidate) = {}
  BY <1>1 DEF Blocked
<1>3. /\ response.priority = request.priority /\ response.score = request.score
      /\ DOMAIN response.claims = DOMAIN candidate.claims
      /\ \A i \in DOMAIN candidate.claims :
           /\ response.claims[i].id = Public(candidate.claims[i].id)
           /\ response.claims[i].disposition = candidate.claims[i].disposition
           /\ response.claims[i].evidence = candidate.claims[i].evidence
      /\ DOMAIN response.citations = DOMAIN candidate.citations
  BY DEF SafePublicResponse
<1>4. \A i \in DOMAIN candidate.citations :
        /\ candidate.citations[i].claim \in ClaimIds(candidate)
        /\ response.citations[i].claim = Public(candidate.citations[i].claim)
        /\ response.citations[i].evidence = candidate.citations[i].evidence
  <2> SUFFICES ASSUME NEW i \in DOMAIN candidate.citations
               PROVE  /\ candidate.citations[i].claim \in ClaimIds(candidate)
                      /\ response.citations[i].claim = Public(candidate.citations[i].claim)
                      /\ response.citations[i].evidence = candidate.citations[i].evidence
    OBVIOUS
  <2>1. <<candidate.citations[i].claim, candidate.citations[i].evidence>>
          \in CitationPairs(candidate)
    BY DEF CitationPairs, Range
  <2>2. candidate.citations[i].claim \in ClaimIds(candidate)
    BY <1>2, <2>1
  <2> QED
    BY <2>2 DEF SafePublicResponse
<1> HIDE DEF response, Public
<1>5. \A pair \in CitationPairs(response) :
        pair[1] \in ClaimIds(response) /\ pair[2] \in EvidenceIds(request)
  <2> SUFFICES ASSUME NEW i \in DOMAIN candidate.citations
               PROVE  /\ response.citations[i].claim \in ClaimIds(response)
                      /\ response.citations[i].evidence \in EvidenceIds(request)
    BY <1>3 DEF CitationPairs, Range
  <2>1. PICK j \in DOMAIN candidate.claims :
          candidate.citations[i].claim = candidate.claims[j].id
    BY <1>4 DEF ClaimIds, Range
  <2>2. response.claims[j].id = response.citations[i].claim
    BY <1>3, <1>4, <2>1
  <2>3. response.citations[i].claim \in ClaimIds(response)
    BY <1>3, <2>2 DEF ClaimIds, Range
  <2>4. candidate.citations[i].evidence \in EvidenceIds(request)
    BY <1>2 DEF InvalidCitationIds, Range
  <2> QED
    BY <1>4, <2>3, <2>4
<1>6. ASSUME NEW i \in DOMAIN candidate.claims,
             candidate.claims[i].disposition \in CONCRETE_DISPOSITIONS
      PROVE  /\ candidate.claims[i].evidence # <<>>
             /\ \A id \in Range(candidate.claims[i].evidence) :
                  <<Public(candidate.claims[i].id), id>> \in CitationPairs(response)
  <2> DEFINE claim == candidate.claims[i]
  <2>1. claim \in Range(candidate.claims) /\ claim \notin UnsupportedClaims(request, candidate)
    BY <1>2 DEF Range
  <2>2. claim.evidence # <<>>
    BY <1>6, <2>1 DEF UnsupportedClaims
  <2> SUFFICES ASSUME NEW id \in Range(claim.evidence)
               PROVE  <<Public(claim.id), id>> \in CitationPairs(response)
    BY <2>2
  <2>3. id \in EvidenceIds(request)
    BY <1>2, <2>1 DEF InvalidCitationIds
  <2>4. <<claim.id, id>> \in CitationPairs(candidate)
    BY <1>6, <2>1, <2>3 DEF UnsupportedClaims
  <2>5. PICK j \in DOMAIN candidate.citations :
          candidate.citations[j].claim = claim.id /\ candidate.citations[j].evidence = id
    BY <2>4 DEF CitationPairs, Range
  <2>6. response.citations[j].claim = Public(claim.id) /\ response.citations[j].evidence = id
    BY <1>4, <2>5
  <2> QED
    BY <1>3, <2>6 DEF CitationPairs, Range
<1>7. \A claim \in Range(response.claims) :
        claim.disposition \in CONCRETE_DISPOSITIONS =>
          /\ claim.evidence # <<>>
          /\ \A id \in Range(claim.evidence) : <<claim.id, id>> \in CitationPairs(response)
  BY <1>3, <1>6 DEF Range
<1> QED
  BY <1>1, <1>3, <1>5, <1>7 DEF Grounded

\* What is shown is grounded in a task of a report that can be read.
ShownInv ==
    shown # None /\ shown.response # Failed =>
      /\ shown.scan \in ScanIds /\ Readable(shown.scan)
      /\ \E request :
           /\ Grounded(request, shown.response)
           /\ shown.evidence = EvidenceIds(request)
           /\ request.priority = files[shown.scan].tasks[shown.index].priority
           /\ request.score = files[shown.scan].tasks[shown.index].score

LEMMA SummarizeShows ==
    ASSUME NEW scan_id \in ScanIds, Summarize(scan_id)
    PROVE  ShownInv'
<1>1. PICK index \in DOMAIN files[scan_id].tasks, top_k \in TopKs :
        \E chunks \in {ChunksFromReport(files[scan_id]), TaskChunks(files[scan_id], index)} :
          LET task == files[scan_id].tasks[index]
              request == SummaryRequest(task, RetrievedForTask(task, chunks, top_k))
          IN \E candidate \in Replies(request) \union {MockAnswer(request), Failed} :
               shown' = [scan |-> scan_id, index |-> index, evidence |-> EvidenceIds(request),
                         response |-> Shown(request, candidate)]
  BY DEF Summarize
<1> DEFINE task == files[scan_id].tasks[index]
<1>2. PICK chunks : LET request == SummaryRequest(task, RetrievedForTask(task, chunks, top_k))
                    IN \E candidate :
                         shown' = [scan |-> scan_id, index |-> index,
                                   evidence |-> EvidenceIds(request),
                                   response |-> Shown(request, candidate)]
  BY <1>1
<1> DEFINE request == SummaryRequest(task, RetrievedForTask(task, chunks, top_k))
<1>3. request.priority = task.priority /\ request.score = task.score
  BY DEF SummaryRequest
<1> HIDE DEF request
<1>4. PICK candidate : shown' = [scan |-> scan_id, index |-> index,
                                 evidence |-> EvidenceIds(request),
                                 response |-> Shown(request, candidate)]
  BY <1>2 DEF request
<1>5. Readable(scan_id) /\ files' = files
  BY DEF Summarize
<1>6. /\ shown'.scan = scan_id /\ shown'.index = index
      /\ shown'.evidence = EvidenceIds(request) /\ shown'.response = Shown(request, candidate)
  BY <1>4
<1>7. shown'.response # Failed => Grounded(request, shown'.response)
  BY <1>6, ShownIsGrounded
<1> QED
  BY <1>3, <1>5, <1>6, <1>7 DEF ShownInv, Readable

LEMMA NextShows == IInv /\ ShownInv /\ [Next]_vars => ShownInv'
<1> SUFFICES ASSUME IInv, ShownInv, [Next]_vars
             PROVE  ShownInv'
  OBVIOUS
<1>1. CASE shown' = None
  BY <1>1 DEF ShownInv
<1>2. CASE shown' = shown
  <2>1. ASSUME shown # None, shown.response # Failed
        PROVE  Readable(shown.scan)' /\ files'[shown.scan] = files[shown.scan]
    <3>1. PICK scan_id \in ScanIds : scan_id = shown.scan
      BY <2>1 DEF ShownInv
    <3>2. Readable(scan_id)
      BY <2>1, <3>1 DEF ShownInv
    <3>3. Readable(scan_id)' /\ files'[scan_id] = files[scan_id]
      BY <3>2, StoredReportsStay
    <3> QED
      BY <1>2, <3>1, <3>3 DEF Readable
  <2> QED
    BY <1>2, <2>1 DEF ShownInv
<1>3. CASE \E scan_id \in ScanIds : Summarize(scan_id)
  BY <1>3, SummarizeShows
<1>4. shown' \in {shown, None} \/ \E scan_id \in ScanIds : Summarize(scan_id)
  BY DEF Next, vars, Work, ReadLine, Crash, Ignore, AnswerPlainly, ToolError, InternalError,
         ScanRepo, FinishSave, SaveFails, AnswerScan, ReadReport, GetAIContextBundle,
         ValidateAIOutput, Answer
<1> QED
  BY <1>1, <1>2, <1>3, <1>4

\* AISummaryService: whatever a provider answers about whatever report, a summary
\* that is shown has the finding's values and no fact without supplied evidence.
THEOREM SummariesGrounded == Spec => []ShownSummariesGrounded
<1>1. Init => ShownInv
  BY DEF Init, ShownInv
<1>2. ShownInv => ShownSummariesGrounded
  BY DEF ShownInv, Grounded, ShownSummariesGrounded
<1> QED
  BY <1>1, <1>2, NextShows, InvariantHolds, PTL DEF Spec

-----------------------------------------------------------------------------
(* Evidence *)

\* Concatenating sequences that have their elements in a set.
LEMMA FlattenTyped ==
    ASSUME NEW X, NEW seqs \in Seq(Seq(X))
    PROVE  FlattenSeq(seqs) \in Seq(X)
<1> DEFINE n == Len(seqs)
           Fits(k, it) ==
             /\ it \in [1 .. k -> Seq(X)]
             /\ \A i \in 1 .. k : it[i] = IF i = 1 THEN seqs[i] ELSE it[i - 1] \o seqs[i]
           T == {k \in Nat : k <= n => \E it : Fits(k, it)}
<1>1. n \in Nat /\ \A i \in 1 .. n : seqs[i] \in Seq(X)
  BY ElementOfSeq, LenProperties
<1> HIDE DEF n
<1>2. 0 \in T
  <2> DEFINE it == [i \in 1 .. 0 |-> <<>>]
  <2>1. Fits(0, it)
    OBVIOUS
  <2> QED
    BY <2>1
<1> HIDE DEF Fits
<1>3. ASSUME NEW k \in T
      PROVE  k + 1 \in T
  <2> SUFFICES ASSUME k \in Nat, k + 1 <= n
               PROVE  \E it : Fits(k + 1, it)
    OBVIOUS
  <2>1. PICK it : Fits(k, it)
    BY <1>1
  <2> USE DEF Fits
  <2> DEFINE next == IF k + 1 = 1 THEN seqs[k + 1] ELSE it[k] \o seqs[k + 1]
             more == [i \in 1 .. k + 1 |-> IF i = k + 1 THEN next ELSE it[i]]
  <2>2. seqs[k + 1] \in Seq(X) /\ (k # 0 => it[k] \in Seq(X))
    BY <1>1, <2>1
  <2>3. next \in Seq(X)
    <3>1. CASE k = 0
      BY <2>2, <3>1
    <3>2. CASE k # 0
      <4>1. it[k] \o seqs[k + 1] \in Seq(X)
        BY <2>2, <3>2, ConcatProperties
      <4> QED
        BY <3>2, <4>1
    <3> QED
      BY <3>1, <3>2
  <2> HIDE DEF next
  <2>4. /\ more \in [1 .. k + 1 -> Seq(X)]
        /\ more[k + 1] = next /\ \A i \in 1 .. k : more[i] = it[i]
    BY <2>1, <2>3
  <2> HIDE DEF more
  <2>5. \A i \in 1 .. k + 1 :
          more[i] = IF i = 1 THEN seqs[i] ELSE more[i - 1] \o seqs[i]
    <3> TAKE i \in 1 .. k + 1
    <3>1. CASE i = k + 1
      <4>1. CASE k = 0
        BY <2>4, <3>1, <4>1 DEF next
      <4>2. CASE k # 0
        <5>1. k \in 1 .. k /\ i - 1 = k /\ i # 1
          BY <3>1, <4>2
        <5>2. more[i - 1] = it[k] /\ more[i] = it[k] \o seqs[i]
          BY <2>4, <3>1, <5>1 DEF next
        <5> QED
          BY <5>1, <5>2
      <4> QED
        BY <4>1, <4>2
    <3>2. CASE i \in 1 .. k
      <4>1. i # 1 => i - 1 \in 1 .. k
        BY <3>2
      <4>2. it[i] = IF i = 1 THEN seqs[i] ELSE it[i - 1] \o seqs[i]
        BY <2>1, <3>2
      <4> QED
        BY <2>4, <3>2, <4>1, <4>2
    <3> QED
      BY <3>1, <3>2
  <2>6. Fits(k + 1, more)
    BY <2>4, <2>5
  <2> HIDE DEF Fits
  <2> QED
    BY <2>6
<1>4. T = Nat
  <2>1. T \in SUBSET Nat
    OBVIOUS
  <2> HIDE DEF T
  <2> QED
    BY <1>2, <1>3, <2>1, SetInduction
<1>5. PICK it : Fits(n, it)
  <2>1. n \in T
    BY <1>1, <1>4
  <2> QED
    BY <1>1, <2>1
<1>6. CASE n = 0
  <2>1. FlattenSeq(seqs) = seqs /\ seqs = <<>>
    BY <1>6, EmptySeq DEF n, FlattenSeq
  <2> QED
    BY <2>1
<1>7. CASE n # 0
  <2> DEFINE Next1(g) == [i \in 1 .. n |-> IF i = 1 THEN seqs[i] ELSE g[i - 1] \o seqs[i]]
             flatten == CHOOSE g : g = Next1(g)
  <2>1. FlattenSeq(seqs) = flatten[n]
    BY <1>7 DEF n, FlattenSeq
  <2>2. it = Next1(it)
    BY <1>5 DEF Fits
  <2>3. flatten = Next1(flatten)
    BY <2>2
  <2> HIDE DEF flatten
  <2>4. \A i \in 1 .. n : flatten[i] = IF i = 1 THEN seqs[i] ELSE flatten[i - 1] \o seqs[i]
    BY <2>3
  <2> DEFINE U == {k \in Nat : k \in 1 .. n => flatten[k] \in Seq(X)}
  <2>5. 0 \in U
    OBVIOUS
  <2>6. ASSUME NEW k \in U
        PROVE  k + 1 \in U
    <3> SUFFICES ASSUME k \in Nat, k + 1 \in 1 .. n
                 PROVE  flatten[k + 1] \in Seq(X)
      OBVIOUS
    <3>1. seqs[k + 1] \in Seq(X)
      BY <1>1
    <3>2. CASE k = 0
      <4>1. flatten[k + 1] = seqs[k + 1]
        BY <2>4, <3>2
      <4> QED
        BY <3>1, <4>1
    <3>3. CASE k # 0
      <4>1. k \in 1 .. n /\ (k + 1) - 1 = k /\ k + 1 # 1
        BY <1>1, <3>3
      <4>2. flatten[k] \in Seq(X)
        BY <4>1
      <4>3. flatten[k + 1] = flatten[k] \o seqs[k + 1]
        BY <2>4, <4>1
      <4> QED
        BY <3>1, <4>2, <4>3, ConcatProperties
    <3> QED
      BY <3>2, <3>3
  <2>7. U = Nat
    <3>1. U \in SUBSET Nat
      OBVIOUS
    <3> HIDE DEF U
    <3> QED
      BY <2>5, <2>6, <3>1, SetInduction
  <2>8. n \in 1 .. n /\ n \in U
    BY <1>1, <1>7, <2>7
  <2> QED
    BY <2>1, <2>8
<1> QED
  BY <1>6, <1>7

\* How many words of a text are searched for.
LEMMA ScoreCounts ==
    ASSUME NEW query, NEW chunk, NEW W, chunk.text \in Seq(W)
    PROVE  Score(query, chunk) \in Nat
<1> DEFINE text == chunk.text
           places == 1 .. Len(text)
           words == {text[i] : i \in places}
<1>1. Len(text) \in Nat /\ DOMAIN text = places
  BY LenProperties
<1>2. IsFiniteSet(places)
  BY <1>1, Counted
<1>3. IsFiniteSet(words)
  <2> HIDE DEF places, text
  <2> QED
    BY <1>2, ImageFinite
<1>4. ChunkWords(chunk) = (words \union {chunk.package}) \union {chunk.vulnerability}
  BY <1>1 DEF ChunkWords, Range
<1> HIDE DEF words
<1>5. IsFiniteSet(ChunkWords(chunk))
  <2>1. IsFiniteSet({chunk.package}) /\ IsFiniteSet({chunk.vulnerability})
    BY FS_Singleton
  <2> DEFINE more == words \union {chunk.package}
  <2>2. IsFiniteSet(more)
    BY <1>3, <2>1, FS_Union
  <2> HIDE DEF more
  <2>3. IsFiniteSet(more \union {chunk.vulnerability})
    BY <2>1, <2>2, FS_Union
  <2> QED
    BY <1>4, <2>3 DEF more
<1> DEFINE common == query \intersect ChunkWords(chunk)
<1>6. common \in SUBSET ChunkWords(chunk)
  OBVIOUS
<1> HIDE DEF common
<1>7. IsFiniteSet(common)
  BY <1>5, <1>6, FS_Subset
<1>8. Cardinality(common) \in Nat
  BY <1>7, FS_CardinalityType
<1> QED
  BY <1>8 DEF Score, common

\* The search returns some of the chunks at the places it is given.
LEMMA RankedAmong ==
    ASSUME NEW X, NEW q, NEW places, NEW query, NEW top_k,
           q \in Seq(X), places \in SUBSET DOMAIN q, top_k \in Nat,
           \A i \in places : Score(query, q[i]) \in Nat
    PROVE  /\ Ranked(query, q, places, top_k) \in Seq(X)
           /\ \A k \in DOMAIN Ranked(query, q, places, top_k) :
                \E i \in places : Ranked(query, q, places, top_k)[k] = q[i]
<1> DEFINE Result(i) == [place |-> i, score |-> Score(query, q[i])]
           scored == {Result(i) : i \in places}
           results == {result \in scored : result.score > 0}
           better == {pair \in results \X results :
                        \/ pair[1].score > pair[2].score
                        \/ pair[1].score = pair[2].score /\ pair[1].place < pair[2].place}
           order == InOrder(results, better)
           best == [k \in DOMAIN order |-> q[order[k].place]]
           bound == IF top_k < Len(best) THEN top_k ELSE Len(best)
<1>1. Ranked(query, q, places, top_k) = SubSeq(best, 1, bound)
  BY DEF Ranked
<1>2. Len(q) \in Nat /\ DOMAIN q = 1 .. Len(q) /\ \A i \in places : q[i] \in X /\ i \in Nat
  BY LenProperties, ElementOfSeq
<1>3. IsFiniteSet(results)
  <2> DEFINE result == [i \in places |-> Result(i)]
  <2>1. IsFiniteSet(places)
    <3>1. IsFiniteSet(DOMAIN q)
      BY <1>2, Counted
    <3> QED
      BY <3>1, FS_Subset
  <2>2. scored = {result[i] : i \in places}
    OBVIOUS
  <2>3. IsFiniteSet({result[i] : i \in places})
    <3> HIDE DEF result
    <3> QED
      BY <2>1, ImageFinite
  <2>4. IsFiniteSet(scored) /\ results \in SUBSET scored
    BY <2>2, <2>3
  <2> HIDE DEF scored, results
  <2> QED
    BY <2>4, FS_Subset
<1>4. \A r \in results :
        /\ r.place \in places /\ r.place \in Nat /\ r.score \in Nat
        /\ r = Result(r.place)
  BY <1>2
<1>5. TotalOrder(results, better)
  <2>1. \A r, u \in results : r # u => r.place # u.place
    BY <1>4
  <2>2. \A r, u \in results : <<r, u>> \in better <=>
          \/ r.score > u.score
          \/ r.score = u.score /\ r.place < u.place
    OBVIOUS
  <2>3. \A r \in results : r.place \in Nat /\ r.score \in Nat
    BY <1>4
  <2> HIDE DEF results, better, Result
  <2>4. \A r \in results : <<r, r>> \notin better
    BY <2>2, <2>3
  <2>5. ASSUME NEW r \in results, NEW u \in results, r # u
        PROVE  <<r, u>> \in better \/ <<u, r>> \in better
    BY <2>1, <2>2, <2>3, <2>5
  <2>6. ASSUME NEW r \in results, NEW u \in results, NEW v \in results,
               <<r, u>> \in better, <<u, v>> \in better
        PROVE  <<r, v>> \in better
    <3>1. /\ r.place \in Nat /\ u.place \in Nat /\ v.place \in Nat
          /\ r.score \in Nat /\ u.score \in Nat /\ v.score \in Nat
      BY <2>3
    <3>2. r.score > u.score \/ (r.score = u.score /\ r.place < u.place)
      BY <2>2, <2>6
    <3>3. u.score > v.score \/ (u.score = v.score /\ u.place < v.place)
      BY <2>2, <2>6
    <3>4. r.score > v.score \/ (r.score = v.score /\ r.place < v.place)
      BY <3>1, <3>2, <3>3
    <3> QED
      BY <2>2, <3>4
  <2> QED
    BY <2>4, <2>5, <2>6 DEF TotalOrder, StrictOrder
<1> HIDE DEF better
<1>6. Cardinality(results) \in Nat /\ order \in [1 .. Cardinality(results) -> results]
  <2> HIDE DEF results
  <2> QED
    BY <1>3, <1>5, InOrderArranges
<1> HIDE DEF order, results, Result
<1>7. best \in Seq(X) /\ \A k \in DOMAIN best : \E i \in places : best[k] = q[i]
  <2>1. DOMAIN order = 1 .. Cardinality(results)
        /\ \A k \in 1 .. Cardinality(results) : order[k].place \in places
    BY <1>4, <1>6
  <2>2. /\ best \in [1 .. Cardinality(results) -> X]
        /\ \A k \in 1 .. Cardinality(results) : best[k] = q[order[k].place]
    BY <1>2, <2>1
  <2>3. DOMAIN best = 1 .. Cardinality(results)
    BY <2>2
  <2>4. \A k \in DOMAIN best : \E i \in places : best[k] = q[i]
    BY <2>1, <2>2, <2>3
  <2> HIDE DEF best
  <2>5. best \in Seq(X)
    BY <1>6, <2>2
  <2> QED
    BY <2>4, <2>5
<1> HIDE DEF best
<1>8. Len(best) \in Nat /\ DOMAIN best = 1 .. Len(best)
  BY <1>7, LenProperties
<1>9. bound \in 0 .. Len(best)
  BY <1>8
<1> HIDE DEF bound
<1> DEFINE r == SubSeq(best, 1, bound)
<1>10. /\ r \in Seq(X) /\ DOMAIN r = 1 .. bound
       /\ \A k \in 1 .. bound : r[k] = best[k] /\ k \in DOMAIN best
  BY <1>7, <1>8, <1>9
<1> HIDE DEF r
<1> QED
  BY <1>1, <1>7, <1>10 DEF r

\* A task as reports have it: its texts are sequences of words.
ReportedTask(task) ==
    /\ {task.package, task.vulnerability, task.priority} \subseteq Words
    /\ task.evidence \in Seq(Seq(Words))

LEMMA TaskChunksTyped ==
    ASSUME NEW stored, NEW index, ReportedTask(stored.tasks[index])
    PROVE  /\ TaskChunks(stored, index) \in Seq(Range(TaskChunks(stored, index)))
           /\ \A chunk \in Range(TaskChunks(stored, index)) : chunk.text \in Seq(Words)
<1> DEFINE task == stored.tasks[index]
           Own(kind, part, text) == Chunk(stored, index, kind, part, text)
           advisory == Own("advisory", 0, <<task.vulnerability, task.package>>)
           risk == Own("risk", 0, <<task.priority>>)
           first == <<advisory, risk>>
           others == [i \in DOMAIN task.evidence |->
                        Own("finding-evidence", i, task.evidence[i])]
           X == {advisory, risk} \union {others[i] : i \in DOMAIN task.evidence}
<1>1. /\ Len(task.evidence) \in Nat /\ DOMAIN task.evidence = 1 .. Len(task.evidence)
      /\ \A i \in DOMAIN task.evidence : task.evidence[i] \in Seq(Words)
  <2>1. task.evidence \in Seq(Seq(Words))
    BY DEF ReportedTask
  <2> HIDE DEF task
  <2> QED
    BY <2>1, LenProperties, ElementOfSeq
<1>2. \A kind, part, text : Own(kind, part, text).text = text
  BY DEF Chunk
<1>3. advisory.text \in Seq(Words) /\ risk.text \in Seq(Words)
  <2>1. task.vulnerability \in Words /\ task.package \in Words /\ task.priority \in Words
    BY DEF ReportedTask
  <2>2. /\ advisory.text = <<task.vulnerability, task.package>>
        /\ risk.text = <<task.priority>>
    BY <1>2
  <2> HIDE DEF task, advisory, risk
  <2> QED
    BY <2>1, <2>2
<1>4. \A i \in DOMAIN task.evidence : others[i].text \in Seq(Words)
  BY <1>1, <1>2
<1>5. TaskChunks(stored, index) = first \o others
  BY DEF TaskChunks
<1> HIDE DEF task, advisory, risk
<1>6. first \in Seq(X) /\ others \in Seq(X)
  <2>1. others \in [1 .. Len(task.evidence) -> X]
    BY <1>1
  <2>2. first \in Seq(X)
    OBVIOUS
  <2> HIDE DEF X, others, first
  <2> QED
    BY <1>1, <2>1, <2>2
<1>7. \A chunk \in X : chunk.text \in Seq(Words)
  BY <1>3, <1>4
<1> HIDE DEF X, first, others
<1> DEFINE all == first \o others
<1>8. all \in Seq(X)
  BY <1>6, ConcatProperties
<1> HIDE DEF all
<1>9. /\ Len(all) \in Nat /\ DOMAIN all = 1 .. Len(all)
      /\ \A i \in 1 .. Len(all) : all[i] \in X
  BY <1>8, LenProperties, ElementOfSeq
<1>10. all \in Seq(Range(all)) /\ \A chunk \in Range(all) : chunk \in X
  <2>1. all = [i \in 1 .. Len(all) |-> all[i]]
    BY <1>8, <1>9
  <2>2. \A i \in 1 .. Len(all) : all[i] \in Range(all)
    BY <1>9 DEF Range
  <2>3. all \in [1 .. Len(all) -> Range(all)]
    BY <2>1, <2>2
  <2>4. \A chunk \in Range(all) : chunk \in X
    BY <1>9 DEF Range
  <2> QED
    BY <1>9, <2>3, <2>4
<1> QED
  BY <1>5, <1>7, <1>10 DEF all

\* The chunks of a report, with their texts.
LEMMA ChunksTyped ==
    ASSUME NEW stored, stored.tasks \in Seq(Range(stored.tasks)),
           \A task \in Range(stored.tasks) : ReportedTask(task)
    PROVE  \E X : /\ ChunksFromReport(stored) \in Seq(X)
                  /\ \A chunk \in X : chunk.text \in Seq(Words)
<1> DEFINE tasks == stored.tasks
           Chunks(index) == TaskChunks(stored, index)
           X == UNION {Range(Chunks(index)) : index \in DOMAIN tasks}
           listed == [index \in DOMAIN tasks |-> Chunks(index)]
<1>1. Len(tasks) \in Nat /\ DOMAIN tasks = 1 .. Len(tasks)
  BY LenProperties
<1>2. ASSUME NEW index \in DOMAIN tasks
      PROVE  /\ Chunks(index) \in Seq(Range(Chunks(index)))
             /\ \A chunk \in Range(Chunks(index)) : chunk.text \in Seq(Words)
  <2>1. tasks[index] \in Range(tasks)
    BY DEF Range
  <2> QED
    BY <2>1, TaskChunksTyped
<1>3. ChunksFromReport(stored) = FlattenSeq(listed)
  BY DEF ChunksFromReport
<1> HIDE DEF Chunks, tasks
<1>4. \A index \in DOMAIN tasks : Chunks(index) \in Seq(X)
  <2> TAKE index \in DOMAIN tasks
  <2>1. Range(Chunks(index)) \subseteq X
    OBVIOUS
  <2> HIDE DEF X
  <2> DEFINE S == Range(Chunks(index))
  <2>2. Chunks(index) \in Seq(S) /\ S \subseteq X
    BY <1>2, <2>1
  <2> HIDE DEF S
  <2> QED
    BY <2>2
<1>5. \A chunk \in X : chunk.text \in Seq(Words)
  BY <1>2
<1> HIDE DEF X
<1>6. listed \in Seq(Seq(X))
  <2>1. listed \in [1 .. Len(tasks) -> Seq(X)]
    BY <1>1, <1>4
  <2> HIDE DEF listed
  <2> QED
    BY <1>1, <2>1
<1> HIDE DEF listed
<1>7. FlattenSeq(listed) \in Seq(X)
  BY <1>6, FlattenTyped
<1> QED
  BY <1>3, <1>5, <1>7

\* What is retrieved for a task is of the report and about the task.
LEMMA RetrievedAbout ==
    ASSUME NEW stored, stored.tasks \in Seq(Range(stored.tasks)),
           \A reported \in Range(stored.tasks) : ReportedTask(reported),
           NEW task, NEW top_k \in Nat
    PROVE  RetrievedChunks(stored, task, top_k) \in
             Seq({chunk \in Range(ChunksFromReport(stored)) :
                    /\ chunk.text \in Seq(Words)
                    /\ chunk.package = task.package
                    /\ chunk.vulnerability = task.vulnerability})
<1> DEFINE q == ChunksFromReport(stored)
           places == {i \in DOMAIN q : AboutTask(stored, task, q[i])}
           query == Query(task)
           found == Ranked(query, q, places, top_k)
           Y == {chunk \in Range(q) : /\ chunk.text \in Seq(Words)
                                      /\ chunk.package = task.package
                                      /\ chunk.vulnerability = task.vulnerability}
<1>1. PICK X : q \in Seq(X) /\ \A chunk \in X : chunk.text \in Seq(Words)
  BY ChunksTyped
<1>2. RetrievedChunks(stored, task, top_k) = found
  BY DEF RetrievedChunks
<1> HIDE DEF q, query
<1>3. \A i \in DOMAIN q : q[i] \in X /\ q[i] \in Range(q)
  BY <1>1, LenProperties, ElementOfSeq DEF Range
<1>4. \A i \in places : q[i] \in Y
  BY <1>1, <1>3 DEF AboutTask
<1>5. \A i \in places : Score(query, q[i]) \in Nat
  BY <1>4, ScoreCounts
<1>6. places \in SUBSET DOMAIN q
  OBVIOUS
<1> HIDE DEF places, Y
<1>7. found \in Seq(X) /\ \A k \in DOMAIN found : \E i \in places : found[k] = q[i]
  BY <1>1, <1>5, <1>6, RankedAmong
<1> HIDE DEF found
<1>8. \A k \in DOMAIN found : found[k] \in Y
  BY <1>4, <1>7
<1>9. found \in Seq(Y)
  BY <1>7, <1>8, LenProperties
<1> QED
  BY <1>2, <1>9 DEF Y, q

\* The evidence of a bundle is the task's own or about the task.
LEMMA BundleEvidence ==
    ASSUME NEW stored, stored.tasks \in Seq(Range(stored.tasks)),
           \A reported \in Range(stored.tasks) : ReportedTask(reported),
           NEW task, ReportedTask(task), NEW include_rag \in BOOLEAN, NEW top_k \in Nat
    PROVE  \A item \in Range(ContextBundle(stored, task, include_rag, top_k).evidence) :
             item.text \in Seq(Words) /\ EvidenceOfTask(stored, task, item.id)
<1> DEFINE chunks == ChunksFor(stored, task, include_rag, top_k)
           Y == {chunk \in Range(ChunksFromReport(stored)) :
                   /\ chunk.text \in Seq(Words)
                   /\ chunk.package = task.package
                   /\ chunk.vulnerability = task.vulnerability}
           own == [i \in DOMAIN task.evidence |->
                     [id |-> <<"task", i, task.evidence[i]>>, text |-> task.evidence[i],
                      about |-> {"remediation_task"}]]
           retrieved == [i \in DOMAIN chunks |->
                           [id |-> <<"evidence", chunks[i].id>>, text |-> chunks[i].text,
                            about |-> {chunks[i].kind, chunks[i].package,
                                       chunks[i].vulnerability}]]
           Z == Range(own) \union Range(retrieved)
<1>1. ContextBundle(stored, task, include_rag, top_k).evidence = own \o retrieved
  BY DEF ContextBundle, SummaryRequest, EvidenceItems
<1>2. chunks \in Seq(Y)
  <2> HIDE DEF Y
  <2>1. CASE include_rag
    BY <2>1, RetrievedAbout DEF ChunksFor, Y
  <2>2. CASE ~ include_rag
    BY <2>2 DEF ChunksFor
  <2> QED
    BY <2>1, <2>2
<1> HIDE DEF chunks
<1>3. /\ Len(chunks) \in Nat /\ DOMAIN chunks = 1 .. Len(chunks)
      /\ \A i \in DOMAIN chunks : chunks[i] \in Y
  <2> HIDE DEF Y
  <2> QED
    BY <1>2, LenProperties, ElementOfSeq
<1>4. /\ Len(task.evidence) \in Nat /\ DOMAIN task.evidence = 1 .. Len(task.evidence)
      /\ \A i \in DOMAIN task.evidence : task.evidence[i] \in Seq(Words)
  BY LenProperties, ElementOfSeq DEF ReportedTask
<1>5. own \in [1 .. Len(task.evidence) -> Z]
  BY <1>4 DEF Range
<1>6. retrieved \in [1 .. Len(chunks) -> Z]
  BY <1>3 DEF Range
<1>7. \A item \in Range(own) : item.text \in Seq(Words) /\ EvidenceOfTask(stored, task, item.id)
  <2> TAKE item \in Range(own)
  <2>1. PICK i \in DOMAIN task.evidence : item = own[i]
    BY DEF Range
  <2>2. item.text = task.evidence[i] /\ item.id = <<"task", i, task.evidence[i]>>
    BY <2>1
  <2>3. EvidenceOfTask(stored, task, item.id)
    BY <2>2 DEF EvidenceOfTask
  <2> QED
    BY <1>4, <2>2, <2>3
<1>8. \A item \in Range(retrieved) :
        item.text \in Seq(Words) /\ EvidenceOfTask(stored, task, item.id)
  <2> SUFFICES ASSUME NEW i \in DOMAIN chunks
               PROVE  /\ chunks[i].text \in Seq(Words)
                      /\ EvidenceOfTask(stored, task, <<"evidence", chunks[i].id>>)
    BY DEF Range
  <2>1. chunks[i] \in Y
    BY <1>3
  <2> QED
    BY <2>1 DEF EvidenceOfTask
<1>9. \A item \in Z : item.text \in Seq(Words) /\ EvidenceOfTask(stored, task, item.id)
  BY <1>7, <1>8
<1> HIDE DEF own, retrieved, Z
<1>10. own \in Seq(Z) /\ retrieved \in Seq(Z)
  <2> DEFINE m == Len(task.evidence)
             n == Len(chunks)
  <2>1. m \in Nat /\ n \in Nat /\ own \in [1 .. m -> Z] /\ retrieved \in [1 .. n -> Z]
    BY <1>3, <1>4, <1>5, <1>6
  <2> HIDE DEF m, n
  <2> QED
    BY <2>1
<1> DEFINE all == own \o retrieved
<1>11. all \in Seq(Z)
  BY <1>10, ConcatProperties
<1> HIDE DEF all
<1>12. \A item \in Range(all) : item \in Z
  BY <1>11, LenProperties, ElementOfSeq DEF Range
<1> QED
  BY <1>1, <1>9, <1>12 DEF all

-----------------------------------------------------------------------------
(* The check of an answer *)

LEMMA ParsedFields ==
    ASSUME NEW output, FieldsGiven(output), output.shape = "object"
    PROVE  /\ Parsed(output).package =
                IF output.package \in RedactedAsText THEN Redacted ELSE output.package
           /\ \A field \in OUTPUT_FIELDS \ {"package"} : Parsed(output)[field] = output[field]
BY DEF Parsed, FieldsGiven, OUTPUT_FIELDS, PROTECTED_FIELDS

LEMMA VerdictPasses ==
    ASSUME NEW stored, NEW task, NEW include_rag, NEW top_k, NEW output,
           output.shape \in OUTPUT_SHAPES
    PROVE  ValidateClientOutput(stored, task, include_rag, top_k, output).passed <=>
             /\ output.shape = "object"
             /\ ~ UnsafeResponse(output)
             /\ ~ Blocked(ContextBundle(stored, task, include_rag, top_k), Parsed(output))
             /\ AuditPassed(Parsed(output))
<1> DEFINE blocked == Blocked(ContextBundle(stored, task, include_rag, top_k), Parsed(output))
           audited == AuditPassed(Parsed(output))
           unsafe == UnsafeResponse(output)
           v == ValidateClientOutput(stored, task, include_rag, top_k, output)
<1>1. v = IF output.shape \in {"not_object", "unknown_fields"} THEN Verdict("validator")
          ELSE IF unsafe THEN Verdict("safety_filter")
          ELSE IF output.shape = "missing_fields" THEN Verdict("validator")
          ELSE IF blocked THEN Verdict("validator")
          ELSE IF ~ audited THEN Verdict("auditor")
          ELSE Verdict("nothing")
  BY DEF ValidateClientOutput
<1>2. /\ ~ Verdict("validator").passed /\ ~ Verdict("safety_filter").passed
      /\ ~ Verdict("auditor").passed /\ Verdict("nothing").passed
  BY DEF Verdict
<1>3. output.shape \in {"object", "not_object", "unknown_fields", "missing_fields"}
  BY DEF OUTPUT_SHAPES
<1> HIDE DEF blocked, audited, unsafe, v
<1>4. v.passed <=> output.shape = "object" /\ ~ unsafe /\ ~ blocked /\ audited
  BY <1>1, <1>2, <1>3
<1> QED
  BY <1>4 DEF blocked, audited, unsafe, v

\* The values and the texts that parsing leaves as they are.
LEMMA ParsedTexts ==
    ASSUME NEW output, FieldsGiven(output), output.shape = "object"
    PROVE  /\ Parsed(output).claims = output.claims
           /\ Parsed(output).citations = output.citations
           /\ Parsed(output).well_typed = output.well_typed
           /\ ClaimLanguage(Parsed(output)) = ClaimLanguage(output)
           /\ Notes(Parsed(output)) = Notes(output)
           /\ CitationPairs(Parsed(output)) = CitationPairs(output)
           /\ ClaimIds(Parsed(output)) = ClaimIds(output)
           /\ UnsafeResponse(Parsed(output)) <=> UnsafeResponse(output)
<1> DEFINE p == Parsed(output)
<1>1. /\ p.claims = output.claims /\ p.citations = output.citations
      /\ p.summary = output.summary /\ p.explanation = output.explanation
      /\ p.well_typed = output.well_typed
  BY ParsedFields DEF OUTPUT_FIELDS, PROTECTED_FIELDS
<1> HIDE DEF p
<1>2. ClaimTexts(p) = ClaimTexts(output) /\ Notes(p) = Notes(output)
  BY <1>1 DEF ClaimTexts, Notes
<1>3. ClaimLanguage(p) = ClaimLanguage(output) /\ (UnsafeResponse(p) <=> UnsafeResponse(output))
  BY <1>1, <1>2 DEF ClaimLanguage, UnsafeResponse
<1>4. CitationPairs(p) = CitationPairs(output) /\ ClaimIds(p) = ClaimIds(output)
  BY <1>1 DEF CitationPairs, ClaimIds
<1> QED
  BY <1>1, <1>2, <1>3, <1>4 DEF p

\* An answer that passes is grounded in the task it is checked against.
LEMMA PassedIsGrounded ==
    ASSUME NEW stored, stored.tasks \in Seq(Range(stored.tasks)),
           \A reported \in Range(stored.tasks) : ReportedTask(reported),
           NEW task, ReportedTask(task), NEW include_rag \in BOOLEAN, NEW top_k \in Nat,
           NEW output, FieldsGiven(output),
           ValidateClientOutput(stored, task, include_rag, top_k, output).passed
    PROVE  GroundedIn(stored, task, output)
<1> DEFINE request == ContextBundle(stored, task, include_rag, top_k)
           p == Parsed(output)
<1>1. output.shape = "object" /\ ~ Blocked(request, p) /\ AuditPassed(p)
  BY VerdictPasses DEF FieldsGiven
<1>2. /\ request.finding = task.id /\ request.package = task.package
      /\ request.vulnerability = task.vulnerability
      /\ request.priority = task.priority /\ request.score = task.score
  BY DEF ContextBundle, SummaryRequest
<1>3. \A item \in Range(request.evidence) : EvidenceOfTask(stored, task, item.id)
  BY BundleEvidence
<1>4. /\ p.finding = output.finding /\ p.vulnerability = output.vulnerability
      /\ p.priority = output.priority /\ p.score = output.score
      /\ p.package = IF output.package \in RedactedAsText THEN Redacted ELSE output.package
  BY <1>1, ParsedFields DEF OUTPUT_FIELDS, PROTECTED_FIELDS
<1>5. /\ p.claims = output.claims /\ ClaimLanguage(p) = ClaimLanguage(output)
  BY <1>1, ParsedTexts
<1> HIDE DEF request, p
<1>6. \A field \in PROTECTED_FIELDS : p[field] = request[field]
  BY <1>1 DEF Blocked, MutatedFields
<1>7. /\ p.finding = request.finding /\ p.package = request.package
      /\ p.vulnerability = request.vulnerability
      /\ p.priority = request.priority /\ p.score = request.score
  BY <1>6 DEF PROTECTED_FIELDS
<1>8. ASSUME NEW claim \in Range(output.claims)
      PROVE  /\ claim.disposition \in CONCRETE_DISPOSITIONS => claim.evidence # <<>>
             /\ \A id \in Range(claim.evidence) : EvidenceOfTask(stored, task, id)
  <2>1. claim \notin UnsupportedClaims(request, p) /\ InvalidCitationIds(request, p) = {}
    BY <1>1 DEF Blocked
  <2>2. claim.disposition \in CONCRETE_DISPOSITIONS => claim.evidence # <<>>
    BY <1>5, <2>1 DEF UnsupportedClaims
  <2>3. \A id \in Range(claim.evidence) : id \in EvidenceIds(request)
    BY <1>5, <2>1 DEF InvalidCitationIds
  <2> QED
    BY <1>3, <2>2, <2>3 DEF EvidenceIds
<1>9. ASSUME NEW text \in ClaimLanguage(output), HasActionSignal(text)
      PROVE  \E claim \in Range(output.claims) :
               Concrete(claim) /\ claim.evidence # <<>> /\ ContainsText(claim.text, text)
  <2>1. text \notin UnauditedLanguage(p) /\ text \in ClaimLanguage(p)
    BY <1>1, <1>5 DEF AuditPassed
  <2>2. HasFactualOrActionSignal(text) /\ ~ IsConservativeUnknownProse(text)
    BY <1>9 DEF HasFactualOrActionSignal, IsConservativeUnknownProse
  <2>3. SupportedByConcreteClaim(text, output.claims)
    BY <1>5, <2>1, <2>2 DEF UnauditedLanguage
  <2> QED
    BY <1>9, <2>3 DEF SupportedByConcreteClaim
<1> QED
  BY <1>2, <1>4, <1>7, <1>8, <1>9 DEF GroundedIn

LEMMA NothingSeen == \A signal : ~ Sees(<<>>, signal)
BY DEF Sees, Range

\* A text contains itself.
LEMMA PartOfItself ==
    ASSUME NEW X, NEW text \in Seq(X)
    PROVE  ContainsText(text, text)
<1>1. Len(text) \in Nat /\ 0 \in 0 .. Len(text) - Len(text)
  BY LenProperties
<1>2. \A i \in DOMAIN text : text[i] = text[0 + i]
  BY LenProperties
<1> QED
  BY <1>1, <1>2 DEF ContainsText

\* What an answer that keeps to its bundle says: the texts of cited evidence.
LEMMA FaithfulTexts ==
    ASSUME NEW request, NEW output, Faithful(request, output)
    PROVE  /\ \A claim \in Range(output.claims) :
                /\ claim.disposition = "fact" /\ claim.rationale = <<>>
                /\ \E item \in Range(request.evidence) :
                     /\ claim.text = item.text /\ claim.evidence = <<item.id>>
                     /\ <<claim.id, item.id>> \in CitationPairs(output)
                /\ ~ Sees(claim.text, "overconfident") /\ ~ Sees(claim.text, "unsafe")
           /\ \A text \in ClaimLanguage(output) :
                text = <<>> \/ \E claim \in Range(output.claims) : text = claim.text
           /\ \A note \in Notes(output) : note = <<>>
<1>1. ASSUME NEW claim \in Range(output.claims)
      PROVE  /\ claim.disposition = "fact" /\ claim.rationale = <<>>
             /\ \E item \in Range(request.evidence) :
                  /\ claim.text = item.text /\ claim.evidence = <<item.id>>
                  /\ <<claim.id, item.id>> \in CitationPairs(output)
             /\ ~ Sees(claim.text, "overconfident") /\ ~ Sees(claim.text, "unsafe")
  <2>1. PICK item \in Range(request.evidence) :
          /\ claim = Claim(claim.id, item.text, "fact", <<item.id>>)
          /\ <<claim.id, item.id>> \in CitationPairs(output)
          /\ ~ Sees(item.text, "overconfident") /\ ~ Sees(item.text, "unsafe")
    BY DEF Faithful
  <2>2. /\ claim.disposition = "fact" /\ claim.rationale = <<>>
        /\ claim.text = item.text /\ claim.evidence = <<item.id>>
    BY <2>1 DEF Claim
  <2> QED
    BY <2>1, <2>2
<1>2. ASSUME NEW text \in ClaimLanguage(output)
      PROVE  text = <<>> \/ \E claim \in Range(output.claims) : text = claim.text
  <2>1. CASE text \in {output.summary, output.explanation}
    BY <2>1 DEF Faithful
  <2>2. CASE text \in ClaimTexts(output)
    BY <1>1, <2>2 DEF ClaimTexts
  <2> QED
    BY <2>1, <2>2 DEF ClaimLanguage
<1>3. \A note \in Notes(output) : note = <<>>
  BY DEF Faithful, Notes
<1> QED
  BY <1>1, <1>2, <1>3

\* An answer that keeps to its bundle passes.
LEMMA FaithfulPasses ==
    ASSUME NEW stored, stored.tasks \in Seq(Range(stored.tasks)),
           \A reported \in Range(stored.tasks) : ReportedTask(reported),
           NEW task, ReportedTask(task), NEW include_rag \in BOOLEAN, NEW top_k \in Nat,
           NEW output, FieldsGiven(output),
           Faithful(ContextBundle(stored, task, include_rag, top_k), output),
           task.package \notin RedactedAsText
    PROVE  ValidateClientOutput(stored, task, include_rag, top_k, output).passed
<1> DEFINE request == ContextBundle(stored, task, include_rag, top_k)
           p == Parsed(output)
<1>1. request.package = task.package
  BY DEF ContextBundle, SummaryRequest
<1>2. \A item \in Range(request.evidence) : item.text \in Seq(Words)
  BY BundleEvidence
<1> HIDE DEF request
<1>3. output.shape = "object" /\ output.well_typed /\ output.claims # <<>>
  BY DEF Faithful, request
<1>4. MutatedFields(request, output) = {}
  BY DEF Faithful, request
<1>5. /\ p.claims = output.claims /\ p.citations = output.citations
      /\ p.well_typed = output.well_typed
      /\ ClaimLanguage(p) = ClaimLanguage(output) /\ Notes(p) = Notes(output)
      /\ CitationPairs(p) = CitationPairs(output) /\ ClaimIds(p) = ClaimIds(output)
      /\ UnsafeResponse(p) <=> UnsafeResponse(output)
  BY <1>3, ParsedTexts
<1>6. MutatedFields(request, p) = {}
  <2>1. \A field \in PROTECTED_FIELDS : output[field] = request[field]
    BY <1>4 DEF MutatedFields
  <2>2. p.package = output.package
    BY <1>1, <1>3, <2>1, ParsedFields DEF PROTECTED_FIELDS
  <2>3. \A field \in PROTECTED_FIELDS \ {"package"} : p[field] = output[field]
    BY <1>3, ParsedFields DEF OUTPUT_FIELDS
  <2>4. \A field \in PROTECTED_FIELDS : p[field] = request[field]
    BY <2>1, <2>2, <2>3
  <2> QED
    BY <2>4 DEF MutatedFields
<1> HIDE DEF p
<1>7. \A claim \in Range(output.claims) :
        /\ claim.disposition = "fact" /\ claim.rationale = <<>>
        /\ \E item \in Range(request.evidence) :
             /\ claim.text = item.text /\ claim.evidence = <<item.id>>
             /\ <<claim.id, item.id>> \in CitationPairs(output)
        /\ ~ Sees(claim.text, "overconfident") /\ ~ Sees(claim.text, "unsafe")
  BY FaithfulTexts DEF request
<1>8. /\ \A text \in ClaimLanguage(output) :
           text = <<>> \/ \E claim \in Range(output.claims) : text = claim.text
      /\ \A note \in Notes(output) : note = <<>>
  BY FaithfulTexts DEF request
<1>9. ~ UnsafeResponse(output)
  <2>1. \A text \in ClaimLanguage(output) \union Notes(output) : ~ Sees(text, "unsafe")
    BY <1>7, <1>8, NothingSeen
  <2> QED
    BY <2>1 DEF UnsafeResponse, ClaimLanguage
<1>10. \A claim \in Range(output.claims) :
         /\ claim.evidence # <<>>
         /\ \A id \in Range(claim.evidence) :
              <<claim.id, id>> \in CitationPairs(output) /\ id \in EvidenceIds(request)
  <2> TAKE claim \in Range(output.claims)
  <2>1. PICK item \in Range(request.evidence) :
          claim.evidence = <<item.id>> /\ <<claim.id, item.id>> \in CitationPairs(output)
    BY <1>7
  <2>2. claim.evidence # <<>> /\ Range(claim.evidence) = {item.id}
    BY <2>1 DEF Range
  <2>3. item.id \in EvidenceIds(request)
    BY DEF EvidenceIds
  <2> QED
    BY <2>1, <2>2, <2>3
<1>11. \A citation \in Range(output.citations) :
         citation.claim \in ClaimIds(output) /\ citation.evidence \in EvidenceIds(request)
  <2> TAKE citation \in Range(output.citations)
  <2>1. PICK claim \in Range(output.claims) :
          citation.claim = claim.id /\ citation.evidence = claim.evidence[1]
    BY DEF Faithful, request
  <2>2. PICK item \in Range(request.evidence) : claim.evidence = <<item.id>>
    BY <1>7
  <2>3. citation.evidence = item.id
    BY <2>1, <2>2
  <2> QED
    BY <2>1, <2>3 DEF ClaimIds, EvidenceIds
<1>12. ~ Blocked(request, p)
  <2>1. InvalidCitationIds(request, p) = {}
    BY <1>5, <1>10, <1>11 DEF InvalidCitationIds
  <2>2. \A pair \in CitationPairs(p) : pair[1] \in ClaimIds(p)
    <3>1. \A pair \in CitationPairs(output) : pair[1] \in ClaimIds(output)
      BY <1>11 DEF CitationPairs
    <3> QED
      BY <1>5, <3>1
  <2>3. \A claim \in Range(p.claims) : claim.disposition \in REQUIRED_CLAIM_DISPOSITIONS
    BY <1>5, <1>7 DEF REQUIRED_CLAIM_DISPOSITIONS
  <2>4. UnsupportedClaims(request, p) = {}
    BY <1>5, <1>7, <1>10 DEF UnsupportedClaims
  <2> QED
    BY <1>3, <1>5, <1>6, <1>9, <2>1, <2>2, <2>3, <2>4 DEF Blocked
<1>13. AuditPassed(p)
  <2>1. UnauditedLanguage(p) = {}
    <3> SUFFICES ASSUME NEW text \in ClaimLanguage(output), HasFactualOrActionSignal(text)
                 PROVE  SupportedByConcreteClaim(text, output.claims)
      BY <1>3, <1>5 DEF UnauditedLanguage
    <3>1. text # <<>>
      BY NothingSeen DEF HasFactualOrActionSignal, HasActionSignal
    <3>2. PICK claim \in Range(output.claims) : text = claim.text
      BY <1>8, <3>1
    <3>3. text \in Seq(Words)
      BY <1>2, <1>7, <3>2
    <3>4. ContainsText(claim.text, text)
      BY <3>2, <3>3, PartOfItself
    <3>5. Concrete(claim) /\ claim.evidence # <<>> /\ claim.text # <<>>
      BY <1>7, <1>10, <3>1, <3>2 DEF Concrete, AuditedDisposition, CONCRETE_DISPOSITIONS
    <3> QED
      BY <3>1, <3>4, <3>5 DEF SupportedByConcreteClaim
  <2>2. OverconfidentLanguage(p) = {}
    BY <1>5, <1>7, <1>8, NothingSeen DEF OverconfidentLanguage
  <2>3. BlockedClaims(p) = {}
    <3>1. \A claim \in Range(output.claims) : AuditedDisposition(claim) # "unsupported"
      BY <1>7 DEF AuditedDisposition, CONCRETE_DISPOSITIONS
    <3> QED
      BY <1>5, <1>10, <3>1 DEF BlockedClaims
  <2> QED
    BY <1>5, <1>9, <2>1, <2>2, <2>3 DEF AuditPassed
<1> QED
  BY <1>3, <1>9, <1>12, <1>13, VerdictPasses DEF FieldsGiven, request, p

\* But not if the package it copies is redacted as text.
LEMMA CopiedIsBlocked ==
    ASSUME NEW stored, NEW task, NEW include_rag, NEW top_k,
           NEW output, FieldsGiven(output),
           Faithful(ContextBundle(stored, task, include_rag, top_k), output),
           task.package \in RedactedAsText
    PROVE  ~ ValidateClientOutput(stored, task, include_rag, top_k, output).passed
<1> DEFINE request == ContextBundle(stored, task, include_rag, top_k)
           p == Parsed(output)
<1>1. output.shape = "object" /\ MutatedFields(request, output) = {}
  BY DEF Faithful
<1>2. request.package = task.package
  BY DEF ContextBundle, SummaryRequest
<1> HIDE DEF request
<1>3. output.package = task.package
  <2>1. output["package"] = request["package"]
    BY <1>1 DEF MutatedFields, PROTECTED_FIELDS
  <2> QED
    BY <1>2, <2>1
<1>4. p.package = Redacted
  BY <1>1, <1>3, ParsedFields
<1> HIDE DEF p
<1>5. p["package"] # request["package"]
  BY <1>2, <1>4, RedactedAssumption
<1>6. Blocked(request, p)
  BY <1>5 DEF Blocked, MutatedFields, PROTECTED_FIELDS
<1> QED
  BY <1>6, VerdictPasses DEF FieldsGiven, request, p

-----------------------------------------------------------------------------
(* Bundles and verdicts stay right: what they were made from is still there *)

\* The line is one that the tools of an AI may be called with.
CalledRight(l) ==
    l.kind = "call" /\ l.tool \in AI_TOOLS =>
      /\ l.scan \in ScanIds /\ l.include_rag \in BOOLEAN /\ l.top_k \in TopKs
      /\ l.tool = "validate_ai_output" => FieldsGiven(l.output)

Asked(scan_id, task_id, include_rag, top_k) ==
    /\ scan_id \in ScanIds /\ include_rag \in BOOLEAN /\ top_k \in TopKs
    /\ Found(scan_id, task_id)

\* What was answered about a finding would be answered again.
AnsweredRight(result) ==
    /\ result.kind = "bundle" =>
         /\ Asked(result.scan, result.task, result.include_rag, result.top_k)
         /\ result.request = ContextBundle(files[result.scan], FindTask(result.scan, result.task),
                                           result.include_rag, result.top_k)
    /\ result.kind = "verdict" =>
         LET l == result.about
         IN /\ Asked(l.scan, l.task, l.include_rag, l.top_k) /\ FieldsGiven(l.output)
            /\ result.verdict = ValidateClientOutput(files[l.scan], FindTask(l.scan, l.task),
                                  l.include_rag, l.top_k, l.output)

AnswersRight ==
    /\ \A s \in Servers : pc[s] = "handling" => CalledRight(line[s])
    /\ \A s \in Servers : \A answer \in Range(outbox[s]) : AnsweredRight(answer.result)

\* A finding that is asked about is a task of the report.
LEMMA FoundTask ==
    ASSUME IInv, NEW scan_id \in ScanIds, NEW task_id, Found(scan_id, task_id)
    PROVE  /\ Readable(scan_id) /\ files[scan_id].scan = scan_id
           /\ files[scan_id].tasks \in Scanned
           /\ files[scan_id] = [scan |-> scan_id, tasks |-> files[scan_id].tasks]
           /\ files[scan_id].tasks \in Seq(Range(files[scan_id].tasks))
           /\ \A task \in Range(files[scan_id].tasks) : ReportedTask(task)
           /\ FindTask(scan_id, task_id) \in Range(files[scan_id].tasks)
           /\ FindTask(scan_id, task_id).id = task_id
<1> DEFINE stored == files[scan_id]
           tasks == stored.tasks
           places == {i \in 1 .. Len(tasks) : tasks[i].id = task_id}
<1>1. Readable(scan_id) /\ stored \in Reports /\ stored.scan = scan_id
  BY DEF Found, Readable, IInv, FilesOwned
<1>2. tasks \in Scanned /\ stored = [scan |-> scan_id, tasks |-> tasks]
  BY <1>1 DEF Reports
<1>3. tasks \in Seq(Range(tasks)) /\ \A task \in Range(tasks) : ReportedTask(task)
  BY <1>2, ScannedAssumption DEF ReportedTask
<1>4. \E task \in Range(tasks) : task.id = task_id
  BY DEF Found
<1>5. FindTask(scan_id, task_id) = tasks[IF places # {} THEN Min(places) ELSE 0]
  BY DEF FindTask, SelectInSeq
<1> HIDE DEF tasks, stored
<1>6. Len(tasks) \in Nat /\ DOMAIN tasks = 1 .. Len(tasks)
  BY <1>3, LenProperties
<1>7. places # {} /\ places \in SUBSET Nat
  BY <1>4, <1>6 DEF Range
<1>8. Min(places) \in places
  <2> HIDE DEF places
  <2>1. \E j \in places : \A k \in places : j <= k
    BY <1>7, LeastNatural
  <2> QED
    BY <2>1 DEF Min
<1>9. Min(places) \in DOMAIN tasks /\ tasks[Min(places)].id = task_id
  BY <1>6, <1>8
<1>10. tasks[Min(places)] \in Range(tasks)
  BY <1>9 DEF Range
<1>11. FindTask(scan_id, task_id) = tasks[Min(places)]
  BY <1>5, <1>7
<1> HIDE DEF places
<1> QED
  BY <1>1, <1>2, <1>3, <1>9, <1>10, <1>11 DEF stored, tasks

\* An answer stays right, as reports stay.
LEMMA RightStays ==
    ASSUME IInv, [Next]_vars, NEW result, AnsweredRight(result)
    PROVE  AnsweredRight(result)'
<1>1. ASSUME NEW scan_id, NEW task_id, NEW include_rag, NEW top_k,
             Asked(scan_id, task_id, include_rag, top_k)
      PROVE  /\ Asked(scan_id, task_id, include_rag, top_k)'
             /\ files'[scan_id] = files[scan_id]
             /\ FindTask(scan_id, task_id)' = FindTask(scan_id, task_id)
  <2>1. scan_id \in ScanIds /\ Readable(scan_id)
    BY <1>1 DEF Asked, Found
  <2>2. Readable(scan_id)' /\ files'[scan_id] = files[scan_id]
    BY <2>1, StoredReportsStay
  <2>3. Found(scan_id, task_id)'
    BY <1>1, <2>2 DEF Asked, Found
  <2>4. FindTask(scan_id, task_id)' = FindTask(scan_id, task_id)
    BY <2>2 DEF FindTask, SelectInSeq
  <2> QED
    BY <1>1, <2>2, <2>3, <2>4 DEF Asked
<1>2. CASE result.kind = "bundle"
  <2>1. /\ Asked(result.scan, result.task, result.include_rag, result.top_k)
        /\ result.request = ContextBundle(files[result.scan], FindTask(result.scan, result.task),
                                          result.include_rag, result.top_k)
    BY <1>2 DEF AnsweredRight
  <2>2. /\ Asked(result.scan, result.task, result.include_rag, result.top_k)'
        /\ files'[result.scan] = files[result.scan]
        /\ FindTask(result.scan, result.task)' = FindTask(result.scan, result.task)
    BY <1>1, <2>1
  <2> QED
    BY <1>2, <2>1, <2>2 DEF AnsweredRight
<1>3. CASE result.kind = "verdict"
  <2> DEFINE l == result.about
  <2>1. /\ Asked(l.scan, l.task, l.include_rag, l.top_k) /\ FieldsGiven(l.output)
        /\ result.verdict = ValidateClientOutput(files[l.scan], FindTask(l.scan, l.task),
                              l.include_rag, l.top_k, l.output)
    BY <1>3 DEF AnsweredRight
  <2>2. /\ Asked(l.scan, l.task, l.include_rag, l.top_k)'
        /\ files'[l.scan] = files[l.scan]
        /\ FindTask(l.scan, l.task)' = FindTask(l.scan, l.task)
    BY <1>1, <2>1
  <2> QED
    BY <1>3, <2>1, <2>2 DEF AnsweredRight
<1>4. CASE result.kind \notin {"bundle", "verdict"}
  BY <1>4 DEF AnsweredRight
<1> QED
  BY <1>2, <1>3, <1>4

\* The reply to a bundle that was right is one that may be checked.
LEMMA LinesRight ==
    ASSUME IInv, AnswersRight, NEW l \in Lines \union OutputLines
    PROVE  CalledRight(l)
<1>1. CASE l \in Lines
  BY <1>1, ToolsAssumption DEF CalledRight, AI_TOOLS
<1>2. CASE l \in OutputLines
  <2> DEFINE Request(bundle, output, include_rag, top_k) ==
               [id |-> "r1", kind |-> "call", tool |-> "validate_ai_output", scan |-> bundle.scan,
                task |-> bundle.task, include_rag |-> include_rag, top_k |-> top_k,
                output |-> output]
  <2>0. PICK bundle \in ResultsOf("bundle") :
          \E output \in Replies(bundle.request), include_rag \in BOOLEAN, top_k \in TopKs :
            l = Request(bundle, output, include_rag, top_k)
    BY <1>2 DEF OutputLines
  <2>1. PICK output \in Replies(bundle.request), include_rag \in BOOLEAN, top_k \in TopKs :
          l = Request(bundle, output, include_rag, top_k)
    BY <2>0
  <2>2. PICK s \in Servers : \E answer \in Range(outbox[s]) : bundle = answer.result
    BY DEF ResultsOf, Results
  <2>3. bundle.kind = "bundle" /\ AnsweredRight(bundle)
    BY <2>2 DEF ResultsOf, AnswersRight
  <2>4. /\ Asked(bundle.scan, bundle.task, bundle.include_rag, bundle.top_k)
        /\ bundle.request = ContextBundle(files[bundle.scan], FindTask(bundle.scan, bundle.task),
                                          bundle.include_rag, bundle.top_k)
    BY <2>3 DEF AnsweredRight
  <2> DEFINE tasks == files[bundle.scan].tasks
             task == FindTask(bundle.scan, bundle.task)
  <2>5. /\ bundle.scan \in ScanIds /\ tasks \in Scanned /\ task \in Range(tasks)
        /\ files[bundle.scan] = [scan |-> bundle.scan, tasks |-> tasks]
        /\ bundle.include_rag \in BOOLEAN /\ bundle.top_k \in TopKs
    BY <2>4, FoundTask DEF Asked
  <2>6. FieldsGiven(output)
    <3> HIDE DEF task, tasks
    <3>1. bundle.request = ContextBundle([scan |-> bundle.scan, tasks |-> tasks], task,
                                         bundle.include_rag, bundle.top_k)
      BY <2>4, <2>5 DEF task
    <3> QED
      BY <2>5, <3>1, RepliesAssumption
  <2> QED
    BY <2>1, <2>5, <2>6 DEF CalledRight
<1> QED
  BY <1>1, <1>2

\* What a step answers is right.
LEMMA AnswerIsRight ==
    ASSUME AnswersRight, NEW s \in Servers, Work(s), NEW u \in Servers,
           DOMAIN outbox = Servers, Sequence(outbox[s]), outbox'[u] # outbox[u]
    PROVE  /\ u = s /\ UNCHANGED files
           /\ \E result : /\ AnsweredRight(result)
                          /\ \A a \in Range(outbox'[s]) :
                               a \in Range(outbox[s]) \/ a.result = result
<1>1. ASSUME NEW result, Answer(s, result)
      PROVE  /\ u = s
             /\ \A a \in Range(outbox'[s]) : a \in Range(outbox[s]) \/ a.result = result
  <2> DEFINE answer == [id |-> PublicId(line[s].id), result |-> result]
  <2>1. outbox' = [outbox EXCEPT ![s] = Append(@, answer)] /\ answer.result = result
    BY <1>1 DEF Answer
  <2> HIDE DEF answer
  <2>2. u = s /\ outbox'[s] = Append(outbox[s], answer)
    BY <2>1
  <2>3. Range(outbox'[s]) = Range(outbox[s]) \union {answer}
    BY <2>2, AppendToSequence
  <2> QED
    BY <2>1, <2>2, <2>3
<1> DEFINE Kind(kind) == [kind |-> kind]
<1>2. CASE AnswerPlainly(s)
  <2>1. Answer(s, Kind("plain")) /\ UNCHANGED files /\ AnsweredRight(Kind("plain"))
    BY <1>2 DEF AnswerPlainly, AnsweredRight
  <2> QED
    BY <1>1, <2>1
<1>3. CASE ToolError(s) \/ InternalError(s) \/ SaveFails(s)
  <2>1. Answer(s, Kind("error")) /\ UNCHANGED files /\ AnsweredRight(Kind("error"))
    BY <1>3 DEF ToolError, InternalError, SaveFails, AnsweredRight
  <2> QED
    BY <1>1, <2>1
<1>4. CASE AnswerScan(s)
  <2> DEFINE result == [kind |-> "scan", scan |-> report[s].scan, tasks |-> report[s].tasks]
  <2>1. Answer(s, result) /\ UNCHANGED files /\ result.kind = "scan"
    BY <1>4 DEF AnswerScan
  <2> HIDE DEF result
  <2> QED
    BY <1>1, <2>1 DEF AnsweredRight
<1>5. CASE ReadReport(s)
  <2> DEFINE result == [kind |-> "report", scan |-> line[s].scan, content |-> files[line[s].scan]]
  <2>1. Answer(s, result) /\ UNCHANGED files /\ result.kind = "report"
    BY <1>5 DEF ReadReport
  <2> HIDE DEF result
  <2> QED
    BY <1>1, <2>1 DEF AnsweredRight
<1>6. CASE GetAIContextBundle(s)
  <2> DEFINE l == line[s]
             request == ContextBundle(files[l.scan], FindTask(l.scan, l.task), l.include_rag, l.top_k)
             result == [kind |-> "bundle", scan |-> l.scan, task |-> l.task,
                        include_rag |-> l.include_rag, top_k |-> l.top_k, request |-> request]
  <2>1. /\ pc[s] = "handling" /\ l.kind = "call" /\ l.tool = "get_ai_context_bundle"
        /\ Found(l.scan, l.task) /\ Answer(s, result) /\ UNCHANGED files
    BY <1>6 DEF GetAIContextBundle, Handles
  <2>2. Asked(l.scan, l.task, l.include_rag, l.top_k)
    BY <2>1 DEF AnswersRight, CalledRight, AI_TOOLS, Asked
  <2> HIDE DEF request
  <2>3. /\ result.kind = "bundle" /\ result.scan = l.scan /\ result.task = l.task
        /\ result.include_rag = l.include_rag /\ result.top_k = l.top_k
        /\ result.request = request
    OBVIOUS
  <2> HIDE DEF result
  <2>4. AnsweredRight(result)
    BY <2>2, <2>3 DEF AnsweredRight, request
  <2> QED
    BY <1>1, <2>1, <2>4
<1>7. CASE ValidateAIOutput(s)
  <2> DEFINE l == line[s]
             verdict == ValidateClientOutput(files[l.scan], FindTask(l.scan, l.task),
                                             l.include_rag, l.top_k, l.output)
             result == [kind |-> "verdict", about |-> l, verdict |-> verdict]
  <2>1. /\ pc[s] = "handling" /\ l.kind = "call" /\ l.tool = "validate_ai_output"
        /\ Found(l.scan, l.task) /\ Answer(s, result) /\ UNCHANGED files
    BY <1>7 DEF ValidateAIOutput, Handles
  <2>2. Asked(l.scan, l.task, l.include_rag, l.top_k) /\ FieldsGiven(l.output)
    BY <2>1 DEF AnswersRight, CalledRight, AI_TOOLS, Asked
  <2> HIDE DEF verdict
  <2>3. result.kind = "verdict" /\ result.about = l /\ result.verdict = verdict
    OBVIOUS
  <2> HIDE DEF result
  <2>4. AnsweredRight(result)
    BY <2>2, <2>3 DEF AnsweredRight, verdict
  <2> QED
    BY <1>1, <2>1, <2>4
<1>8. CASE Ignore(s) \/ ScanRepo(s) \/ FinishSave(s)
  BY <1>8 DEF Ignore, ScanRepo, FinishSave
<1> QED
  BY <1>2, <1>3, <1>4, <1>5, <1>6, <1>7, <1>8 DEF Work

LEMMA NextRight == IInv /\ AnswersRight /\ [Next]_vars => AnswersRight'
<1> SUFFICES ASSUME IInv, AnswersRight, [Next]_vars
             PROVE  AnswersRight'
  OBVIOUS
<1>0. /\ DOMAIN pc = Servers /\ DOMAIN line = Servers /\ DOMAIN outbox = Servers
      /\ \A s \in Servers : Sequence(outbox[s])
  BY DEF IInv, AnswersCounted
<1>1. ASSUME NEW u \in Servers, pc'[u] = "handling"
      PROVE  CalledRight(line[u])'
  <2>1. CASE \E s \in Servers : ReadLine(s)
    <3>1. PICK s \in Servers, l \in Lines \union OutputLines :
            /\ line' = [line EXCEPT ![s] = l]
            /\ pc' = [pc EXCEPT ![s] = "handling"]
      BY <2>1 DEF ReadLine
    <3>2. CASE u = s
      <4>1. line'[u] = l
        BY <1>0, <3>1, <3>2
      <4> QED
        BY <4>1, LinesRight DEF CalledRight
    <3>3. CASE u # s
      <4>1. pc'[u] = pc[u] /\ line'[u] = line[u]
        BY <1>0, <3>1, <3>3
      <4> QED
        BY <1>1, <4>1 DEF AnswersRight, CalledRight
    <3> QED
      BY <3>2, <3>3
  <2>2. CASE line' = line /\ pc[u] = "handling"
    BY <2>2 DEF AnswersRight, CalledRight
  <2>3. \/ \E s \in Servers : ReadLine(s)
        \/ line' = line /\ pc[u] = "handling"
    <3>1. CASE \E s \in Servers : ReadLine(s)
      BY <3>1
    <3>2. CASE \E s \in Servers : Work(s) \/ Crash(s)
      <4>1. PICK s \in Servers : Work(s) \/ Crash(s)
        BY <3>2
      <4>2. /\ line' = line
            /\ \E state \in {"idle", "saving", "saved", "down"} :
                 pc' = [pc EXCEPT ![s] = state]
        BY <4>1 DEF Work, Crash, Ignore, AnswerPlainly, ToolError, InternalError, ScanRepo,
                    FinishSave, SaveFails, AnswerScan, ReadReport, GetAIContextBundle,
                    ValidateAIOutput, Answer
      <4> QED
        BY <1>0, <1>1, <4>2
    <3>3. CASE UNCHANGED <<pc, line>>
      BY <1>1, <3>3
    <3>4. UNCHANGED <<pc, line>> \/ \E s \in Servers : ReadLine(s) \/ Work(s) \/ Crash(s)
      BY DEF Next, vars, Summarize
    <3> QED
      BY <3>1, <3>2, <3>3, <3>4
  <2> QED
    BY <2>1, <2>2, <2>3
<1>2. ASSUME NEW u \in Servers, NEW a \in Range(outbox'[u])
      PROVE  AnsweredRight(a.result)'
  <2>1. \/ a \in Range(outbox[u])
        \/ \E result : AnsweredRight(result) /\ a.result = result
    <3>1. CASE outbox'[u] = outbox[u]
      BY <3>1
    <3>2. CASE outbox'[u] # outbox[u]
      <4>1. PICK s \in Servers : Work(s)
        BY <3>2 DEF Next, vars, ReadLine, Crash, Summarize
      <4> QED
        BY <1>0, <3>2, <4>1, AnswerIsRight
    <3> QED
      BY <3>1, <3>2
  <2>2. AnsweredRight(a.result)
    BY <2>1 DEF AnswersRight
  <2> QED
    BY <2>2, RightStays
<1> QED
  BY <1>1, <1>2 DEF AnswersRight

LEMMA RightHolds == Spec => [](IInv /\ AnswersRight)
<1>1. Init => AnswersRight
  BY EmptySequence DEF Init, AnswersRight
<1> QED
  BY <1>1, NextRight, InvariantHolds, PTL DEF Spec

LEMMA VerdictFacts ==
    ASSUME IInv, AnswersRight, NEW result \in ResultsOf("verdict")
    PROVE  LET l == result.about
           IN /\ l.scan \in ScanIds /\ l.include_rag \in BOOLEAN /\ l.top_k \in Nat
              /\ FieldsGiven(l.output) /\ Found(l.scan, l.task)
              /\ result.verdict = ValidateClientOutput(files[l.scan], FindTask(l.scan, l.task),
                                    l.include_rag, l.top_k, l.output)
<1>1. PICK s \in Servers : \E answer \in Range(outbox[s]) : result = answer.result
  BY DEF ResultsOf, Results
<1>2. result.kind = "verdict" /\ AnsweredRight(result)
  BY <1>1 DEF ResultsOf, AnswersRight
<1> QED
  BY <1>2, ToolsAssumption DEF AnsweredRight, Asked

\* validate_client_ai_output: whatever an AI of the client sends, and whichever
\* process checks it, what passes changes nothing of the finding on disk, and says
\* and asks nothing without the finding's evidence.
THEOREM PassedOutputsGrounded == Spec => []AcceptedOutputsGrounded
<1>1. ASSUME IInv, AnswersRight
      PROVE  AcceptedOutputsGrounded
  <2> SUFFICES ASSUME NEW result \in ResultsOf("verdict"), result.verdict.passed
               PROVE  GroundedIn(files[result.about.scan],
                                 FindTask(result.about.scan, result.about.task),
                                 result.about.output)
    BY DEF AcceptedOutputsGrounded
  <2> DEFINE l == result.about
             stored == files[l.scan]
             task == FindTask(l.scan, l.task)
  <2>1. /\ l.scan \in ScanIds /\ l.include_rag \in BOOLEAN /\ l.top_k \in Nat
        /\ FieldsGiven(l.output) /\ Found(l.scan, l.task)
        /\ ValidateClientOutput(stored, task, l.include_rag, l.top_k, l.output).passed
    BY <1>1, VerdictFacts
  <2>2. /\ stored.tasks \in Seq(Range(stored.tasks))
        /\ \A reported \in Range(stored.tasks) : ReportedTask(reported)
        /\ ReportedTask(task)
    BY <1>1, <2>1, FoundTask
  <2> QED
    BY <2>1, <2>2, PassedIsGrounded
<1> QED
  BY <1>1, RightHolds, PTL

\* get_ai_context_bundle and validate_ai_output: a bundle is made again when an
\* answer to it is checked, perhaps by another process and after other scans, and
\* what keeps to the bundle passes unless its package is redacted as text, and only
\* then: such a name cannot be copied.
THEOREM FaithfulOutputsPass == Spec => []FaithfulOutputsAccepted
<1>1. ASSUME IInv, AnswersRight
      PROVE  FaithfulOutputsAccepted
  <2> SUFFICES ASSUME NEW result \in ResultsOf("verdict"), NEW bundle \in ResultsOf("bundle"),
                      AnswersToBundle(result, bundle)
               PROVE  result.verdict.passed <=> bundle.request.package \notin RedactedAsText
    BY DEF FaithfulOutputsAccepted
  <2> DEFINE l == result.about
             stored == files[l.scan]
             task == FindTask(l.scan, l.task)
             request == ContextBundle(stored, task, l.include_rag, l.top_k)
  <2>1. /\ l.scan \in ScanIds /\ l.include_rag \in BOOLEAN /\ l.top_k \in Nat
        /\ FieldsGiven(l.output) /\ Found(l.scan, l.task)
        /\ result.verdict = ValidateClientOutput(stored, task, l.include_rag, l.top_k, l.output)
    BY <1>1, VerdictFacts
  <2>2. /\ stored.tasks \in Seq(Range(stored.tasks))
        /\ \A reported \in Range(stored.tasks) : ReportedTask(reported)
        /\ ReportedTask(task)
    BY <1>1, <2>1, FoundTask
  <2>3. bundle.request = request
    <3>1. PICK s \in Servers : \E answer \in Range(outbox[s]) : bundle = answer.result
      BY DEF ResultsOf, Results
    <3>2. bundle.kind = "bundle" /\ AnsweredRight(bundle)
      BY <1>1, <3>1 DEF ResultsOf, AnswersRight
    <3>3. bundle.request = ContextBundle(files[bundle.scan], FindTask(bundle.scan, bundle.task),
                                         bundle.include_rag, bundle.top_k)
      BY <3>2 DEF AnsweredRight
    <3> QED
      BY <3>3 DEF AnswersToBundle
  <2>4. Faithful(request, l.output)
    BY <2>3 DEF AnswersToBundle
  <2>5. bundle.request.package = task.package
    <3>1. request.package = task.package
      BY DEF ContextBundle, SummaryRequest
    <3> QED
      BY <2>3, <3>1
  <2>6. task.package \notin RedactedAsText => result.verdict.passed
    BY <2>1, <2>2, <2>4, FaithfulPasses
  <2>7. task.package \in RedactedAsText => ~ result.verdict.passed
    BY <2>1, <2>4, CopiedIsBlocked
  <2> QED
    BY <2>5, <2>6, <2>7
<1> QED
  BY <1>1, RightHolds, PTL
=============================================================================
