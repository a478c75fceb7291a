----------------------------- MODULE ReportTools -----------------------------
(***************************************************************************)
(* The MCP server (mcp/stdio_server.py, mcp/handlers.py): processes that   *)
(* answer requests, one line at a time, over reports in a directory they   *)
(* share.  A client sends them requests and lets an AI answer questions    *)
(* about findings; a summary of a finding may also be asked of an AI       *)
(* provider.  A process may end at any moment; its client then uses        *)
(* another.  How the fields of a report are laid out in an answer is left  *)
(* out: the tools that only read answer with the report.                   *)
(***************************************************************************)
EXTENDS ReportStore, ClientAI, AISummary

CONSTANTS
    Servers,
    Scanned,         \* the tasks a scan may find, a set of sequences
    Lines,           \* what a client sends besides outputs of its AI
    Replies(_),      \* what an AI may answer to a request
    TopKs,           \* the numbers of chunks a client may ask for
    NoId, None,
    RedactedIds,     \* request ids that are not repeated in public
    MaxCalls         \* bound on the requests of a behaviour

\* A line is [id, kind, tool, scan, task, include_rag, top_k, output].  Its kind
\* is "not_json", "not_object", "no_method", "plain" (a request that names no
\* tool, or names it wrongly) or "call".
READING_TOOLS == {"get_finding", "validate_report"}

AI_TOOLS == {"get_ai_context_bundle", "validate_ai_output"}

ASSUME ToolsAssumption ==
    /\ MaxCalls \in Nat
    /\ \A line \in Lines :
         /\ line.kind \in {"not_json", "not_object", "no_method", "plain", "call"}
         /\ line.kind \in {"not_json", "not_object"} => line.id = NoId
         /\ line.kind = "call" /\ line.tool \in READING_TOOLS \union AI_TOOLS =>
              line.scan \in ScanIds
         /\ line.kind = "call" /\ line.tool \in AI_TOOLS =>
              line.include_rag \in BOOLEAN /\ line.top_k \in TopKs
         /\ line.kind = "call" /\ line.tool = "validate_ai_output" => FieldsGiven(line.output)
    /\ TopKs \subseteq Nat

\* A report is told from what is no report.
ASSUME ReportsAssumption ==
    \A scan_id \in ScanIds, tasks \in Scanned :
      [scan |-> scan_id, tasks |-> tasks] \notin {Absent, Half}

\* The texts of a report are sequences of words.
ASSUME ScannedAssumption ==
    \A tasks \in Scanned :
      /\ tasks \in Seq(Range(tasks))
      /\ \A task \in Range(tasks) :
           /\ {task.package, task.vulnerability, task.priority} \subseteq Words
           /\ task.evidence \in Seq(Seq(Words))

\* Whatever an AI answers to a bundle, it parses only with all fields.
ASSUME RepliesAssumption ==
    \A scan_id \in ScanIds, tasks \in Scanned, include_rag \in BOOLEAN, top_k \in TopKs :
      \A task \in Range(tasks) :
        LET scanned == [scan |-> scan_id, tasks |-> tasks]
        IN \A output \in Replies(ContextBundle(scanned, task, include_rag, top_k)) :
             FieldsGiven(output)

VARIABLES
    pc,              \* "idle", "handling", "saving", "saved" or "down"
    line,            \* the line each server handles
    report,          \* the report it saves
    consumed,        \* history: the lines each server has read
    outbox,          \* the answers it has written, [id, result]
    shown,           \* the summary just shown and what it is about, or None
    calls            \* requests so far

vars == <<files, pc, line, report, consumed, outbox, shown, calls>>

Results == UNION {{answer.result : answer \in Range(outbox[s])} : s \in Servers}

ResultsOf(kind) == {result \in Results : result.kind = kind}

\* public_response_id
PublicId(id) == IF id = NoId THEN None ELSE IF id \in RedactedIds THEN "redacted" ELSE id

\* handle_message: what is no request is refused even without an id.
WantsAnswer(l) == l.kind \in {"not_json", "not_object", "no_method"} \/ l.id # NoId

\* Mutant: an answer is written twice.
AnsweredTwice(s, result) ==
    /\ LET answer == [id |-> PublicId(line[s].id), result |-> result]
       IN outbox' = [outbox EXCEPT ![s] = @ \o <<answer, answer>>]
    /\ pc' = [pc EXCEPT ![s] = "idle"]
    /\ UNCHANGED <<line, report, consumed, shown, calls>>

\* The answer is written under the id of the request.
Answer(s, result) ==
    /\ outbox' = [outbox EXCEPT ![s] = Append(@, [id |-> PublicId(line[s].id), result |-> result])]
    /\ pc' = [pc EXCEPT ![s] = "idle"]
    /\ UNCHANGED <<line, report, consumed, shown, calls>>

Handles(s, tool) ==
    pc[s] = "handling" /\ line[s].kind = "call" /\ line[s].id # NoId /\ line[s].tool = tool

\* The request of a client whose AI answers to a bundle it got, from any server.
OutputLines ==
    UNION {{[id |-> "r1", kind |-> "call", tool |-> "validate_ai_output", scan |-> bundle.scan,
             task |-> bundle.task, include_rag |-> include_rag, top_k |-> top_k,
             output |-> output] :
              output \in Replies(bundle.request), include_rag \in BOOLEAN, top_k \in TopKs} :
           bundle \in ResultsOf("bundle")}

\* run_stdio_server takes the next line.
ReadLine(s) ==
    /\ pc[s] = "idle"
    /\ calls < MaxCalls
    /\ \E l \in Lines \union OutputLines :
         /\ line' = [line EXCEPT ![s] = l]
         /\ consumed' = [consumed EXCEPT ![s] = Append(@, l)]
    /\ pc' = [pc EXCEPT ![s] = "handling"]
    /\ calls' = calls + 1
    /\ shown' = None
    /\ UNCHANGED <<files, report, outbox>>

\* Mutant: a notification is taken for a request.
NotificationAnswered(s) ==
    /\ pc[s] = "handling"
    /\ ~ WantsAnswer(line[s])
    /\ Answer(s, [kind |-> "plain"])
    /\ UNCHANGED files

\* Mutant: after a notification the server waits for something to answer.
NotificationAwaited(s) ==
    /\ pc[s] = "handling"
    /\ ~ WantsAnswer(line[s])
    /\ UNCHANGED vars

\* _handle_notification: nothing is done and nothing is answered.
Ignore(s) ==
    /\ pc[s] = "handling"
    /\ ~ WantsAnswer(line[s])
    /\ pc' = [pc EXCEPT ![s] = "idle"]
    /\ UNCHANGED <<files, line, report, consumed, outbox, shown, calls>>

\* What handle_message and response_for_line answer without calling a tool.
AnswerPlainly(s) ==
    /\ pc[s] = "handling"
    /\ line[s].kind # "call"
    /\ WantsAnswer(line[s])
    /\ Answer(s, [kind |-> "plain"])
    /\ UNCHANGED files

\* A tool refuses its input, or fails in a way it expects: the client is told.
ToolError(s) ==
    /\ \E tool \in {"scan_repo"} \union READING_TOOLS \union AI_TOOLS : Handles(s, tool)
    /\ Answer(s, [kind |-> "error"])
    /\ UNCHANGED files

\* Any other exception of a tool.
InternalError(s) ==
    /\ pc[s] \in {"handling", "saving", "saved"}
    /\ line[s].kind = "call" /\ WantsAnswer(line[s])
    /\ Answer(s, [kind |-> "error"])
    /\ UNCHANGED files

\* Scan ids are random: no two scans get the same.
Unused == {scan_id \in ScanIds : files[scan_id] = Absent}

\* _scan_path: a scan ends, under an id of its own, and save begins.
ScanRepo(s) ==
    /\ Handles(s, "scan_repo")
    /\ Unused # {}
    /\ LET scan_id == CHOOSE scan_id \in Unused : TRUE
       IN /\ OpenForWriting(scan_id)
          /\ \E tasks \in Scanned :
               report' = [report EXCEPT ![s] = [scan |-> scan_id, tasks |-> tasks]]
    /\ pc' = [pc EXCEPT ![s] = "saving"]
    /\ UNCHANGED <<line, consumed, outbox, shown, calls>>

FinishSave(s) ==
    /\ pc[s] = "saving"
    /\ Write(report[s])
    /\ pc' = [pc EXCEPT ![s] = "saved"]
    /\ UNCHANGED <<line, report, consumed, outbox, shown, calls>>

\* Mutant: the error is swallowed.
SaveFailsSilently(s) ==
    /\ pc[s] = "saving"
    /\ Answer(s, [kind |-> "scan", scan |-> report[s].scan, tasks |-> report[s].tasks])
    /\ UNCHANGED files

\* An OSError after the file was opened: half a report stays behind.
SaveFails(s) ==
    /\ pc[s] = "saving"
    /\ Answer(s, [kind |-> "error"])
    /\ UNCHANGED files

AnswerScan(s) ==
    /\ pc[s] = "saved"
    /\ Answer(s, [kind |-> "scan", scan |-> report[s].scan, tasks |-> report[s].tasks])
    /\ UNCHANGED files

\* _load_report and find_task: the first task with the id.
Found(scan_id, task_id) ==
    Readable(scan_id) /\ \E task \in Range(files[scan_id].tasks) : task.id = task_id

FindTask(scan_id, task_id) ==
    LET tasks == files[scan_id].tasks
    IN tasks[SelectInSeq(tasks, LAMBDA task : task.id = task_id)]

\* The tools that only read a report.
ReadReport(s) ==
    /\ \E tool \in READING_TOOLS : Handles(s, tool)
    /\ Readable(line[s].scan)
    /\ line[s].tool = "get_finding" => Found(line[s].scan, line[s].task)
    /\ Answer(s, [kind |-> "report", scan |-> line[s].scan, content |-> files[line[s].scan]])
    /\ UNCHANGED files

GetAIContextBundle(s) ==
    LET l == line[s]
    IN /\ Handles(s, "get_ai_context_bundle")
       /\ Found(l.scan, l.task)
       /\ LET task == FindTask(l.scan, l.task)
          IN /\ ValidRequest(ContextBundle(files[l.scan], task, l.include_rag, l.top_k))
             /\ Answer(s, [kind |-> "bundle", scan |-> l.scan, task |-> l.task,
                           include_rag |-> l.include_rag, top_k |-> l.top_k,
                           request |-> ContextBundle(files[l.scan], task, l.include_rag, l.top_k)])
       /\ UNCHANGED files

ValidateAIOutput(s) ==
    LET l == line[s]
    IN /\ Handles(s, "validate_ai_output")
       /\ Found(l.scan, l.task)
       /\ Answer(s, [kind |-> "verdict", about |-> l,
                     verdict |-> ValidateClientOutput(files[l.scan], FindTask(l.scan, l.task),
                                   l.include_rag, l.top_k, l.output)])
       /\ UNCHANGED files

\* The process ends, also where run_stdio_server catches nothing.  One that ends
\* between requests is one that gets no more of them.
Crash(s) ==
    /\ pc[s] \in {"handling", "saving", "saved"}
    /\ pc' = [pc EXCEPT ![s] = "down"]
    /\ UNCHANGED <<files, line, report, consumed, outbox, shown, calls>>

\* AISummaryService asks a provider about a finding of a stored report, with the
\* evidence of that finding or of the whole report.
Summarize(scan_id) ==
    /\ calls < MaxCalls
    /\ Readable(scan_id)
    /\ \E index \in DOMAIN files[scan_id].tasks, top_k \in TopKs :
         \E chunks \in {ChunksFromReport(files[scan_id]), TaskChunks(files[scan_id], index)} :
           LET task == files[scan_id].tasks[index]
               request == SummaryRequest(task, RetrievedForTask(task, chunks, top_k))
           IN \E candidate \in Replies(request) \union {MockAnswer(request), Failed} :
                shown' = [scan |-> scan_id, index |-> index, evidence |-> EvidenceIds(request),
                          response |-> Shown(request, candidate)]
    /\ calls' = calls + 1
    /\ UNCHANGED <<files, pc, line, report, consumed, outbox>>

Init ==
    /\ InitStore
    /\ pc = [s \in Servers |-> "idle"]
    /\ line = [s \in Servers |-> None]
    /\ report = [s \in Servers |-> None]
    /\ consumed = [s \in Servers |-> <<>>]
    /\ outbox = [s \in Servers |-> <<>>]
    /\ shown = None
    /\ calls = 0

\* A server at work, as opposed to one that waits for its client or ends.
Work(s) ==
    \/ Ignore(s) \/ AnswerPlainly(s) \/ ToolError(s) \/ InternalError(s)
    \/ ScanRepo(s) \/ FinishSave(s) \/ SaveFails(s) \/ AnswerScan(s)
    \/ ReadReport(s) \/ GetAIContextBundle(s) \/ ValidateAIOutput(s)

Next ==
    \/ \E s \in Servers : ReadLine(s) \/ Work(s) \/ Crash(s)
    \/ \E scan_id \in ScanIds : Summarize(scan_id)

Spec == Init /\ [][Next]_vars

\* A process that is not ended goes on; the requests of a scan time out.
FairSpec == Spec /\ \A s \in Servers : WF_vars(Work(s))

-----------------------------------------------------------------------------
(* Properties *)

TypeOK ==
    /\ pc \in [Servers -> {"idle", "handling", "saving", "saved", "down"}]
    /\ \A scan_id \in ScanIds : Readable(scan_id) => files[scan_id].scan = scan_id
    /\ \A s \in Servers :
         /\ Len(outbox[s]) <= Len(consumed[s])
         /\ pc[s] \in {"saving", "saved"} => report[s].scan \in ScanIds
    /\ calls \in 0 .. MaxCalls

\* Whatever a client has been told of a scan, by any process, is what the report
\* on disk says now: a scan answered with an id stays available under that id,
\* and half a report is never taken for one.
AnswersFromSavedReports ==
    /\ \A result \in ResultsOf("scan") :
         files[result.scan] = [scan |-> result.scan, tasks |-> result.tasks]
    /\ \A result \in ResultsOf("report") :
         Readable(result.scan) /\ files[result.scan] = result.content

\* The places of the lines of q that want an answer, and which answer it is that
\* the line at place i wants.
Due(q) == {i \in DOMAIN q : WantsAnswer(q[i])}

Turn(q, i) == Cardinality({j \in Due(q) : j <= i})

\* Each request is answered once, in the order they came and under its id, and a
\* notification never; only the last line read may still wait for an answer.
AnswersInOrder ==
    \A s \in Servers :
      /\ Len(outbox[s]) <= Cardinality(Due(consumed[s]))
      /\ \A i \in Due(consumed[s]) :
           LET turn == Turn(consumed[s], i)
           IN IF turn <= Len(outbox[s])
              THEN outbox[s][turn].id = PublicId(consumed[s][i].id)
              ELSE i = Len(consumed[s]) /\ pc[s] # "idle"

\* The evidence an id of an answer stands for is in the report, and is about the
\* package and the vulnerability of the task.
EvidenceOfTask(scan, task, id) ==
    \/ \E i \in DOMAIN task.evidence : id = <<"task", i, task.evidence[i]>>
    \/ \E chunk \in Range(ChunksFromReport(scan)) :
         /\ id = <<"evidence", chunk.id>>
         /\ chunk.package = task.package /\ chunk.vulnerability = task.vulnerability

\* An answer has the values of the task (names that are redacted are all the same),
\* cites its evidence for every fact and inference, and asks for no action but one
\* that the text of a claim with evidence spells, be it within its words: "Install
\* x" passes where the claim is "Uninstall x".
GroundedIn(scan, task, output) ==
    /\ output.finding = task.id
    /\ \/ output.package = task.package
       \/ task.package = Redacted /\ output.package \in RedactedAsText
    /\ output.vulnerability = task.vulnerability
    /\ output.priority = task.priority /\ output.score = task.score
    /\ \A claim \in Range(output.claims) :
         /\ claim.disposition \in CONCRETE_DISPOSITIONS => claim.evidence # <<>>
         /\ \A id \in Range(claim.evidence) : EvidenceOfTask(scan, task, id)
    /\ \A text \in ClaimLanguage(output) : HasActionSignal(text) =>
         \E claim \in Range(output.claims) :
           Concrete(claim) /\ claim.evidence # <<>> /\ ContainsText(claim.text, text)

\* An answer of the client's AI that was passed changes nothing of the finding on
\* disk, and says and asks nothing without the finding's evidence.
AcceptedOutputsGrounded ==
    \A result \in ResultsOf("verdict") : result.verdict.passed =>
      GroundedIn(files[result.about.scan], FindTask(result.about.scan, result.about.task),
                 result.about.output)

\* An answer that keeps to a bundle: it repeats its values, and says and cites
\* what its evidence says, none of it too sure or unsafe.
Faithful(request, output) ==
    /\ output.shape = "object" /\ output.well_typed
    /\ MutatedFields(request, output) = {}
    /\ output.claims # <<>>
    /\ \A claim \in Range(output.claims) :
         \E item \in Range(request.evidence) :
           /\ claim = Claim(claim.id, item.text, "fact", <<item.id>>)
           /\ <<claim.id, item.id>> \in CitationPairs(output)
           /\ ~ Sees(item.text, "overconfident") /\ ~ Sees(item.text, "unsafe")
    /\ \A citation \in Range(output.citations) :
         /\ citation.note = <<>>
         /\ \E claim \in Range(output.claims) :
              citation.claim = claim.id /\ citation.evidence = claim.evidence[1]
    /\ \A text \in {output.summary, output.explanation} :
         \E claim \in Range(output.claims) : text = claim.text

AnswersToBundle(result, bundle) ==
    /\ bundle.scan = result.about.scan /\ bundle.task = result.about.task
    /\ bundle.include_rag = result.about.include_rag /\ bundle.top_k = result.about.top_k
    /\ Faithful(bundle.request, result.about.output)

\* An answer that keeps to a bundle, whichever process made the bundle, passes in
\* every process asked for the same evidence, except where it is blocked for having
\* copied the package: its name is one that is redacted as text.  (So the rule of a
\* bundle, "Do not change [...] package [...]", cannot be kept for such a name.)
FaithfulOutputsAccepted ==
    \A result \in ResultsOf("verdict"), bundle \in ResultsOf("bundle") :
      AnswersToBundle(result, bundle) =>
        (result.verdict.passed <=> bundle.request.package \notin RedactedAsText)

\* Whatever a provider answers, a summary that is shown has the values of the
\* finding on disk; each of its citations names one of its claims and evidence
\* that was supplied; and each fact and inference in it has such citations.
ShownSummariesGrounded ==
    shown # None /\ shown.response # Failed =>
      LET task == files[shown.scan].tasks[shown.index]
          cited == CitationPairs(shown.response)
      IN /\ shown.response.priority = task.priority /\ shown.response.score = task.score
         /\ \A pair \in cited : pair[1] \in ClaimIds(shown.response) /\ pair[2] \in shown.evidence
         /\ \A claim \in Range(shown.response.claims) :
              claim.disposition \in CONCRETE_DISPOSITIONS =>
                /\ claim.evidence # <<>>
                /\ \A id \in Range(claim.evidence) : <<claim.id, id>> \in cited

\* A request that was read is answered, or ignored, unless the process ends.
CallsEnd ==
    \A s \in Servers :
      pc[s] \in {"handling", "saving", "saved"} ~> pc[s] \in {"idle", "down"}
=============================================================================
