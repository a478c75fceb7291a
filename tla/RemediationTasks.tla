-------------------------- MODULE RemediationTasks --------------------------
(***************************************************************************)
(* The remediation_tasks and human_approvals tables under concurrent       *)
(* requests.  Two kinds of session write them:                             *)
(*                                                                         *)
(*  - a scan being persisted (persistence.persist_scan_result), which for  *)
(*    each task of its result finds or creates the open row of that        *)
(*    finding and assigns its columns, then commits everything at once;    *)
(*  - a human decision (remediation_workflow._apply_decision), which reads *)
(*    a task, updates it WHERE status = 'open', adds the approval row and  *)
(*    commits.                                                             *)
(*                                                                         *)
(* Each SQL statement is one step.  The database is the PostgreSQL of      *)
(* docker-compose.yml at its default isolation, READ COMMITTED: a query    *)
(* sees the committed rows and the session's own; an UPDATE waits for the  *)
(* row's lock and then applies to the committed row; an INSERT waits for   *)
(* a session that holds a row with the same unique key.  The ORM session   *)
(* has autoflush off, so assignments reach the database at a flush, and    *)
(* then only the columns that differ from what the session loaded.         *)
(***************************************************************************)
EXTENDS Sequences

CONSTANTS
    TaskIds,          \* primary keys of remediation_tasks rows
    Findings,         \* (repo, package_vulnerability) pairs
    Columns,          \* columns a scan assigns: priority, risk_score, plan...
    Values,           \* what a column may hold
    DefaultValue,     \* what a new row's columns hold before assignment
    None,             \* no finding, no copy of a row, no task
    Scans,            \* scans being persisted
    Requests,         \* decision requests
    Verdicts,         \* "approved", "rejected", "risk_accepted"
    Results,          \* what a scan may have to persist: sequences of tasks
    InitialContents   \* contents of the tasks stored by earlier scans

Contents == [Columns -> Values]
DefaultContent == [c \in Columns |-> DefaultValue]

\* One entry of ScanResult.remediation_tasks, after the link check.
TaskOutputs == [finding : Findings, content : Contents]

ASSUME ConstantsAssumption ==
    /\ Results \subseteq Seq(TaskOutputs)
    /\ InitialContents \subseteq Contents
    /\ DefaultValue \in Values
    /\ None \notin Findings /\ None \notin Contents /\ None \notin TaskIds
    /\ Scans \intersect Requests = {}
    /\ {"absent", "open"} \intersect Verdicts = {}
    /\ None \notin Verdicts

VARIABLES
    status,       \* committed: "absent", "open" or a verdict
    finding,      \* committed: the finding of each row
    content,      \* committed: the assigned columns of each row
    approvals,    \* committed human_approvals rows
    scanPc,       \* where each persisting session is
    todo,         \* the tasks of the result still to be stored
    inserted,     \* inserted[s][id]: finding of a row s inserted, uncommitted
    loaded,       \* loaded[s][id]: columns as session s last synced them
    assigned,     \* assigned[s][id]: columns as session s wants them
    written,      \* written[s][id]: columns s has sent to the database
    held,         \* rows s inserted or updated, locked until its end
    reply,        \* reply[s][f]: the task id handed back for finding f
    reqPc,        \* where each decision request is, then its answer
    target,       \* the task the request is about
    verdict,      \* the status the request asks for
    settled,      \* history: tasks already decided when scan s began
    disturbed     \* history: another scan committed while s was running

tables == <<status, finding, content, approvals>>
scanVars == <<scanPc, todo, inserted, loaded, assigned, written, held, reply>>
reqVars == <<reqPc, target, verdict>>
history == <<settled, disturbed>>
vars == <<tables, scanVars, reqVars, history>>

-----------------------------------------------------------------------------
(* Sessions and locks *)

Decided(id) == status[id] \in Verdicts

Running(s) == scanPc[s] \in {"query", "insert", "requery", "commit"}

\* The request's UPDATE has matched the row and its transaction is open.
Deciding(r) == reqPc[r] \in {"updated", "recorded"}

\* Some session other than x has the row locked.
LockedByOther(x, id) ==
    \/ \E s \in Scans \ {x} : id \in held[s]
    \/ \E r \in Requests \ {x} : Deciding(r) /\ target[r] = id

OpenRows(f) == {id \in TaskIds : status[id] = "open" /\ finding[id] = f}

\* Mutant: the lookup forgets its filter on status = 'open'.
VisibleOpenAnyStatus(s, f) ==
    {id \in TaskIds : status[id] # "absent" /\ finding[id] = f}
      \union {id \in TaskIds : inserted[s][id] = f}

\* query_remediation_task: the committed open rows and the session's own.
VisibleOpen(s, f) == OpenRows(f) \union {id \in TaskIds : inserted[s][id] = f}

Unused == {id \in TaskIds : status[id] = "absent"
                            /\ \A s \in Scans : inserted[s][id] = None}

\* Mutant: no unique index on open tasks.
InsertNeverWaits(s, f) == FALSE

\* The unique index uq_remediation_tasks_open makes an INSERT wait for a
\* session that inserted the same key, or is changing the row that has it.
InsertWaits(s, f) ==
    \/ \E t \in Scans \ {s}, id \in TaskIds : inserted[t][id] = f
    \/ \E id \in OpenRows(f) : LockedByOther(s, id)

\* Mutant: the assignments of a row already flushed once are forgotten.
DirtyUnlessHeld(s) == {id \in TaskIds : assigned[s][id] # loaded[s][id]} \ held[s]

Dirty(s) == {id \in TaskIds : assigned[s][id] # loaded[s][id]}

-----------------------------------------------------------------------------
(* Persisting a scan: get_or_create_current_remediation_task per task *)

BeginScan(s) ==
    /\ scanPc[s] = "idle"
    /\ \E result \in Results :
         /\ todo' = [todo EXCEPT ![s] = result]
         /\ scanPc' = [scanPc EXCEPT ![s] = IF result = <<>> THEN "commit" ELSE "query"]
    /\ settled' = [settled EXCEPT ![s] = {id \in TaskIds : Decided(id)}]
    /\ UNCHANGED <<tables, inserted, loaded, assigned, written, held, reply,
                   reqVars, disturbed>>

\* The task at the head of todo is stored in row id: assign its columns, go on.
Adopt(s, id, copy) ==
    LET task == Head(todo[s])
        rest == Tail(todo[s])
    IN /\ loaded' = [loaded EXCEPT ![s][id] = copy]
       /\ assigned' = [assigned EXCEPT ![s][id] = task.content]
       /\ reply' = [reply EXCEPT ![s][task.finding] = id]
       /\ todo' = [todo EXCEPT ![s] = rest]
       /\ scanPc' = [scanPc EXCEPT ![s] = IF rest = <<>> THEN "commit" ELSE "query"]

\* The identity map keeps the copy a session already has.
CopyOf(s, id) == IF loaded[s][id] = None THEN content[id] ELSE loaded[s][id]

QueryFound(s) ==
    /\ scanPc[s] = "query"
    /\ \E id \in VisibleOpen(s, Head(todo[s]).finding) : Adopt(s, id, CopyOf(s, id))
    /\ UNCHANGED <<tables, inserted, written, held, reqVars, history>>

QueryMissed(s) ==
    /\ scanPc[s] = "query"
    /\ VisibleOpen(s, Head(todo[s]).finding) = {}
    /\ scanPc' = [scanPc EXCEPT ![s] = "insert"]
    /\ UNCHANGED <<tables, todo, inserted, loaded, assigned, written, held, reply,
                   reqVars, history>>

\* begin_nested() flushes what is pending, then the INSERT runs in a savepoint.
InsertReady(s) ==
    /\ scanPc[s] = "insert"
    /\ Dirty(s) = {}
    /\ ~ InsertWaits(s, Head(todo[s]).finding)

InsertSucceeds(s) ==
    /\ InsertReady(s)
    /\ OpenRows(Head(todo[s]).finding) = {}
    /\ \E id \in Unused :
         /\ inserted' = [inserted EXCEPT ![s][id] = Head(todo[s]).finding]
         /\ written' = [written EXCEPT ![s][id] = Columns]
         /\ held' = [held EXCEPT ![s] = @ \union {id}]
         /\ Adopt(s, id, DefaultContent)
    /\ UNCHANGED <<tables, reqVars, history>>

\* IntegrityError: the savepoint is rolled back and the row is looked up again.
InsertConflicts(s) ==
    /\ InsertReady(s)
    /\ OpenRows(Head(todo[s]).finding) # {}
    /\ scanPc' = [scanPc EXCEPT ![s] = "requery"]
    /\ UNCHANGED <<tables, todo, inserted, loaded, assigned, written, held, reply,
                   reqVars, history>>

RequeryFound(s) ==
    /\ scanPc[s] = "requery"
    /\ \E id \in VisibleOpen(s, Head(todo[s]).finding) : Adopt(s, id, CopyOf(s, id))
    /\ UNCHANGED <<tables, inserted, written, held, reqVars, history>>

\* A flush sends the changed columns, one UPDATE per row, and each row stays
\* locked.  One happens before every savepoint, at db.flush() and at the commit;
\* the model lets a flush stop after any row, and takes the rows in any order.
FlushRow(s, id) ==
    /\ Running(s)
    /\ id \in Dirty(s)
    /\ ~ LockedByOther(s, id)
    /\ written' = [written EXCEPT ![s][id] =
                     @ \union {c \in Columns : assigned[s][id][c] # loaded[s][id][c]}]
    /\ loaded' = [loaded EXCEPT ![s][id] = assigned[s][id]]
    /\ held' = [held EXCEPT ![s] = @ \union {id}]
    /\ UNCHANGED <<tables, scanPc, todo, inserted, assigned, reply, reqVars, history>>

\* The session is closed: its copies and locks are gone.
CloseSession(s) ==
    /\ todo' = [todo EXCEPT ![s] = <<>>]
    /\ inserted' = [inserted EXCEPT ![s] = [id \in TaskIds |-> None]]
    /\ loaded' = [loaded EXCEPT ![s] = [id \in TaskIds |-> None]]
    /\ assigned' = [assigned EXCEPT ![s] = [id \in TaskIds |-> None]]
    /\ written' = [written EXCEPT ![s] = [id \in TaskIds |-> {}]]
    /\ held' = [held EXCEPT ![s] = {}]

\* COMMIT takes effect; db.refresh(scan) may still fail, or the
\* acknowledgement be lost, and then the caller hears an error.
CommitScan(s) ==
    /\ scanPc[s] = "commit"
    /\ Dirty(s) = {}
    /\ status' = [id \in TaskIds |->
                    IF inserted[s][id] # None THEN "open" ELSE status[id]]
    /\ finding' = [id \in TaskIds |->
                    IF inserted[s][id] # None THEN inserted[s][id] ELSE finding[id]]
    /\ content' = [id \in TaskIds |-> [c \in Columns |->
                    IF c \in written[s][id] THEN loaded[s][id][c] ELSE content[id][c]]]
    /\ \E answer \in {"done", "failed"} : scanPc' = [scanPc EXCEPT ![s] = answer]
    /\ disturbed' = [t \in Scans |-> disturbed[t] \/ (t # s /\ Running(t))]
    /\ CloseSession(s)
    /\ UNCHANGED <<approvals, reply, reqVars, settled>>

\* Mutant: the error is swallowed and the response built all the same.
AnswerAfterRollback(s) ==
    /\ scanPc' = [scanPc EXCEPT ![s] = "done"]
    /\ CloseSession(s)
    /\ UNCHANGED <<tables, reply, reqVars, history>>

\* Mutant: the failed transaction is left open in the pool, with its locks.
KeepTransactionOpen(s) ==
    /\ scanPc' = [scanPc EXCEPT ![s] = "failed"]
    /\ todo' = [todo EXCEPT ![s] = <<>>]
    /\ UNCHANGED <<tables, inserted, loaded, assigned, written, held, reply,
                   reqVars, history>>

\* Rollback: nothing of the session reaches the tables.
RollbackScan(s) ==
    /\ scanPc' = [scanPc EXCEPT ![s] = "failed"]
    /\ CloseSession(s)
    /\ UNCHANGED <<tables, reply, reqVars, history>>

\* The conflicting row was decided before the second look: PersistenceError.
RequeryMissed(s) ==
    /\ scanPc[s] = "requery"
    /\ VisibleOpen(s, Head(todo[s]).finding) = {}
    /\ RollbackScan(s)

\* A missing link, another constraint, a lost connection or a crash.
FailScan(s) == Running(s) /\ RollbackScan(s)

\* The scans a waiting scan waits for; requests never wait while they lock.
WaitsFor(s) ==
    IF scanPc[s] \in {"insert", "commit"} /\ Dirty(s) # {}
    THEN {t \in Scans \ {s} : /\ Dirty(s) \intersect held[t] # {}
                              /\ \A id \in Dirty(s) : LockedByOther(s, id)}
    ELSE IF scanPc[s] = "insert"
    THEN LET f == Head(todo[s]).finding
         IN {t \in Scans \ {s} : \/ \E id \in TaskIds : inserted[t][id] = f
                                 \/ OpenRows(f) \intersect held[t] # {}}
    ELSE {}

\* PostgreSQL aborts one transaction of a cycle of waits.
DeadlockVictim(s) ==
    /\ \E cycle \in SUBSET Scans :
         s \in cycle /\ \A t \in cycle : WaitsFor(t) \intersect cycle # {}
    /\ RollbackScan(s)

-----------------------------------------------------------------------------
(* A decision: RemediationWorkflowService._apply_decision *)

\* require_text refuses a blank approver (or risk reason) before any query.
RefuseInvalid(r) ==
    /\ reqPc[r] = "idle"
    /\ reqPc' = [reqPc EXCEPT ![r] = "invalid"]
    /\ UNCHANGED <<tables, scanVars, target, verdict, history>>

\* Mutant: the requested status is not one of the three verdicts.
GetTaskAnyStatus(r) ==
    /\ reqPc[r] = "idle"
    /\ \E id \in TaskIds, v \in Verdicts \union {"open"} :
         /\ target' = [target EXCEPT ![r] = id]
         /\ verdict' = [verdict EXCEPT ![r] = v]
         /\ reqPc' = [reqPc EXCEPT ![r] = IF status[id] = "absent" THEN "not_found"
                                          ELSE IF status[id] = "open" THEN "loaded"
                                          ELSE "conflict"]
    /\ UNCHANGED <<tables, scanVars, history>>

\* _get_task_model and ensure_open_task.
GetTask(r) ==
    /\ reqPc[r] = "idle"
    /\ \E id \in TaskIds, v \in Verdicts :
         /\ target' = [target EXCEPT ![r] = id]
         /\ verdict' = [verdict EXCEPT ![r] = v]
         /\ reqPc' = [reqPc EXCEPT ![r] = IF status[id] = "absent" THEN "not_found"
                                          ELSE IF status[id] = "open" THEN "loaded"
                                          ELSE "conflict"]
    /\ UNCHANGED <<tables, scanVars, history>>

\* Mutant: UPDATE without AND status = 'open'.
AnyRowMatches(r) == TRUE

\* The row the UPDATE would touch still satisfies its WHERE clause.
StillOpen(r) == status[target[r]] = "open"

\* UPDATE ... WHERE id = ? AND status = 'open': one row, or none and a rollback.
UpdateWhereOpen(r) ==
    /\ reqPc[r] = "loaded"
    /\ ~ LockedByOther(r, target[r])
    /\ reqPc' = [reqPc EXCEPT ![r] =
                   IF StillOpen(r) THEN "updated" ELSE "conflict"]
    /\ UNCHANGED <<tables, scanVars, target, verdict, history>>

\* db.add(approval), db.flush(), serialize_task.
AddApproval(r) ==
    /\ reqPc[r] = "updated"
    /\ reqPc' = [reqPc EXCEPT ![r] = "recorded"]
    /\ UNCHANGED <<tables, scanVars, target, verdict, history>>

\* Mutant: the approval row is added after the COMMIT of the status.
CommitWithoutApproval(r) ==
    /\ reqPc[r] = "recorded"
    /\ status' = [status EXCEPT ![target[r]] = verdict[r]]
    /\ \E answer \in {"ok", "error"} : reqPc' = [reqPc EXCEPT ![r] = answer]
    /\ UNCHANGED <<finding, content, approvals, scanVars, target, verdict, history>>

\* COMMIT takes effect; the caller hears "ok", or only an error if the
\* connection is lost before the acknowledgement.
CommitDecision(r) ==
    /\ reqPc[r] = "recorded"
    /\ status' = [status EXCEPT ![target[r]] = verdict[r]]
    /\ approvals' = approvals
         \union {[task |-> target[r], by |-> r, verdict |-> verdict[r]]}
    /\ \E answer \in {"ok", "error"} : reqPc' = [reqPc EXCEPT ![r] = answer]
    /\ UNCHANGED <<finding, content, scanVars, target, verdict, history>>

\* Mutant: the handler returns its response although the COMMIT failed.
AnswerOkOnFailure(r) ==
    /\ reqPc[r] \in {"loaded", "updated", "recorded"}
    /\ reqPc' = [reqPc EXCEPT ![r] = "ok"]
    /\ UNCHANGED <<tables, scanVars, target, verdict, history>>

\* SQLAlchemyError or a crash before COMMIT: rollback.
FailDecision(r) ==
    /\ reqPc[r] \in {"loaded", "updated", "recorded"}
    /\ reqPc' = [reqPc EXCEPT ![r] = "error"]
    /\ UNCHANGED <<tables, scanVars, target, verdict, history>>

-----------------------------------------------------------------------------
Init ==
    /\ status \in [TaskIds -> {"absent", "open"}]
    /\ finding \in [TaskIds -> Findings \union {None}]
    /\ \A id \in TaskIds : status[id] = "open" <=> finding[id] # None
    /\ \A i, j \in TaskIds : (status[i] = "open" /\ finding[i] = finding[j]) => i = j
    /\ content \in [TaskIds -> InitialContents \union {DefaultContent}]
    /\ \A id \in TaskIds : IF status[id] = "absent" THEN content[id] = DefaultContent
                                                    ELSE content[id] \in InitialContents
    /\ approvals = {}
    /\ scanPc = [s \in Scans |-> "idle"]
    /\ todo = [s \in Scans |-> <<>>]
    /\ inserted = [s \in Scans |-> [id \in TaskIds |-> None]]
    /\ loaded = [s \in Scans |-> [id \in TaskIds |-> None]]
    /\ assigned = [s \in Scans |-> [id \in TaskIds |-> None]]
    /\ written = [s \in Scans |-> [id \in TaskIds |-> {}]]
    /\ held = [s \in Scans |-> {}]
    /\ reply = [s \in Scans |-> [f \in Findings |-> None]]
    /\ reqPc = [r \in Requests |-> "idle"]
    /\ target = [r \in Requests |-> None]
    /\ verdict = [r \in Requests |-> None]
    /\ settled = [s \in Scans |-> {}]
    /\ disturbed = [s \in Scans |-> FALSE]

\* The steps a session takes while nothing goes wrong.
ScanStep(s) ==
    \/ QueryFound(s) \/ QueryMissed(s)
    \/ InsertSucceeds(s) \/ InsertConflicts(s)
    \/ RequeryFound(s) \/ RequeryMissed(s)
    \/ \E id \in TaskIds : FlushRow(s, id)
    \/ CommitScan(s)

DecisionStep(r) == UpdateWhereOpen(r) \/ AddApproval(r) \/ CommitDecision(r)

Next ==
    \/ \E s \in Scans : BeginScan(s) \/ ScanStep(s) \/ DeadlockVictim(s) \/ FailScan(s)
    \/ \E r \in Requests : RefuseInvalid(r) \/ GetTask(r) \/ DecisionStep(r)
                           \/ FailDecision(r)

Spec == Init /\ [][Next]_vars

\* A request handler runs until it answers, and PostgreSQL breaks deadlocks;
\* that requests arrive, or that anything fails, is not assumed.
Fairness ==
    /\ \A s \in Scans : WF_vars(ScanStep(s)) /\ WF_vars(DeadlockVictim(s))
    /\ \A r \in Requests : WF_vars(DecisionStep(r))

FairSpec == Spec /\ Fairness

-----------------------------------------------------------------------------
(* Properties *)

\* Every variable holds a value of its kind.
TypeOK ==
    /\ status \in [TaskIds -> {"absent", "open"} \union Verdicts]
    /\ finding \in [TaskIds -> Findings \union {None}]
    /\ content \in [TaskIds -> Contents]
    /\ approvals \subseteq [task : TaskIds, by : Requests, verdict : Verdicts]
    /\ scanPc \in [Scans -> {"idle", "query", "insert", "requery", "commit",
                             "done", "failed"}]
    /\ todo \in [Scans -> Seq(TaskOutputs)]
    /\ inserted \in [Scans -> [TaskIds -> Findings \union {None}]]
    /\ loaded \in [Scans -> [TaskIds -> Contents \union {None}]]
    /\ assigned \in [Scans -> [TaskIds -> Contents \union {None}]]
    /\ written \in [Scans -> [TaskIds -> SUBSET Columns]]
    /\ held \in [Scans -> SUBSET TaskIds]
    /\ reply \in [Scans -> [Findings -> TaskIds \union {None}]]
    /\ reqPc \in [Requests -> {"idle", "loaded", "updated", "recorded", "ok",
                               "invalid", "not_found", "conflict", "error"}]
    /\ target \in [Requests -> TaskIds \union {None}]
    /\ verdict \in [Requests -> Verdicts \union {None}]
    /\ settled \in [Scans -> SUBSET TaskIds]
    /\ disturbed \in [Scans -> BOOLEAN]

\* Audit trail: a task is decided exactly when one approval row says so, and
\* that row's verdict is the task's status, however many requests raced for it.
DecisionsRecorded ==
    /\ \A a \in approvals : status[a.task] = a.verdict
    /\ \A a, b \in approvals : a.task = b.task => a = b
    /\ \A id \in TaskIds : Decided(id) => \E a \in approvals : a.task = id

\* A caller told "ok" has its approval stored; one told 404, 409 or 422 has none.
AnswersMatchApprovals ==
    \A r \in Requests :
      /\ reqPc[r] = "ok" =>
           [task |-> target[r], by |-> r, verdict |-> verdict[r]] \in approvals
      /\ reqPc[r] \in {"invalid", "not_found", "conflict"} =>
           \A a \in approvals : a.by # r

\* Two scans that find the same vulnerability never leave two open tasks.
OneOpenTaskPerFinding ==
    \A i, j \in TaskIds :
      (status[i] = "open" /\ status[j] = "open" /\ finding[i] = finding[j]) => i = j

\* The task ids a finished scan puts in its response are rows of the table,
\* about the findings they were reported for.
RepliesNameStoredTasks ==
    \A s \in Scans, f \in Findings :
      (scanPc[s] = "done" /\ reply[s][f] # None) =>
        status[reply[s][f]] # "absent" /\ finding[reply[s][f]] = f

Ends(s) == Running(s) /\ scanPc'[s] \in {"done", "failed"}

Commits(s) == scanPc[s] = "commit" /\ scanPc'[s] = "done"

Touched(s) == {id \in TaskIds : assigned[s][id] # None}

\* A scan never rewrites a task that a human had decided before it began.
SettledTasksFrozen ==
    [][\A s \in Scans : Ends(s) =>
         \A id \in settled[s] : content'[id] = content[id]]_vars

\* A scan during which no other scan committed leaves in every task it
\* reports exactly the columns it computed.
UndisturbedScanStoresItsOutput ==
    [][\A s \in Scans : (Commits(s) /\ ~ disturbed[s]) =>
         \A id \in Touched(s) : content'[id] = assigned[s][id]]_vars

\* The same of every scan, as the design document demands of persistence:
\* "Stored output matches scanner output."
StoredOutputMatchesScannerOutput ==
    [][\A s \in Scans : Commits(s) =>
         \A id \in Touched(s) : content'[id] = assigned[s][id]]_vars

\* A scan that began is answered, whatever it waits for.
ScansEnd ==
    \A s \in Scans : Running(s) ~> scanPc[s] \in {"done", "failed"}

\* A decision that found its task open is answered.
RequestsEnd ==
    \A r \in Requests : reqPc[r] = "loaded" ~> reqPc[r] \in {"ok", "conflict", "error"}

(* Why the invariants above are kept: an inductive strengthening *)

\* A row exists exactly when it is about a finding.
RowsAreAboutFindings ==
    \A id \in TaskIds : status[id] = "absent" <=> finding[id] = None

\* A finding whose open row is not committed has it in one session only, and
\* no committed open row beside it.
PendingRowsUnique ==
    /\ \A s \in Scans, id \in TaskIds :
         inserted[s][id] # None =>
           /\ status[id] = "absent"
           /\ OpenRows(inserted[s][id]) = {}
    /\ \A s, t \in Scans, i, j \in TaskIds :
         (inserted[s][i] # None /\ (i = j \/ inserted[s][i] = inserted[t][j])) =>
           inserted[t][j] = None \/ (s = t /\ i = j)

\* A session that is about to insert has not inserted that finding before.
InsertIsFirst ==
    \A s \in Scans :
      /\ scanPc[s] \in {"query", "insert", "requery"} => todo[s] # <<>>
      /\ scanPc[s] \in {"insert", "requery"} =>
           \A id \in TaskIds : inserted[s][id] # Head(todo[s]).finding

\* A session only writes columns of rows it has a copy of.
WrittenRowsAreLoaded ==
    \A s \in Scans, id \in TaskIds :
      /\ loaded[s][id] = None <=> assigned[s][id] = None
      /\ written[s][id] # {} => loaded[s][id] # None

\* Between its UPDATE and its COMMIT a decision is alone with an open task.
DecidersExclusive ==
    \A r \in Requests :
      /\ reqPc[r] \in {"loaded", "updated", "recorded"} =>
           target[r] \in TaskIds /\ verdict[r] \in Verdicts
      /\ Deciding(r) =>
           /\ status[target[r]] = "open"
           /\ \A q \in Requests : (Deciding(q) /\ target[q] = target[r]) => q = r

\* The inductive invariant.
IInv ==
    /\ TypeOK
    /\ RowsAreAboutFindings
    /\ PendingRowsUnique
    /\ InsertIsFirst
    /\ WrittenRowsAreLoaded
    /\ DecidersExclusive
    /\ DecisionsRecorded
    /\ OneOpenTaskPerFinding

-----------------------------------------------------------------------------
(* What the tables promise *)

Ledger == INSTANCE TaskLedger

\* The tables behave as the one-step-per-request ledger.
ImplementsLedger == Ledger!Spec
=============================================================================
