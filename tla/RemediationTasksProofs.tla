----------------------- MODULE RemediationTasksProofs -----------------------
(***************************************************************************)
(* RemediationTasks for every number of scans, requests, tasks, findings   *)
(* and columns.  IInv is inductive; the invariants about the tables follow *)
(* from it, and so does that they implement TaskLedger.  What is promised  *)
(* to those who ask rests on SInv beside it, what a session knows of the   *)
(* tables while it is open: a decision's answer agrees with the approvals, *)
(* a scan's response names stored tasks, and a scan rewrites nothing a     *)
(* human had settled and stores its output when no other interferes.       *)
(***************************************************************************)
EXTENDS RemediationTasks, TLAPS

-----------------------------------------------------------------------------
(* Initially *)

LEMMA InitialState == Init => IInv
<1> SUFFICES ASSUME Init PROVE IInv
    OBVIOUS
<1>1. TypeOK
  <2>1. InitialContents \union {DefaultContent} \subseteq Contents
    BY ConstantsAssumption DEF DefaultContent, Contents
  <2>2. <<>> \in Seq(TaskOutputs)
    OBVIOUS
  <2> QED
    BY <2>1, <2>2 DEF Init, TypeOK
<1>2. RowsAreAboutFindings /\ PendingRowsUnique /\ InsertIsFirst
      /\ WrittenRowsAreLoaded
    BY DEF Init, RowsAreAboutFindings, PendingRowsUnique, InsertIsFirst,
           WrittenRowsAreLoaded
<1>3. DecidersExclusive /\ DecisionsRecorded /\ OneOpenTaskPerFinding
    BY ConstantsAssumption
    DEF Init, DecidersExclusive, Deciding, DecisionsRecorded, Decided,
           OneOpenTaskPerFinding
<1> QED
    BY <1>1, <1>2, <1>3 DEF IInv

-----------------------------------------------------------------------------
(* A scan's step leaves the decisions alone, except where it commits. *)

\* What a step does when it changes neither the tables nor a request.
LEMMA TablesUntouched ==
    ASSUME IInv, UNCHANGED <<tables, reqVars>>
    PROVE  RowsAreAboutFindings' /\ DecidersExclusive' /\ DecisionsRecorded'
           /\ OneOpenTaskPerFinding'
BY DEF IInv, tables, reqVars, RowsAreAboutFindings, DecidersExclusive, Deciding,
       DecisionsRecorded, Decided, OneOpenTaskPerFinding

LEMMA BeginScanStep ==
    ASSUME IInv, NEW s \in Scans, BeginScan(s)
    PROVE  IInv'
<1>1. TypeOK'
    BY ConstantsAssumption DEF IInv, TypeOK, BeginScan, tables, reqVars
<1>2. PendingRowsUnique'
    BY DEF IInv, PendingRowsUnique, BeginScan, tables, OpenRows
<1>3. InsertIsFirst'
    BY DEF IInv, TypeOK, InsertIsFirst, BeginScan
<1>4. WrittenRowsAreLoaded'
    BY DEF IInv, WrittenRowsAreLoaded, BeginScan
<1> QED
    BY <1>1, <1>2, <1>3, <1>4, TablesUntouched DEF IInv, BeginScan

LEMMA HeadTypes ==
    ASSUME TypeOK, NEW s \in Scans, todo[s] # <<>>
    PROVE  /\ Head(todo[s]).finding \in Findings
           /\ Head(todo[s]).content \in Contents
           /\ Tail(todo[s]) \in Seq(TaskOutputs)
<1>1. Head(todo[s]) \in TaskOutputs /\ Tail(todo[s]) \in Seq(TaskOutputs)
    BY DEF TypeOK
<1> QED
    BY <1>1 DEF TaskOutputs

LEMMA AdoptTypes ==
    ASSUME TypeOK, NEW s \in Scans, todo[s] # <<>>,
           NEW id \in TaskIds, NEW copy \in Contents, Adopt(s, id, copy)
    PROVE  /\ scanPc' \in [Scans -> {"idle", "query", "insert", "requery", "commit",
                                     "done", "failed"}]
           /\ todo' \in [Scans -> Seq(TaskOutputs)]
           /\ loaded' \in [Scans -> [TaskIds -> Contents \union {None}]]
           /\ assigned' \in [Scans -> [TaskIds -> Contents \union {None}]]
           /\ reply' \in [Scans -> [Findings -> TaskIds \union {None}]]
<1> DEFINE task == Head(todo[s])
<1>1. Tail(todo[s]) \in Seq(TaskOutputs)
    BY HeadTypes
<1>2. task.finding \in Findings /\ task.content \in Contents
    BY HeadTypes
<1> HIDE DEF task
<1>3. loaded' = [loaded EXCEPT ![s][id] = copy]
      /\ assigned' = [assigned EXCEPT ![s][id] = task.content]
      /\ reply' = [reply EXCEPT ![s][task.finding] = id]
      /\ todo' = [todo EXCEPT ![s] = Tail(todo[s])]
      /\ scanPc' = [scanPc EXCEPT ![s] = IF Tail(todo[s]) = <<>> THEN "commit" ELSE "query"]
    BY DEF Adopt, task
<1> QED
    BY <1>1, <1>2, <1>3 DEF TypeOK

\* The head of todo goes to a row and the next task, if any, is looked up.
LEMMA AdoptAdvances ==
    ASSUME IInv, NEW s \in Scans, NEW id \in TaskIds, NEW copy, Adopt(s, id, copy),
           \A t \in Scans \ {s} : inserted'[t] = inserted[t]
    PROVE  InsertIsFirst'
<1>1. todo' = [todo EXCEPT ![s] = Tail(todo[s])]
      /\ scanPc' = [scanPc EXCEPT ![s] = IF Tail(todo[s]) = <<>> THEN "commit" ELSE "query"]
    BY DEF Adopt
<1> QED
    BY <1>1 DEF IInv, TypeOK, InsertIsFirst

\* The row adopted has a copy; the others are as before.
LEMMA AdoptCopies ==
    ASSUME IInv, NEW s \in Scans, NEW id \in TaskIds, todo[s] # <<>>,
           NEW copy \in Contents, Adopt(s, id, copy),
           \A t \in Scans, i \in TaskIds :
             (t # s \/ i # id) => written'[t][i] = written[t][i]
    PROVE  WrittenRowsAreLoaded'
<1> DEFINE wanted == Head(todo[s]).content
<1>1. wanted \in Contents
    BY HeadTypes DEF IInv
<1>2. loaded' = [loaded EXCEPT ![s][id] = copy]
      /\ assigned' = [assigned EXCEPT ![s][id] = wanted]
    BY DEF Adopt
<1> HIDE DEF wanted
<1>3. \A t \in Scans, i \in TaskIds :
        /\ loaded'[t][i] = IF t = s /\ i = id THEN copy ELSE loaded[t][i]
        /\ assigned'[t][i] = IF t = s /\ i = id THEN wanted ELSE assigned[t][i]
    BY <1>2 DEF IInv, TypeOK
<1> QED
    BY <1>1, <1>3, ConstantsAssumption DEF IInv, WrittenRowsAreLoaded

LEMMA QueryFoundStep ==
    ASSUME IInv, NEW s \in Scans, QueryFound(s)
    PROVE  IInv'
<1>1. PICK id \in VisibleOpen(s, Head(todo[s]).finding) : Adopt(s, id, CopyOf(s, id))
    BY DEF QueryFound
<1>2. id \in TaskIds /\ todo[s] # <<>>
    BY DEF VisibleOpen, OpenRows, IInv, InsertIsFirst, QueryFound
<1>3. CopyOf(s, id) \in Contents
    BY <1>2 DEF CopyOf, IInv, TypeOK
<1>4. TypeOK'
    BY <1>1, <1>2, <1>3, AdoptTypes DEF IInv, TypeOK, QueryFound, tables, reqVars, history
<1>5. PendingRowsUnique'
    BY DEF IInv, PendingRowsUnique, QueryFound, tables, OpenRows
<1>6. InsertIsFirst'
    BY <1>1, <1>2, AdoptAdvances DEF QueryFound
<1>7. WrittenRowsAreLoaded'
    BY <1>1, <1>2, <1>3, AdoptCopies DEF QueryFound
<1> QED
    BY <1>4, <1>5, <1>6, <1>7, TablesUntouched DEF IInv, QueryFound

LEMMA QueryMissedStep ==
    ASSUME IInv, NEW s \in Scans, QueryMissed(s)
    PROVE  IInv'
<1>1. TypeOK'
    BY DEF IInv, TypeOK, QueryMissed, tables, reqVars, history
<1>2. PendingRowsUnique'
    BY DEF IInv, PendingRowsUnique, QueryMissed, tables, OpenRows
<1>3. InsertIsFirst'
    BY DEF IInv, TypeOK, InsertIsFirst, QueryMissed, VisibleOpen
<1>4. WrittenRowsAreLoaded'
    BY DEF IInv, WrittenRowsAreLoaded, QueryMissed
<1> QED
    BY <1>1, <1>2, <1>3, <1>4, TablesUntouched DEF IInv, QueryMissed

LEMMA InsertSucceedsStep ==
    ASSUME IInv, NEW s \in Scans, InsertSucceeds(s)
    PROVE  IInv'
<1> DEFINE f == Head(todo[s]).finding
<1>1. PICK id \in Unused :
        /\ inserted' = [inserted EXCEPT ![s][id] = f]
        /\ written' = [written EXCEPT ![s][id] = Columns]
        /\ held' = [held EXCEPT ![s] = @ \union {id}]
        /\ Adopt(s, id, DefaultContent)
    BY DEF InsertSucceeds
<1>2. /\ id \in TaskIds
      /\ status[id] = "absent"
      /\ \A t \in Scans : inserted[t][id] = None
    BY DEF Unused
<1>3. scanPc[s] = "insert" /\ todo[s] # <<>>
    BY DEF InsertSucceeds, InsertReady, IInv, InsertIsFirst
<1>4. f \in Findings
    BY <1>3, HeadTypes DEF IInv
<1>5. \A t \in Scans, i \in TaskIds : inserted[t][i] # f
    BY <1>3 DEF InsertSucceeds, InsertReady, InsertWaits, IInv, InsertIsFirst
<1>6. OpenRows(f) = {}
    BY DEF InsertSucceeds
<1> HIDE DEF f
<1>7. TypeOK'
  <2>1. DefaultContent \in Contents
    BY ConstantsAssumption DEF DefaultContent, Contents
  <2> QED
    BY <1>1, <1>2, <1>3, <1>4, <2>1, AdoptTypes, ConstantsAssumption
    DEF IInv, TypeOK, InsertSucceeds, tables, reqVars, history
<1>8. PendingRowsUnique'
  <2>1. UNCHANGED <<status, finding>>
    BY DEF InsertSucceeds, tables
  <2>2. \A t \in Scans, i \in TaskIds :
          inserted'[t][i] = IF t = s /\ i = id THEN f ELSE inserted[t][i]
    BY <1>1, <1>2 DEF IInv, TypeOK
  <2> QED
    BY <1>2, <1>4, <1>5, <1>6, <2>1, <2>2 DEF IInv, PendingRowsUnique, OpenRows
<1>9. InsertIsFirst'
    BY <1>1, <1>2, AdoptAdvances DEF IInv, TypeOK
<1>10. WrittenRowsAreLoaded'
  <2>1. DefaultContent \in Contents
    BY ConstantsAssumption DEF DefaultContent, Contents
  <2>2. \A t \in Scans, i \in TaskIds :
          (t # s \/ i # id) => written'[t][i] = written[t][i]
    BY <1>1 DEF IInv, TypeOK
  <2> QED
    BY <1>1, <1>2, <1>3, <2>1, <2>2, AdoptCopies
<1> QED
    BY <1>7, <1>8, <1>9, <1>10, TablesUntouched DEF IInv, InsertSucceeds

LEMMA InsertConflictsStep ==
    ASSUME IInv, NEW s \in Scans, InsertConflicts(s)
    PROVE  IInv'
<1>1. TypeOK'
    BY DEF IInv, TypeOK, InsertConflicts, InsertReady, tables, reqVars, history
<1>2. PendingRowsUnique'
    BY DEF IInv, PendingRowsUnique, InsertConflicts, tables, OpenRows
<1>3. InsertIsFirst'
    BY DEF IInv, TypeOK, InsertIsFirst, InsertConflicts, InsertReady
<1>4. WrittenRowsAreLoaded'
    BY DEF IInv, WrittenRowsAreLoaded, InsertConflicts
<1> QED
    BY <1>1, <1>2, <1>3, <1>4, TablesUntouched DEF IInv, InsertConflicts

LEMMA RequeryFoundStep ==
    ASSUME IInv, NEW s \in Scans, RequeryFound(s)
    PROVE  IInv'
<1>1. PICK id \in VisibleOpen(s, Head(todo[s]).finding) : Adopt(s, id, CopyOf(s, id))
    BY DEF RequeryFound
<1>2. id \in TaskIds /\ todo[s] # <<>>
    BY DEF VisibleOpen, OpenRows, IInv, InsertIsFirst, RequeryFound
<1>3. CopyOf(s, id) \in Contents
    BY <1>2 DEF CopyOf, IInv, TypeOK
<1>4. TypeOK'
    BY <1>1, <1>2, <1>3, AdoptTypes DEF IInv, TypeOK, RequeryFound, tables, reqVars, history
<1>5. PendingRowsUnique'
    BY DEF IInv, PendingRowsUnique, RequeryFound, tables, OpenRows
<1>6. InsertIsFirst'
    BY <1>1, <1>2, AdoptAdvances DEF RequeryFound
<1>7. WrittenRowsAreLoaded'
    BY <1>1, <1>2, <1>3, AdoptCopies DEF RequeryFound
<1> QED
    BY <1>4, <1>5, <1>6, <1>7, TablesUntouched DEF IInv, RequeryFound

LEMMA FlushRowStep ==
    ASSUME IInv, NEW s \in Scans, NEW id \in TaskIds, FlushRow(s, id)
    PROVE  IInv'
<1>1. TypeOK'
    BY DEF IInv, TypeOK, FlushRow, Running, tables, reqVars, history
<1>2. PendingRowsUnique'
    BY DEF IInv, PendingRowsUnique, FlushRow, tables, OpenRows
<1>3. InsertIsFirst'
    BY DEF IInv, InsertIsFirst, FlushRow
<1>4. WrittenRowsAreLoaded'
  <2>1. loaded[s][id] # None /\ assigned[s][id] # None
    BY DEF FlushRow, Dirty, IInv, WrittenRowsAreLoaded
  <2>2. \A t \in Scans, i \in TaskIds :
          /\ loaded'[t][i] = IF t = s /\ i = id THEN assigned[s][id] ELSE loaded[t][i]
          /\ (t # s \/ i # id) => written'[t][i] = written[t][i]
    BY DEF FlushRow, IInv, TypeOK
  <2> QED
    BY <2>1, <2>2 DEF FlushRow, IInv, WrittenRowsAreLoaded
<1> QED
    BY <1>1, <1>2, <1>3, <1>4, TablesUntouched DEF IInv, FlushRow

-----------------------------------------------------------------------------
(* The end of a scan *)

LEMMA CloseSessionTypes ==
    ASSUME TypeOK, NEW s \in Scans, CloseSession(s)
    PROVE  /\ todo' \in [Scans -> Seq(TaskOutputs)]
           /\ inserted' \in [Scans -> [TaskIds -> Findings \union {None}]]
           /\ loaded' \in [Scans -> [TaskIds -> Contents \union {None}]]
           /\ assigned' \in [Scans -> [TaskIds -> Contents \union {None}]]
           /\ written' \in [Scans -> [TaskIds -> SUBSET Columns]]
           /\ held' \in [Scans -> SUBSET TaskIds]
BY DEF TypeOK, CloseSession

LEMMA RollbackScanStep ==
    ASSUME IInv, NEW s \in Scans, RollbackScan(s)
    PROVE  IInv'
<1>1. TypeOK'
    BY CloseSessionTypes DEF IInv, TypeOK, RollbackScan, tables, reqVars, history
<1>2. \A t \in Scans, i \in TaskIds :
        inserted'[t][i] = IF t = s THEN None ELSE inserted[t][i]
    BY DEF RollbackScan, CloseSession, IInv, TypeOK
<1>3. PendingRowsUnique'
    BY <1>2 DEF IInv, PendingRowsUnique, RollbackScan, tables, OpenRows
<1>4. InsertIsFirst'
    BY <1>2 DEF IInv, TypeOK, InsertIsFirst, RollbackScan, CloseSession
<1>5. WrittenRowsAreLoaded'
    BY DEF IInv, TypeOK, WrittenRowsAreLoaded, RollbackScan, CloseSession
<1> QED
    BY <1>1, <1>3, <1>4, <1>5, TablesUntouched DEF IInv, RollbackScan

LEMMA CommitScanStep ==
    ASSUME IInv, NEW s \in Scans, CommitScan(s)
    PROVE  IInv'
<1>1. \A id \in TaskIds :
        /\ status'[id] = IF inserted[s][id] # None THEN "open" ELSE status[id]
        /\ finding'[id] = IF inserted[s][id] # None THEN inserted[s][id] ELSE finding[id]
    BY DEF CommitScan
<1>2. \A t \in Scans, i \in TaskIds :
        inserted'[t][i] = IF t = s THEN None ELSE inserted[t][i]
    BY DEF CommitScan, CloseSession, IInv, TypeOK
<1>3. \A id \in TaskIds : inserted[s][id] # None => status[id] = "absent"
    BY DEF IInv, PendingRowsUnique
<1>4. TypeOK'
  <2>1. status' \in [TaskIds -> {"absent", "open"} \union Verdicts]
        /\ finding' \in [TaskIds -> Findings \union {None}]
    BY DEF CommitScan, IInv, TypeOK
  <2>2. content' \in [TaskIds -> Contents]
    <3>1. ASSUME NEW id \in TaskIds, NEW c \in Columns
          PROVE  (IF c \in written[s][id] THEN loaded[s][id][c] ELSE content[id][c]) \in Values
      <4>1. CASE c \in written[s][id]
        <5>1. loaded[s][id] \in Contents
          BY <3>1, <4>1 DEF IInv, TypeOK, WrittenRowsAreLoaded
        <5> QED
          BY <3>1, <4>1, <5>1 DEF Contents
      <4>2. CASE c \notin written[s][id]
        BY <3>1, <4>2 DEF IInv, TypeOK, Contents
      <4> QED
        BY <4>1, <4>2
    <3> QED
      BY <3>1 DEF CommitScan, Contents
  <2> QED
    BY <2>1, <2>2, CloseSessionTypes DEF CommitScan, IInv, TypeOK, reqVars
<1>5. RowsAreAboutFindings'
    BY <1>1, ConstantsAssumption DEF IInv, RowsAreAboutFindings
<1>6. OneOpenTaskPerFinding'
    BY <1>1 DEF IInv, OneOpenTaskPerFinding, PendingRowsUnique, OpenRows
<1>7. PendingRowsUnique'
    BY <1>1, <1>2 DEF IInv, PendingRowsUnique, OpenRows
<1>8. InsertIsFirst' /\ WrittenRowsAreLoaded'
    BY <1>2 DEF CommitScan, CloseSession, IInv, TypeOK, InsertIsFirst, WrittenRowsAreLoaded
<1>9. DecidersExclusive'
    BY <1>1, <1>3 DEF CommitScan, reqVars, IInv, DecidersExclusive, Deciding
<1>10. DecisionsRecorded'
    BY <1>1, <1>3, ConstantsAssumption
    DEF CommitScan, IInv, TypeOK, DecisionsRecorded, Decided
<1> QED
    BY <1>4, <1>5, <1>6, <1>7, <1>8, <1>9, <1>10 DEF IInv

-----------------------------------------------------------------------------
(* Decisions *)

\* A decision's steps leave every persisting session alone; those that do not
\* commit leave the tables alone too, and with them all but DecidersExclusive.
LEMMA ScansUntouched ==
    ASSUME IInv, UNCHANGED <<tables, scanVars>>
    PROVE  /\ RowsAreAboutFindings' /\ PendingRowsUnique' /\ InsertIsFirst'
           /\ WrittenRowsAreLoaded' /\ DecisionsRecorded' /\ OneOpenTaskPerFinding'
<1>1. InsertIsFirst' /\ WrittenRowsAreLoaded'
    BY DEF IInv, scanVars, InsertIsFirst, WrittenRowsAreLoaded
<1>2. PendingRowsUnique'
    BY DEF IInv, scanVars, tables, PendingRowsUnique, OpenRows
<1> QED
    BY <1>1, <1>2 DEF IInv, tables, RowsAreAboutFindings, DecisionsRecorded, Decided,
                      OneOpenTaskPerFinding

LEMMA RefuseInvalidStep ==
    ASSUME IInv, NEW r \in Requests, RefuseInvalid(r)
    PROVE  IInv'
<1>1. TypeOK'
    BY DEF IInv, TypeOK, RefuseInvalid, tables, scanVars, history
<1>2. DecidersExclusive'
    BY DEF IInv, TypeOK, DecidersExclusive, Deciding, RefuseInvalid, tables
<1> QED
    BY <1>1, <1>2, ScansUntouched DEF IInv, RefuseInvalid

LEMMA GetTaskStep ==
    ASSUME IInv, NEW r \in Requests, GetTask(r)
    PROVE  IInv'
<1>1. TypeOK'
    BY DEF IInv, TypeOK, GetTask, tables, scanVars, history
<1>2. DecidersExclusive'
    BY DEF IInv, TypeOK, DecidersExclusive, Deciding, GetTask, tables
<1> QED
    BY <1>1, <1>2, ScansUntouched DEF IInv, GetTask

LEMMA UpdateWhereOpenStep ==
    ASSUME IInv, NEW r \in Requests, UpdateWhereOpen(r)
    PROVE  IInv'
<1>1. TypeOK'
    BY DEF IInv, TypeOK, UpdateWhereOpen, tables, scanVars, history
<1>2. DecidersExclusive'
  <2>1. \A q \in Requests \ {r} : ~ (Deciding(q) /\ target[q] = target[r])
    BY DEF UpdateWhereOpen, LockedByOther
  <2> QED
    BY <2>1 DEF IInv, TypeOK, DecidersExclusive, Deciding, UpdateWhereOpen, StillOpen, tables
<1> QED
    BY <1>1, <1>2, ScansUntouched DEF IInv, UpdateWhereOpen

LEMMA AddApprovalStep ==
    ASSUME IInv, NEW r \in Requests, AddApproval(r)
    PROVE  IInv'
<1>1. TypeOK'
    BY DEF IInv, TypeOK, AddApproval, tables, scanVars, history
<1>2. DecidersExclusive'
    BY DEF IInv, TypeOK, DecidersExclusive, Deciding, AddApproval, tables
<1> QED
    BY <1>1, <1>2, ScansUntouched DEF IInv, AddApproval

LEMMA FailDecisionStep ==
    ASSUME IInv, NEW r \in Requests, FailDecision(r)
    PROVE  IInv'
<1>1. TypeOK'
    BY DEF IInv, TypeOK, FailDecision, tables, scanVars, history
<1>2. DecidersExclusive'
    BY DEF IInv, TypeOK, DecidersExclusive, Deciding, FailDecision, tables
<1> QED
    BY <1>1, <1>2, ScansUntouched DEF IInv, FailDecision

LEMMA CommitDecisionStep ==
    ASSUME IInv, NEW r \in Requests, CommitDecision(r)
    PROVE  IInv'
<1> DEFINE t == target[r]
           v == verdict[r]
<1>1. t \in TaskIds /\ v \in Verdicts /\ status[t] = "open" /\ v # "open" /\ v # "absent"
    BY ConstantsAssumption DEF CommitDecision, Deciding, IInv, DecidersExclusive
<1>2. /\ status' = [status EXCEPT ![t] = v]
      /\ approvals' = approvals \union {[task |-> t, by |-> r, verdict |-> v]}
      /\ UNCHANGED <<finding, content, scanVars, target, verdict, history>>
    BY DEF CommitDecision
<1>3. PICK answer \in {"ok", "error"} : reqPc' = [reqPc EXCEPT ![r] = answer]
    BY DEF CommitDecision
<1>4. \A q \in Requests : (Deciding(q) /\ target[q] = t) => q = r
    BY DEF CommitDecision, Deciding, IInv, DecidersExclusive
<1> HIDE DEF t, v
<1>5. \A id \in TaskIds : status'[id] = IF id = t THEN v ELSE status[id]
    BY <1>1, <1>2 DEF IInv, TypeOK
<1>6. TypeOK'
  <2>1. status' \in [TaskIds -> {"absent", "open"} \union Verdicts]
        /\ approvals' \subseteq [task : TaskIds, by : Requests, verdict : Verdicts]
    BY <1>1, <1>2 DEF IInv, TypeOK
  <2> QED
    BY <1>2, <1>3, <2>1 DEF IInv, TypeOK, scanVars, history
<1>7. RowsAreAboutFindings' /\ OneOpenTaskPerFinding'
    BY <1>1, <1>2, <1>5 DEF IInv, RowsAreAboutFindings, OneOpenTaskPerFinding
<1>8. PendingRowsUnique'
    BY <1>1, <1>2, <1>5 DEF IInv, PendingRowsUnique, OpenRows, scanVars
<1>9. InsertIsFirst' /\ WrittenRowsAreLoaded'
    BY <1>2 DEF IInv, scanVars, InsertIsFirst, WrittenRowsAreLoaded
<1>10. DecidersExclusive'
    BY <1>2, <1>3, <1>4, <1>5 DEF IInv, TypeOK, DecidersExclusive, Deciding, t
<1>11. DecisionsRecorded'
  <2>1. \A a \in approvals : a.task # t
    BY <1>1, ConstantsAssumption DEF IInv, TypeOK, DecisionsRecorded
  <2> DEFINE row == [task |-> t, by |-> r, verdict |-> v]
  <2>2. row.task = t /\ row.verdict = v
    OBVIOUS
  <2>3. approvals' = approvals \union {row}
    BY <1>2
  <2> HIDE DEF row
  <2>4. \A a \in approvals' : status'[a.task] = a.verdict
    BY <1>5, <1>1, <2>1, <2>2, <2>3 DEF IInv, TypeOK, DecisionsRecorded
  <2>5. \A a, b \in approvals' : a.task = b.task => a = b
    BY <2>1, <2>2, <2>3 DEF IInv, DecisionsRecorded
  <2>6. \A id \in TaskIds : Decided(id)' => \E a \in approvals' : a.task = id
    BY <1>1, <1>5, <2>2, <2>3 DEF IInv, DecisionsRecorded, Decided
  <2> QED
    BY <2>4, <2>5, <2>6 DEF DecisionsRecorded
<1> QED
    BY <1>6, <1>7, <1>8, <1>9, <1>10, <1>11 DEF IInv

-----------------------------------------------------------------------------
(* The invariant and what follows from it *)

\* Every step of every session, or of none, keeps the inductive invariant.
THEOREM InvariantKept == IInv /\ [Next]_vars => IInv'
<1> SUFFICES ASSUME IInv, [Next]_vars PROVE IInv'
    OBVIOUS
<1>1. CASE UNCHANGED vars
  <2>1. UNCHANGED <<tables, reqVars>> /\ UNCHANGED <<tables, scanVars>>
        /\ UNCHANGED history
    BY <1>1 DEF vars
  <2>2. TypeOK'
    BY <2>1 DEF IInv, TypeOK, tables, reqVars, scanVars, history
  <2> QED
    BY <2>1, <2>2, TablesUntouched, ScansUntouched DEF IInv
<1>2. ASSUME NEW s \in Scans, BeginScan(s) PROVE IInv'
    BY <1>2, BeginScanStep
<1>3. ASSUME NEW s \in Scans, ScanStep(s) PROVE IInv'
  <2>1. CASE QueryFound(s)
    BY <2>1, QueryFoundStep
  <2>2. CASE QueryMissed(s)
    BY <2>2, QueryMissedStep
  <2>3. CASE InsertSucceeds(s)
    BY <2>3, InsertSucceedsStep
  <2>4. CASE InsertConflicts(s)
    BY <2>4, InsertConflictsStep
  <2>5. CASE RequeryFound(s)
    BY <2>5, RequeryFoundStep
  <2>6. CASE RequeryMissed(s)
    BY <2>6, RollbackScanStep DEF RequeryMissed
  <2>7. ASSUME NEW id \in TaskIds, FlushRow(s, id) PROVE IInv'
    BY <2>7, FlushRowStep
  <2>8. CASE CommitScan(s)
    BY <2>8, CommitScanStep
  <2> QED
    BY <1>3, <2>1, <2>2, <2>3, <2>4, <2>5, <2>6, <2>7, <2>8 DEF ScanStep
<1>4. ASSUME NEW s \in Scans, DeadlockVictim(s) PROVE IInv'
    BY <1>4, RollbackScanStep DEF DeadlockVictim
<1>5. ASSUME NEW s \in Scans, FailScan(s) PROVE IInv'
    BY <1>5, RollbackScanStep DEF FailScan
<1>6. ASSUME NEW r \in Requests, RefuseInvalid(r) PROVE IInv'
    BY <1>6, RefuseInvalidStep
<1>7. ASSUME NEW r \in Requests, GetTask(r) PROVE IInv'
    BY <1>7, GetTaskStep
<1>8. ASSUME NEW r \in Requests, DecisionStep(r) PROVE IInv'
    BY <1>8, UpdateWhereOpenStep, AddApprovalStep, CommitDecisionStep DEF DecisionStep
<1>9. ASSUME NEW r \in Requests, FailDecision(r) PROVE IInv'
    BY <1>9, FailDecisionStep
<1> QED
    BY <1>1, <1>2, <1>3, <1>4, <1>5, <1>6, <1>7, <1>8, <1>9 DEF Next

\* The inductive invariant holds in every reachable state.
THEOREM Invariant == Spec => []IInv
<1> QED
    BY InitialState, InvariantKept, PTL DEF Spec

\* Every variable always holds a value of its kind.
THEOREM TypeCorrect == Spec => []TypeOK
<1>1. IInv => TypeOK
    BY DEF IInv
<1> QED
    BY <1>1, Invariant, PTL

\* The audit trail is exact: racing approve, reject and accept-risk requests
\* leave each decided task with one approval row, which names its status.
THEOREM AuditTrailExact == Spec => []DecisionsRecorded
<1>1. IInv => DecisionsRecorded
    BY DEF IInv
<1> QED
    BY <1>1, Invariant, PTL

\* However many scans persist the same vulnerability at once, it has at most
\* one open task.
THEOREM OpenTasksUnique == Spec => []OneOpenTaskPerFinding
<1>1. IInv => OneOpenTaskPerFinding
    BY DEF IInv
<1> QED
    BY <1>1, Invariant, PTL

-----------------------------------------------------------------------------
(* The tables implement the ledger. *)

LEMMA LedgerInit == Init => Ledger!Init
BY ConstantsAssumption DEF Init, Ledger!Init

LEMMA ScanCommitOpensTasks ==
    ASSUME IInv, NEW s \in Scans, CommitScan(s)
    PROVE  Ledger!OpenTasks
<1> DEFINE rows == {id \in TaskIds : inserted[s][id] # None}
<1>1. rows \in SUBSET {id \in TaskIds : status[id] = "absent"}
    BY DEF IInv, PendingRowsUnique
<1>2. status' = [id \in TaskIds |-> IF id \in rows THEN "open" ELSE status[id]]
    BY DEF CommitScan
<1>3. /\ finding' \in [TaskIds -> Findings \union {None}]
      /\ \A id \in TaskIds \ rows : finding'[id] = finding[id]
      /\ UNCHANGED approvals
    BY DEF CommitScan, IInv, TypeOK
<1>4. ASSUME NEW id \in rows
      PROVE  /\ finding'[id] # None
             /\ \A other \in TaskIds :
                  (status'[other] = "open" /\ finding'[other] = finding'[id]) => other = id
    BY <1>4 DEF CommitScan, IInv, PendingRowsUnique, OpenRows
<1> QED
    BY <1>1, <1>2, <1>3, <1>4 DEF Ledger!OpenTasks

LEMMA CommitDecides ==
    ASSUME IInv, NEW r \in Requests, CommitDecision(r)
    PROVE  Ledger!Decide(r)
<1>1. target[r] \in TaskIds /\ verdict[r] \in Verdicts /\ status[target[r]] = "open"
    BY DEF CommitDecision, Deciding, IInv, DecidersExclusive
<1> QED
    BY <1>1 DEF CommitDecision, Ledger!Decide

LEMMA LedgerStep == IInv /\ [Next]_vars => [Ledger!Next]_(Ledger!vars)
<1> SUFFICES ASSUME IInv, [Next]_vars PROVE Ledger!Next \/ UNCHANGED Ledger!vars
    OBVIOUS
<1>1. CASE UNCHANGED vars
    BY <1>1 DEF vars, tables, Ledger!vars
<1>2. ASSUME NEW s \in Scans, CommitScan(s) PROVE Ledger!Next
    BY <1>2, ScanCommitOpensTasks DEF Ledger!Next
<1>3. ASSUME NEW r \in Requests, CommitDecision(r) PROVE Ledger!Next
    BY <1>3, CommitDecides DEF Ledger!Next
<1>4. ASSUME NEW s \in Scans,
             BeginScan(s) \/ DeadlockVictim(s) \/ FailScan(s) \/ (ScanStep(s) /\ ~ CommitScan(s))
      PROVE  UNCHANGED tables
    BY <1>4 DEF BeginScan, ScanStep, QueryFound, QueryMissed, InsertSucceeds,
                InsertConflicts, RequeryFound, RequeryMissed, FlushRow, DeadlockVictim,
                FailScan, RollbackScan
<1>5. ASSUME NEW r \in Requests,
             RefuseInvalid(r) \/ GetTask(r) \/ UpdateWhereOpen(r) \/ AddApproval(r)
               \/ FailDecision(r)
      PROVE  UNCHANGED tables
    BY <1>5 DEF RefuseInvalid, GetTask, UpdateWhereOpen, AddApproval, FailDecision
<1>6. UNCHANGED tables => UNCHANGED Ledger!vars
    BY DEF tables, Ledger!vars
<1> QED
    BY <1>1, <1>2, <1>3, <1>4, <1>5, <1>6 DEF Next, DecisionStep

\* Savepoints, row locks, conflicts, deadlocks and failures are invisible: the
\* tables behave as if each scan and each decision took effect in one step.
THEOREM ImplementsTheLedger == Spec => ImplementsLedger
<1> QED
    BY LedgerInit, LedgerStep, Invariant, PTL DEF Spec, ImplementsLedger, Ledger!Spec

-----------------------------------------------------------------------------
(* What an open session knows *)

\* A session that is not running holds no copy and no pending row.
ClosedSessionsEmpty ==
    \A s \in Scans : ~ Running(s) =>
      \A id \in TaskIds : loaded[s][id] = None /\ inserted[s][id] = None

\* A reply names a stored row of that finding, or the session's pending one.
RepliesBacked ==
    \A s \in Scans, f \in Findings :
      (scanPc[s] # "failed" /\ reply[s][f] # None) =>
        \/ status[reply[s][f]] # "absent" /\ finding[reply[s][f]] = f
        \/ inserted[s][reply[s][f]] = f

\* A task decided before the scan began stays decided, and is never copied.
SettledUntouched ==
    \A s \in Scans : \A id \in settled[s] : Decided(id) /\ loaded[s][id] = None

\* Until another scan commits, a copy differs from the stored row only in the
\* columns the session has written.
CopiesFresh ==
    \A s \in Scans, id \in TaskIds :
      (~ disturbed[s] /\ loaded[s][id] # None) =>
        \A c \in Columns \ written[s][id] : loaded[s][id][c] = content[id][c]

\* The part of the invariant about persisting scans.
ScansInv == ClosedSessionsEmpty /\ RepliesBacked /\ SettledUntouched /\ CopiesFresh

\* An approval is stored when its request is answered, and not before.
ApproversAnswered ==
    \A a \in approvals : reqPc[a.by] \in {"ok", "error"}

\* The part of the invariant about decision requests.
AnswersInv == ApproversAnswered /\ AnswersMatchApprovals

SInv == ScansInv /\ AnswersInv

LEMMA InitialSessions == Init => SInv
BY DEF Init, SInv, ScansInv, AnswersInv, ClosedSessionsEmpty, RepliesBacked,
       SettledUntouched, CopiesFresh, ApproversAnswered, AnswersMatchApprovals

-----------------------------------------------------------------------------
(* Steps of a scan keep ScansInv. *)

LEMMA BeginScanSessions ==
    ASSUME IInv, ScansInv, NEW s \in Scans, BeginScan(s)
    PROVE  ScansInv'
<1>1. /\ UNCHANGED <<status, finding, content, inserted, loaded, written, reply, disturbed>>
      /\ ~ Running(s)
      /\ \A t \in Scans : Running(t) => Running(t)'
      /\ \A t \in Scans : scanPc'[t] = "failed" <=> scanPc[t] = "failed"
    BY DEF BeginScan, tables, Running, IInv, TypeOK
<1>2. ClosedSessionsEmpty' /\ RepliesBacked' /\ CopiesFresh'
    BY <1>1 DEF ScansInv, ClosedSessionsEmpty, RepliesBacked, CopiesFresh
<1>3. \A t \in Scans : settled'[t] = IF t = s THEN {id \in TaskIds : Decided(id)}
                                              ELSE settled[t]
    BY DEF BeginScan, IInv, TypeOK
<1>4. SettledUntouched'
    BY <1>1, <1>3 DEF ScansInv, SettledUntouched, ClosedSessionsEmpty, Decided
<1> QED
    BY <1>2, <1>4 DEF ScansInv

\* A step that only moves a running session to another running state.
LEMMA MoveSessions ==
    ASSUME ScansInv, NEW s \in Scans, Running(s), Running(s)',
           UNCHANGED <<tables, inserted, loaded, written, reply, history>>,
           \A t \in Scans \ {s} : scanPc'[t] = scanPc[t]
    PROVE  ScansInv'
<1>1. ClosedSessionsEmpty' /\ RepliesBacked'
    BY DEF ScansInv, ClosedSessionsEmpty, RepliesBacked, Running, tables
<1>2. SettledUntouched' /\ CopiesFresh'
    BY DEF ScansInv, SettledUntouched, CopiesFresh, Decided, tables, history
<1> QED
    BY <1>1, <1>2 DEF ScansInv

\* What Adopt does, entry by entry.
LEMMA AdoptEntries ==
    ASSUME IInv, NEW s \in Scans, NEW id \in TaskIds, NEW copy,
           Adopt(s, id, copy), todo[s] # <<>>
    PROVE  /\ \A t \in Scans, i \in TaskIds :
                loaded'[t][i] = IF t = s /\ i = id THEN copy ELSE loaded[t][i]
           /\ \A t \in Scans, f \in Findings :
                reply'[t][f] = IF t = s /\ f = Head(todo[s]).finding THEN id
                                                                   ELSE reply[t][f]
           /\ Running(s)'
           /\ \A t \in Scans \ {s} : scanPc'[t] = scanPc[t]
<1> DEFINE task == Head(todo[s])
<1>1. task.finding \in Findings
    BY HeadTypes DEF IInv
<1> HIDE DEF task
<1>2. loaded' = [loaded EXCEPT ![s][id] = copy]
      /\ reply' = [reply EXCEPT ![s][task.finding] = id]
      /\ scanPc' = [scanPc EXCEPT ![s] = IF Tail(todo[s]) = <<>> THEN "commit" ELSE "query"]
    BY DEF Adopt, task
<1>3. \A t \in Scans, f \in Findings :
        reply'[t][f] = IF t = s /\ f = task.finding THEN id ELSE reply[t][f]
    BY <1>1, <1>2 DEF IInv, TypeOK
<1>4. \A t \in Scans, i \in TaskIds :
        loaded'[t][i] = IF t = s /\ i = id THEN copy ELSE loaded[t][i]
    BY <1>2 DEF IInv, TypeOK
<1>5. Running(s)' /\ \A t \in Scans \ {s} : scanPc'[t] = scanPc[t]
    BY <1>2 DEF IInv, TypeOK, Running
<1> QED
    BY <1>3, <1>4, <1>5 DEF task

\* QueryFound and RequeryFound: the row adopted is open, or the session's own.
LEMMA FoundSessions ==
    ASSUME IInv, ScansInv, NEW s \in Scans, Running(s), todo[s] # <<>>,
           NEW id \in VisibleOpen(s, Head(todo[s]).finding), Adopt(s, id, CopyOf(s, id)),
           UNCHANGED <<tables, inserted, written, history>>
    PROVE  ScansInv'
<1> DEFINE f == Head(todo[s]).finding
<1>1. id \in TaskIds
    BY DEF VisibleOpen, OpenRows
<1>2. f \in Findings
    BY HeadTypes DEF IInv
<1>3. \/ status[id] = "open" /\ finding[id] = f
      \/ status[id] = "absent" /\ inserted[s][id] = f
    BY <1>1, <1>2, ConstantsAssumption DEF VisibleOpen, OpenRows, IInv, PendingRowsUnique
<1> HIDE DEF f
<1>4. /\ \A t \in Scans, i \in TaskIds :
           loaded'[t][i] = IF t = s /\ i = id THEN CopyOf(s, id) ELSE loaded[t][i]
      /\ \A t \in Scans, g \in Findings :
           reply'[t][g] = IF t = s /\ g = f THEN id ELSE reply[t][g]
      /\ Running(s)'
      /\ \A t \in Scans \ {s} : scanPc'[t] = scanPc[t]
    BY <1>1, AdoptEntries DEF f
<1>5. UNCHANGED <<status, finding, content, inserted, written, settled, disturbed>>
    BY DEF tables, history
<1>6. ClosedSessionsEmpty'
    BY <1>4, <1>5 DEF ScansInv, ClosedSessionsEmpty, Running
<1>7. RepliesBacked'
  <2> SUFFICES ASSUME NEW t \in Scans, NEW g \in Findings,
                      scanPc'[t] # "failed", reply'[t][g] # None
               PROVE  \/ status[reply'[t][g]] # "absent" /\ finding[reply'[t][g]] = g
                      \/ inserted[t][reply'[t][g]] = g
    BY <1>5 DEF RepliesBacked
  <2>1. CASE t = s /\ g = f
    BY <2>1, <1>3, <1>4
  <2>2. CASE ~ (t = s /\ g = f)
    BY <2>2, <1>4 DEF ScansInv, RepliesBacked, Running
  <2> QED
    BY <2>1, <2>2
<1>8. SettledUntouched'
  <2> SUFFICES ASSUME NEW t \in Scans, NEW i \in settled[t]
               PROVE  Decided(i)' /\ loaded'[t][i] = None
    BY <1>5 DEF SettledUntouched
  <2>1. i \in TaskIds /\ Decided(i) /\ loaded[t][i] = None
    BY DEF ScansInv, SettledUntouched, IInv, TypeOK
  <2>2. i # id
    BY <2>1, <1>3, ConstantsAssumption DEF Decided
  <2> QED
    BY <1>4, <1>5, <2>1, <2>2 DEF Decided
<1>9. CopiesFresh'
    BY <1>1, <1>4, <1>5 DEF ScansInv, CopiesFresh, CopyOf
<1> QED
    BY <1>6, <1>7, <1>8, <1>9 DEF ScansInv

LEMMA InsertSucceedsSessions ==
    ASSUME IInv, ScansInv, NEW s \in Scans, InsertSucceeds(s)
    PROVE  ScansInv'
<1> DEFINE f == Head(todo[s]).finding
<1>1. PICK id \in Unused :
        /\ inserted' = [inserted EXCEPT ![s][id] = f]
        /\ written' = [written EXCEPT ![s][id] = Columns]
        /\ Adopt(s, id, DefaultContent)
    BY DEF InsertSucceeds
<1>2. id \in TaskIds /\ status[id] = "absent" /\ \A t \in Scans : inserted[t][id] = None
    BY DEF Unused
<1>3. Running(s) /\ todo[s] # <<>>
    BY DEF InsertSucceeds, InsertReady, Running, IInv, InsertIsFirst
<1>4. f \in Findings
    BY <1>3, HeadTypes DEF IInv
<1> HIDE DEF f
<1>5. /\ \A t \in Scans, i \in TaskIds :
           loaded'[t][i] = IF t = s /\ i = id THEN DefaultContent ELSE loaded[t][i]
      /\ \A t \in Scans, g \in Findings :
           reply'[t][g] = IF t = s /\ g = f THEN id ELSE reply[t][g]
      /\ Running(s)'
      /\ \A t \in Scans \ {s} : scanPc'[t] = scanPc[t]
    BY <1>1, <1>2, <1>3, AdoptEntries DEF f
<1>6. \A t \in Scans, i \in TaskIds :
        /\ inserted'[t][i] = IF t = s /\ i = id THEN f ELSE inserted[t][i]
        /\ written'[t][i] = IF t = s /\ i = id THEN Columns ELSE written[t][i]
    BY <1>1, <1>2 DEF IInv, TypeOK
<1>7. UNCHANGED <<status, finding, content, settled, disturbed>>
    BY DEF InsertSucceeds, tables, history
<1>8. ClosedSessionsEmpty'
    BY <1>5, <1>6 DEF ScansInv, ClosedSessionsEmpty, Running
<1>9. RepliesBacked'
  <2> SUFFICES ASSUME NEW t \in Scans, NEW g \in Findings,
                      scanPc'[t] # "failed", reply'[t][g] # None
               PROVE  \/ status[reply'[t][g]] # "absent" /\ finding[reply'[t][g]] = g
                      \/ inserted'[t][reply'[t][g]] = g
    BY <1>7 DEF RepliesBacked
  <2>1. CASE t = s /\ g = f
    BY <2>1, <1>2, <1>5, <1>6
  <2>2. CASE ~ (t = s /\ g = f)
    <3>1. reply'[t][g] = reply[t][g] /\ reply[t][g] \in TaskIds /\ scanPc[t] # "failed"
      BY <2>2, <1>3, <1>5 DEF Running, IInv, TypeOK
    <3>2. inserted[t][id] # g
      BY <1>2, ConstantsAssumption
    <3> QED
      BY <3>1, <3>2, <1>6 DEF ScansInv, RepliesBacked
  <2> QED
    BY <2>1, <2>2
<1>10. SettledUntouched'
  <2> SUFFICES ASSUME NEW t \in Scans, NEW i \in settled[t]
               PROVE  Decided(i)' /\ loaded'[t][i] = None
    BY <1>7 DEF SettledUntouched
  <2>1. i \in TaskIds /\ Decided(i) /\ loaded[t][i] = None
    BY DEF ScansInv, SettledUntouched, IInv, TypeOK
  <2>2. i # id
    BY <2>1, <1>2, ConstantsAssumption DEF Decided
  <2> QED
    BY <1>5, <1>7, <2>1, <2>2 DEF Decided
<1>11. CopiesFresh'
    BY <1>5, <1>6, <1>7 DEF ScansInv, CopiesFresh
<1> QED
    BY <1>8, <1>9, <1>10, <1>11 DEF ScansInv

LEMMA FlushRowSessions ==
    ASSUME IInv, ScansInv, NEW s \in Scans, NEW id \in TaskIds, FlushRow(s, id)
    PROVE  ScansInv'
<1> DEFINE changed == {c \in Columns : assigned[s][id][c] # loaded[s][id][c]}
<1>1. /\ \A t \in Scans, i \in TaskIds :
           /\ loaded'[t][i] = IF t = s /\ i = id THEN assigned[s][id] ELSE loaded[t][i]
           /\ written'[t][i] = IF t = s /\ i = id THEN written[s][id] \union changed
                                                  ELSE written[t][i]
      /\ UNCHANGED <<status, finding, content, scanPc, inserted, reply, settled, disturbed>>
    BY DEF FlushRow, IInv, TypeOK, tables, history
<1> HIDE DEF changed
<1>2. Running(s) /\ loaded[s][id] # None
    BY DEF FlushRow, Dirty, IInv, WrittenRowsAreLoaded
<1>3. ClosedSessionsEmpty' /\ RepliesBacked'
    BY <1>1, <1>2 DEF ScansInv, ClosedSessionsEmpty, RepliesBacked, Running
<1>4. SettledUntouched'
  <2> SUFFICES ASSUME NEW t \in Scans, NEW i \in settled[t]
               PROVE  Decided(i)' /\ loaded'[t][i] = None
    BY <1>1 DEF SettledUntouched
  <2>1. i \in TaskIds /\ Decided(i) /\ loaded[t][i] = None
    BY DEF ScansInv, SettledUntouched, IInv, TypeOK
  <2> QED
    BY <1>1, <1>2, <2>1 DEF Decided
<1>5. CopiesFresh'
  <2> SUFFICES ASSUME NEW t \in Scans, NEW i \in TaskIds, ~ disturbed[t],
                      loaded'[t][i] # None, NEW c \in Columns \ written'[t][i]
               PROVE  loaded'[t][i][c] = content[i][c]
    BY <1>1 DEF CopiesFresh
  <2>1. CASE t = s /\ i = id
    <3>1. c \notin written[s][id] /\ assigned[s][id][c] = loaded[s][id][c]
      BY <1>1, <2>1 DEF changed
    <3> QED
      BY <1>1, <1>2, <2>1, <3>1 DEF ScansInv, CopiesFresh
  <2>2. CASE ~ (t = s /\ i = id)
    BY <1>1, <2>2 DEF ScansInv, CopiesFresh
  <2> QED
    BY <2>1, <2>2
<1> QED
    BY <1>3, <1>4, <1>5 DEF ScansInv

\* What closing a session does, entry by entry.
LEMMA CloseEntries ==
    ASSUME IInv, NEW s \in Scans, CloseSession(s)
    PROVE  \A t \in Scans, i \in TaskIds :
             /\ inserted'[t][i] = IF t = s THEN None ELSE inserted[t][i]
             /\ loaded'[t][i] = IF t = s THEN None ELSE loaded[t][i]
             /\ written'[t][i] = IF t = s THEN {} ELSE written[t][i]
BY DEF CloseSession, IInv, TypeOK

LEMMA RollbackSessions ==
    ASSUME IInv, ScansInv, NEW s \in Scans, RollbackScan(s)
    PROVE  ScansInv'
<1>1. \A t \in Scans, i \in TaskIds :
        /\ inserted'[t][i] = IF t = s THEN None ELSE inserted[t][i]
        /\ loaded'[t][i] = IF t = s THEN None ELSE loaded[t][i]
        /\ written'[t][i] = IF t = s THEN {} ELSE written[t][i]
    BY CloseEntries DEF RollbackScan
<1>2. /\ UNCHANGED <<status, finding, content, reply, settled, disturbed>>
      /\ \A t \in Scans : scanPc'[t] = IF t = s THEN "failed" ELSE scanPc[t]
    BY DEF RollbackScan, tables, history, IInv, TypeOK
<1>3. ClosedSessionsEmpty'
    BY <1>1, <1>2 DEF ScansInv, ClosedSessionsEmpty, Running
<1>4. RepliesBacked'
    BY <1>1, <1>2 DEF ScansInv, RepliesBacked, IInv, TypeOK
<1>5. SettledUntouched' /\ CopiesFresh'
    BY <1>1, <1>2 DEF ScansInv, SettledUntouched, CopiesFresh, Decided, IInv, TypeOK
<1> QED
    BY <1>3, <1>4, <1>5 DEF ScansInv

LEMMA CommitScanSessions ==
    ASSUME IInv, ScansInv, NEW s \in Scans, CommitScan(s)
    PROVE  ScansInv'
<1>1. \A t \in Scans, i \in TaskIds :
        /\ inserted'[t][i] = IF t = s THEN None ELSE inserted[t][i]
        /\ loaded'[t][i] = IF t = s THEN None ELSE loaded[t][i]
        /\ written'[t][i] = IF t = s THEN {} ELSE written[t][i]
    BY CloseEntries DEF CommitScan
<1>2. PICK answer \in {"done", "failed"} : scanPc' = [scanPc EXCEPT ![s] = answer]
    BY DEF CommitScan
<1>3. /\ \A t \in Scans \ {s} : scanPc'[t] = scanPc[t]
      /\ scanPc'[s] \in {"done", "failed"} /\ scanPc[s] = "commit"
      /\ UNCHANGED <<reply, settled>>
      /\ \A t \in Scans : disturbed'[t] = (disturbed[t] \/ (t # s /\ Running(t)))
    BY <1>2 DEF CommitScan, IInv, TypeOK
<1>4. \A id \in TaskIds :
        /\ status'[id] = IF inserted[s][id] # None THEN "open" ELSE status[id]
        /\ finding'[id] = IF inserted[s][id] # None THEN inserted[s][id] ELSE finding[id]
    BY DEF CommitScan
<1>5. \A id \in TaskIds : inserted[s][id] # None => status[id] = "absent"
    BY DEF IInv, PendingRowsUnique
<1>6. ClosedSessionsEmpty'
    BY <1>1, <1>3 DEF ScansInv, ClosedSessionsEmpty, Running
<1>7. RepliesBacked'
  <2> SUFFICES ASSUME NEW t \in Scans, NEW f \in Findings,
                      scanPc'[t] # "failed", reply[t][f] # None
               PROVE  \/ status'[reply[t][f]] # "absent" /\ finding'[reply[t][f]] = f
                      \/ inserted'[t][reply[t][f]] = f
    BY <1>3 DEF RepliesBacked
  <2>1. reply[t][f] \in TaskIds /\ scanPc[t] # "failed"
    BY <1>3 DEF IInv, TypeOK
  <2>2. \/ status[reply[t][f]] # "absent" /\ finding[reply[t][f]] = f
        \/ inserted[t][reply[t][f]] = f
    BY <2>1 DEF ScansInv, RepliesBacked
  <2> QED
    BY <1>1, <1>4, <1>5, <2>1, <2>2, ConstantsAssumption
<1>8. SettledUntouched'
  <2> SUFFICES ASSUME NEW t \in Scans, NEW id \in settled[t]
               PROVE  Decided(id)' /\ loaded'[t][id] = None
    BY <1>3 DEF SettledUntouched
  <2>1. id \in TaskIds /\ Decided(id) /\ loaded[t][id] = None
    BY DEF ScansInv, SettledUntouched, IInv, TypeOK
  <2> QED
    BY <1>1, <1>4, <1>5, <2>1, ConstantsAssumption DEF Decided
<1>9. CopiesFresh'
  <2>1. ASSUME NEW t \in Scans, NEW id \in TaskIds, ~ disturbed'[t]
        PROVE  loaded'[t][id] = None
    <3>1. t = s \/ ~ Running(t)
      BY <1>3, <2>1
    <3> QED
      BY <1>1, <3>1 DEF ScansInv, ClosedSessionsEmpty
  <2> QED
    BY <2>1 DEF CopiesFresh
<1> QED
    BY <1>6, <1>7, <1>8, <1>9 DEF ScansInv

-----------------------------------------------------------------------------
(* Steps of a decision *)

\* A decision that does not commit changes no table and no session.
LEMMA DecisionKeepsSessions ==
    ASSUME ScansInv, UNCHANGED <<tables, scanVars, history>>
    PROVE  ScansInv'
<1>1. ClosedSessionsEmpty' /\ RepliesBacked'
    BY DEF ScansInv, ClosedSessionsEmpty, RepliesBacked, Running, tables, scanVars
<1>2. SettledUntouched' /\ CopiesFresh'
    BY DEF ScansInv, SettledUntouched, CopiesFresh, Decided, tables, scanVars, history
<1> QED
    BY <1>1, <1>2 DEF ScansInv

LEMMA CommitDecisionSessions ==
    ASSUME IInv, ScansInv, NEW r \in Requests, CommitDecision(r)
    PROVE  ScansInv'
<1>1. target[r] \in TaskIds /\ verdict[r] \in Verdicts /\ status[target[r]] = "open"
    BY DEF CommitDecision, Deciding, IInv, DecidersExclusive
<1>2. \A id \in TaskIds : status'[id] = IF id = target[r] THEN verdict[r] ELSE status[id]
    BY <1>1 DEF CommitDecision, IInv, TypeOK
<1>3. UNCHANGED <<finding, content, scanVars, history>>
    BY DEF CommitDecision
<1>4. ClosedSessionsEmpty' /\ CopiesFresh'
    BY <1>3 DEF ScansInv, ClosedSessionsEmpty, CopiesFresh, Running, scanVars, history
<1>5. RepliesBacked'
  <2>1. \A id \in TaskIds : status[id] # "absent" => status'[id] # "absent"
    BY <1>1, <1>2, ConstantsAssumption
  <2>2. \A s \in Scans, f \in Findings : reply[s][f] # None => reply[s][f] \in TaskIds
    BY DEF IInv, TypeOK
  <2> QED
    BY <1>3, <2>1, <2>2 DEF ScansInv, RepliesBacked, scanVars
<1>6. SettledUntouched'
    BY <1>1, <1>2, <1>3 DEF ScansInv, SettledUntouched, Decided, scanVars, history, IInv, TypeOK
<1> QED
    BY <1>4, <1>5, <1>6 DEF ScansInv

\* A request that moves on without storing an approval, and without claiming
\* that it did: what it is told follows from its not having been answered.
LEMMA AnswerWithoutApproval ==
    ASSUME IInv, AnswersInv, NEW r \in Requests,
           reqPc[r] \in {"idle", "loaded", "updated", "recorded"},
           reqPc'[r] # "ok", UNCHANGED approvals,
           \A q \in Requests \ {r} :
             reqPc'[q] = reqPc[q] /\ target'[q] = target[q] /\ verdict'[q] = verdict[q]
    PROVE  AnswersInv'
<1>1. \A a \in approvals : a.by \in Requests /\ a.by # r
    BY DEF AnswersInv, ApproversAnswered, IInv, TypeOK
<1>2. ApproversAnswered'
    BY <1>1 DEF AnswersInv, ApproversAnswered
<1>3. AnswersMatchApprovals'
    BY <1>1 DEF AnswersInv, AnswersMatchApprovals
<1> QED
    BY <1>2, <1>3 DEF AnswersInv

LEMMA CommitDecisionAnswers ==
    ASSUME IInv, AnswersInv, NEW r \in Requests, CommitDecision(r)
    PROVE  AnswersInv'
<1> DEFINE row == [task |-> target[r], by |-> r, verdict |-> verdict[r]]
<1>1. row.by = r
    OBVIOUS
<1>2. approvals' = approvals \union {row} /\ UNCHANGED <<target, verdict>>
    BY DEF CommitDecision
<1>3. /\ reqPc'[r] \in {"ok", "error"}
      /\ \A q \in Requests \ {r} : reqPc'[q] = reqPc[q]
    BY DEF CommitDecision, IInv, TypeOK
<1>4. \A a \in approvals : a.by \in Requests
    BY DEF IInv, TypeOK
<1>5. ApproversAnswered'
  <2> HIDE DEF row
  <2> QED
    BY <1>1, <1>2, <1>3, <1>4 DEF AnswersInv, ApproversAnswered
<1>6. AnswersMatchApprovals'
  <2> SUFFICES ASSUME NEW q \in Requests
               PROVE  /\ reqPc'[q] = "ok" =>
                           [task |-> target[q], by |-> q, verdict |-> verdict[q]] \in approvals'
                      /\ reqPc'[q] \in {"invalid", "not_found", "conflict"} =>
                           \A a \in approvals' : a.by # q
    BY <1>2 DEF AnswersMatchApprovals
  <2>1. CASE q = r
    BY <2>1, <1>2, <1>3
  <2>2. CASE q # r
    <3> HIDE DEF row
    <3> QED
      BY <2>2, <1>1, <1>2, <1>3 DEF AnswersInv, AnswersMatchApprovals
  <2> QED
    BY <2>1, <2>2
<1> QED
    BY <1>5, <1>6 DEF AnswersInv

\* A scan's step changes no request and no approval.
LEMMA ScanKeepsAnswers ==
    ASSUME AnswersInv, UNCHANGED <<approvals, reqVars>>
    PROVE  AnswersInv'
BY DEF AnswersInv, ApproversAnswered, AnswersMatchApprovals, reqVars

-----------------------------------------------------------------------------
(* The invariant and what follows from it *)

LEMMA SessionsKept == IInv /\ SInv /\ [Next]_vars => SInv'
<1> SUFFICES ASSUME IInv, SInv, [Next]_vars PROVE SInv'
    OBVIOUS
<1>0. ScansInv /\ AnswersInv
    BY DEF SInv
<1>1. CASE UNCHANGED vars
  <2>1. UNCHANGED <<tables, scanVars, history>> /\ UNCHANGED <<approvals, reqVars>>
    BY <1>1 DEF vars, tables
  <2> QED
    BY <1>0, <2>1, DecisionKeepsSessions, ScanKeepsAnswers DEF SInv
<1>2. ASSUME NEW s \in Scans, BeginScan(s) PROVE SInv'
    BY <1>0, <1>2, BeginScanSessions, ScanKeepsAnswers DEF SInv, BeginScan, tables
<1>3. ASSUME NEW s \in Scans, QueryFound(s) \/ RequeryFound(s) PROVE SInv'
  <2>1. /\ Running(s) /\ todo[s] # <<>>
        /\ UNCHANGED <<tables, inserted, written, history>> /\ UNCHANGED <<approvals, reqVars>>
    BY <1>3 DEF QueryFound, RequeryFound, Running, IInv, InsertIsFirst, tables
  <2>2. PICK id \in VisibleOpen(s, Head(todo[s]).finding) : Adopt(s, id, CopyOf(s, id))
    BY <1>3 DEF QueryFound, RequeryFound
  <2> QED
    BY <1>0, <2>1, <2>2, FoundSessions, ScanKeepsAnswers DEF SInv
<1>4. ASSUME NEW s \in Scans, QueryMissed(s) \/ InsertConflicts(s) PROVE SInv'
  <2>1. /\ Running(s) /\ Running(s)'
        /\ UNCHANGED <<tables, inserted, loaded, written, reply, history>>
        /\ UNCHANGED <<approvals, reqVars>>
        /\ \A t \in Scans \ {s} : scanPc'[t] = scanPc[t]
    BY <1>4 DEF QueryMissed, InsertConflicts, InsertReady, Running, IInv, TypeOK, tables
  <2> QED
    BY <1>0, <2>1, MoveSessions, ScanKeepsAnswers DEF SInv
<1>5. ASSUME NEW s \in Scans, InsertSucceeds(s) PROVE SInv'
    BY <1>0, <1>5, InsertSucceedsSessions, ScanKeepsAnswers DEF SInv, InsertSucceeds, tables
<1>6. ASSUME NEW s \in Scans, NEW id \in TaskIds, FlushRow(s, id) PROVE SInv'
    BY <1>0, <1>6, FlushRowSessions, ScanKeepsAnswers DEF SInv, FlushRow, tables
<1>7. ASSUME NEW s \in Scans, CommitScan(s) PROVE SInv'
    BY <1>0, <1>7, CommitScanSessions, ScanKeepsAnswers DEF SInv, CommitScan
<1>8. ASSUME NEW s \in Scans, RequeryMissed(s) \/ DeadlockVictim(s) \/ FailScan(s)
      PROVE  SInv'
  <2>1. RollbackScan(s)
    BY <1>8 DEF RequeryMissed, DeadlockVictim, FailScan
  <2> QED
    BY <1>0, <2>1, RollbackSessions, ScanKeepsAnswers DEF SInv, RollbackScan, tables
<1>9. ASSUME NEW r \in Requests,
             RefuseInvalid(r) \/ GetTask(r) \/ UpdateWhereOpen(r) \/ AddApproval(r)
               \/ FailDecision(r)
      PROVE  SInv'
  <2>1. UNCHANGED <<tables, scanVars, history>>
    BY <1>9 DEF RefuseInvalid, GetTask, UpdateWhereOpen, AddApproval, FailDecision
  <2>2. /\ reqPc[r] \in {"idle", "loaded", "updated", "recorded"}
        /\ reqPc'[r] # "ok"
        /\ UNCHANGED approvals
        /\ \A q \in Requests \ {r} :
             reqPc'[q] = reqPc[q] /\ target'[q] = target[q] /\ verdict'[q] = verdict[q]
    BY <1>9 DEF RefuseInvalid, GetTask, UpdateWhereOpen, AddApproval, FailDecision,
                tables, IInv, TypeOK
  <2> QED
    BY <1>0, <2>1, <2>2, DecisionKeepsSessions, AnswerWithoutApproval DEF SInv
<1>10. ASSUME NEW r \in Requests, CommitDecision(r) PROVE SInv'
    BY <1>0, <1>10, CommitDecisionSessions, CommitDecisionAnswers DEF SInv
<1> QED
    BY <1>1, <1>2, <1>3, <1>4, <1>5, <1>6, <1>7, <1>8, <1>9, <1>10
    DEF Next, ScanStep, DecisionStep

LEMMA SessionsInvariant == Spec => [](IInv /\ SInv)
<1> QED
    BY InitialState, InitialSessions, InvariantKept, SessionsKept, PTL DEF Spec

\* Whoever is told that a task is decided finds the approval stored, and
\* whoever is refused has left none, whatever else runs.
THEOREM AnswersTrue == Spec => []AnswersMatchApprovals
<1>1. SInv => AnswersMatchApprovals
    BY DEF SInv, AnswersInv
<1> QED
    BY <1>1, SessionsInvariant, PTL

\* Every task id in a finished scan's response is a row of the table, about
\* the finding it was reported for.
THEOREM RepliesTrue == Spec => []RepliesNameStoredTasks
<1>1. IInv /\ SInv => RepliesNameStoredTasks
  <2> SUFFICES ASSUME IInv, SInv, NEW s \in Scans, NEW f \in Findings,
                      scanPc[s] = "done", reply[s][f] # None
               PROVE  status[reply[s][f]] # "absent" /\ finding[reply[s][f]] = f
    BY DEF RepliesNameStoredTasks
  <2>1. reply[s][f] \in TaskIds
    BY DEF IInv, TypeOK
  <2>2. inserted[s][reply[s][f]] # f
    BY <2>1, ConstantsAssumption DEF SInv, ScansInv, ClosedSessionsEmpty, Running
  <2> QED
    BY <2>2 DEF SInv, ScansInv, RepliesBacked
<1> QED
    BY <1>1, SessionsInvariant, PTL

\* The only step that ends a session and changes a row is its own commit.
LEMMA OnlyCommitsWrite ==
    ASSUME IInv, [Next]_vars, NEW s \in Scans, Ends(s)
    PROVE  CommitScan(s) \/ UNCHANGED content
<1>1. Running(s) /\ scanPc'[s] # scanPc[s]
    BY DEF Ends, Running
<1>2. CASE UNCHANGED vars
    BY <1>2 DEF vars, tables
<1>3. ASSUME NEW t \in Scans, CommitScan(t) PROVE t = s
    BY <1>1, <1>3 DEF CommitScan, IInv, TypeOK
<1>4. ASSUME NEW t \in Scans,
             BeginScan(t) \/ DeadlockVictim(t) \/ FailScan(t) \/ (ScanStep(t) /\ ~ CommitScan(t))
      PROVE  UNCHANGED content
    BY <1>4 DEF BeginScan, ScanStep, QueryFound, QueryMissed, InsertSucceeds,
                InsertConflicts, RequeryFound, RequeryMissed, FlushRow, DeadlockVictim,
                FailScan, RollbackScan, tables
<1>5. ASSUME NEW r \in Requests,
             RefuseInvalid(r) \/ GetTask(r) \/ DecisionStep(r) \/ FailDecision(r)
      PROVE  UNCHANGED content
    BY <1>5 DEF RefuseInvalid, GetTask, DecisionStep, UpdateWhereOpen, AddApproval,
                CommitDecision, FailDecision, tables
<1> QED
    BY <1>2, <1>3, <1>4, <1>5 DEF Next

\* Only its own commit makes a session say "done".
LEMMA DoneMeansCommitted ==
    ASSUME IInv, [Next]_vars, NEW s \in Scans, Commits(s)
    PROVE  CommitScan(s)
<1>1. scanPc[s] = "commit" /\ scanPc'[s] = "done"
    BY DEF Commits
<1>2. CASE UNCHANGED vars
    BY <1>1, <1>2 DEF vars, scanVars
<1>3. ASSUME NEW t \in Scans, BeginScan(t) PROVE FALSE
    BY <1>1, <1>3 DEF BeginScan, IInv, TypeOK
<1>4. ASSUME NEW t \in Scans, QueryFound(t) \/ RequeryFound(t) PROVE FALSE
  <2>1. scanPc[t] # "commit" /\ \E answer \in {"commit", "query"} :
                                  scanPc' = [scanPc EXCEPT ![t] = answer]
    BY <1>4 DEF QueryFound, RequeryFound, Adopt
  <2> QED
    BY <1>1, <2>1 DEF IInv, TypeOK
<1>5. ASSUME NEW t \in Scans, InsertSucceeds(t) PROVE FALSE
  <2>1. scanPc[t] # "commit" /\ \E answer \in {"commit", "query"} :
                                  scanPc' = [scanPc EXCEPT ![t] = answer]
    BY <1>5 DEF InsertSucceeds, InsertReady, Adopt
  <2> QED
    BY <1>1, <2>1 DEF IInv, TypeOK
<1>6. ASSUME NEW t \in Scans, QueryMissed(t) \/ InsertConflicts(t) PROVE FALSE
    BY <1>1, <1>6 DEF QueryMissed, InsertConflicts, InsertReady, IInv, TypeOK
<1>7. ASSUME NEW t \in Scans, NEW id \in TaskIds, FlushRow(t, id) PROVE FALSE
    BY <1>1, <1>7 DEF FlushRow
<1>8. ASSUME NEW t \in Scans, RequeryMissed(t) \/ DeadlockVictim(t) \/ FailScan(t)
      PROVE  FALSE
  <2>1. scanPc' = [scanPc EXCEPT ![t] = "failed"]
    BY <1>8 DEF RequeryMissed, DeadlockVictim, FailScan, RollbackScan
  <2> QED
    BY <1>1, <2>1 DEF IInv, TypeOK
<1>9. ASSUME NEW t \in Scans, CommitScan(t) PROVE t = s
    BY <1>1, <1>9 DEF CommitScan, IInv, TypeOK
<1>10. ASSUME NEW r \in Requests,
              RefuseInvalid(r) \/ GetTask(r) \/ DecisionStep(r) \/ FailDecision(r)
       PROVE  FALSE
    BY <1>1, <1>10 DEF RefuseInvalid, GetTask, DecisionStep, UpdateWhereOpen,
                       AddApproval, CommitDecision, FailDecision, scanVars
<1> QED
    BY <1>2, <1>3, <1>4, <1>5, <1>6, <1>7, <1>8, <1>9, <1>10 DEF Next, ScanStep

\* The commit replaces the columns the session wrote, in each row.
LEMMA CommitContent ==
    ASSUME IInv, NEW s \in Scans, CommitScan(s), NEW id \in TaskIds
    PROVE  content'[id] = [c \in Columns |->
             IF c \in written[s][id] THEN loaded[s][id][c] ELSE content[id][c]]
BY DEF CommitScan

\* Persisting a scan never rewrites a task that was approved, rejected or
\* accepted before the scan was stored.
THEOREM SettledTasksKept == Spec => SettledTasksFrozen
<1>1. IInv /\ SInv /\ [Next]_vars =>
        [\A s \in Scans : Ends(s) => \A id \in settled[s] : content'[id] = content[id]]_vars
  <2> SUFFICES ASSUME IInv, SInv, [Next]_vars, NEW s \in Scans, Ends(s),
                      NEW id \in settled[s]
               PROVE  content'[id] = content[id]
    OBVIOUS
  <2>1. CASE CommitScan(s)
    <3>1. id \in TaskIds /\ loaded[s][id] = None
      BY DEF SInv, ScansInv, SettledUntouched, IInv, TypeOK
    <3>2. written[s][id] = {}
      BY <3>1 DEF IInv, WrittenRowsAreLoaded
    <3>3. content'[id] = [c \in Columns |-> content[id][c]]
      BY <2>1, <3>1, <3>2, CommitContent
    <3>4. content[id] \in Contents
      BY <3>1 DEF IInv, TypeOK
    <3> QED
      BY <3>3, <3>4 DEF Contents
  <2> QED
    BY <2>1, OnlyCommitsWrite
<1> QED
    BY <1>1, SessionsInvariant, PTL DEF Spec, SettledTasksFrozen

\* A scan that no other scan overtook stores in each task it reports exactly
\* the columns it computed, whatever humans decided in the meantime.
THEOREM UndisturbedOutputStored == Spec => UndisturbedScanStoresItsOutput
<1>1. IInv /\ SInv /\ [Next]_vars =>
        [\A s \in Scans : (Commits(s) /\ ~ disturbed[s]) =>
           \A id \in Touched(s) : content'[id] = assigned[s][id]]_vars
  <2> SUFFICES ASSUME IInv, SInv, [Next]_vars, NEW s \in Scans, Commits(s),
                      ~ disturbed[s], NEW id \in Touched(s)
               PROVE  content'[id] = assigned[s][id]
    OBVIOUS
  <2>1. id \in TaskIds /\ assigned[s][id] # None
    BY DEF Touched
  <2>2. CommitScan(s)
    BY DoneMeansCommitted
  <2>3. assigned[s][id] = loaded[s][id]
    BY <2>1, <2>2 DEF CommitScan, Dirty
  <2>4. loaded[s][id] \in Contents
    BY <2>1, <2>3 DEF IInv, TypeOK
  <2>5. \A c \in Columns \ written[s][id] : loaded[s][id][c] = content[id][c]
    BY <2>1, <2>3 DEF SInv, ScansInv, CopiesFresh
  <2>6. content'[id] = [c \in Columns |-> loaded[s][id][c]]
    BY <2>1, <2>2, <2>5, CommitContent
  <2> QED
    BY <2>3, <2>4, <2>6 DEF Contents
<1> QED
    BY <1>1, SessionsInvariant, PTL DEF Spec, UndisturbedScanStoresItsOutput
=============================================================================
