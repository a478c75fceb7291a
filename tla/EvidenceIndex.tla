---------------------------- MODULE EvidenceIndex ----------------------------
(***************************************************************************)
(* The evidence of a finding: its own, and the chunks of the report that   *)
(* report_evidence_index retrieves for it (services/ai_summary_service.py, *)
(* report_evidence_index.py, rag_retrieval.py).                            *)
(* A report is [scan, tasks]; a task is [id, package, vulnerability,       *)
(* priority, score, evidence], its evidence a sequence of texts.  The      *)
(* similarity of two texts is the number of words they share: as in the    *)
(* code it does not depend on when or where it is computed, and chunks     *)
(* that share nothing are not retrieved.  Ids are digests of the values    *)
(* listed in them.                                                         *)
(***************************************************************************)
EXTENDS Arrangements, SequencesExt

Chunk(report, index, kind, part, text) ==
    LET task == report.tasks[index]
    IN [id |-> <<"chunk", report.scan, index, kind, part>>,
        kind |-> kind, repo_id |-> report.scan, package |-> task.package,
        vulnerability |-> task.vulnerability, text |-> text]

TaskChunks(report, index) ==
    LET task == report.tasks[index]
    IN <<Chunk(report, index, "advisory", 0, <<task.vulnerability, task.package>>),
         Chunk(report, index, "risk", 0, <<task.priority>>)>>
       \o [i \in DOMAIN task.evidence |->
             Chunk(report, index, "finding-evidence", i, task.evidence[i])]

\* chunks_from_report
ChunksFromReport(report) ==
    FlattenSeq([index \in DOMAIN report.tasks |-> TaskChunks(report, index)])

\* remediation_task_query
Query(task) ==
    {task.package, task.vulnerability, task.priority} \union
    UNION {Range(text) : text \in Range(task.evidence)}

\* _chunk_text: the metadata of a chunk is searched with its text.
ChunkWords(chunk) == Range(chunk.text) \union {chunk.package, chunk.vulnerability}

Score(query, chunk) == Cardinality(query \intersect ChunkWords(chunk))

\* InMemoryEvidenceIndex.search: of the chunks at some places, those that match the
\* filters, the best that match the query.
Ranked(query, chunks, places, top_k) ==
    LET scored == {[place |-> i, score |-> Score(query, chunks[i])] : i \in places}
        results == {result \in scored : result.score > 0}
        better == {pair \in results \X results :
                     \/ pair[1].score > pair[2].score
                     \/ pair[1].score = pair[2].score /\ pair[1].place < pair[2].place}
        order == InOrder(results, better)
        best == [k \in DOMAIN order |-> chunks[order[k].place]]
    IN SubSeq(best, 1, IF top_k < Len(best) THEN top_k ELSE Len(best))

\* The filters of report_evidence_index.
AboutTask(report, task, chunk) ==
    /\ chunk.repo_id = report.scan
    /\ chunk.package = task.package
    /\ chunk.vulnerability = task.vulnerability

\* retrieved_chunks_for_task
RetrievedChunks(report, task, top_k) ==
    LET chunks == ChunksFromReport(report)
    IN Ranked(Query(task), chunks,
              {i \in DOMAIN chunks : AboutTask(report, task, chunks[i])}, top_k)

\* Mutant: the rank of a chunk, not its id, makes the id of its evidence.
RankedEvidenceItems(task, chunks) ==
    [i \in DOMAIN task.evidence |->
       [id |-> <<"task", i, task.evidence[i]>>, text |-> task.evidence[i], about |-> {}]]
    \o [i \in DOMAIN chunks |->
          [id |-> <<"rank", i>>, text |-> chunks[i].text, about |-> {}]]

\* evidence_items_for_task; about is what kind, source and metadata say of an item.
EvidenceItems(task, chunks) ==
    [i \in DOMAIN task.evidence |->
       [id |-> <<"task", i, task.evidence[i]>>, text |-> task.evidence[i],
        about |-> {"remediation_task"}]]
    \o [i \in DOMAIN chunks |->
          [id |-> <<"evidence", chunks[i].id>>, text |-> chunks[i].text,
           about |-> {chunks[i].kind, chunks[i].package, chunks[i].vulnerability}]]

\* build_finding_summary_request
SummaryRequest(task, chunks) ==
    [finding |-> task.id, package |-> task.package, vulnerability |-> task.vulnerability,
     priority |-> task.priority, score |-> task.score,
     evidence |-> EvidenceItems(task, chunks)]
=============================================================================
