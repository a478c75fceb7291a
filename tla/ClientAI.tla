------------------------------- MODULE ClientAI -------------------------------
(***************************************************************************)
(* services/ai_context_bundle.py: the case file an AI of the client gets   *)
(* about a finding, and the check of what that AI answers.  Nothing is     *)
(* kept between the two: the validator builds the request again.           *)
(***************************************************************************)
EXTENDS ClaimAuditor, EvidenceIndex

CONSTANTS
    RedactedAsText,  \* package names that sanitize_public_text replaces although
                     \* sanitize_public_identifier keeps them
    Redacted

\* What has been redacted is not redacted again.
ASSUME RedactedAssumption == Redacted \notin RedactedAsText

\* resolve_retrieved_chunks: chunks, if the caller wants any.
ChunksFor(report, task, include_rag, top_k) ==
    IF include_rag THEN RetrievedChunks(report, task, top_k) ELSE <<>>

\* build_ai_context_bundle: its "ai_request".  Its values, the package's name as
\* an identifier, are sanitised already in a report.
ContextBundle(report, task, include_rag, top_k) ==
    SummaryRequest(task, ChunksFor(report, task, include_rag, top_k))

\* What a client may send: "object" parses, the other shapes do not.
OUTPUT_SHAPES == {"object", "not_object", "unknown_fields", "missing_fields"}

OUTPUT_FIELDS ==
    {"shape", "well_typed", "summary", "explanation", "claims", "citations"}
      \union PROTECTED_FIELDS

\* What parses has every field.
FieldsGiven(output) ==
    /\ output.shape \in OUTPUT_SHAPES
    /\ output.shape = "object" => output = [field \in OUTPUT_FIELDS |-> output[field]]

\* parse_ai_output, which sanitises every string as text.
Parsed(output) ==
    [output EXCEPT !.package = IF @ \in RedactedAsText THEN Redacted ELSE @]

Verdict(blocked_by) == [passed |-> blocked_by = "nothing", blocked_by |-> blocked_by]

\* Mutant: the validator knows the finding's own evidence only.
ValidatedWithoutChunks(report, task, include_rag, top_k, output) ==
    IF output.shape # "object" \/ UnsafeResponse(output) THEN Verdict("validator")
    ELSE IF Blocked(SummaryRequest(task, <<>>), Parsed(output)) THEN Verdict("validator")
    ELSE IF ~ AuditPassed(Parsed(output)) THEN Verdict("auditor")
    ELSE Verdict("nothing")

\* Mutant: an answer the validator blocks may still pass the audit.
ValidatedByAuditAlone(report, task, include_rag, top_k, output) ==
    IF output.shape # "object" \/ UnsafeResponse(output) THEN Verdict("validator")
    ELSE IF ~ AuditPassed(Parsed(output)) THEN Verdict("auditor")
    ELSE Verdict("nothing")

\* validate_client_ai_output; the first check that fails decides.
ValidateClientOutput(report, task, include_rag, top_k, output) ==
    LET request == ContextBundle(report, task, include_rag, top_k)
    IN IF output.shape \in {"not_object", "unknown_fields"} THEN Verdict("validator")
       ELSE IF UnsafeResponse(output) THEN Verdict("safety_filter")
       ELSE IF output.shape = "missing_fields" THEN Verdict("validator")
       ELSE IF Blocked(request, Parsed(output)) THEN Verdict("validator")
       ELSE IF ~ AuditPassed(Parsed(output)) THEN Verdict("auditor")
       ELSE Verdict("nothing")
=============================================================================
