------------------------------ MODULE AISummary ------------------------------
(***************************************************************************)
(* services/ai_summary_service.py: a summary of a finding by an AI         *)
(* provider.  The provider is asked with the evidence retrieved for the    *)
(* finding; what it answers is checked, and of an answer that passes only  *)
(* the structure is shown: the texts are written anew.                     *)
(***************************************************************************)
EXTENDS AIContracts, EvidenceIndex

CONSTANT Failed      \* an exception of the provider, or an answer of another type

\* applicable_metadata_filters: the package, if some chunk is about it.  A task of
\* a report has no repo_id.
PackageKnown(task, chunks) == \E chunk \in Range(chunks) : chunk.package = task.package

\* retrieve_for_remediation_task: the chunks of the package first, then others;
\* a chunk found twice counts once.
RetrievedForTask(task, chunks, top_k) ==
    LET ofPackage == {i \in DOMAIN chunks : chunks[i].package = task.package}
        first == IF PackageKnown(task, chunks)
                 THEN Ranked(Query(task), chunks, ofPackage, top_k) ELSE <<>>
        second == SelectSeq(Ranked(Query(task), chunks, DOMAIN chunks, top_k),
                            LAMBDA chunk : chunk \notin Range(first))
        both == first \o second
    IN SubSeq(both, 1, IF top_k < Len(both) THEN top_k ELSE Len(both))

\* meaningful_tokens
MeaningfulTokens(text) == {word \in Range(text) : "stop" \notin Signals[word]}

\* provider_claim_is_supported: no stronger than what it cites, and about it.
ClaimIsSupported(text, evidence) ==
    LET cited == UNION {Range(item.text) \union item.about : item \in evidence}
    IN /\ \A word \in Range(text) : "overclaim" \in Signals[word] => word \in cited
       /\ MeaningfulTokens(text) # {} => MeaningfulTokens(text) \intersect cited # {}

\* validate_provider_claim_support: the claims it adds to the unsupported ones.
UnfoundedClaims(request, response) ==
    {claim \in Range(response.claims) :
       LET evidence == {item \in Range(request.evidence) : item.id \in Range(claim.evidence)}
       IN /\ claim.disposition \in CONCRETE_DISPOSITIONS
          /\ evidence # {}
          /\ ~ ClaimIsSupported(claim.text, evidence)}

\* safe_public_claim_id_map: claim ids in the order they first appear.
PublicClaimId(response, id) ==
    LET position == Min({i \in DOMAIN response.claims : response.claims[i].id = id})
    IN Cardinality({response.claims[i].id : i \in 1 .. position})

PUBLIC_CLAIM_UNKNOWN == 0

\* safe_public_response
SafePublicResponse(request, response) ==
    [finding |-> request.finding, package |-> request.package,
     vulnerability |-> request.vulnerability, priority |-> request.priority,
     score |-> request.score,
     claims |-> [i \in DOMAIN response.claims |->
                   [id |-> PublicClaimId(response, response.claims[i].id),
                    disposition |-> response.claims[i].disposition,
                    evidence |-> response.claims[i].evidence]],
     citations |-> [i \in DOMAIN response.citations |->
                      [claim |-> IF response.citations[i].claim \in ClaimIds(response)
                                 THEN PublicClaimId(response, response.citations[i].claim)
                                 ELSE PUBLIC_CLAIM_UNKNOWN,
                       evidence |-> response.citations[i].evidence]]]

\* Mutant: whatever the provider answers is shown.
ShownUnchecked(request, candidate) ==
    IF candidate = Failed THEN Failed ELSE SafePublicResponse(request, candidate)

\* summarize_remediation_task: what is shown, or Failed if it was blocked.
Shown(request, candidate) ==
    IF \/ candidate = Failed
       \/ Blocked(request, candidate)
       \/ UnfoundedClaims(request, candidate) # {}
    THEN Failed ELSE SafePublicResponse(request, candidate)
=============================================================================
