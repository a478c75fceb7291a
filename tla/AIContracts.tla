----------------------------- MODULE AIContracts -----------------------------
(***************************************************************************)
(* ai/contracts.py: what an AI may be asked about a finding, and the check *)
(* every answer must pass.  A text is a sequence of words; Signals[w] is   *)
(* what the patterns of the code see in the word w: "fact", "action",      *)
(* "overconfident", "hedge", "unsafe", "overclaim" or "stop".              *)
(***************************************************************************)
EXTENDS Naturals, SequencesExt

CONSTANTS
    Words,
    Signals      \* [Words -> SUBSET of the signals above]

Sees(text, signal) == \E word \in Range(text) : signal \in Signals[word]

\* A request is a finding's values and its evidence, [id, text, about] each.  An
\* answer repeats the values and adds prose, citations and claims:
\*   citations   [claim, evidence, note], two ids and a text;
\*   claims      [id, text, disposition, evidence, rationale].
\* well_typed says that the lists hold what they should.
PROTECTED_FIELDS == {"finding", "package", "vulnerability", "priority", "score"}

REQUIRED_CLAIM_DISPOSITIONS == {"fact", "inference", "unknown"}

CONCRETE_DISPOSITIONS == {"fact", "inference"}

EvidenceIds(request) == {item.id : item \in Range(request.evidence)}

\* __post_init__ of the request: otherwise there is no request.
ValidRequest(request) ==
    /\ request.score \in 0 .. 100
    /\ \A i, j \in DOMAIN request.evidence :
         request.evidence[i].id = request.evidence[j].id => i = j

MutatedFields(request, response) ==
    {field \in PROTECTED_FIELDS : response[field] # request[field]}

ClaimIds(response) == {claim.id : claim \in Range(response.claims)}

CitationPairs(response) ==
    {<<citation.claim, citation.evidence>> : citation \in Range(response.citations)}

\* Mutant: a citation may name any evidence.
AnyEvidenceCited(request, response) == {}

InvalidCitationIds(request, response) ==
    ({citation.evidence : citation \in Range(response.citations)} \union
     UNION {Range(claim.evidence) : claim \in Range(response.claims)})
       \ EvidenceIds(request)

UnsupportedClaims(request, response) ==
    {claim \in Range(response.claims) :
       \/ claim.disposition = "unsupported"
       \/ /\ claim.disposition \in CONCRETE_DISPOSITIONS
          /\ \/ claim.evidence = <<>>
             \/ \E id \in Range(claim.evidence) \intersect EvidenceIds(request) :
                  <<claim.id, id>> \notin CitationPairs(response)}

ClaimTexts(response) ==
    {claim.text : claim \in Range(response.claims)} \union
    {claim.rationale : claim \in Range(response.claims)}

Notes(response) == {citation.note : citation \in Range(response.citations)}

\* unsafe_response_markers
UnsafeResponse(response) ==
    \E text \in {response.summary, response.explanation} \union ClaimTexts(response)
                  \union Notes(response) : Sees(text, "unsafe")

\* validate_finding_summary_response, which lists what is wrong; any of it blocks.
Blocked(request, response) ==
    \/ ~ response.well_typed
    \/ MutatedFields(request, response) # {}
    \/ InvalidCitationIds(request, response) # {}
    \/ \E pair \in CitationPairs(response) : pair[1] \notin ClaimIds(response)
    \/ \E claim \in Range(response.claims) :
         claim.disposition \notin REQUIRED_CLAIM_DISPOSITIONS
    \/ UnsupportedClaims(request, response) # {}
    \/ UnsafeResponse(response)

-----------------------------------------------------------------------------
\* A claim that evidence supports, with its citation.
Claim(id, text, disposition, evidence) ==
    [id |-> id, text |-> text, disposition |-> disposition, evidence |-> evidence,
     rationale |-> <<>>]

\* MockAIProvider.summarize_finding: a fact and an inference that cite the first
\* evidence, and what is unknown; without evidence everything is unknown.
MockAnswer(request) ==
    LET cited == IF request.evidence = <<>> THEN <<>> ELSE <<Head(request.evidence).id>>
        Label(disposition) == IF cited = <<>> THEN "unknown" ELSE disposition
    IN [finding |-> request.finding, package |-> request.package,
        vulnerability |-> request.vulnerability, priority |-> request.priority,
        score |-> request.score, well_typed |-> TRUE,
        summary |-> <<request.vulnerability, request.package>>, explanation |-> <<"evidence">>,
        claims |-> <<Claim("fact", <<request.package, request.vulnerability>>,
                           Label("fact"), cited),
                     Claim("inference", <<"evidence">>, Label("inference"), cited),
                     Claim("unknown", <<"unknown">>, "unknown", <<>>)>>,
        citations |-> IF cited = <<>> THEN <<>>
                      ELSE <<[claim |-> "fact", evidence |-> cited[1],
                              note |-> Head(request.evidence).text],
                             [claim |-> "inference", evidence |-> cited[1], note |-> <<>>]>>]
=============================================================================
