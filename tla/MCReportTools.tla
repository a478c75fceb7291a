--------------------------- MODULE MCReportTools ---------------------------
(* Instances of ReportTools small enough for TLC. *)
EXTENDS ReportTools

CONSTANTS s1, s2, a, b

MCWords == {"app", "cookie", "redacted", "CVE", "P0", "P3", "installed", "install", "uninstall",
            "unknown", "evidence", "guaranteed", "poc", "exploited"}

MCSignals ==
    [word \in MCWords |->
       CASE word \in {"CVE", "installed"} -> {"fact"}
         [] word = "install" -> {"action"}
         [] word = "unknown" -> {"hedge", "stop"}
         [] word = "evidence" -> {"stop"}
         [] word = "guaranteed" -> {"overconfident"}
         [] word = "poc" -> {"unsafe"}
         [] word = "exploited" -> {"overclaim"}
         [] OTHER -> {}]

\* "install" is the end of "uninstall", and "installed" begins with it.
MCParts ==
    [word \in MCWords |->
       [first |-> IF word = "installed" THEN {"install"} ELSE {},
        last |-> IF word = "uninstall" THEN {"install"} ELSE {},
        within |-> IF word \in {"installed", "uninstall"} THEN {"install"} ELSE {}]]

Task(id, package, priority, score, evidence) ==
    [id |-> id, package |-> package, vulnerability |-> "CVE", priority |-> priority,
     score |-> score, evidence |-> evidence]

Installed(package) == <<package, "installed">>

\* Two versions of one package, with the evidence of each; a package without
\* evidence whose name reads like a secret, and one whose name was redacted.
MCScanned ==
    {<<Task("t1", "app", "P0", 90, <<<<"uninstall", "app">>, Installed("app")>>),
       Task("t2", "app", "P3", 10, <<Installed("app")>>)>>,
     <<Task("t1", "cookie", "P0", 90, <<>>),
       Task("t2", "redacted", "P3", 10, <<Installed("redacted")>>)>>}

\* An answer of one claim.
Reply(request, text, disposition, evidence, cited) ==
    [shape |-> "object", well_typed |-> TRUE, finding |-> request.finding,
     package |-> request.package, vulnerability |-> request.vulnerability,
     priority |-> request.priority, score |-> request.score, summary |-> text,
     explanation |-> text, claims |-> <<Claim("c1", text, disposition, evidence)>>,
     citations |-> [i \in DOMAIN cited |->
                      [claim |-> "c1", evidence |-> cited[i], note |-> <<>>]]]

\* Faithful answers: each evidence quoted.
Quotes(request) ==
    {Reply(request, item.text, "fact", <<item.id>>, <<item.id>>) :
       item \in Range(request.evidence)}

\* Answers that go wrong, each in one way.
Distortions(request) ==
    LET quote == IF request.evidence = <<>>
                 THEN Reply(request, <<"unknown">>, "unknown", <<>>, <<>>)
                 ELSE LET item == request.evidence[1]
                      IN Reply(request, item.text, "fact", <<item.id>>, <<item.id>>)
        foreign == <<"task", 9, <<"app">>>>
    IN {quote,
        [quote EXCEPT !.priority = "P3"],
        [quote EXCEPT !.package = "cookie"],
        [quote EXCEPT !.claims[1].disposition = "unsupported"],
        [quote EXCEPT !.claims[1].text = <<"exploited">>],
        [quote EXCEPT !.citations = <<>>],
        [quote EXCEPT !.citations = Append(@, [claim |-> "c2", evidence |-> foreign, note |-> <<>>])],
        [quote EXCEPT !.summary = <<"install", request.package>>],
        [quote EXCEPT !.summary = <<"install", "cookie">>],
        [quote EXCEPT !.summary = <<"guaranteed">>],
        [quote EXCEPT !.explanation = <<"poc">>],
        [quote EXCEPT !.shape = "missing_fields"],
        Reply(request, <<"installed">>, "fact", <<foreign>>, <<foreign>>)}

MCReplies(request) == Quotes(request) \union Distortions(request)

Call(tool, task, include_rag) ==
    {[id |-> "r1", kind |-> "call", tool |-> tool, scan |-> scan, task |-> task,
      include_rag |-> include_rag, top_k |-> top_k] : scan \in ScanIds, top_k \in TopKs}

Noise(id, kind) == [id |-> id, kind |-> kind, tool |-> None]

\* Requests about scans, and lines that call no tool.
ToolLines ==
    {[id |-> "r1", kind |-> "call", tool |-> "scan_repo"]}
    \union UNION {Call("get_ai_context_bundle", "t1", include_rag) : include_rag \in BOOLEAN}
    \union Call("get_ai_context_bundle", "t2", TRUE)

ProtocolLines ==
    {[id |-> "r1", kind |-> "call", tool |-> "scan_repo"],
     [id |-> NoId, kind |-> "call", tool |-> "scan_repo"],
     Noise(NoId, "not_json"), Noise(NoId, "no_method"), Noise("token", "plain")}
    \union {[id |-> "r1", kind |-> "call", tool |-> "get_finding", scan |-> scan, task |-> "t1"] :
              scan \in ScanIds}
    \union {[id |-> "r1", kind |-> "call", tool |-> "validate_report", scan |-> scan, task |-> None] :
              scan \in ScanIds}

MCLines == ToolLines \union ProtocolLines
=============================================================================
