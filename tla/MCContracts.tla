----------------------------- MODULE MCContracts -----------------------------
(***************************************************************************)
(* A valid implementation request and a valid review request, answers to   *)
(* them, and their defects: at least one for every conjunct of the typed   *)
(* checks.  Planning requests, and task graphs that answer them.           *)
(***************************************************************************)
EXTENDS Planning

MCSha(content) == <<"sha256", content>>
MCDigests == {MCSha("x"), MCSha("y"), MCSha("z"), MCSha("")}
MCBad == <<"sha256", "?">>
MCArtifact(d) == [uri |-> <<"artifact", d>>, sha256 |-> d]

ImplBaseRequest ==
  [envelope |-> TRUE, version |-> "1", id |-> "q", run |-> "r", task |-> "t1",
   attempt |-> 1, created |-> 1, expires |-> 5, stage |-> "implementation",
   authority |-> [mode |-> "proposal_only", may |-> {}],
   budget |-> [input |-> 1, output |-> 1, requests |-> 1],
   manifest |-> MCSha("x"), artifacts |-> <<MCArtifact(MCSha("y"))>>,
   approvedTask |-> "t1", taskDigest |-> MCSha("x"),
   specification |-> "s", specificationDigest |-> MCSha("x"),
   commit |-> "c1", readable |-> {<<"a">>}, writable |-> {<<"a", "b">>},
   prohibited |-> {<<"a", "c">>}, criteria |-> <<"k1", "k2">>,
   checks |-> {"h1"},
   context |-> {[path |-> <<"a", "b">>, content |-> "y",
                 sha256 |-> MCSha("y")]}]

MCChange(path, criteria) ==
  [path |-> path, op |-> "update", expected |-> MCSha("y"), content |-> "z",
   rationale |-> "why", criteria |-> criteria]

ImplBaseProposal ==
  [identity |-> TRUE, version |-> "1", id |-> "q", run |-> "r",
   task |-> "t1", attempt |-> 1, stage |-> "implementation",
   manifest |-> MCSha("x"), inputs |-> <<MCSha("y")>>,
   approvedTask |-> "t1", taskDigest |-> MCSha("x"),
   specificationDigest |-> MCSha("x"), summary |-> "what",
   changes |-> {MCChange(<<"a", "b">>, {"k1"}),
                MCChange(<<"a", "b", "d">>, {"k2"})},
   requested |-> {"h1"}, scopeChange |-> Nil]

MCDefects(kind, damages) == {[kind |-> kind, damage |-> d] : d \in damages}

MCFile(path, content, d) == {[path |-> path, content |-> content, sha256 |-> d]}

(* The envelope is the same for all requests, and so are its defects.      *)
EnvelopeDefects ==
  MCDefects("schema",
    {[envelope |-> FALSE], [version |-> "2"], [created |-> Nil],
     [expires |-> Nil], [authority |-> Nil], [budget |-> Nil]}) \cup
  MCDefects("identity",
    {[expires |-> 1], [expires |-> 2], [id |-> ""], [run |-> ""],
     [task |-> Nil], [attempt |-> 0]}) \cup
  MCDefects("binding",
    {[manifest |-> MCBad],
     [artifacts |-> <<MCArtifact(MCSha("y")), MCArtifact(MCBad)>>],
     [artifacts |-> <<[uri |-> MCBad, sha256 |-> MCSha("y")]>>]}) \cup
  MCDefects("authority",
    {[authority |-> [mode |-> "other", may |-> {}]],
     [authority |-> [mode |-> "proposal_only", may |-> {"approve"}]]}) \cup
  MCDefects("policy",
    {[stage |-> "planning"],
     [budget |-> [input |-> 1, output |-> 0, requests |-> 1]]})

ImplRequestDefects ==
  EnvelopeDefects \cup
  MCDefects("schema", {[context |-> MCFile(<<"a">>, "", MCSha(""))]}) \cup
  MCDefects("identity",
    {[approvedTask |-> "t2"], [approvedTask |-> "?", task |-> "?"],
     [specification |-> ""]}) \cup
  MCDefects("binding",
    {[taskDigest |-> MCBad], [specificationDigest |-> MCBad],
     [artifacts |-> <<>>]}) \cup
  MCDefects("scope",
    {[readable |-> {}], [readable |-> {<<"a">>, <<"a", ".">>}],
     [writable |-> {<<"a", "b">>, <<"e">>}],
     [prohibited |-> {<<"a", "b", "g">>}], [prohibited |-> {<<"a">>}],
     [readable |-> {<<"a", "b", "d">>}, writable |-> {<<"a", "b", "d">>}]}
     ) \cup
  MCDefects("coverage",
    {[criteria |-> <<"k1", "k1">>], [criteria |-> <<"k1", "?">>]}) \cup
  MCDefects("policy",
    {[commit |-> "?"], [checks |-> {"h1", "?"}]}) \cup
  MCDefects("conversion", {[checks |-> {}]})

MCScopeChange ==
  [summary |-> "more", readable |-> {<<"e">>}, writable |-> {},
   criteria |-> <<>>, checks |-> {}]

ImplProposalDefects ==
  MCDefects("schema",
    {[identity |-> FALSE], [summary |-> ""], [changes |-> {}],
     [scopeChange |-> [MCScopeChange EXCEPT !.summary = ""]],
     [scopeChange |-> [MCScopeChange EXCEPT !.criteria = <<"k1", "k1">>]]}
     ) \cup
  MCDefects("identity",
    {[version |-> "2"], [id |-> "?"], [run |-> "?"], [attempt |-> 2],
     [task |-> Nil], [approvedTask |-> "t2"], [taskDigest |-> MCSha("z")],
     [specificationDigest |-> MCSha("z")]}) \cup
  MCDefects("binding",
    {[manifest |-> MCSha("z")], [inputs |-> <<>>],
     [inputs |-> <<MCSha("z")>>], [inputs |-> <<MCSha("y"), MCSha("y")>>]}
     ) \cup
  MCDefects("scope", {[requested |-> {"h1", "h2"}]}) \cup
  MCDefects("coverage", {[changes |-> {MCChange(<<"a", "b">>, {"k1"})}]}) \cup
  MCDefects("policy", {[stage |-> "review"]})

MCAdded(kind, changes) == {[kind |-> kind, change |-> c] : c \in changes}

ImplChangeDefects ==
  MCAdded("schema",
    {MCChange(<<>>, {"k1"}), MCChange(<<"a", "b", "d">>, {})}) \cup
  MCAdded("scope",
    {MCChange(<<"e">>, {"k1"}), MCChange(<<"a", "c">>, {"k1"}),
     MCChange(<<"a">>, {"k1"}), MCChange(<<"a", "b">>, {"k1", "?"})}) \cup
  MCAdded("policy",
    {[MCChange(<<"a", "b">>, {"k1"}) EXCEPT !.op = "create"],
     [MCChange(<<"a", "b">>, {"k1"}) EXCEPT !.op = "delete"],
     [MCChange(<<"a", "b">>, {"k1"}) EXCEPT !.content = Nil]})

-----------------------------------------------------------------------------
(* Reviews.                                                                *)

MCIn == <<"a", "b">>
MCOut == <<"e">>

MCDiff(path) ==
  [path |-> path, op |-> "update", before |-> MCSha("x"), after |-> MCSha("y")]
MCEvidence(id, exit) ==
  [id |-> id, check |-> "h1", commit |-> "c2", exit |-> exit,
   sha256 |-> MCSha("x"), uri |-> <<"artifact", MCSha("x")>>,
   started |-> 1, completed |-> 2]
MCCovers(criterion, evidence) ==
  [criterion |-> criterion, evidence |-> evidence]
MCReport(authorized, unexpected) ==
  [authorized |-> authorized, unexpected |-> unexpected]
MCCandidate ==
  [specification |-> MCSha("x"), task |-> MCSha("x"), base |-> "c1",
   commit |-> "c2", proposal |-> MCSha("y")]

ReviewBaseRequest ==
  [envelope |-> TRUE, version |-> "1", id |-> "q", run |-> "r", task |-> "t1",
   attempt |-> 1, created |-> 1, expires |-> 5, stage |-> "review",
   authority |-> [mode |-> "proposal_only", may |-> {}],
   budget |-> [input |-> 1, output |-> 1, requests |-> 1],
   manifest |-> MCSha("x"), artifacts |-> <<MCArtifact(MCSha("y"))>>,
   candidate |-> MCCandidate, diff |-> <<MCDiff(MCIn), MCDiff(MCOut)>>,
   report |-> MCReport(<<MCIn>>, <<MCOut>>), writable |-> {<<"a">>},
   criteria |-> <<"k1", "k2">>,
   evidence |-> <<MCEvidence("v1", 0), MCEvidence("v2", 1)>>,
   coverage |-> <<MCCovers("k1", {"v1"}), MCCovers("k2", {"v1"})>>,
   policy |-> [blocking |-> {"CRITICAL", "HIGH"}]]

MCFinding(id, severity) ==
  [id |-> id, severity |-> severity, category |-> "correctness",
   summary |-> "what", references |-> {"v2"}]

ReviewBaseProposal ==
  [identity |-> TRUE, version |-> "1", id |-> "q", run |-> "r",
   task |-> "t1", attempt |-> 1, stage |-> "review", manifest |-> MCSha("x"),
   inputs |-> <<MCSha("y")>>, recommendation |-> "advisory_accept",
   findings |-> <<MCFinding("f1", "LOW"), MCFinding("f2", "MEDIUM")>>,
   actions |-> {[id |-> "x1", finding |-> "f1", description |-> "do"]},
   risks |-> {[id |-> "r1", description |-> "risk", severity |-> "LOW"]}]

ReviewRequestDefects ==
  EnvelopeDefects \cup
  MCDefects("schema",
    {[candidate |-> Nil], [report |-> Nil], [policy |-> Nil],
     [diff |-> <<>>]}) \cup
  MCDefects("binding",
    {[candidate |-> [MCCandidate EXCEPT !.base = "c2"]],
     [candidate |-> [MCCandidate EXCEPT !.proposal = MCBad]]}) \cup
  MCDefects("scope",
    {[writable |-> {}], [writable |-> {<<"a">>, <<"", "e">>}],
     [writable |-> {<<"a", "d">>}],
     [diff |-> <<MCDiff(MCIn), MCDiff(MCIn)>>],
     [diff |-> <<MCDiff(MCIn), MCDiff(MCOut), MCDiff(<<"g">>)>>],
     [report |-> MCReport(<<MCIn, MCOut>>, <<>>)],
     [report |-> MCReport(<<MCIn, MCIn>>, <<>>)],
     [report |-> MCReport(<<MCIn>>, <<MCIn>>)],
     [report |-> MCReport(<<>>, <<MCOut, MCOut>>)],
     [report |-> MCReport(<<MCIn>>, <<<<"g">>>>)]}) \cup
  MCDefects("coverage",
    {[criteria |-> <<>>], [criteria |-> <<"k1", "k1">>],
     [criteria |-> <<"k1">>], [evidence |-> <<>>],
     [evidence |-> <<MCEvidence("v1", 0), MCEvidence("v1", 1)>>],
     [evidence |-> <<MCEvidence("v1", 1), MCEvidence("v2", 1)>>],
     [evidence |-> <<[MCEvidence("v1", 0) EXCEPT !.commit = "c1"]>>],
     [evidence |-> <<[MCEvidence("v1", 0) EXCEPT !.completed = 1]>>],
     [coverage |-> <<>>],
     [coverage |-> <<MCCovers("k1", {"v1"})>>],
     [coverage |-> <<MCCovers("k1", {"v1"}), MCCovers("k1", {"v1"})>>],
     [coverage |-> <<MCCovers("k1", {"v1"}), MCCovers("k2", {"v2"})>>],
     [coverage |-> <<MCCovers("k1", {"v1"}), MCCovers("k2", {})>>]}) \cup
  MCDefects("policy",
    {[policy |-> [blocking |-> {"HIGH"}]],
     [policy |-> [blocking |-> {"CRITICAL", "UNSPECIFIED"}]]})

ReviewProposalDefects ==
  MCDefects("schema",
    {[identity |-> FALSE], [recommendation |-> "?"],
     [findings |-> <<MCFinding("f1", "LOW"), MCFinding("f1", "LOW")>>],
     [findings |-> <<MCFinding("f1", "LOW"), MCFinding("", "LOW")>>],
     [risks |-> {[id |-> "r1", description |-> "", severity |-> "LOW"]}]}
     ) \cup
  MCDefects("identity", {[id |-> "?"], [attempt |-> 2]}) \cup
  MCDefects("binding",
    {[inputs |-> <<>>], [findings |-> <<MCFinding("f1", "LOW"),
        [MCFinding("f2", "LOW") EXCEPT !.references = {"v3"}]>>]}) \cup
  MCDefects("authority",
    {[findings |-> <<MCFinding("f1", "HIGH")>>],
     [findings |-> <<MCFinding("f1", "LOW"), MCFinding("f2", "CRITICAL")>>]}
     ) \cup
  MCDefects("coverage",
    {[actions |-> {[id |-> "x1", finding |-> "f3", description |-> "do"]}]})

-----------------------------------------------------------------------------
(* Implementations and reviews.                                            *)

MCStages == {"implementation", "review"}
MCByStage(implementation, review) ==
  [s \in MCStages |-> IF s = "review" THEN review ELSE implementation]

MCBaseRequest == MCByStage(ImplBaseRequest, ReviewBaseRequest)
MCBaseProposal == MCByStage(ImplBaseProposal, ReviewBaseProposal)
MCRequestDefects == MCByStage(ImplRequestDefects, ReviewRequestDefects)
MCProposalDefects == MCByStage(ImplProposalDefects, ReviewProposalDefects)
MCChangeDefects == MCByStage(ImplChangeDefects, {})

-----------------------------------------------------------------------------
(* Plans.                                                                  *)

MCPaths == {<<"a">>, <<"a", "b">>, <<"a", "b", "c">>, <<"e">>}

MCRequest ==
  [taskLimit |-> 3, parallelism |-> 1, criteria |-> <<"k1", "k2", "k3">>,
   map |-> {<<"a">>}, readable |-> {<<"a">>}, writable |-> {<<"a", "b">>},
   prohibited |-> {<<"e">>}]

(* Every scope over a few nested paths.                                    *)
MCRequests ==
  {MCRequest} \cup
  {[MCRequest EXCEPT !.criteria = <<"k1", "k2">>, !.readable = {<<"a">>},
                     !.writable = w, !.prohibited = q] :
     w \in SUBSET MCPaths, q \in SUBSET MCPaths} \cup
  {[MCRequest EXCEPT !.taskLimit = 0], [MCRequest EXCEPT !.map = {}],
   [MCRequest EXCEPT !.criteria = <<"k1", "k1">>]}

MCTask(id, deps, criteria) ==
  [id |-> id, deps |-> deps, criteria |-> criteria, objective |-> "do",
   checks |-> {"h1"}, stops |-> {"s"}, resources |-> {},
   readable |-> {<<"a">>}, writable |-> {<<"a", "b">>}, prohibited |-> {}]

MCDeps == {SetToSeq(S) : S \in SUBSET {"t1", "t2", "t3"}}

(* Every dependency graph over three tasks.                                *)
MCCyclicGraphs ==
  {<<MCTask("t1", d[1], <<"k1">>), MCTask("t2", d[2], <<"k2">>),
     MCTask("t3", d[3], <<"k3">>)>> : d \in [1..3 -> MCDeps]}

(* Two tasks with any scopes and any criteria.                             *)
MCScopedTask(id, criteria, w) ==
  [MCTask(id, <<>>, criteria) EXCEPT !.writable = w]

MCCriteria == {<<"k1">>, <<"k2">>, <<"k1", "k2">>, <<"k1", "k1">>, <<"k3">>}

MCScopedGraphs ==
  {<<MCScopedTask("t1", c, w), MCScopedTask("t2", d, {})>> :
     c \in MCCriteria, d \in MCCriteria, w \in SUBSET MCPaths} \cup
  {<<[MCTask("t1", <<>>, <<"k1", "k2">>) EXCEPT !.checks = {}]>>,
   <<[MCTask("t1", <<>>, <<"k1", "k2">>) EXCEPT !.resources = {"?"}]>>,
   <<MCTask("t1", <<"t9">>, <<"k1", "k2">>)>>,
   <<MCTask("t1", <<>>, <<"k1">>), MCTask("t1", <<>>, <<"k2">>)>>}

MCGraphs == MCCyclicGraphs \cup MCScopedGraphs

=============================================================================
