------------------------------ MODULE Planning -------------------------------
(***************************************************************************)
(* The planning contract: when a proposed task graph is accepted.          *)
(*   go/internal/reasoning/contracts/planning.go                           *)
(* The envelope, the identity of the proposal and the specification it     *)
(* names are checked first, as in Contracts, and are valid here.  The      *)
(* specification at the end takes the three contracts together: a          *)
(* behaviour is about one implementation, one review or one plan.          *)
(* The depth-first search for a cycle visits the tasks in the order of a   *)
(* Go map, which is any order.                                             *)
(***************************************************************************)
EXTENDS ReviewContracts, SequencesExt

CONSTANTS
  Requests,   \* planning requests
  Graphs,     \* proposed task graphs, sequences of tasks
  Resources   \* the well-formed ones

VARIABLES
  graph,
  order,      \* the order in which the search takes the tasks
  verdict

planVars == <<graph, order, verdict>>

idsOf(g) == {g[i].id : i \in DOMAIN g}

-----------------------------------------------------------------------------
(* The request.                                                            *)

MapTaskPlanningRequest(r) ==
  /\ r.taskLimit > 0 /\ r.parallelism > 0
  /\ r.criteria # <<>> /\ r.map # {}
  /\ \A p \in r.map : validRepoPath(p)
  /\ validatePathScopes(r.readable, r.writable, r.prohibited)
  /\ elements(r.criteria) \subseteq Criteria
  /\ distinct(r.criteria)

-----------------------------------------------------------------------------
(* One task.                                                               *)

collectTaskIDs(g) ==
  /\ idsOf(g) \subseteq TaskIDs
  /\ \A i, j \in DOMAIN g : g[i].id = g[j].id => i = j

mapTaskDependencies(t, known) ==
  \A i \in DOMAIN t.deps : t.deps[i] # t.id /\ t.deps[i] \in known

validateTaskCriteria(t, r) ==
  elements(t.criteria) \subseteq elements(r.criteria)

validateTaskResourcesAndChecks(t) ==
  t.resources \subseteq Resources /\ t.checks \subseteq CheckIDs

mapPlannedTask(t, r, known) ==
  /\ t.objective # "" /\ t.criteria # <<>>
  /\ t.checks # {} /\ t.stops # {}
  /\ validatePathScopes(t.readable, t.writable, t.prohibited)
  /\ pathsWithin(t.readable, r.readable)
  /\ pathsWithin(t.writable, r.writable)
  /\ mapTaskDependencies(t, known)
  /\ validateTaskCriteria(t, r)
  /\ validateTaskResourcesAndChecks(t)

(* How often a criterion is assigned, over all tasks.                      *)
assigned(g, c) ==
  Cardinality({<<i, j>> \in (DOMAIN g) \X (1..Cardinality(Criteria) + 1) :
    j \in DOMAIN g[i].criteria /\ g[i].criteria[j] = c})

(* Mutant: once is enough.                                                 *)
validateCriterionCoverage_AtLeast(g, r) ==
  \A c \in elements(r.criteria) : assigned(g, c) > 0

validateCriterionCoverage(g, r) ==
  \A c \in elements(r.criteria) : assigned(g, c) = 1

-----------------------------------------------------------------------------
(* The search for a cycle.                                                 *)

Unvisited == [visiting |-> {}, visited |-> {}, cycle |-> FALSE]
entered(id, s) == [s EXCEPT !.visiting = @ \cup {id}]

(* Mutant: a task that is done still counts as being visited.              *)
left_Visiting(id, s) == [s EXCEPT !.visited = @ \cup {id}]

left(id, s) ==
  [s EXCEPT !.visiting = @ \ {id}, !.visited = @ \cup {id}]

RECURSIVE visit(_, _, _)
RECURSIVE visitAll(_, _, _)

visit(id, deps, s) ==
  IF id \in s.visiting THEN [s EXCEPT !.cycle = TRUE]
  ELSE IF id \in s.visited THEN s
  ELSE LET after == visitAll(deps[id], deps, entered(id, s))
       IN  IF after.cycle THEN after ELSE left(id, after)

visitAll(ids, deps, s) ==
  IF ids = <<>> \/ s.cycle THEN s
  ELSE visitAll(Tail(ids), deps, visit(Head(ids), deps, s))

depsOf(g) ==
  [id \in idsOf(g) |-> g[CHOOSE i \in DOMAIN g : g[i].id = id].deps]

graphHasCycle(g, ids) == visitAll(ids, depsOf(g), Unvisited).cycle

-----------------------------------------------------------------------------
MapTaskGraphProposal(g, r, ids) ==
  /\ Len(g) \in 1..r.taskLimit
  /\ collectTaskIDs(g)
  /\ \A i \in DOMAIN g : mapPlannedTask(g[i], r, idsOf(g))
  /\ validateCriterionCoverage(g, r)
  /\ ~graphHasCycle(g, ids)

NoPlan == graph = <<>> /\ order = <<>> /\ verdict = "none"

PlanningInit ==
  /\ stage = "planning"
  /\ request \in {r \in Requests : MapTaskPlanningRequest(r)}
  /\ proposal = Nil
  /\ kinds = [request |-> {}, proposal |-> {}]

Propose ==
  /\ stage = "planning"
  /\ verdict = "none"
  /\ graph' \in Graphs
  /\ order' \in SetToSeqs(idsOf(graph'))
  /\ verdict' = IF MapTaskGraphProposal(graph', request, order')
                THEN "accepted" ELSE "rejected"
  /\ UNCHANGED messageVars

ReasoningInit == NoPlan /\ (ContractsInit \/ PlanningInit)

ReasoningNext ==
  \/ stage \in Stages /\ ContractsNext /\ UNCHANGED planVars
  \/ Propose

ReasoningSpec == ReasoningInit /\ [][ReasoningNext]_<<messageVars, planVars>>

-----------------------------------------------------------------------------
(* Properties.                                                             *)

(* A graph has a cycle when some of its tasks all wait for another of them.*)
stuck(g, S) ==
  \A id \in S : \E i \in DOMAIN depsOf(g)[id] : depsOf(g)[id][i] \in S

wellFormed(g) ==
  \A i \in DOMAIN g : mapTaskDependencies(g[i], idsOf(g))

(* In whatever order the map is traversed, the search finds a cycle if and *)
(* only if there is one: no accepted graph has tasks that wait for ever,   *)
(* and no graph is refused because two tasks share a dependency.           *)
CycleSearchExact ==
  graph # <<>> /\ wellFormed(graph) =>
    ( graphHasCycle(graph, order) <=>
      \E S \in (SUBSET idsOf(graph)) \ {{}} : stuck(graph, S) )

(* Each approved criterion is the work of exactly one task, and no task    *)
(* works on anything else.                                                 *)
CriteriaPartitioned ==
  verdict = "accepted" =>
    /\ \A c \in elements(request.criteria) :
         \E i \in DOMAIN graph : \A j \in DOMAIN graph :
           c \in elements(graph[j].criteria) <=> j = i
    /\ \A i \in DOMAIN graph : elements(graph[i].criteria)
                                 \subseteq elements(request.criteria)

(* What the request prohibits no task may write, although a task's own     *)
(* list of prohibited paths need not repeat it: nothing that a writable    *)
(* path contains is prohibited, above or below.                            *)
TasksKeepOutOfProhibited ==
  verdict = "accepted" =>
    \A i \in DOMAIN graph, q \in request.prohibited :
      \A w \in graph[i].writable : ~under(w, q) /\ ~under(q, w)

(* A plan that is accepted can be carried out: it has no cycle, each       *)
(* criterion is the work of one task, and no task may write what the       *)
(* request prohibits.                                                      *)
AcceptedPlanIsSound ==
  CycleSearchExact /\ CriteriaPartitioned /\ TasksKeepOutOfProhibited

=============================================================================
