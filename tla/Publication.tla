---------------------------- MODULE Publication -----------------------------
(***************************************************************************)
(* The publication of an approved candidate, over the workflow kernel:     *)
(*   go/internal/controlapi/server.go        (submitRun)                   *)
(*   go/internal/publication/service.go      (Publish, complete)           *)
(*   go/internal/publication/repository.go   (the ledger)                  *)
(*   go/internal/publication/git.go          (the branch)                  *)
(*   go/internal/publication/github.go       (the draft pull request)      *)
(*   go/internal/publication/validation.go   (the evidence)                *)
(*   go/cmd/beta-canary-cleanup/main.go      (close and delete)            *)
(*                                                                         *)
(* The publication ID is derived from the idempotency key, so a key stands *)
(* for it; the branch is derived from the run.  Reservations do not wait:  *)
(* any number of callers may be at work on one key.  Others may move the   *)
(* base, push to the branch, and edit the pull request.                    *)
(***************************************************************************)
EXTENDS Workflow, Sequences, Functions

CONSTANTS
  Keys,       \* idempotency keys of POST /submit
  Callers,    \* concurrent calls of Publish
  Serves,     \* bound: <<caller, key>>, the keys that a caller may serve
  Base,       \* the reviewed base commit
  Candidate,  \* the approved commit
  Foreign,    \* a commit of somebody else
  Bodies,     \* what the six artifacts may say: functions of their refs
  MaxFaults,  \* bound: failed calls, lost answers, deaths
  MaxOthers   \* bound: what others do to the remote

(* Commits, numbers and tuples are told apart, and from Nil.               *)
ASSUME PublicationAssumption ==
  /\ Candidate # Nil /\ Foreign \notin {Nil, Candidate}
  /\ Nil \notin Nat \cup {<<>>, <<1>>}
  /\ Nil \notin {"draft"} \X Keys \X Nat
  /\ MaxOthers \in Nat

VARIABLES
  ledger,    \* the rows of draft_pull_request_publications
  caller,    \* the memory of each caller
  remote,    \* the base, the branch and the pull requests of the run
  cleaner,   \* the memory of the cleanup command
  bodies,    \* the artifacts
  returned,  \* <<key, artifact>>: what callers were given
  answered,  \* keys whose answer, of either kind, the API has recorded
  faults, others

pubVars ==
  <<ledger, caller, remote, cleaner, bodies, returned, answered, faults,
    others>>
allVars == <<vars, pubVars>>

-----------------------------------------------------------------------------
NoRow == [state |-> "NONE", rev |-> 0, pull |-> Nil, artifact |-> Nil]

Idle ==
  [pc |-> "idle", key |-> Nil, rev |-> 0, pull |-> Nil]

(* The refs by which run, task and run binding know the evidence.          *)
Evidence ==
  [spec |-> "spec", impl |-> "impl", exec |-> "exec", verif |-> "verif",
   review |-> "review", approval |-> "approval"]

PubInit ==
  /\ run = [NoRun EXCEPT !.state = "MERGE_READY", !.rev = 10,
                         !.cand = Candidate, !.approval = Evidence.approval]
  /\ task = [t \in Tasks |-> [NoTask EXCEPT !.state = "ACCEPTED", !.rev = 9]]
  /\ deps = {}
  /\ log = [a \in Aggregates |->
       {[rev |-> n, cmd |-> Fresh] : n \in 1..Revision(a)}]
  /\ commands = [i \in {} |-> Nil]
  /\ ledger = [k \in Keys |-> NoRow]
  /\ caller = [w \in Callers |-> Idle]
  /\ remote = [base |-> Base, branch |-> Nil, pulls |-> <<>>]
  /\ cleaner = [pc |-> "idle", key |-> Nil]
  /\ bodies \in Bodies
  /\ returned = {} /\ answered = {}
  /\ faults = 0 /\ others = 0

Fault == faults < MaxFaults /\ faults' = faults + 1

at(w, pc) == caller[w].pc = pc
my(w) == caller[w].key
row(w) == ledger[my(w)]
goto(w, pc) == caller' = [caller EXCEPT ![w].pc = pc]
stop(w) == caller' = [caller EXCEPT ![w] = Idle]

-----------------------------------------------------------------------------
(* The request.                                                            *)

verificationPassed(v) ==
  /\ v.checks # {} /\ v.coverage # {}
  /\ \A c \in v.checks :
       c.passed /\ ~c.timedOut /\ c.candidate = v.candidate
  /\ \A c \in v.coverage : c.covered /\ c.passed /\ c.checks # {}

ofThisRun(b) == b.run = RunID /\ b.candidate = Candidate

(* Mutant: the approval is not tied to the verification.                   *)
artifactsMatch_Approval(q, b) ==
  /\ ofThisRun(b[q.exec]) /\ b[q.exec].base = Base
  /\ b[q.exec].impl = q.impl
  /\ ofThisRun(b[q.verif]) /\ b[q.verif].base = Base
  /\ b[q.verif].exec = q.exec
  /\ b[q.verif].passed /\ verificationPassed(b[q.verif])
  /\ ofThisRun(b[q.review])
  /\ b[q.review].spec = q.spec /\ b[q.review].impl = q.impl
  /\ b[q.review].exec = q.exec /\ b[q.review].verif = q.verif
  /\ b[q.review].passed /\ b[q.review].recommendation = "advisory_accept"
  /\ ofThisRun(b[q.approval]) /\ b[q.approval].decision = "approve"
  /\ b[q.approval].spec = q.spec /\ b[q.approval].impl = q.impl
  /\ b[q.approval].exec = q.exec /\ b[q.approval].review = q.review

(* Each body names the bodies that it rests on.                            *)
artifactsMatch(q, b) ==
  /\ ofThisRun(b[q.exec]) /\ b[q.exec].base = Base
  /\ b[q.exec].impl = q.impl
  /\ ofThisRun(b[q.verif]) /\ b[q.verif].base = Base
  /\ b[q.verif].exec = q.exec
  /\ b[q.verif].passed /\ verificationPassed(b[q.verif])
  /\ ofThisRun(b[q.review])
  /\ b[q.review].spec = q.spec /\ b[q.review].impl = q.impl
  /\ b[q.review].exec = q.exec /\ b[q.review].verif = q.verif
  /\ b[q.review].passed /\ b[q.review].recommendation = "advisory_accept"
  /\ ofThisRun(b[q.approval]) /\ b[q.approval].decision = "approve"
  /\ b[q.approval].spec = q.spec /\ b[q.approval].impl = q.impl
  /\ b[q.approval].exec = q.exec /\ b[q.approval].verif = q.verif
  /\ b[q.approval].review = q.review

publicationRequest ==
  run.state = "MERGE_READY" /\ run.approval = Evidence.approval

(* A key that has its answer is answered from the record.                  *)
mayServe(w, k) == at(w, "idle") /\ <<w, k>> \in Serves /\ k \notin answered

(* POST /submit.  The request carries the revision of the run as it is now.*)
Submit(w, k) ==
  /\ mayServe(w, k)
  /\ publicationRequest
  /\ artifactsMatch(Evidence, bodies)
  /\ caller' = [caller EXCEPT ![w] =
       [Idle EXCEPT !.pc = "insert", !.key = k, !.rev = run.rev]]
  /\ UNCHANGED <<vars, ledger, remote, cleaner, bodies, returned, answered,
                 faults, others>>

(* The tasks cannot be read.  Whatever the cause, that is an ErrInvalid, a *)
(* 422 that completeMutation records: the key is refused for good.  So it  *)
(* happens once to a key, and needs no other bound.                        *)
ListTasksFails(w, k) ==
  /\ mayServe(w, k)
  /\ publicationRequest
  /\ answered' = answered \cup {k}
  /\ UNCHANGED <<vars, ledger, caller, remote, cleaner, bodies, returned,
                 faults, others>>

-----------------------------------------------------------------------------
(* The ledger.  The digest of a request differs between two calls for a    *)
(* key only in the revision.                                               *)

Insert(w) ==
  /\ at(w, "insert")
  /\ goto(w, "load")
  /\ ledger' = [ledger EXCEPT ![my(w)] =
       IF @.state = "NONE"
       THEN [NoRow EXCEPT !.state = "reserved", !.rev = caller[w].rev]
       ELSE @]
  /\ UNCHANGED <<vars, remote, cleaner, bodies, returned, answered, faults,
                 others>>

(* The SELECT finds the row, and it is of this request.                    *)
loads(w) == row(w).state # "NONE" /\ row(w).rev = caller[w].rev

branchReady(w) == row(w).state \in {"branch_ready", "pr_ready", "completed"}

Load(w) ==
  /\ at(w, "load")
  /\ IF ~loads(w) THEN stop(w)
     ELSE caller' = [caller EXCEPT ![w].pull = row(w).pull,
       ![w].pc = IF row(w).state = "completed" THEN "answer"
                 ELSE IF ~branchReady(w) THEN "base"
                 ELSE IF row(w).pull = Nil THEN "recheck" ELSE "record"]
  /\ UNCHANGED <<vars, ledger, remote, cleaner, bodies, returned, answered,
                 faults, others>>

(* Mutant: the row is deleted whatever its state is.                       *)
rollbackable_Any(r) == TRUE

rollbackable(r) == r.state = "reserved"

(* A caller without a branch has loaded a reserved row, so it is an owner. *)
Rollback(w) ==
  /\ at(w, "rollback")
  /\ ledger' = [ledger EXCEPT ![my(w)] = IF rollbackable(@) THEN NoRow ELSE @]
  /\ stop(w)
  /\ UNCHANGED <<vars, remote, cleaner, bodies, returned, answered, faults,
                 others>>

-----------------------------------------------------------------------------
(* The branch.                                                             *)

BaseHead(w) ==
  /\ at(w, "base")
  /\ goto(w, IF remote.base = Base THEN "inspect" ELSE "rollback")
  /\ UNCHANGED <<vars, ledger, remote, cleaner, bodies, returned, answered,
                 faults, others>>

(* Mutant: a branch that is there is a conflict.                           *)
recovered_None(branch) == FALSE

recovered(branch) == branch = Candidate

(* Publish: an equal branch is recovered, another one is a conflict.       *)
BranchHead(w) ==
  /\ at(w, "inspect")
  /\ goto(w, IF remote.branch = Nil THEN "push"
             ELSE IF recovered(remote.branch) THEN "saveBranch"
             ELSE "rollback")
  /\ UNCHANGED <<vars, ledger, remote, cleaner, bodies, returned, answered,
                 faults, others>>

(* Mutant: the push is forced.                                             *)
emptyLease_Force(branch) == TRUE

(* --force-with-lease=ref: with an empty expectation.                      *)
emptyLease(branch) == branch = Nil

Push(w) ==
  /\ at(w, "push")
  /\ \/ /\ emptyLease(remote.branch)
        /\ remote' = [remote EXCEPT !.branch = Candidate]
        /\ \/ goto(w, "saveBranch") /\ UNCHANGED faults
           \/ Fault /\ goto(w, "reinspect")
     \/ /\ ~emptyLease(remote.branch)
        /\ goto(w, "reinspect")
        /\ UNCHANGED <<remote, faults>>
     \/ /\ Fault
        /\ goto(w, "reinspect")
        /\ UNCHANGED remote
  /\ UNCHANGED <<vars, ledger, cleaner, bodies, returned, answered, others>>

BranchHeadAgain(w) ==
  /\ at(w, "reinspect")
  /\ goto(w, IF recovered(remote.branch) THEN "saveBranch" ELSE "rollback")
  /\ UNCHANGED <<vars, ledger, remote, cleaner, bodies, returned, answered,
                 faults, others>>

(* Mutant: a checkpoint is set back.                                       *)
advances_Any(r, from) == r.state # "NONE"

(* The WHERE clause of an UPDATE to the next state.                        *)
advances(r, from) == r.state = from

SaveBranch(w) ==
  /\ at(w, "saveBranch")
  /\ IF advances(row(w), "reserved")
     THEN /\ ledger' = [ledger EXCEPT ![my(w)].state = "branch_ready"]
          /\ goto(w, "recheck")
     ELSE /\ IF loads(w) /\ branchReady(w) THEN goto(w, "recheck")
             ELSE stop(w)
          /\ UNCHANGED ledger
  /\ UNCHANGED <<vars, remote, cleaner, bodies, returned, answered, faults,
                 others>>

-----------------------------------------------------------------------------
(* The draft pull request.                                                 *)

RecheckBase(w) ==
  /\ at(w, "recheck")
  /\ IF remote.base = Base THEN goto(w, "find") ELSE stop(w)
  /\ UNCHANGED <<vars, ledger, remote, cleaner, bodies, returned, answered,
                 faults, others>>

(* Mutant: any open draft of the branch is taken.                          *)
isDraftOf_Any(p, k) == p.state = "open" /\ p.draft

isDraftOf(p, k) == p.state = "open" /\ p.draft /\ p.marker = k

(* Nil: there is none; <<>>: a conflict; otherwise its number.  The list   *)
(* has the pull requests in every state.                                   *)
FindDraft(k) ==
  IF remote.pulls = <<>> THEN Nil
  ELSE IF Len(remote.pulls) = 1 /\ isDraftOf(remote.pulls[1], k)
  THEN <<1>> ELSE <<>>

(* What a caller does with the answer of FindDraft.                        *)
take(w, found, none) ==
  CASE found = Nil -> none
    [] found = <<>> -> stop(w)
    [] OTHER -> caller' = [caller EXCEPT ![w].pc = "savePull",
                                         ![w].pull = found[1]]

Find(w) ==
  /\ at(w, "find")
  /\ take(w, FindDraft(my(w)), goto(w, "create"))
  /\ UNCHANGED <<vars, ledger, remote, cleaner, bodies, returned, answered,
                 faults, others>>

(* GitHub has one open pull request for a branch and a base.               *)
creatable ==
  /\ remote.branch # Nil
  /\ \A i \in DOMAIN remote.pulls : remote.pulls[i].state # "open"

newPull(w) ==
  [state |-> "open", draft |-> TRUE, marker |-> my(w),
   head |-> remote.branch, base |-> remote.base]

CreateDraft(w) ==
  /\ at(w, "create")
  /\ \/ /\ creatable
        /\ remote' = [remote EXCEPT !.pulls = Append(@, newPull(w))]
        /\ \/ /\ caller' = [caller EXCEPT ![w].pc = "savePull",
                              ![w].pull = Len(remote.pulls) + 1]
              /\ UNCHANGED faults
           \/ Fault /\ goto(w, "recover")
     \/ /\ ~creatable
        /\ goto(w, "recover")
        /\ UNCHANGED <<remote, faults>>
     \/ /\ Fault
        /\ goto(w, "recover")
        /\ UNCHANGED remote
  /\ UNCHANGED <<vars, ledger, cleaner, bodies, returned, answered, others>>

(* CreateDraft looks again, and so does its caller.                        *)
Recover(w) ==
  /\ at(w, "recover")
  /\ IF FindDraft(my(w)) \in {Nil, <<>>} THEN goto(w, "recoverAgain")
     ELSE take(w, FindDraft(my(w)), FALSE)
  /\ UNCHANGED <<vars, ledger, remote, cleaner, bodies, returned, answered,
                 faults, others>>

RecoverAgain(w) ==
  /\ at(w, "recoverAgain")
  /\ take(w, FindDraft(my(w)), stop(w))
  /\ UNCHANGED <<vars, ledger, remote, cleaner, bodies, returned, answered,
                 faults, others>>

(* Mutant: another number in the row is not noticed.                       *)
samePull_Any(r, pull) == TRUE

samePull(r, pull) == r.pull = pull

SavePullRequest(w) ==
  /\ at(w, "savePull")
  /\ IF advances(row(w), "branch_ready")
     THEN /\ ledger' = [ledger EXCEPT ![my(w)].state = "pr_ready",
                                      ![my(w)].pull = caller[w].pull]
          /\ goto(w, "record")
     ELSE /\ IF /\ loads(w) /\ row(w).pull # Nil
                /\ samePull(row(w), caller[w].pull)
             THEN goto(w, "record") ELSE stop(w)
          /\ UNCHANGED ledger
  /\ UNCHANGED <<vars, remote, cleaner, bodies, returned, answered, faults,
                 others>>

-----------------------------------------------------------------------------
(* The run and the end of the publication.                                 *)

artifactOf(w) == <<"draft", my(w), caller[w].pull>>

commandEnvelope(w) ==
  [id |-> my(w), actor |-> "PUBLICATION_SERVICE", rev |-> caller[w].rev,
   at |-> 0]

recordApplies(w) ==
  recordDraftPullRequest(commandEnvelope(w), Evidence.approval, artifactOf(w),
                         Candidate)

recordRefused(w) == ~ENABLED recordApplies(w)

digestOf(w) ==
  <<"RecordDraftPullRequest", commandEnvelope(w), Candidate,
    Evidence.approval, artifactOf(w)>>

(* What the workflow refuses is a 4xx, which is recorded.                  *)
Record(w) ==
  /\ at(w, "record")
  /\ \/ recordApplies(w) /\ goto(w, "complete") /\ UNCHANGED answered
     \/ /\ loadCommandResult(commandEnvelope(w), digestOf(w)) = "replay"
        /\ goto(w, "complete")
        /\ UNCHANGED <<vars, answered>>
     \/ /\ loadCommandResult(commandEnvelope(w), digestOf(w)) # "replay"
        /\ recordRefused(w)
        /\ answered' = answered \cup {my(w)}
        /\ stop(w)
        /\ UNCHANGED vars
  /\ UNCHANGED <<ledger, remote, cleaner, bodies, returned, faults, others>>

Complete(w) ==
  /\ at(w, "complete")
  /\ IF advances(row(w), "pr_ready")
     THEN /\ ledger' = [ledger EXCEPT ![my(w)].state = "completed",
                                      ![my(w)].artifact = artifactOf(w)]
          /\ goto(w, "answer")
     ELSE /\ IF loads(w) /\ row(w).artifact = artifactOf(w)
             THEN goto(w, "answer") ELSE stop(w)
          /\ UNCHANGED ledger
  /\ UNCHANGED <<vars, remote, cleaner, bodies, returned, answered, faults,
                 others>>

(* The API records the answer (completeMutation).                          *)
Answer(w) ==
  /\ at(w, "answer")
  /\ returned' = returned \cup {<<my(w), artifactOf(w)>>}
  /\ answered' = answered \cup {my(w)}
  /\ stop(w)
  /\ UNCHANGED <<vars, ledger, remote, cleaner, bodies, faults, others>>

-----------------------------------------------------------------------------
(* Faults.  A statement that takes effect and whose answer is lost is the  *)
(* step followed by a death: the caller gives up in both cases.            *)

afterFailure(pc) ==
  CASE pc \in {"base", "inspect", "reinspect"} -> "rollback"
    [] pc = "recover" -> "recoverAgain"

Fails(w) ==
  /\ caller[w].pc \in {"base", "inspect", "reinspect", "recover"}
  /\ Fault
  /\ goto(w, afterFailure(caller[w].pc))
  /\ UNCHANGED <<vars, ledger, remote, cleaner, bodies, returned, answered,
                 others>>

Death(w) ==
  /\ ~at(w, "idle")
  /\ Fault
  /\ stop(w)
  /\ UNCHANGED <<vars, ledger, remote, cleaner, bodies, returned, answered,
                 others>>

-----------------------------------------------------------------------------
(* Others, and the cleanup command.                                        *)

Meddle == others < MaxOthers /\ others' = others + 1

BaseMoves ==
  /\ Meddle /\ remote.base = Base
  /\ remote' = [remote EXCEPT !.base = Foreign]
  /\ UNCHANGED <<vars, ledger, caller, cleaner, bodies, returned, answered,
                 faults>>

(* Somebody pushes to the branch, and its open pull request follows.       *)
BranchMoves ==
  /\ Meddle /\ remote.branch = Candidate
  /\ remote' = [remote EXCEPT !.branch = Foreign,
       !.pulls = [i \in DOMAIN @ |->
         IF @[i].state = "open" THEN [@[i] EXCEPT !.head = Foreign] ELSE @[i]]]
  /\ UNCHANGED <<vars, ledger, caller, cleaner, bodies, returned, answered,
                 faults>>

PullEdited ==
  /\ Meddle
  /\ \E i \in DOMAIN remote.pulls :
       \/ remote' = [remote EXCEPT !.pulls[i].state = "closed"]
       \/ remote' = [remote EXCEPT !.pulls[i].draft = FALSE]
  /\ UNCHANGED <<vars, ledger, caller, cleaner, bodies, returned, answered,
                 faults>>

(* LoadCompleted: only a completed publication is cleaned up.              *)
LoadCompleted(k) ==
  /\ cleaner.pc = "idle"
  /\ ledger[k].state = "completed"
  /\ cleaner' = [pc |-> "close", key |-> k]
  /\ UNCHANGED <<vars, ledger, caller, remote, bodies, returned, answered,
                 faults, others>>

matchesExpectedPullRequest(p) ==
  /\ p.draft /\ p.marker = cleaner.key
  /\ p.base = Base /\ p.head = Candidate

itsPull == remote.pulls[ledger[cleaner.key].pull]

(* CloseDraft: a draft that is closed already is left alone.               *)
CloseDraft ==
  /\ cleaner.pc = "close"
  /\ cleaner' =
       IF ~matchesExpectedPullRequest(itsPull)
       THEN [pc |-> "idle", key |-> Nil]
       ELSE [cleaner EXCEPT !.pc =
               IF itsPull.state = "closed" THEN "inspect" ELSE "patch"]
  /\ UNCHANGED <<vars, ledger, caller, remote, bodies, returned, answered,
                 faults, others>>

(* The PATCH, and the same test of what it answers.                        *)
CloseDraftPatch ==
  /\ cleaner.pc = "patch"
  /\ remote' = [remote EXCEPT
       !.pulls[ledger[cleaner.key].pull].state = "closed"]
  /\ cleaner' = IF matchesExpectedPullRequest(itsPull)
                THEN [cleaner EXCEPT !.pc = "inspect"]
                ELSE [pc |-> "idle", key |-> Nil]
  /\ UNCHANGED <<vars, ledger, caller, bodies, returned, answered, faults,
                 others>>

DeleteBranchInspect ==
  /\ cleaner.pc = "inspect"
  /\ cleaner' = IF remote.branch = Candidate
                THEN [cleaner EXCEPT !.pc = "delete"]
                ELSE [pc |-> "idle", key |-> Nil]
  /\ UNCHANGED <<vars, ledger, caller, remote, bodies, returned, answered,
                 faults, others>>

(* Mutant: what was inspected is deleted, whatever it is by now.           *)
exactLease_Any(branch) == branch # Nil

exactLease(branch) == branch = Candidate

DeleteBranch ==
  /\ cleaner.pc = "delete"
  /\ remote' = IF exactLease(remote.branch)
               THEN [remote EXCEPT !.branch = Nil] ELSE remote
  /\ cleaner' = [pc |-> "idle", key |-> Nil]
  /\ UNCHANGED <<vars, ledger, caller, bodies, returned, answered, faults,
                 others>>

-----------------------------------------------------------------------------
Step(w) ==
  \/ Insert(w) \/ Load(w) \/ Rollback(w)
  \/ BaseHead(w) \/ BranchHead(w) \/ Push(w) \/ BranchHeadAgain(w)
  \/ SaveBranch(w)
  \/ RecheckBase(w) \/ Find(w) \/ CreateDraft(w) \/ Recover(w)
  \/ RecoverAgain(w) \/ SavePullRequest(w)
  \/ Record(w) \/ Complete(w) \/ Answer(w)

Cleanup ==
  \/ \E k \in Keys : LoadCompleted(k)
  \/ CloseDraft \/ CloseDraftPatch \/ DeleteBranchInspect \/ DeleteBranch

PubNext ==
  \/ \E w \in Callers :
       \/ \E k \in Keys : Submit(w, k) \/ ListTasksFails(w, k)
       \/ Step(w) \/ Fails(w) \/ Death(w)
  \/ BaseMoves \/ BranchMoves \/ PullEdited \/ Cleanup

PubSafety == PubInit /\ [][PubNext]_allVars

(* A call that is under way goes on, and the client repeats its request    *)
(* until it has an answer, whatever other keys are used.                   *)
PubSpec ==
  /\ PubSafety
  /\ \A w \in Callers : WF_allVars(Step(w))
  /\ \A k \in Keys : SF_allVars(\E w \in Callers : Submit(w, k))

-----------------------------------------------------------------------------
(* Properties.                                                             *)

States == <<"NONE", "reserved", "branch_ready", "pr_ready", "completed">>

(* Types: a row has a pull request from its third checkpoint on, and an    *)
(* artifact when it is completed.                                          *)
PubTypeOK ==
  /\ \A k \in Keys :
       /\ ledger[k].state \in Range(States)
       /\ (ledger[k].pull # Nil) = (ledger[k].state \in
                                     {"pr_ready", "completed"})
       /\ (ledger[k].artifact # Nil) = (ledger[k].state = "completed")
  /\ remote.branch \in {Nil, Candidate, Foreign}
  /\ remote.base \in {Base, Foreign}
  /\ \A i \in DOMAIN remote.pulls : remote.pulls[i].marker \in Keys

(* "Ambiguous Git or API outcomes do not create a second logical ... PR":  *)
(* the pull request that a publication has in its row, recovered or        *)
(* created, by whichever caller, is the one with its own marker.           *)
PullIsMarked ==
  \A k \in Keys :
    ledger[k].pull # Nil => remote.pulls[ledger[k].pull].marker = k

(* "Publication checkpoints external identity before workflow mutation":   *)
(* what the run records is what some row has had as its checkpoint before, *)
(* and keeps, also when two callers saw different pull requests.           *)
CheckpointBeforeMutation ==
  run.pub # Nil =>
    \E k \in Keys :
      /\ ledger[k].state \in {"pr_ready", "completed"}
      /\ run.pub = <<"draft", k, ledger[k].pull>>

(* Checkpoints are kept: a row only advances, its pull request never       *)
(* changes, and only a reservation is ever deleted, although any caller    *)
(* may roll back the reservation of all.                                   *)
indexOf(state) == CHOOSE i \in DOMAIN States : States[i] = state

LedgerAdvances ==
  [][\A k \in Keys :
       \/ /\ indexOf(ledger[k].state) <= indexOf(ledger'[k].state)
          /\ ledger[k].pull # Nil => ledger'[k].pull = ledger[k].pull
       \/ ledger[k].state = "reserved" /\ ledger'[k] = NoRow]_allVars

(* Each pull request after the first takes the place of one that others    *)
(* closed, or that was cleaned up.                                         *)
Drafts == {<<"draft", k, i>> : k \in Keys, i \in 1..2 + MaxOthers}

(* A publication ID has one result, and every caller is given it.          *)
Outcome ==
  INSTANCE WriteOnce WITH
    Results <- Drafts, None <- Nil,
    result <- [k \in Keys |-> ledger[k].artifact], returned <- returned

PublicationsImplementWriteOnce == Outcome!Spec

(* The ledger leads: a publication is checkpointed, under its own pull     *)
(* request, before the run records it, its row only advances, and it has   *)
(* one result.                                                             *)
LedgerLeads ==
  /\ [](PubTypeOK /\ PullIsMarked /\ CheckpointBeforeMutation)
  /\ LedgerAdvances
  /\ PublicationsImplementWriteOnce

(* Commits of somebody else on the branch survive the push, which others   *)
(* may have overtaken, and the cleanup, which may have inspected the       *)
(* branch before.                                                          *)
ForeignWorkSurvives ==
  [][remote.branch = Foreign => remote'.branch = Foreign]_allVars

(* The commit that is published is the one whose execution was verified by *)
(* the passing verification that the approval names, and that the review   *)
(* the approval names is about, in this run.                               *)
PublishedWasApproved ==
  remote.branch = Candidate =>
    LET approval == bodies[run.approval]
        verif == bodies[approval.verif]
        review == bodies[approval.review]
    IN  /\ approval.decision = "approve" /\ approval.run = RunID
        /\ review.passed /\ review.recommendation = "advisory_accept"
        /\ review.verif = approval.verif
        /\ \A c \in verif.checks :
             c.passed /\ ~c.timedOut /\ c.candidate = Candidate
        /\ \A c \in verif.coverage : c.passed /\ c.checks # {}
        /\ bodies[verif.exec].candidate = Candidate

(* A key that was refused for good has left its draft: every other key     *)
(* finds a draft with a marker that is not its own, a conflict.            *)
DraftOfRefused ==
  \E k \in answered, i \in DOMAIN remote.pulls : remote.pulls[i].marker = k

(* Repeated submissions of an approved candidate lead to a pull request in *)
(* the run, recovering the branch and the draft of the calls before them   *)
(* that failed or died at any step, unless others change the remote.  The  *)
(* failure of ListTasks is the exception: it ends its key, so that another *)
(* one is needed, and with a draft of that key none can do.                *)
SubmissionRecorded ==
  artifactsMatch(Evidence, bodies) =>
    <>(run.pub # Nil \/ others > 0 \/ answered = Keys \/ DraftOfRefused)

=============================================================================
