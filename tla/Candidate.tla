----------------------------- MODULE Candidate ------------------------------
(***************************************************************************)
(* How a proposal becomes a candidate commit, file by file:                *)
(*   go/internal/repository/materialize.go  (the worktree)                 *)
(*   go/internal/execution/service.go       (preflight, target checks)     *)
(*   go/cmd/execution-worker/main.go        (the applicator)               *)
(*   go/internal/execution/candidate.go     (index, commit, diff)          *)
(*                                                                         *)
(* Workers of one execution share the path of the worktree, not the        *)
(* directory: each removes what is there and makes its own, an open        *)
(* directory stays with the applicator that opened it, and the candidate   *)
(* is built from whatever the path names by then.  Workers may stop        *)
(* anywhere.  Git and the file system are external.                        *)
(***************************************************************************)
EXTENDS Integers, Sequences, FiniteSetsExt

CONSTANTS
  Paths,            \* repository paths
  Parent,           \* the directory of a path, or Root
  Root,
  Bodies,           \* contents of files
  Size,             \* their lengths
  BaseEntries,      \* entries that a base commit may have
  Bases,            \* the base commits
  Temporary,        \* the name beside a file that its replacement has first
  Unindexable,      \* names that Git takes into no index
  Proposals,        \* sequences of changes
  Workers,
  MaxChangedFiles,  \* limits.max_changed_files
  MaxFileBytes,     \* limits.max_file_bytes
  MaxTotalBytes,    \* limits.max_total_bytes
  MaxFaults         \* bound: workers that stop or fail

ASSUME SizeAssumption == Size \in [Bodies -> Nat]
ASSUME LimitAssumption == MaxFileBytes \in Nat
ASSUME ParentAssumption == Parent \in [Paths -> Paths \cup {Root}]
ASSUME EntryAssumption ==
  BaseEntries \subseteq [mode : {"644", "755", "link", "commit"}, body : Bodies]

(* The temporary name of a path may be another path; it may also be longer *)
(* than a file system allows.                                              *)
ASSUME TemporaryAssumption ==
  Temporary \in [Paths -> Paths \cup {"elsewhere", "too long"}]

(* A proposal names at least one change (the contract of the stage).       *)
ASSUME ProposalAssumption ==
  \A s \in Proposals :
    /\ s \in Seq([op : {"create", "update", "delete"}, path : Paths,
                  old : Bodies \cup {"none"}, new : Bodies \cup {"none"}])
    /\ s # <<>>

VARIABLES
  base,      \* the tree of the base commit
  changes,   \* the changes of the proposal
  tree,      \* what the path of the worktree names
  made,      \* how many worktrees there have been
  worker,    \* the memory of each worker
  faults

vars == <<base, changes, tree, made, worker, faults>>

-----------------------------------------------------------------------------
(* Trees: a commit has a directory where it has an entry below it.         *)

Absent == [mode |-> "none", body |-> "none"]

isFile(e) == e.mode \in {"644", "755"}

directories(t) == {Parent[p] : p \in {q \in Paths : t[q] # Absent}} \ {Root}

Trees ==
  {t \in [Paths -> BaseEntries \cup {Absent}] :
     \A p \in directories(t) : t[p] = Absent}

ASSUME BasesAssumption == Bases \subseteq Trees

NoWorktree == [id |-> 0, files |-> [p \in Paths |-> Absent], dirs |-> {}]

Start ==
  [pc |-> "preflight", next |-> 1, dir |-> 0, accepted |-> FALSE,
   index |-> [p \in Paths |-> Absent], diff |-> {}]

Init ==
  /\ base \in Bases
  /\ changes \in Proposals
  /\ tree = NoWorktree
  /\ made = 0
  /\ worker = [w \in Workers |-> Start]
  /\ faults = 0

Changes == {changes[i] : i \in DOMAIN changes}

at(w, pc) == worker[w].pc = pc

(* An error ends the call; the worktree, if there is one, is removed.      *)
fail(w) == worker' = [worker EXCEPT ![w].pc = "clean"]
reject(w) == worker' = [worker EXCEPT ![w].pc = "failed"]
goto(w, pc) == worker' = [worker EXCEPT ![w].pc = pc, ![w].next = 1]

(* The next change, or the next phase after the last.                      *)
advance(w, pc) ==
  IF worker[w].next = Len(changes) THEN goto(w, pc)
  ELSE worker' = [worker EXCEPT ![w].next = @ + 1]

change(w) == changes[worker[w].next]

-----------------------------------------------------------------------------
(* The service, before the proposal is accepted.                           *)

replaced(s) == {i \in DOMAIN s : s[i].op # "delete"}

withinLimits(s) ==
  /\ Len(s) <= MaxChangedFiles
  /\ \A i \in replaced(s) : Size[s[i].new] <= MaxFileBytes
  /\ MapThenSumSet(LAMBDA i : Size[s[i].new], replaced(s)) <= MaxTotalBytes

(* Mutant: two changes may have one path.                                  *)
preflightChanges_Duplicates(s) == withinLimits(s)

preflightChanges(s) ==
  /\ withinLimits(s)
  /\ \A i, j \in DOMAIN s : s[i].path = s[j].path => i = j

Preflight(w) ==
  /\ at(w, "preflight")
  /\ IF preflightChanges(changes) THEN goto(w, "worktree") ELSE reject(w)
  /\ UNCHANGED <<base, changes, tree, made, faults>>

(* Tracked blobs and symbolic links can be written, nothing else.          *)
materializable == \A p \in Paths : base[p].mode # "commit"

CreateWorktree(w) ==
  /\ at(w, "worktree")
  /\ made' = made + 1
  /\ IF materializable
     THEN /\ tree' = [id |-> made', files |-> base,
                      dirs |-> directories(base)]
          /\ goto(w, "validate")
     ELSE /\ tree' = NoWorktree
          /\ reject(w)
  /\ UNCHANGED <<base, changes, faults>>

(* Every ancestor is a directory and no link; a file to create is absent,  *)
(* one to update or delete is a plain file with the expected content.      *)
validateTarget(t, c) ==
  /\ t.id # 0
  /\ Parent[c.path] \in t.dirs \cup {Root}
  /\ c.path \notin t.dirs
  /\ IF c.op = "create" THEN t.files[c.path] = Absent
     ELSE /\ isFile(t.files[c.path])
          /\ t.files[c.path].body = c.old

ValidateTargets(w) ==
  /\ at(w, "validate")
  /\ IF \A c \in Changes : validateTarget(tree, c)
     THEN worker' = [worker EXCEPT ![w].pc = "open", ![w].accepted = TRUE]
     ELSE fail(w)
  /\ UNCHANGED <<base, changes, tree, made, faults>>

-----------------------------------------------------------------------------
(* The applicator, in its container.                                       *)

(* The directory is mounted and opened once.                               *)
OpenWorkspace(w) ==
  /\ at(w, "open")
  /\ IF tree.id # 0 /\ withinLimits(changes)
     THEN worker' = [worker EXCEPT ![w].pc = "prepare", ![w].dir = tree.id]
     ELSE fail(w)
  /\ UNCHANGED <<base, changes, tree, made, faults>>

(* What the applicator sees: nothing, once its directory was removed.      *)
mounted(w) == IF tree.id = worker[w].dir THEN tree ELSE NoWorktree

prepare(w) ==
  LET c == change(w)
      t == mounted(w)
  IN  /\ Parent[c.path] \in t.dirs \cup {Root}
      /\ c.path \notin t.dirs
      /\ IF c.op = "create" THEN t.files[c.path] = Absent
         ELSE /\ isFile(t.files[c.path])
              /\ Size[t.files[c.path].body] <= MaxFileBytes
              /\ t.files[c.path].body = c.old

Prepare(w) ==
  /\ at(w, "prepare")
  /\ IF prepare(w) THEN advance(w, "apply") ELSE fail(w)
  /\ UNCHANGED <<base, changes, tree, made, faults>>

(* Mutant: what is not deleted is written in place, and may be torn.       *)
written_Torn(c, e) == {[e EXCEPT !.body = b] : b \in Bodies}

(* The replacement is written beside the file, under a name that must be   *)
(* free, and renamed over it; both are one step here.                      *)
written(c, e) ==
  {[mode |-> IF c.op = "create" THEN "644" ELSE e.mode, body |-> c.new]}

(* The temporary file is opened with O_CREAT and O_EXCL.                   *)
temporaryFree(t, p) ==
  /\ Temporary[p] # "too long"
  /\ Temporary[p] \in Paths =>
       t.files[Temporary[p]] = Absent /\ Temporary[p] \notin t.dirs

apply(c, e) == IF c.op = "delete" THEN {Absent} ELSE written(c, e)

(* A file that is no plain file any more, whose temporary name is taken or *)
(* whose directory is gone, is not touched.                                *)
Apply(w) ==
  LET c == change(w) IN
  /\ at(w, "apply")
  /\ IF /\ tree.id = worker[w].dir
        /\ c.op # "create" => isFile(tree.files[c.path])
        /\ c.op # "delete" => temporaryFree(tree, c.path)
     THEN /\ \E e \in apply(c, tree.files[c.path]) :
               tree' = [tree EXCEPT !.files[c.path] = e]
          /\ advance(w, "index")
     ELSE fail(w) /\ UNCHANGED tree
  /\ UNCHANGED <<base, changes, made, faults>>

-----------------------------------------------------------------------------
(* The candidate.                                                          *)

ReadTree(w) ==
  /\ at(w, "index")
  /\ worker' = [worker EXCEPT ![w].pc = "build", ![w].index = base]
  /\ UNCHANGED <<base, changes, tree, made, faults>>

(* The file at the path of the worktree has the replacement's content; a   *)
(* path that is to be deleted is not read.                                 *)
appliedContent(w) ==
  LET c == change(w) IN
  \/ c.op = "delete"
  \/ isFile(tree.files[c.path]) /\ tree.files[c.path].body = c.new

(* Git refuses the names that it reserves for itself, and normalizePath    *)
(* does not know all of them.                                              *)
indexable(c) == c.op = "delete" \/ c.path \notin Unindexable

(* Mutant: the mode of the file in the worktree is not the base's.         *)
candidateMode_Plain(c) == "644"

candidateMode(c) == IF c.op = "create" THEN "644" ELSE base[c.path].mode

(* applyCandidateChange.                                                   *)
BuildIndex(w) ==
  LET c == change(w)
      e == IF c.op = "delete" THEN Absent
           ELSE [mode |-> candidateMode(c), body |-> tree.files[c.path].body]
      more == worker[w].next < Len(changes)
  IN  /\ at(w, "build")
      /\ IF appliedContent(w) /\ indexable(c)
         THEN worker' = [worker EXCEPT
                ![w].index[c.path] = e,
                ![w].pc = IF more THEN "build" ELSE "verify",
                ![w].next = IF more THEN @ + 1 ELSE 1]
         ELSE fail(w)
      /\ UNCHANGED <<base, changes, tree, made, faults>>

(* diff-tree --name-status.                                                *)
candidatePathStatuses(w) ==
  {p \in Paths : base[p] # worker[w].index[p]}

status(w, p) ==
  CASE base[p] = Absent -> "create"
    [] worker[w].index[p] = Absent -> "delete"
    [] OTHER -> "update"

(* Mutant: the commit that was made is not compared with the base.         *)
verifyCandidateDiff_Skipped(w) == TRUE

verifyCandidateDiff(w) ==
  /\ Cardinality(candidatePathStatuses(w)) = Len(changes)
  /\ \A c \in Changes :
       LET e == worker[w].index[c.path] IN
       /\ c.path \in candidatePathStatuses(w)
       /\ status(w, c.path) = c.op
       /\ c.op # "create" => base[c.path].body = c.old
       /\ c.op # "delete" =>
            /\ e.body = c.new
            /\ e.mode = candidateMode(c)

entry(c) ==
  [path |-> c.path, op |-> c.op,
   before |-> IF c.op = "create" THEN "none" ELSE c.old,
   after |-> IF c.op = "delete" THEN "none" ELSE c.new]

VerifyCandidate(w) ==
  /\ at(w, "verify")
  /\ IF verifyCandidateDiff(w)
     THEN worker' = [worker EXCEPT ![w].pc = "built",
                                   ![w].diff = {entry(c) : c \in Changes}]
     ELSE fail(w)
  /\ UNCHANGED <<base, changes, tree, made, faults>>

-----------------------------------------------------------------------------
(* The end of a call.                                                      *)

(* The worktree at the path is removed, whoever made it.                   *)
RemoveWorktree(w) ==
  /\ worker[w].pc \in {"clean", "built"}
  /\ tree' = NoWorktree
  /\ worker' = [worker EXCEPT
       ![w].pc = IF @ = "built" THEN "done" ELSE "failed"]
  /\ UNCHANGED <<base, changes, made, faults>>

(* The process or the container ends, or an operation fails.               *)
Stop(w) ==
  /\ worker[w].pc \notin {"failed", "done", "clean"}
  /\ faults < MaxFaults
  /\ faults' = faults + 1
  /\ fail(w) \/ reject(w)
  /\ UNCHANGED <<base, changes, tree, made>>

Next ==
  \E w \in Workers :
    \/ Preflight(w) \/ CreateWorktree(w) \/ ValidateTargets(w)
    \/ OpenWorkspace(w) \/ Prepare(w) \/ Apply(w)
    \/ ReadTree(w) \/ BuildIndex(w) \/ VerifyCandidate(w)
    \/ RemoveWorktree(w) \/ Stop(w)

Spec == Init /\ [][Next]_vars

-----------------------------------------------------------------------------
(* Properties.                                                             *)

Finished(w) == worker[w].pc \in {"built", "done"}

(* The tree that the proposal describes.                                   *)
Patched ==
  [p \in Paths |->
     IF \E c \in Changes : c.path = p
     THEN LET c == CHOOSE c \in Changes : c.path = p IN
          CASE c.op = "delete" -> Absent
            [] c.op = "create" -> [mode |-> "644", body |-> c.new]
            [] c.op = "update" -> [base[p] EXCEPT !.body = c.new]
     ELSE base[p]]

(* A candidate commit is the base commit with the proposed changes, mode   *)
(* and content, and nothing else, whatever other workers did to the        *)
(* worktree while it was applied and read.                                 *)
CandidateExact == \A w \in Workers : Finished(w) => worker[w].index = Patched

(* The diff in the execution report is the difference between the two      *)
(* commits: each path that differs is there once, with what was before and *)
(* what is after.                                                          *)
DiffExact ==
  \A w \in Workers : Finished(w) =>
    worker[w].diff =
      {[path |-> p, op |-> status(w, p), before |-> base[p].body,
        after |-> worker[w].index[p].body] : p \in candidatePathStatuses(w)}

(* Whenever no write is under way, a path of the worktree that no change   *)
(* names is as in the base commit, and one that a change names is as       *)
(* before or as after it, never in between.                                *)
WorktreeBetween ==
  tree.id # 0 => \A p \in Paths : tree.files[p] \in {base[p], Patched[p]}

(* Applying a proposal is exact at every moment: no torn file on the way,  *)
(* the candidate is the base with the changes, the diff the difference.    *)
AppliedExactly == WorktreeBetween /\ CandidateExact /\ DiffExact

(* The files when the changes before the n-th are applied.                 *)
Partly ==
  [n \in 1..Len(changes) |->
     [p \in Paths |-> IF \E i \in 1..(n - 1) : changes[i].path = p
                     THEN Patched[p] ELSE base[p]]]

Oversized ==
  \E c \in Changes : c.op # "create" /\ Size[c.old] > MaxFileBytes

Idempotent == \E c \in Changes : c.op = "update" /\ c.new = c.old

Occupied ==
  \E i \in replaced(changes) :
    ~temporaryFree([files |-> Partly[i], dirs |-> directories(base)],
                   changes[i].path)

Reserved == \E c \in Changes : ~indexable(c)

Unsuitable == Oversized \/ Idempotent \/ Occupied \/ Reserved

(* A proposal that is accepted can be applied, but for four cases that no  *)
(* check before acceptance knows: a worker that is alone and meets no      *)
(* error fails only on an original above the size limit, which the         *)
(* applicator alone checks; on an update that changes nothing, which only  *)
(* the diff shows; on a temporary name that is too long, or taken by a     *)
(* file of the base or of an earlier change; and on a name that Git        *)
(* refuses.                                                                *)
AcceptedApplies ==
  \A w \in Workers :
    /\ worker[w].accepted
    /\ worker[w].pc \in {"clean", "failed"}
    /\ made = 1 /\ faults = 0
    => Unsuitable

=============================================================================
