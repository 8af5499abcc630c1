------------------------------- MODULE Scopes --------------------------------
(***************************************************************************)
(* Repository paths and path scopes, from                                  *)
(*   go/internal/reasoning/contracts/planning.go       (validRepoPath ...)  *)
(*   go/internal/reasoning/contracts/implementation.go (pathIsProhibited)   *)
(* A path is the sequence of its segments: "a/b" is <<"a", "b">>.  The     *)
(* first segment of an absolute path is empty.                             *)
(***************************************************************************)
EXTENDS Naturals, Sequences

(* Relative, not empty, no backslash, and unchanged by path.Clean.         *)
validRepoPath(p) ==
  /\ p # <<>>
  /\ \A i \in 1..Len(p) : p[i] \notin {"", ".", "\\"}
  /\ \A i \in 2..Len(p) : p[i] = ".." => p[i - 1] = ".."
  /\ ~(Len(p) > 1 /\ p[1] = "..")

(* p is root or lies below it.                                             *)
under(p, root) ==
  /\ Len(root) <= Len(p)
  /\ \A i \in 1..Len(root) : root[i] = p[i]

pathWithin(p, roots) == \E root \in roots : under(p, root)

(* Mutant: one path within the roots is enough.                            *)
pathsWithin_Some(ps, roots) ==
  ps # {} => \E p \in ps : pathWithin(p, roots)

pathsWithin(ps, roots) == \A p \in ps : pathWithin(p, roots)

pathIsProhibited(p, prohibited) == \E q \in prohibited : pathWithin(p, {q})

(* Mutant: only a writable path below a prohibited one is an overlap.      *)
overlap_OneSided(w, q) == pathWithin(w, {q})

overlap(w, q) == pathWithin(w, {q}) \/ pathWithin(q, {w})

validatePathScopes(readable, writable, prohibited) ==
  /\ readable # {}
  /\ \A p \in readable \cup writable \cup prohibited : validRepoPath(p)
  /\ pathsWithin(writable, readable)
  /\ \A w \in writable, q \in prohibited : ~overlap(w, q)

=============================================================================
