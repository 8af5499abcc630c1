---------------------------- MODULE MCCandidate -----------------------------
(***************************************************************************)
(* Small instances of Candidate for TLC: a file "a", the name "t" of its   *)
(* temporary file, a directory "d" that may be a file, whose temporary     *)
(* name is too long, a file in it, and a name "e" that Git refuses;        *)
(* contents of three lengths, one or two changes.                          *)
(***************************************************************************)
EXTENDS Candidate

MCPaths == {"a", "t", "d", "d/b", "e"}
MCParent == [p \in MCPaths |-> IF p = "d/b" THEN "d" ELSE "."]
MCTemporary ==
  [p \in MCPaths |->
     CASE p = "a" -> "t" [] p = "d" -> "too long" [] OTHER -> "elsewhere"]

MCBodies == {"x", "yy", "zzz"}
MCSize == [b \in MCBodies |->
             CASE b = "x" -> 1 [] b = "yy" -> 2 [] b = "zzz" -> 3]

MCBaseEntries ==
  {[mode |-> "644", body |-> "x"], [mode |-> "755", body |-> "yy"],
   [mode |-> "644", body |-> "zzz"], [mode |-> "link", body |-> "x"],
   [mode |-> "commit", body |-> "x"]}

MCBases ==
  {t \in Trees : /\ t["e"] = Absent
                 /\ t["t"] \in {Absent, [mode |-> "644", body |-> "x"]}}

create(p, b) == [op |-> "create", path |-> p, old |-> "none", new |-> b]
update(p, a, b) == [op |-> "update", path |-> p, old |-> a, new |-> b]
delete(p, b) == [op |-> "delete", path |-> p, old |-> b, new |-> "none"]

MCChanges ==
  {create("a", "x"), create("t", "x"), create("d/b", "x"), create("d", "x"),
   update("a", "x", "yy"), update("a", "yy", "x"), update("a", "x", "x"),
   update("a", "zzz", "x"), update("t", "x", "yy"),
   update("d/b", "yy", "x"), update("d/b", "x", "yy"),
   delete("a", "x"), delete("a", "zzz"), delete("t", "x"),
   delete("d/b", "x"), delete("d", "x")}

MCProposals ==
  {<<c>> : c \in MCChanges} \cup (MCChanges \X MCChanges)
    \cup {<<create("a", "zzz")>>, <<create("e", "x")>>}

=============================================================================
