---------------------------- MODULE MCOutputTree ----------------------------
(***************************************************************************)
(* Projects small enough to explore: generator 1 writes into the root,     *)
(* generator 2 into gen.  A configuration takes some of these paths, which *)
(* have every conflict: a file both can produce (gen/x), a file where the  *)
(* other needs a directory (gen, a), two files in one directory (a), one   *)
(* of them a directory in its turn, the record itself and a file below it. *)
(***************************************************************************)
EXTENDS OutputTree

MCNames == <<"a", "a/b", "a/b/c", "a/c", "gen", "gen/x", "rec", "rec/x">>

MCDirectory(p) ==
    CASE p \in {"a/b", "a/c"} -> {"a"}
      [] p = "a/b/c" -> {"a/b"}
      [] p = "gen/x" -> {"gen"}
      [] p = "rec/x" -> {"rec"}
      [] OTHER -> {}

MCRecord == "rec"
MCAbove == [p \in Path |-> MCDirectory(p) \cup UNION {MCDirectory(d) : d \in MCDirectory(p)}]
MCParent == [p \in Path |->
    IF MCDirectory(p) = {} THEN "root" ELSE CHOOSE d \in MCDirectory(p) : TRUE]
MCRank == [p \in Path |-> CHOOSE i \in DOMAIN MCNames : MCNames[i] = p]
MCOutDir == <<"root", "gen">>

\* One generator that writes into the root: any directory can then be emptied.
MCRootOutDir == <<"root">>
=============================================================================
