---------------------------- MODULE MCGenerateRun ----------------------------
(***************************************************************************)
(* GenerateRun on two generators, two directories of PATH, and two files   *)
(* of which one can be written in two ways.                                *)
(***************************************************************************)
EXTENDS GenerateRun

MCResolved == [s \in Spelling |-> IF s = "dir/../x" THEN "x" ELSE s]

Entry(name, own, options) == [name |-> name, inputs |-> own, options |-> options]

\* One generator with a repeated input; two that share a file, and one file
\* written in two ways; one generator listed twice; one without inputs; and a
\* manifest without generators.
MCManifests ==
    {[shared |-> <<"x">>, gens |-> <<Entry("go", <<"x", "y", "dir/../x">>, {"a"})>>],
     [shared |-> <<"x">>,
      gens |-> <<Entry("go", <<"y">>, {"a"}), Entry("json", <<"dir/../x">>, {})>>],
     [shared |-> <<>>,
      gens |-> <<Entry("json", <<"y">>, {"a", "b"}), Entry("json", <<"x", "y">>, {})>>],
     [shared |-> <<>>, gens |-> <<Entry("json", <<"x">>, {}), Entry("go", <<>>, {})>>],
     [shared |-> <<"x">>, gens |-> <<>>]}

Says(name, irVersion, member, options) ==
    [whole |-> TRUE, name |-> name, irVersion |-> irVersion,
     member |-> member, options |-> options]

\* A declaration of each kind for each generator, and one that is unreadable.
MCReplies ==
    {Says("go", 2, "array", {}), Says("json", 2, "array", {}),
     Says("go", 2, "array", {"a"}), Says("json", 3, "array", {"a", "b"}),
     Says("go", 3, "absent", {}), Says("json", 2, "absent", {}),
     Says("go", 2, "null", {}), Says("json", 2, "null", {}),
     Says("go", 1, "array", {"a"}), Says("json", 1, "absent", {}),
     [Says("go", 2, "absent", {}) EXCEPT !.whole = FALSE]}
=============================================================================
