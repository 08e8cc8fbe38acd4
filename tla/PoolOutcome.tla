----------------------------- MODULE PoolOutcome -----------------------------
(***************************************************************************)
(* The two ways generateAll's pool of invocations ends.  Either every      *)
(* generator's scratch directory is kept for the merge and nothing else is *)
(* left, or that of one generator at least is not and nothing is merged.   *)
(*                                                                         *)
(* OutputTree assumes this of its step from "generate" on; GeneratorPool,  *)
(* through PoolContract, is shown to provide it.                           *)
(***************************************************************************)
CONSTANTS Gen,      \* the generators of the manifest
          Removable \* whether a temporary directory can always be removed

\* k: the generators whose scratch directory the caller holds; l: those
\* something temporary of which nobody will remove.
Delivered(k, l) == k = Gen /\ l = {}

FellShort(k, l) ==
    /\ k \subseteq Gen
    /\ k # Gen
    /\ l \subseteq Gen \ k
    /\ Removable => l = {}
==============================================================================
