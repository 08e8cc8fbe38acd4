----------------------------- MODULE PoolContract -----------------------------
(***************************************************************************)
(* What the rest of avroc relies on when generateAll runs its generators,  *)
(* without saying how they are run: the outcome of the pool, seen at the   *)
(* moment generateAll stops waiting for it, and what becomes of what it    *)
(* leaves.                                                                 *)
(*                                                                         *)
(* What is kept is removed when generateAll returns; what an invocation    *)
(* could not remove itself stays, and is reported.                         *)
(* GeneratorPool implements it.                                            *)
(***************************************************************************)
EXTENDS PoolOutcome

VARIABLES phase,    \* where generateAll is
          kept,     \* generators whose scratch directory it holds
          left,     \* generators something temporary of which is nobody's
          verdict   \* what it is about to return

pvars == <<phase, kept, left, verdict>>

PInit ==
    /\ phase = "generating"
    /\ kept = {}
    /\ left = {}
    /\ verdict = "none"

Deliver ==
    /\ phase = "generating"
    /\ phase' = "merging"
    /\ Delivered(kept', left')
    /\ UNCHANGED verdict

FallShort ==
    /\ phase = "generating"
    /\ phase' = "removing"
    /\ FellShort(kept', left')
    /\ verdict' = "error"

Merge ==
    /\ phase = "merging"
    /\ phase' = "removing"
    /\ verdict' \in {"ok", "error"}
    /\ UNCHANGED <<kept, left>>

Remove ==
    /\ phase = "removing"
    /\ phase' = "returned"
    /\ kept' = {}
    /\ \E S \in SUBSET kept :
          /\ Removable => S = {}
          /\ left' = left \cup S
          /\ verdict' = IF S = {} THEN verdict ELSE "error"

PNext == Deliver \/ FallShort \/ Merge \/ Remove

PSpec == PInit /\ [][PNext]_pvars
=============================================================================
