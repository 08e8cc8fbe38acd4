---------------------------- MODULE OutputLedger ----------------------------
(***************************************************************************)
(* What avroc promises about the files of a project, without saying how:   *)
(* the contract of docs/plugin/SPEC.md, "Output", "Collisions" and         *)
(* "Stale output", as the callers of internal/avroc rely on it.            *)
(*                                                                         *)
(* avroc owns the files its record names and no others.  A run first       *)
(* claims, for each generator, a set of files.  It may then adopt claimed  *)
(* files, but only when no two generators claim the same one and none      *)
(* claims the record itself; it may discard owned files that it does not   *)
(* claim; and it may commit, which makes what it claimed what it owns, but *)
(* only once every claimed file is on disk and every owned file it did not *)
(* claim is gone.  It may stop at any point, and may lose its record (a    *)
(* write cut short), which leaves it owning nothing, never something it    *)
(* did not write.  Between runs people do as they like.                    *)
(***************************************************************************)
EXTENDS Integers, FiniteSets

CONSTANTS Path,     \* the files a project can hold
          Gen,      \* the generators of a run
          Record    \* the path of avroc's own record

VARIABLES running,  \* TRUE from the plans being complete until the run returns
          claim,    \* the files each generator of this run produced
          onDisk,   \* the regular files in the project
          owned     \* the files avroc's record names

lvars == <<running, claim, onDisk, owned>>

Nothing == [g \in Gen |-> {}]

Claimed == UNION {claim[g] : g \in Gen}

\* No path is claimed twice, and none of them is the record.
Agreed ==
    /\ \A g, h \in Gen : g # h => claim[g] \cap claim[h] = {}
    /\ Record \notin Claimed

LInit ==
    /\ running = FALSE
    /\ claim = Nothing
    /\ onDisk \in SUBSET Path
    /\ owned = {}

Begin ==
    /\ ~running
    /\ running' = TRUE
    /\ claim' \in [Gen -> SUBSET Path]
    /\ UNCHANGED <<onDisk, owned>>

Adopt(p) ==
    /\ running
    /\ Agreed
    /\ p \in Claimed
    /\ onDisk' = onDisk \cup {p}
    /\ UNCHANGED <<running, claim, owned>>

Discard(p) ==
    /\ running
    /\ Agreed
    /\ p \in owned \ Claimed
    /\ Claimed \subseteq onDisk
    /\ onDisk' = onDisk \ {p}
    /\ UNCHANGED <<running, claim, owned>>

Commit ==
    /\ running
    /\ Agreed
    /\ Claimed \subseteq onDisk
    /\ (owned \ Claimed) \cap onDisk = {}
    /\ owned' = Claimed
    /\ UNCHANGED <<running, claim, onDisk>>

Halted ==
    /\ running' = FALSE
    /\ claim' = Nothing

Stop ==
    /\ running
    /\ Halted
    /\ UNCHANGED <<onDisk, owned>>

Lose ==
    /\ running
    /\ owned' = {}
    /\ Halted \/ UNCHANGED <<running, claim>>
    /\ UNCHANGED onDisk

Edit ==
    /\ ~running
    /\ onDisk' \in SUBSET Path
    /\ owned' \in {owned, {}}
    /\ UNCHANGED <<running, claim>>

LNext ==
    \/ Begin
    \/ \E p \in Path : Adopt(p) \/ Discard(p)
    \/ Commit
    \/ Stop
    \/ Lose
    \/ Edit

LSpec == LInit /\ [][LNext]_lvars
=============================================================================
