---------------------------- MODULE GeneratorPool ----------------------------
(***************************************************************************)
(* The concurrent half of a run: generateAll's pool of invocations and     *)
(* generator.run, which gives one generator a descriptor to read and a     *)
(* private scratch directory to write, runs it, and undoes what it set up. *)
(*                                                                         *)
(* Each invocation is a goroutine, at most MaxGoroutines at a time, taken  *)
(* from the manifest in order.  Each generator is a process that exits     *)
(* when and how it likes.  The context may be cancelled at any moment: a   *)
(* process not yet started is then not started, and one that runs is       *)
(* killed, but nothing else avroc does looks at the context.  What a       *)
(* successful set of plans does to the project is OutputTree.              *)
(***************************************************************************)
EXTENDS Integers, FiniteSets

CONSTANTS
    N,              \* how many generators the manifest lists
    MaxGoroutines,  \* maxConcurrentGenerators()
    Faults          \* which filesystem calls may fail: "make" and "remove"

Gen == 1..N

ASSUME PoolAssumption ==
    /\ N \in Nat
    /\ MaxGoroutines \in Nat \ {0}
    /\ Faults \subseteq {"make", "remove"}

VARIABLES
    main,       \* where generateAll is
    next,       \* the next generator to submit
    step,       \* step[g]: where g's invocation is
    desc,       \* desc[g]: g's descriptor directory, and the file in it
    scratch,    \* generators whose scratch directory exists
    proc,       \* proc[g]: g's process
    out,        \* generators whose invocation has its plan ("out" is not nil)
    err,        \* generators whose invocation has an error ("err" is not nil)
    outs,       \* generators whose plan generateAll holds
    stuck,      \* scratch directories os.RemoveAll was called on and failed
    cancelled,  \* whether the context is done
    result      \* what generateAll is about to return

vars == <<main, next, step, desc, scratch, proc, out, err, outs, stuck, cancelled, result>>

caller == <<main, next, outs, result>>
disk == <<desc, scratch, stuck>>
locals == <<out, err>>

Init ==
    /\ main = "submit"
    /\ next = 1
    /\ step = [g \in Gen |-> "waiting"]
    /\ desc = [g \in Gen |-> "none"]
    /\ scratch = {}
    /\ proc = [g \in Gen |-> "none"]
    /\ out = {}
    /\ err = {}
    /\ outs = {}
    /\ stuck = {}
    /\ cancelled = FALSE
    /\ result = "none"

(***************************************************************************)
(* One invocation: generator.run.                                          *)
(***************************************************************************)
At(g, s) == step[g] = s
Goto(g, s) == step' = [step EXCEPT ![g] = s]
Errs(g) == err' = err \cup {g}

\* The output directory, and in it the descriptor's directory.
MakeDescriptorDir(g) ==
    /\ At(g, "prepare")
    /\ Goto(g, "write")
    /\ desc' = [desc EXCEPT ![g] = "dir"]
    /\ UNCHANGED <<caller, scratch, stuck, proc, locals, cancelled>>

MakeDescriptorDirFails(g) ==
    /\ "make" \in Faults
    /\ At(g, "prepare")
    /\ Goto(g, "return")
    /\ Errs(g)
    /\ UNCHANGED <<caller, disk, proc, out, cancelled>>

\* From here on the removal of that directory is deferred.
WriteDescriptor(g) ==
    /\ At(g, "write")
    /\ Goto(g, "scratch")
    /\ desc' = [desc EXCEPT ![g] = "whole"]
    /\ UNCHANGED <<caller, scratch, stuck, proc, locals, cancelled>>

WriteDescriptorFails(g) ==
    /\ "make" \in Faults
    /\ At(g, "write")
    /\ Goto(g, "dropdesc")
    /\ desc' = [desc EXCEPT ![g] = "partial"]
    /\ Errs(g)
    /\ UNCHANGED <<caller, scratch, stuck, proc, out, cancelled>>

\* From here on the removal of the scratch directory is deferred as well.
MakeScratchDir(g) ==
    /\ At(g, "scratch")
    /\ Goto(g, "start")
    /\ scratch' = scratch \cup {g}
    /\ UNCHANGED <<caller, desc, stuck, proc, locals, cancelled>>

MakeScratchDirFails(g) ==
    /\ "make" \in Faults
    /\ At(g, "scratch")
    /\ Goto(g, "dropdesc")
    /\ Errs(g)
    /\ UNCHANGED <<caller, disk, proc, out, cancelled>>

\* exec.Cmd.Start looks at the context once, before it forks.
CheckContext(g) ==
    /\ At(g, "start")
    /\ ~cancelled
    /\ Goto(g, "fork")
    /\ UNCHANGED <<caller, disk, proc, locals, cancelled>>

StartCancelled(g) ==
    /\ At(g, "start")
    /\ cancelled
    /\ Goto(g, "dropscratch")
    /\ Errs(g)
    /\ UNCHANGED <<caller, disk, proc, out, cancelled>>

Fork(g) ==
    /\ At(g, "fork")
    /\ Goto(g, "running")
    /\ proc' = [proc EXCEPT ![g] = "alive"]
    /\ UNCHANGED <<caller, disk, locals, cancelled>>

\* A file that lost its execute bit between discovery and invocation.
ForkFails(g) ==
    /\ At(g, "fork")
    /\ Goto(g, "dropscratch")
    /\ Errs(g)
    /\ UNCHANGED <<caller, disk, proc, out, cancelled>>

\* Mutant: the exit status is not looked at.
ReapSuccessAnyStatus(g) ==
    /\ At(g, "running")
    /\ proc[g] \in {"zero", "nonzero"}
    /\ Goto(g, "resolve")
    /\ UNCHANGED <<caller, disk, proc, locals, cancelled>>

\* cmd.Run waits for the process either way.  A zero exit is success, unless
\* a kill reached the process after it had exited and before it was reaped.
ReapSuccess(g) ==
    /\ At(g, "running")
    /\ proc[g] = "zero"
    /\ Goto(g, "resolve")
    /\ UNCHANGED <<caller, disk, proc, locals, cancelled>>

\* Mutant: a cancelled invocation does not wait for its process.
ReapFailureUnwaited(g) ==
    /\ At(g, "running")
    /\ proc[g] \in {"nonzero", "signal"} \/ cancelled
    /\ Goto(g, "dropscratch")
    /\ Errs(g)
    /\ UNCHANGED <<caller, disk, proc, out, cancelled>>

ReapFailure(g) ==
    /\ At(g, "running")
    /\ proc[g] \in {"nonzero", "signal"} \/ (proc[g] = "zero" /\ cancelled)
    /\ Goto(g, "dropscratch")
    /\ Errs(g)
    /\ UNCHANGED <<caller, disk, proc, out, cancelled>>

\* planMerge accepts what the generator left, or refuses it.
Resolve(g) ==
    /\ At(g, "resolve")
    /\ Goto(g, "dropscratch")
    /\ \/ out' = out \cup {g} /\ UNCHANGED err
       \/ Errs(g) /\ UNCHANGED out
    /\ UNCHANGED <<caller, disk, proc, cancelled>>

\* The deferred calls: the scratch directory's is skipped when there is a
\* plan, and looks at nothing but that; then the descriptor's.
KeepScratch(g) ==
    /\ At(g, "dropscratch")
    /\ g \in out
    /\ Goto(g, "dropdesc")
    /\ UNCHANGED <<caller, disk, proc, locals, cancelled>>

DropScratch(g) ==
    /\ At(g, "dropscratch")
    /\ g \notin out
    /\ Goto(g, "dropdesc")
    /\ scratch' = scratch \ {g}
    /\ UNCHANGED <<caller, desc, stuck, proc, locals, cancelled>>

DropScratchFails(g) ==
    /\ "remove" \in Faults
    /\ At(g, "dropscratch")
    /\ g \notin out
    /\ Goto(g, "dropdesc")
    /\ stuck' = stuck \cup {g}
    /\ Errs(g)
    /\ UNCHANGED <<caller, desc, scratch, proc, out, cancelled>>

DropDescriptor(g) ==
    /\ At(g, "dropdesc")
    /\ Goto(g, "return")
    /\ desc' = [desc EXCEPT ![g] = "none"]
    /\ UNCHANGED <<caller, scratch, stuck, proc, locals, cancelled>>

\* Mutant: the deferred removal's error is dropped.
DropDescriptorFailsSilently(g) ==
    /\ "remove" \in Faults
    /\ At(g, "dropdesc")
    /\ Goto(g, "return")
    /\ UNCHANGED <<caller, disk, proc, locals, cancelled>>

DropDescriptorFails(g) ==
    /\ "remove" \in Faults
    /\ At(g, "dropdesc")
    /\ Goto(g, "return")
    /\ Errs(g)
    /\ UNCHANGED <<caller, disk, proc, out, cancelled>>

\* Mutant: the plan is stored before the error is looked at.
ReturnStoresFirst(g) ==
    /\ At(g, "return")
    /\ Goto(g, "done")
    /\ outs' = IF g \in out THEN outs \cup {g} ELSE outs
    /\ UNCHANGED <<main, next, result, disk, proc, locals, cancelled>>

\* The task generateAll gave the pool: a plan is kept only without an error.
Return(g) ==
    /\ At(g, "return")
    /\ Goto(g, "done")
    /\ outs' = IF g \in err THEN outs ELSE outs \cup {g}
    /\ UNCHANGED <<main, next, result, disk, proc, locals, cancelled>>

Invocation(g) ==
    \/ MakeDescriptorDir(g) \/ MakeDescriptorDirFails(g)
    \/ WriteDescriptor(g) \/ WriteDescriptorFails(g)
    \/ MakeScratchDir(g) \/ MakeScratchDirFails(g)
    \/ CheckContext(g) \/ StartCancelled(g)
    \/ Fork(g) \/ ForkFails(g)
    \/ ReapSuccess(g) \/ ReapFailure(g)
    \/ Resolve(g)
    \/ KeepScratch(g) \/ DropScratch(g) \/ DropScratchFails(g)
    \/ DropDescriptor(g) \/ DropDescriptorFails(g)
    \/ Return(g)

(***************************************************************************)
(* The caller: generateAll.                                                *)
(***************************************************************************)
Busy == {g \in Gen : step[g] \notin {"waiting", "done"}}

\* Mutant: one task too many.
SubmitOneMore ==
    /\ main = "submit"
    /\ next \in 1..(N + 1)
    /\ Cardinality(Busy) < MaxGoroutines
    /\ step' = [g \in Gen |-> IF g = next THEN "prepare" ELSE step[g]]
    /\ next' = next + 1
    /\ UNCHANGED <<main, outs, result, disk, proc, locals, cancelled>>

\* Go blocks until a goroutine is free, and never looks at the context.
Submit ==
    /\ main = "submit"
    /\ next \in Gen
    /\ Cardinality(Busy) < MaxGoroutines
    /\ Goto(next, "prepare")
    /\ next' = next + 1
    /\ UNCHANGED <<main, outs, result, disk, proc, locals, cancelled>>

AllSubmitted ==
    /\ main = "submit"
    /\ next \notin Gen
    /\ main' = "wait"
    /\ UNCHANGED <<next, step, outs, result, disk, proc, locals, cancelled>>

\* Mutant: the first error is returned at once.
WaitForFirstError ==
    /\ main = "wait"
    /\ err # {} \/ \A g \in Gen : At(g, "done")
    /\ IF err = {}
       THEN main' = "merge" /\ UNCHANGED result
       ELSE main' = "cleanup" /\ result' = "error"
    /\ UNCHANGED <<next, step, outs, disk, proc, locals, cancelled>>

\* Wait joins every invocation's error.
Wait ==
    /\ main = "wait"
    /\ \A g \in Gen : At(g, "done")
    /\ IF err = {}
       THEN main' = "merge" /\ UNCHANGED result
       ELSE main' = "cleanup" /\ result' = "error"
    /\ UNCHANGED <<next, step, outs, disk, proc, locals, cancelled>>

\* Merge, prune and record.
Merge ==
    /\ main = "merge"
    /\ main' = "cleanup"
    /\ result' \in {"ok", "error"}
    /\ UNCHANGED <<next, step, outs, disk, proc, locals, cancelled>>

\* The deferred removal of every scratch directory generateAll knows of.
CleanUp ==
    /\ main = "cleanup"
    /\ main' = "returned"
    /\ \E S \in SUBSET outs :
          /\ S # {} => "remove" \in Faults
          /\ scratch' = scratch \ (outs \ S)
          /\ stuck' = stuck \cup S
          /\ result' = IF S = {} THEN result ELSE "error"
    /\ UNCHANGED <<next, step, outs, desc, proc, locals, cancelled>>

(***************************************************************************)
(* The environment.                                                        *)
(***************************************************************************)
Cancel ==
    /\ ~cancelled
    /\ main # "returned"
    /\ cancelled' = TRUE
    /\ UNCHANGED <<caller, step, disk, proc, locals>>

Exit(g) ==
    /\ proc[g] = "alive"
    /\ \E how \in {"zero", "nonzero", "signal"} : proc' = [proc EXCEPT ![g] = how]
    /\ UNCHANGED <<caller, step, disk, locals, cancelled>>

\* Mutant: exec.Command for exec.CommandContext.
KillNever(g) == FALSE

\* exec kills the process once the context is done; a kill cannot be caught.
Kill(g) ==
    /\ cancelled
    /\ proc[g] = "alive"
    /\ proc' = [proc EXCEPT ![g] = "signal"]
    /\ UNCHANGED <<caller, step, disk, locals, cancelled>>

Caller == Submit \/ AllSubmitted \/ Wait \/ Merge \/ CleanUp

Next ==
    \/ Caller
    \/ \E g \in Gen : Invocation(g) \/ Kill(g) \/ Exit(g)
    \/ Cancel

\* The scheduler runs every goroutine, and exec's kills are delivered.  No
\* generator is assumed to exit, and nobody to cancel.
Fairness ==
    /\ WF_vars(Caller)
    /\ \A g \in Gen : WF_vars(Invocation(g)) /\ WF_vars(Kill(g))

Spec == Init /\ [][Next]_vars /\ Fairness

(***************************************************************************)
(* Properties.                                                             *)
(***************************************************************************)
Steps == {"waiting", "prepare", "write", "scratch", "start", "fork", "running",
          "resolve", "dropscratch", "dropdesc", "return", "done"}

\* Every variable has its type.
TypeOK ==
    /\ main \in {"submit", "wait", "merge", "cleanup", "returned"}
    /\ next \in 1..(N + 1)
    /\ step \in [Gen -> Steps]
    /\ desc \in [Gen -> {"none", "dir", "partial", "whole"}]
    /\ scratch \in SUBSET Gen
    /\ proc \in [Gen -> {"none", "alive", "zero", "nonzero", "signal"}]
    /\ out \in SUBSET Gen
    /\ err \in SUBSET Gen
    /\ outs \in SUBSET Gen
    /\ stuck \in SUBSET Gen
    /\ cancelled \in BOOLEAN
    /\ result \in {"none", "ok", "error"}

Alive == {g \in Gen : proc[g] = "alive"}

\* A process never runs without a complete descriptor to read and a scratch
\* directory to write: neither removal overtakes the process, whichever of
\* exit, kill and cancellation ends it.
FilesOutliveProcess ==
    \A g \in Alive : desc[g] = "whole" /\ g \in scratch

\* Never more processes than goroutines, and none left once the pool has been
\* waited for, nor any descriptor that could be removed: every descriptor
\* left behind belongs to an invocation that reported an error.
QuietAfterWait ==
    /\ Cardinality(Alive) <= MaxGoroutines
    /\ main \in {"merge", "cleanup", "returned"} =>
          /\ Alive = {}
          /\ \A g \in Gen : desc[g] # "none" => g \in err

\* The merge is reached, and the run can succeed, only when every generator of
\* the manifest has exited zero and left a scratch directory that is still
\* there to be merged from.
MergeNeedsEveryPlan ==
    /\ main = "merge" => \A g \in Gen : g \in outs /\ proc[g] = "zero" /\ g \in scratch
    /\ result = "ok" => outs = Gen

\* A run that leaves a temporary directory behind does not report success.
LeftoversAreReported ==
    main = "returned" /\ (scratch # {} \/ \E g \in Gen : desc[g] # "none") =>
        result = "error"

\* A cancelled run returns: a generator that never exits is killed, and nothing
\* else it does waits for anything but its own goroutines.
CancelledRunReturns == cancelled ~> main = "returned"

Waiting == main \in {"submit", "wait"}

\* The scratch directories that generateAll holds.
Kept == IF Waiting \/ main = "returned" THEN {} ELSE outs

\* What the caller sees of the pool.
Contract == INSTANCE PoolContract WITH
    Removable <- "remove" \notin Faults,
    phase     <- IF Waiting THEN "generating"
                 ELSE IF main = "merge" THEN "merging"
                 ELSE IF main = "cleanup" THEN "removing" ELSE "returned",
    kept      <- Kept,
    left      <- IF Waiting THEN {}
                 ELSE {g \in Gen : desc[g] # "none" \/ g \in scratch \ Kept},
    verdict   <- result

\* The pool is one step to the rest of the run: all of the output and nothing
\* besides, or a failure with nothing to merge.  No interleaving of its
\* invocations, exits, kills and failed removals shows through.
RefinesContract == Contract!PSpec

(***************************************************************************)
(* A statement of the source that the code does not keep.                  *)
(***************************************************************************)
\* generate.go:178-181: every scratch directory that outlived its invocation
\* is removed however generateAll returns; avroc.go:242-243: on any failure the
\* directory is removed by run.  An invocation whose plan is ready, and whose
\* descriptor cannot be removed, leaves its scratch directory to nobody.
ScratchAlwaysRemoved ==
    main = "returned" => scratch \subseteq stuck
=============================================================================
