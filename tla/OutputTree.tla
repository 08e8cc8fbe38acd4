----------------------------- MODULE OutputTree -----------------------------
(***************************************************************************)
(* The project tree across runs of avroc: merge, prune and record          *)
(* (internal/avroc/merge.go, prune.go and the second half of generateAll). *)
(*                                                                         *)
(* One run reads the record, lets every generator fill a private scratch   *)
(* directory, and then edits the project file by file: directories made,   *)
(* files renamed into place, stale files removed, emptied directories      *)
(* removed, the record rewritten.  Every filesystem call that changes the  *)
(* project is a step of its own, so a crash or an I/O error can fall       *)
(* between any two of them.  Between runs a person edits the project.      *)
(* The concurrent half of a run is GeneratorPool; here it is one step that *)
(* delivers a plan per generator or fails.                                 *)
(*                                                                         *)
(* A file whose directory is on another file system than its scratch       *)
(* directory is copied beside its place and renamed.  Symbolic links are   *)
(* not modelled: an entry is a directory, a regular file, or "special" (a  *)
(* pipe, a socket).                                                        *)
(***************************************************************************)
EXTENDS Integers, FiniteSets

CONSTANTS
    Path,       \* every entry the project can hold, its root left out
    Root,       \* the project root
    Record,     \* the path of avroc.gen.json
    Parent,     \* Parent[p]: the directory p is in
    Above,      \* Above[p]: the directories between the root and p
    Rank,       \* the byte order of path names
    N,          \* how many generators the manifest lists
    OutDir,     \* OutDir[g]: the directory of generator g's "out"
    MountPoints, \* directories that may be mount points
    Early,      \* where a person may have put something before the first run
    Faults,     \* which of "crash" and "io" the environment may do
    MaxRuns,    \* bound: runs started
    MaxEdits    \* bound: edits a person makes

Gen == 1..N

ASSUME PathAssumption ==
    /\ Root \notin Path
    /\ Record \in Path
    /\ Above \in [Path -> SUBSET Path]
    /\ Above[Record] = {}

ASSUME TreeAssumption ==
    /\ \A p \in Path : p \notin Above[p]
    /\ \A p \in Path : \A q \in Above[p] : Above[q] \subseteq Above[p]
    /\ Parent \in [Path -> Path \cup {Root}]
    /\ \A p \in Path : Above[p] = IF Parent[p] = Root THEN {}
                                 ELSE {Parent[p]} \cup Above[Parent[p]]

ASSUME RankAssumption ==
    /\ Rank \in [Path -> Nat]
    /\ \A p, q \in Path : Rank[p] = Rank[q] => p = q

ASSUME GenAssumption ==
    /\ N \in Nat \ {0}
    /\ OutDir \in [Gen -> (Path \ {Record}) \cup {Root}]

ASSUME BoundAssumption ==
    /\ Early \subseteq Path \ {Record}
    /\ MountPoints \subseteq {p \in Path \ {Record} : Record \notin Above[p]}
    /\ Faults \subseteq {"crash", "io"}
    /\ MaxRuns \in Nat
    /\ MaxEdits \in Nat

VARIABLES
    mounts,     \* which of them are, from first to last
    tree,       \* what is at each path
    recorded,   \* the files a readable record names
    pc,         \* where the run is; "idle" between runs
    plan,       \* plan[g]: the files generator g's scratch directory holds
    previous,   \* the record as the run read it
    scratch,    \* generators whose scratch directory exists
    done,       \* files the current stage has handled
    emptied,    \* directories pruning took a file out of
    swept,      \* those of them the sweep has been through
    failure,    \* the stage this run failed in, or "none"
    litter,     \* directories holding something temporary that nobody will remove
    runs, edits

vars == <<mounts, tree, recorded, pc, plan, previous, scratch, done, emptied, swept,
          failure, litter, runs, edits>>

run == <<plan, previous, scratch>>
bounds == <<mounts, runs, edits>>

(***************************************************************************)
(* The file system.                                                        *)
(***************************************************************************)
Regular == {"hand", "generated"}
Kinds == {"none", "dir", "special", "record", "torn"} \cup Regular

Under(d) == {p \in Path : d = Root \/ d \in Above[p]}

\* d and the directories above it, the root left out.
Chain(d) == IF d = Root THEN {} ELSE {d} \cup Above[d]

\* Something on the way to p is not a directory and stops it becoming one.
Blocked(S) == \E q \in S : tree[q] \notin {"none", "dir"}

WithDirs(t, S) == [p \in Path |-> IF p \in S THEN "dir" ELSE t[p]]

(***************************************************************************)
(* Plans: one set of files per generator.                                  *)
(***************************************************************************)
NoPlan == [g \in Gen |-> {}]

Produced == UNION {plan[g] : g \in Gen}

Stale == previous \ Produced

\* What one scratch directory can hold: files under the generator's own
\* output directory, none of them also a directory of another.
Producible(g) ==
    {S \in SUBSET Under(OutDir[g]) : \A p \in S : Above[p] \cap S = {}}

Plans == {f \in [Gen -> SUBSET Path] : \A g \in Gen : f[g] \in Producible(g)}

\* Mutant: only generators with one output directory are compared.
CollidesInOneDir ==
    \E g, h \in Gen : g # h /\ OutDir[g] = OutDir[h] /\ plan[g] \cap plan[h] # {}

\* findCollisions and checkReservedPaths.
Collides == \E g, h \in Gen : g # h /\ plan[g] \cap plan[h] # {}
Reserved == Record \in Produced

\* The manifest's order of generators, then the byte order of paths.
NoLater(p, q) ==
    \E g, h \in Gen : /\ p \in plan[g] /\ q \in plan[h]
                      /\ g < h \/ (g = h /\ Rank[p] <= Rank[q])

FirstPlanned(S) == {p \in S : \A q \in S : NoLater(p, q)}
FirstByName(S) == {p \in S : \A q \in S : Rank[p] <= Rank[q]}

(***************************************************************************)
(* One run.                                                                *)
(***************************************************************************)
Init ==
    /\ mounts \in SUBSET MountPoints
    /\ tree \in [Path -> {"none", "dir", "hand"}]
    /\ \A p \in Path : tree[p] # "none" => \A q \in Above[p] : tree[q] = "dir"
    /\ \A p \in mounts : tree[p] = "dir"
    /\ \A p \in Path \ Early : tree[p] # "none" => \E m \in mounts : p \in Chain(m)
    /\ recorded = {}
    /\ pc = "idle"
    /\ plan = NoPlan
    /\ previous = {}
    /\ scratch = {}
    /\ done = {}
    /\ emptied = {}
    /\ swept = {}
    /\ failure = "none"
    /\ litter = {}
    /\ runs = 0
    /\ edits = 0

Fail(stage) ==
    /\ pc' = "cleanup"
    /\ failure' = stage
    /\ UNCHANGED <<tree, recorded, run, done, emptied, swept, litter, bounds>>

\* loadOutputRecord: no record is an empty one, and one that cannot be read
\* fails the run.
LoadRecord ==
    /\ pc = "idle"
    /\ runs < MaxRuns
    /\ runs' = runs + 1
    /\ tree[Record] \in {"none", "record"}
    /\ previous' = recorded
    /\ pc' = "generate"
    /\ UNCHANGED <<tree, recorded, plan, scratch, done, emptied, swept, failure, litter,
                   mounts, edits>>

RefuseRecord ==
    /\ pc = "idle"
    /\ runs < MaxRuns
    /\ runs' = runs + 1
    /\ tree[Record] \notin {"none", "record"}
    /\ pc' = "cleanup"
    /\ failure' = "load"
    /\ UNCHANGED <<tree, recorded, run, done, emptied, swept, litter, mounts, edits>>

\* Every invocation makes its output directory before anything temporary of its
\* own (generator.run), if it comes to that and nothing is in the way.
Creatable == {g \in Gen : ~Blocked(Chain(OutDir[g]))}
OutDirs(t, made) == WithDirs(t, UNION {Chain(OutDir[g]) : g \in made})

Pool == INSTANCE PoolOutcome WITH Removable <- "io" \notin Faults

GeneratorsSucceed ==
    /\ pc = "generate"
    /\ Creatable = Gen
    /\ tree' = OutDirs(tree, Gen)
    /\ plan' \in Plans
    /\ Pool!Delivered(scratch', {})
    /\ pc' = "check"
    /\ UNCHANGED <<recorded, previous, done, emptied, swept, failure, litter, bounds>>

\* One generator at least failed; the scratch directories of those that did
\* not are still there when the wait returns, and so is what an invocation
\* could not remove.
GeneratorsFail ==
    /\ pc = "generate"
    /\ \E made \in SUBSET Creatable : \E left \in SUBSET made :
          /\ tree' = OutDirs(tree, made)
          /\ scratch' \in SUBSET made
          /\ Pool!FellShort(scratch', left)
          /\ litter' = litter \cup {OutDir[g] : g \in left}
    /\ pc' = "cleanup"
    /\ failure' = "generate"
    /\ UNCHANGED <<recorded, plan, previous, done, emptied, swept, bounds>>

RefusePlans ==
    /\ pc = "check"
    /\ Collides \/ Reserved
    /\ Fail("check")

\* Mutant: the record's path is not reserved.
AcceptPlansUnreserved ==
    /\ pc = "check"
    /\ ~Collides
    /\ pc' = "mkdir"
    /\ done' = {}
    /\ UNCHANGED <<tree, recorded, run, emptied, swept, failure, litter, bounds>>

AcceptPlans ==
    /\ pc = "check"
    /\ ~Collides
    /\ ~Reserved
    /\ pc' = "mkdir"
    /\ done' = {}
    /\ UNCHANGED <<tree, recorded, run, emptied, swept, failure, litter, bounds>>

\* os.MkdirAll of the directory one file goes into.
MakeDirectory(p) ==
    /\ pc = "mkdir"
    /\ p \in FirstPlanned(Produced \ done)
    /\ ~Blocked(Above[p])
    /\ tree' = WithDirs(tree, Above[p])
    /\ done' = done \cup {p}
    /\ UNCHANGED <<recorded, pc, run, emptied, swept, failure, litter, bounds>>

MakeDirectoryFails(p) ==
    /\ pc = "mkdir"
    /\ p \in FirstPlanned(Produced \ done)
    /\ Blocked(Above[p])
    /\ Fail("mkdir")

StartMoving ==
    /\ pc = "mkdir"
    /\ Produced \subseteq done
    /\ pc' = "move"
    /\ done' = {}
    /\ UNCHANGED <<tree, recorded, run, emptied, swept, failure, litter, bounds>>

\* A rename does not cross a mount point: one between the output directory,
\* where the scratch directory of the generator is, and the place of the file.
Crosses(p) ==
    \E g \in Gen : p \in plan[g] /\ mounts \cap (Above[p] \ Chain(OutDir[g])) # {}

ToMove(p) == p \in FirstPlanned(Produced \ done)

Placed(p) ==
    /\ tree[p] # "dir"
    /\ tree' = [tree EXCEPT ![p] = "generated"]
    /\ done' = done \cup {p}
    /\ pc' = "move"
    /\ UNCHANGED <<recorded, run, emptied, swept, failure, litter, bounds>>

\* os.Rename replaces anything but a directory.
MoveIntoPlace(p) ==
    /\ pc = "move"
    /\ ToMove(p)
    /\ ~Crosses(p)
    /\ Placed(p)

\* Mutant: a rename that fails is tried again.
MoveFailsRetry(p) ==
    /\ pc = "move"
    /\ ToMove(p)
    /\ tree[p] = "dir"
    /\ UNCHANGED vars

\* os.Rename looks for a directory at the place before it asks the system, so a
\* mount point makes no difference to this.
MoveFails(p) ==
    /\ pc = "move"
    /\ ToMove(p)
    /\ tree[p] = "dir"
    /\ Fail("move")

\* Mutant: the copy is made where the file belongs.
CopyOver(p) ==
    /\ pc = "move"
    /\ ToMove(p)
    /\ Crosses(p)
    /\ tree[p] # "dir"
    /\ tree' = [tree EXCEPT ![p] = "torn"]
    /\ pc' = "stage"
    /\ UNCHANGED <<recorded, run, done, emptied, swept, failure, litter, bounds>>

\* copyIntoPlace: the file is copied to a temporary one beside its place ...
StageCopy(p) ==
    /\ pc = "move"
    /\ ToMove(p)
    /\ Crosses(p)
    /\ tree[p] # "dir"
    /\ pc' = "stage"
    /\ UNCHANGED <<tree, recorded, run, done, emptied, swept, failure, litter, bounds>>

\* ... which is renamed to it.  Nothing has come in its way since.
PlaceCopy(p) ==
    /\ pc = "stage"
    /\ ToMove(p)
    /\ Placed(p)

StartPruning ==
    /\ pc = "move"
    /\ Produced \subseteq done
    /\ pc' = "prune"
    /\ done' = {}
    /\ UNCHANGED <<tree, recorded, run, emptied, swept, failure, litter, bounds>>

\* Lstat, then Remove if it is a regular file.
RemoveStale(p) ==
    /\ pc = "prune"
    /\ p \in FirstByName(Stale \ done)
    /\ ~Blocked(Above[p])
    /\ tree[p] \in Regular
    /\ tree' = [tree EXCEPT ![p] = "none"]
    /\ emptied' = emptied \cup ({Parent[p]} \ {Root})
    /\ done' = done \cup {p}
    /\ UNCHANGED <<recorded, pc, run, swept, failure, litter, bounds>>

\* Already gone, or taken over by a directory or a special file.
LeaveStale(p) ==
    /\ pc = "prune"
    /\ p \in FirstByName(Stale \ done)
    /\ ~Blocked(Above[p])
    /\ tree[p] \notin Regular
    /\ done' = done \cup {p}
    /\ UNCHANGED <<tree, recorded, pc, run, emptied, swept, failure, litter, bounds>>

\* Lstat of a path through something that is not a directory is an error,
\* and not ErrNotExist.
InspectFails(p) ==
    /\ pc = "prune"
    /\ p \in FirstByName(Stale \ done)
    /\ Blocked(Above[p])
    /\ Fail("prune")

StartSweeping ==
    /\ pc = "prune"
    /\ Stale \subseteq done
    /\ pc' = "sweep"
    /\ UNCHANGED <<tree, recorded, run, done, emptied, swept, failure, litter, bounds>>

\* Directories with a temporary directory of this run, or of a dead one, in them.
Holding == litter \cup {OutDir[g] : g \in scratch}

\* The directory the copy is made in, while there is one.
Staging == IF pc = "stage" THEN {Parent[p] : p \in {q \in Path : ToMove(q)}} ELSE {}

\* Mutant: os.RemoveAll for os.Remove.
EmptyFromRemoveAll(d) == Chain(d)

\* Mutant: the directories above are not tried.
EmptyFromNoClimb(d) ==
    {e \in {d} : \A q \in Under(e) \cup {e} :
         /\ q \notin Holding \cup mounts
         /\ q = d \/ tree[q] = "none"}

\* removeEmptyDirs climbs from d while os.Remove succeeds, which it does not
\* on a mount point.
EmptyFrom(d) ==
    {e \in Chain(d) : \A q \in Under(e) \cup {e} :
         /\ q \notin Holding \cup mounts
         /\ q \in Chain(d) \/ tree[q] = "none"}

RemoveEmptyDirs(d) ==
    /\ pc = "sweep"
    /\ d \in FirstByName(emptied \ swept)
    /\ tree' = IF tree[d] = "dir"
               THEN [p \in Path |-> IF p \in EmptyFrom(d) THEN "none" ELSE tree[p]]
               ELSE tree
    /\ swept' = swept \cup {d}
    /\ UNCHANGED <<recorded, pc, run, done, emptied, failure, litter, bounds>>

StartRecording ==
    /\ pc = "sweep"
    /\ emptied \subseteq swept
    /\ pc' = "record"
    /\ UNCHANGED <<tree, recorded, run, done, emptied, swept, failure, litter, bounds>>

\* Mutant: a record that exists is not written again.
RecordUnchangedIfPresent ==
    /\ pc = "record"
    /\ tree[Record] = "record"
    /\ pc' = "cleanup"
    /\ UNCHANGED <<tree, recorded, run, done, emptied, swept, failure, litter, bounds>>

\* writeOutputRecord: unchanged bytes are not written; os.WriteFile truncates
\* first and writes after.
RecordUnchanged ==
    /\ pc = "record"
    /\ tree[Record] = "record"
    /\ recorded = Produced
    /\ pc' = "cleanup"
    /\ UNCHANGED <<tree, recorded, run, done, emptied, swept, failure, litter, bounds>>

TruncateRecord ==
    /\ pc = "record"
    /\ tree[Record] # "record" \/ recorded # Produced
    /\ tree[Record] # "dir"
    /\ tree' = [tree EXCEPT ![Record] = "torn"]
    /\ recorded' = {}
    /\ pc' = "writing"
    /\ UNCHANGED <<run, done, emptied, swept, failure, litter, bounds>>

\* A generator may have produced a file below the record's path.
RecordInTheWay ==
    /\ pc = "record"
    /\ tree[Record] = "dir"
    /\ Fail("record")

WriteRecord ==
    /\ pc = "writing"
    /\ tree' = [tree EXCEPT ![Record] = "record"]
    /\ recorded' = Produced
    /\ pc' = "cleanup"
    /\ UNCHANGED <<run, done, emptied, swept, failure, litter, bounds>>

Forget ==
    /\ plan' = NoPlan
    /\ previous' = {}
    /\ scratch' = {}
    /\ done' = {}
    /\ emptied' = {}
    /\ swept' = {}
    /\ failure' = "none"

\* The deferred removal of the scratch directories, and the return.
CleanUp ==
    /\ pc = "cleanup"
    /\ pc' = "idle"
    /\ Forget
    /\ UNCHANGED <<tree, recorded, litter, bounds>>

(***************************************************************************)
(* The environment.                                                        *)
(***************************************************************************)
StepFails ==
    /\ "io" \in Faults
    /\ \E stage \in {"mkdir", "move", "prune", "record", "writing"} :
          /\ pc = stage
          /\ Fail(stage)

\* The copy is not finished or not renamed: it is removed, and if that fails
\* too nothing says so.
CopyFails ==
    /\ "io" \in Faults
    /\ pc = "stage"
    /\ litter' \in {litter, litter \cup Staging}
    /\ pc' = "cleanup"
    /\ failure' = "move"
    /\ UNCHANGED <<tree, recorded, run, done, emptied, swept, bounds>>

\* Some scratch directory cannot be removed: the run reports that, with its
\* work done.
CleanUpFails ==
    /\ "io" \in Faults
    /\ pc = "cleanup"
    /\ \E S \in SUBSET scratch : litter' = litter \cup {OutDir[g] : g \in S}
    /\ pc' = "idle"
    /\ Forget
    /\ UNCHANGED <<tree, recorded, bounds>>

\* The process dies and its deferred calls do not run: the temporary
\* directories it had made stay.
Dies ==
    /\ "crash" \in Faults
    /\ pc' = "idle"
    /\ Forget
    /\ UNCHANGED <<recorded, bounds>>

CrashGenerating ==
    /\ pc = "generate"
    /\ \E made \in SUBSET Creatable : \E S \in SUBSET made :
          /\ tree' = OutDirs(tree, made)
          /\ litter' = litter \cup {OutDir[g] : g \in S}
    /\ Dies

Crash ==
    /\ pc \notin {"idle", "generate"}
    /\ litter' = Holding \cup Staging
    /\ UNCHANGED tree
    /\ Dies

\* A person replaces whatever is at p, making the directories above it.
EditFile(p, k) ==
    /\ p # Record
    /\ mounts \cap (Under(p) \cup {p}) = {}
    /\ pc = "idle"
    /\ edits < MaxEdits
    /\ edits' = edits + 1
    /\ k # tree[p]
    /\ k = "none" \/ ~Blocked(Above[p])
    /\ tree' = [q \in Path |->
                   IF q = p THEN k
                   ELSE IF p \in Above[q] THEN "none"
                   ELSE IF q \in Above[p] /\ k # "none" THEN "dir"
                   ELSE tree[q]]
    /\ litter' = litter \ (Under(p) \cup {p})
    /\ UNCHANGED <<recorded, pc, run, done, emptied, swept, failure, mounts, runs>>

\* A person deletes the record, or leaves conflict markers in it.
EditRecord(k) ==
    /\ pc = "idle"
    /\ edits < MaxEdits
    /\ edits' = edits + 1
    /\ k # tree[Record]
    /\ tree' = [q \in Path |->
                   IF q = Record THEN k
                   ELSE IF Record \in Above[q] THEN "none"
                   ELSE tree[q]]
    /\ recorded' = {}
    /\ litter' = litter \ (Under(Record) \cup {Record})
    /\ UNCHANGED <<pc, run, done, emptied, swept, failure, mounts, runs>>

Person ==
    \/ \E p \in Path, k \in {"none", "dir", "hand", "special"} : EditFile(p, k)
    \/ \E k \in {"none", "torn"} : EditRecord(k)

Merge ==
    \/ RefusePlans
    \/ AcceptPlans
    \/ \E p \in Path :
           \/ MakeDirectory(p) \/ MakeDirectoryFails(p)
           \/ MoveIntoPlace(p) \/ MoveFails(p)
           \/ StageCopy(p) \/ PlaceCopy(p)
    \/ StartMoving

Prune ==
    \/ StartPruning
    \/ \E p \in Path : RemoveStale(p) \/ LeaveStale(p) \/ InspectFails(p)
    \/ StartSweeping
    \/ \E d \in Path : RemoveEmptyDirs(d)

WriteOutputRecord ==
    \/ StartRecording
    \/ RecordUnchanged
    \/ TruncateRecord
    \/ RecordInTheWay
    \/ WriteRecord

\* Everything avroc does once a run has started.
RunStep ==
    \/ GeneratorsSucceed
    \/ GeneratorsFail
    \/ Merge
    \/ Prune
    \/ WriteOutputRecord
    \/ CleanUp

Next ==
    \/ LoadRecord
    \/ RefuseRecord
    \/ RunStep
    \/ StepFails
    \/ CopyFails
    \/ CleanUpFails
    \/ CrashGenerating
    \/ Crash
    \/ Person

\* generateAll blocks on nothing after its generators have been waited for.
\* Nothing makes them finish, and nothing makes a person start a run.
Fairness == WF_vars(RunStep /\ pc # "generate")

Spec == Init /\ [][Next]_vars /\ Fairness

(***************************************************************************)
(* Properties.                                                             *)
(***************************************************************************)
Stages == {"idle", "generate", "check", "mkdir", "move", "stage", "prune", "sweep",
           "record", "writing", "cleanup"}

Failures == {"none", "load", "generate", "check", "mkdir", "move", "prune",
             "record", "writing"}

\* Every variable has its type; what is at the record's path is nothing, a
\* directory or a record, and no record names itself.
TypeOK ==
    /\ mounts \subseteq Path
    /\ tree \in [Path -> Kinds]
    /\ tree[Record] \in {"none", "dir", "record", "torn"}
    /\ recorded \in SUBSET (Path \ {Record})
    /\ pc \in Stages
    /\ plan \in [Gen -> SUBSET Path]
    /\ previous \in SUBSET (Path \ {Record})
    /\ scratch \in SUBSET Gen
    /\ done \in SUBSET Path
    /\ emptied \in SUBSET Path
    /\ swept \in SUBSET Path
    /\ failure \in Failures
    /\ litter \in SUBSET (Path \cup {Root})
    /\ runs \in Nat
    /\ edits \in Nat

\* A run that succeeds leaves exactly what its generators produced: the record
\* names all of it and nothing else, every file of it is on disk as generated,
\* and no file of the previous run outlives it.  It relates the order merge,
\* prune, record to what each of them skipped.
SuccessIsExact ==
    pc = "cleanup" /\ failure = "none" =>
        /\ tree[Record] = "record"
        /\ recorded = Produced
        /\ \A p \in Produced : tree[p] = "generated"
        /\ \A p \in Stale : tree[p] \notin Regular

\* The ways a run may change what is at p: it makes a directory, replaces what
\* it produced, removes what is stale, or removes a directory left empty.
MayChange(p) ==
    \/ tree[p] = "none" /\ tree'[p] = "dir"
    \/ tree[p] # "dir" /\ tree'[p] = "generated" /\ p \in Produced
    \/ tree[p] \in Regular /\ tree'[p] = "none" /\ p \in Stale
    \/ /\ tree[p] = "dir" /\ tree'[p] = "none"
       /\ \A q \in Under(p) : tree[q] \in {"none", "dir"} /\ tree'[q] = "none"

\* avroc changes nothing else in the project, whatever fails and whatever a
\* person has put there: a pipe or a directory in place of a recorded file
\* stays, and so does a directory with anybody's file in it.
TouchesOnlyItsOwn ==
    [][pc # "idle" => \A p \in Path \ {Record} : tree'[p] # tree[p] => MayChange(p)]_vars

\* What is temporary keeps the directory it is in, whoever left it there: no
\* step of this run takes a directory from under a scratch directory still in
\* use, or from under what a run that died or failed left behind.
TemporariesKeepTheirPlace ==
    \A d \in Holding \cup Staging : d = Root \/ tree[d] = "dir"

\* Why a directory cannot be removed: something temporary is in it, it is a
\* mount point, or an entry is below it.
Occupied(d) == d \in Holding \cup mounts \/ \E q \in Under(d) : tree[q] # "none"

\* The sweep forgets nothing: a directory that pruning took a file out of, and
\* every one above it, is gone once it has been swept or is still occupied,
\* however many of them lie within each other and whichever was swept first.
SweptDirsAreOccupied ==
    \A d \in swept : \A e \in Chain(d) : tree[e] = "dir" => Occupied(e)

\* A run whose generators have finished ends, whichever of its steps fails.
RunEnds == pc \notin {"idle", "generate"} ~> pc = "idle"

\* The files of the project, seen as the ledger sees them.
Ledger == INSTANCE OutputLedger WITH
    running <- pc \notin {"idle", "generate"},
    claim   <- plan,
    onDisk  <- {p \in Path : tree[p] \in Regular},
    owned   <- IF pc = "writing" THEN previous ELSE recorded

\* The merge, the prune and the record together keep the ledger's promise:
\* avroc changes only files its generators produced or its record names,
\* merges nothing when two generators claim a path, removes nothing before
\* all it produced is in place, and forgets nothing it failed to remove.
RefinesLedger == Ledger!LSpec

(***************************************************************************)
(* Statements of the source and its documents that the code does not keep. *)
(***************************************************************************)
\* prune.go:250-252: a run that fails leaves the tree exactly as it found it, as
\* does a merge; merge.go:90-97: it fails before a single file has been moved.  A
\* directory in the way of a file is found only by the rename that meets it.
FailedMergeMovesNothing == pc = "cleanup" /\ failure = "move" => done = {}

\* docs/plugin/SPEC.md, "Stale output": a directory that pruning empties is
\* removed.  The scratch directories are still in the output directories
\* while the sweep runs, and are removed after it.
EmptiedDirsRemoved ==
    [][pc = "cleanup" /\ failure = "none" /\ pc' = "idle" =>
          \A d \in emptied : tree'[d] = "dir" =>
              \E q \in Under(d) : tree'[q] # "none"]_vars

\* prune.go:295-298: a recorded file that is gone is not a failure.  One whose
\* directory a person replaced with a file is gone, and fails every run.
GoneIsNotAFailure == failure # "prune"
=============================================================================
