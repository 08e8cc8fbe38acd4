-------------------------- MODULE OutputTree_proofs --------------------------
(***************************************************************************)
(* Proofs about OutputTree, for every project layout, every set of         *)
(* generators and every fault.  The inductive invariant says, stage by     *)
(* stage, what the stages before have established: the plans agree once    *)
(* checked, the directories exist once made, the files are in place once   *)
(* moved, the stale ones gone once pruned; and that the record on disk is  *)
(* the one the run read until the run rewrites it.                         *)
(***************************************************************************)
EXTENDS OutputTree, Descent, FiniteSetTheorems, TLAPS

\* No entry is below a path that is not a directory.
TreeWellFormed ==
    \A p \in Path : tree[p] # "none" => \A q \in Above[p] : tree[q] = "dir"

\* The stages up to the rewriting of the record.
Reading == {"generate", "check", "mkdir", "move", "stage", "prune", "sweep", "record"}
\* The stages a run reaches only with plans that agree.
Checked == {"mkdir", "move", "stage", "prune", "sweep", "record", "writing"}
\* The stages that put the files in place.
Moving == {"move", "stage"}
\* The stages a run reaches only with every file in place.
Merged == {"prune", "sweep", "record", "writing"}
Pruned == {"sweep", "record", "writing"}

Between ==
    pc \in {"idle", "generate"} => plan = NoPlan /\ scratch = {}

KnowsRecord ==
    pc \in Reading => previous = recorded

PlansAgree ==
    pc \in Checked => ~Collides /\ ~Reserved

DirsMade ==
    /\ pc = "mkdir" => \A p \in done : \A q \in Above[p] : tree[q] = "dir"
    /\ pc \in Moving => \A p \in Produced : \A q \in Above[p] : tree[q] = "dir"

RecordOpen ==
    pc = "writing" => tree[Record] = "torn" /\ recorded = {}

FilesMoved ==
    /\ pc \in Moving => \A p \in done : tree[p] = "generated"
    /\ pc \in Merged => \A p \in Produced : tree[p] = "generated"

StaleGone ==
    /\ pc = "prune" => \A p \in done : tree[p] \notin Regular
    /\ pc \in Pruned => \A p \in Stale : tree[p] \notin Regular

HoldersExist ==
    \A d \in Holding : d = Root \/ tree[d] = "dir"

\* The stages before a run takes anything away.
Unpruned == {"idle", "generate", "check", "mkdir", "move", "stage"}

SweepComesLast ==
    /\ pc \in Unpruned => emptied = {}
    /\ pc \in Unpruned \cup {"prune"} => swept = {}

\* A directory still to be swept is there, or went with one below it.
Climbed ==
    pc \in {"prune", "sweep"} =>
        \A d \in emptied : tree[d] = "dir" \/ \E c \in swept : d \in Chain(c)

MountsStand ==
    mounts \subseteq MountPoints /\ \A m \in mounts : tree[m] = "dir"

Inv ==
    /\ TypeOK
    /\ TreeWellFormed
    /\ Between
    /\ KnowsRecord
    /\ PlansAgree
    /\ DirsMade
    /\ RecordOpen
    /\ FilesMoved
    /\ StaleGone
    /\ HoldersExist
    /\ SuccessIsExact
    /\ MountsStand
    /\ SweepComesLast
    /\ Climbed
    /\ SweptDirsAreOccupied
-----------------------------------------------------------------------------
(***************************************************************************)
(* Types.                                                                  *)
(***************************************************************************)
USE DEF Gen, run, bounds, Regular, Moving, Pool!Delivered, Pool!FellShort

LEMMA ChainInPath ==
    ASSUME NEW d \in Path \cup {Root}, PathAssumption
    PROVE  Chain(d) \in SUBSET Path
  BY DEF PathAssumption, Chain

LEMMA WithDirsType ==
    ASSUME NEW t \in [Path -> Kinds], NEW S
    PROVE  /\ WithDirs(t, S) \in [Path -> Kinds]
           /\ WithDirs(t, S)[Record] \in {t[Record], "dir"}
  BY PathAssumption DEF PathAssumption, WithDirs, Kinds

\* A run that fails a stage changes nothing else.
LEMMA FailType ==
    ASSUME TypeOK, NEW stage \in Failures, Fail(stage)
    PROVE  TypeOK'
  BY DEF TypeOK, Fail, Stages

LEMMA StagingType == Staging \in SUBSET (Path \cup {Root})
  BY TreeAssumption DEF TreeAssumption, Staging

\* A file put in place is not the record.
LEMMA PlaceType ==
    ASSUME TypeOK, PlansAgree, pc \in Checked, NEW p \in Path, ToMove(p), Placed(p)
    PROVE  TypeOK'
  BY PathAssumption
     DEF PathAssumption, TypeOK, ToMove, Placed, FirstPlanned, PlansAgree, Reserved, Kinds, Stages

\* The variables keep their types.
LEMMA TypeStep ==
    ASSUME TypeOK, PlansAgree, [Next]_vars
    PROVE  TypeOK'
<1> USE PathAssumption, TreeAssumption, GenAssumption DEF PathAssumption, TypeOK
<1>1. CASE LoadRecord
  BY <1>1 DEF LoadRecord, Stages, Failures
<1>2. CASE RefuseRecord
  BY <1>2 DEF RefuseRecord, Stages, Failures
<1>3. CASE GeneratorsSucceed
  BY <1>3, WithDirsType DEF GeneratorsSucceed, OutDirs, Plans, Stages
<1>4. CASE GeneratorsFail
  BY <1>4, WithDirsType DEF GeneratorsFail, OutDirs, Creatable, Stages, Failures
<1>5. CASE RefusePlans
  BY <1>5, FailType DEF RefusePlans, Failures
<1>6. CASE AcceptPlans
  BY <1>6 DEF AcceptPlans, Stages
<1>7. ASSUME NEW p \in Path, MakeDirectory(p)
      PROVE  TypeOK'
  BY <1>7, WithDirsType DEF MakeDirectory
<1>8. ASSUME NEW p \in Path, MakeDirectoryFails(p)
      PROVE  TypeOK'
  BY <1>8, FailType DEF MakeDirectoryFails, Failures
<1>9. CASE StartMoving
  BY <1>9 DEF StartMoving, Stages
<1>10. ASSUME NEW p \in Path, MoveIntoPlace(p)
       PROVE  TypeOK'
  BY <1>10, PlaceType DEF MoveIntoPlace, Checked
<1>11. ASSUME NEW p \in Path, MoveFails(p)
       PROVE  TypeOK'
  BY <1>11, FailType DEF MoveFails, Failures
<1>12. CASE StartPruning
  BY <1>12 DEF StartPruning, Stages
<1>13. ASSUME NEW p \in Path, RemoveStale(p)
       PROVE  TypeOK'
  BY <1>13 DEF RemoveStale, Kinds
<1>14. ASSUME NEW p \in Path, LeaveStale(p)
       PROVE  TypeOK'
  BY <1>14 DEF LeaveStale
<1>15. ASSUME NEW p \in Path, InspectFails(p)
       PROVE  TypeOK'
  BY <1>15, FailType DEF InspectFails, Failures
<1>16. CASE StartSweeping
  BY <1>16 DEF StartSweeping, Stages
<1>17. ASSUME NEW d \in Path, RemoveEmptyDirs(d)
       PROVE  TypeOK'
  BY <1>17 DEF RemoveEmptyDirs, Kinds
<1>18. CASE StartRecording
  BY <1>18 DEF StartRecording, Stages
<1>19. CASE RecordUnchanged
  BY <1>19 DEF RecordUnchanged, Stages
<1>20. CASE TruncateRecord
  BY <1>20 DEF TruncateRecord, Stages, Kinds
<1>21. CASE RecordInTheWay
  BY <1>21, FailType DEF RecordInTheWay, Failures
<1>22. CASE WriteRecord
  BY <1>22 DEF WriteRecord, Stages, Kinds, PlansAgree, Checked, Reserved, Produced
<1>23. CASE CleanUp
  BY <1>23 DEF CleanUp, Forget, NoPlan, Stages, Failures
<1>24. CASE StepFails
  <2>1. PICK stage \in Failures : Fail(stage)
    BY <1>24 DEF StepFails, Failures
  <2> QED
    BY <2>1, FailType
<1>25. CASE CleanUpFails
  BY <1>25 DEF CleanUpFails, Forget, NoPlan, Stages, Failures
<1>26. CASE CrashGenerating
  BY <1>26, WithDirsType
     DEF CrashGenerating, Dies, Creatable, OutDirs, Forget, NoPlan, Stages, Failures
<1>27. CASE Crash
  BY <1>27, StagingType DEF Crash, Holding, Dies, Forget, NoPlan, Stages, Failures
<1>28. ASSUME NEW p \in Path, NEW k \in {"none", "dir", "hand", "special"}, EditFile(p, k)
       PROVE  TypeOK'
  BY <1>28 DEF EditFile, Kinds
<1>29. ASSUME NEW k \in {"none", "torn"}, EditRecord(k)
       PROVE  TypeOK'
  BY <1>29 DEF EditRecord, Kinds
<1>30. CASE UNCHANGED vars
  BY <1>30 DEF vars
<1>31. ASSUME NEW p \in Path, StageCopy(p)
       PROVE  TypeOK'
  BY <1>31 DEF StageCopy, Stages
<1>32. ASSUME NEW p \in Path, PlaceCopy(p)
       PROVE  TypeOK'
  BY <1>32, PlaceType DEF PlaceCopy, Checked
<1>33. CASE CopyFails
  BY <1>33, StagingType DEF CopyFails, Stages, Failures
<1> HIDE DEF TypeOK
<1> QED
  BY <1>1, <1>2, <1>3, <1>4, <1>5, <1>6, <1>7, <1>8, <1>9, <1>10, <1>11, <1>12,
     <1>13, <1>14, <1>15, <1>16, <1>17, <1>18, <1>19, <1>20, <1>21, <1>22, <1>23,
     <1>24, <1>25, <1>26, <1>27, <1>28, <1>29, <1>30, <1>31, <1>32, <1>33
     DEF Next, RunStep, Merge, Prune, WriteOutputRecord, Person
\* Checked plans stay as they are until the run is over.
LEMMA PlansAgreeStep ==
    ASSUME PlansAgree, [Next]_vars
    PROVE  PlansAgree'
<1>1. ASSUME NEW stage, Fail(stage)
      PROVE  PlansAgree'
  BY <1>1 DEF Fail, PlansAgree, Checked
<1>2. CASE AcceptPlans
  BY <1>2 DEF AcceptPlans, PlansAgree, Collides, Reserved, Produced
<1>3. ASSUME pc' = pc, plan' = plan
      PROVE  PlansAgree'
  BY <1>3 DEF PlansAgree, Collides, Reserved, Produced
<1>4. ASSUME pc \in Checked, plan' = plan
      PROVE  PlansAgree'
  BY <1>4 DEF PlansAgree, Collides, Reserved, Produced
<1>5. ASSUME pc' \notin Checked
      PROVE  PlansAgree'
  BY <1>5 DEF PlansAgree
<1>6. CASE LoadRecord \/ RefuseRecord \/ GeneratorsSucceed \/ GeneratorsFail
  BY <1>5, <1>6 DEF LoadRecord, RefuseRecord, GeneratorsSucceed, GeneratorsFail, Checked
<1>7. CASE RefusePlans
  BY <1>1, <1>7 DEF RefusePlans
<1>8. ASSUME NEW p \in Path,
             MakeDirectory(p) \/ MoveIntoPlace(p) \/ RemoveStale(p) \/ LeaveStale(p)
                 \/ RemoveEmptyDirs(p)
      PROVE  PlansAgree'
  BY <1>3, <1>8 DEF MakeDirectory, MoveIntoPlace, Placed, RemoveStale, LeaveStale, RemoveEmptyDirs
<1>9. ASSUME NEW p \in Path,
             MakeDirectoryFails(p) \/ MoveFails(p) \/ InspectFails(p)
      PROVE  PlansAgree'
  BY <1>1, <1>9 DEF MakeDirectoryFails, MoveFails, InspectFails
<1>10. CASE StartMoving \/ StartPruning \/ StartSweeping \/ StartRecording \/ TruncateRecord
  BY <1>4, <1>10
     DEF StartMoving, StartPruning, StartSweeping, StartRecording, TruncateRecord, Checked
<1>11. CASE RecordUnchanged \/ WriteRecord \/ CleanUp
  BY <1>5, <1>11 DEF RecordUnchanged, WriteRecord, CleanUp, Checked
<1>12. CASE RecordInTheWay \/ StepFails
  BY <1>1, <1>12 DEF RecordInTheWay, StepFails
<1>13. CASE CleanUpFails \/ CrashGenerating \/ Crash
  BY <1>5, <1>13 DEF CleanUpFails, CrashGenerating, Crash, Dies, Checked
<1>14. CASE Person \/ UNCHANGED vars
  BY <1>3, <1>14 DEF Person, EditFile, EditRecord, vars
<1>15. ASSUME NEW p \in Path, StageCopy(p) \/ PlaceCopy(p)
       PROVE  PlansAgree'
  BY <1>4, <1>15 DEF StageCopy, PlaceCopy, Placed, Checked
<1>16. CASE CopyFails
  BY <1>5, <1>16 DEF CopyFails, Checked
<1> QED
  BY <1>2, <1>6, <1>7, <1>8, <1>9, <1>10, <1>11, <1>12, <1>13, <1>14, <1>15, <1>16
     DEF Next, RunStep, Merge, Prune, WriteOutputRecord

-----------------------------------------------------------------------------
(***************************************************************************)
(* The shape of the tree.                                                  *)
(***************************************************************************)
WellFormed(t) ==
    \A p \in Path : t[p] # "none" => \A q \in Above[p] : t[q] = "dir"

LEMMA ChainClosed ==
    ASSUME NEW d \in Path \cup {Root}
    PROVE  \A p \in Chain(d) : Above[p] \subseteq Chain(d)
  BY PathAssumption, TreeAssumption DEF PathAssumption, TreeAssumption, Chain

\* Making directories where there is nothing, or a directory already, with
\* everything above them.
LEMMA WithDirsWellFormed ==
    ASSUME NEW t \in [Path -> Kinds], NEW S \in SUBSET Path, WellFormed(t),
           \A p \in S : Above[p] \subseteq S,
           \A p \in S : t[p] \in {"none", "dir"}
    PROVE  WellFormed(WithDirs(t, S))
  BY PathAssumption DEF PathAssumption, WellFormed, WithDirs

\* However the generators end, some of their output directories are made.
LEMMA Made ==
    ASSUME GeneratorsSucceed \/ GeneratorsFail \/ CrashGenerating
    PROVE  \E made \in SUBSET Creatable : tree' = OutDirs(tree, made)
BY DEF GeneratorsSucceed, GeneratorsFail, CrashGenerating

LEMMA OutDirsWellFormed ==
    ASSUME TypeOK, TreeWellFormed, NEW made \in SUBSET Creatable
    PROVE  WellFormed(OutDirs(tree, made))
<1> DEFINE S == UNION {Chain(OutDir[g]) : g \in made}
<1>1. S \in SUBSET Path
  BY ChainInPath, PathAssumption, GenAssumption DEF GenAssumption, Creatable
<1>2. \A p \in S : Above[p] \subseteq S
  BY ChainClosed, GenAssumption DEF GenAssumption, Creatable
<1>3. \A p \in S : tree[p] \in {"none", "dir"}
  BY DEF Creatable, Blocked
<1> HIDE DEF S
<1>4. WellFormed(WithDirs(tree, S))
  BY <1>1, <1>2, <1>3, WithDirsWellFormed DEF TypeOK, TreeWellFormed, WellFormed
<1> QED
  BY <1>4 DEF OutDirs, S

\* Replacing what is at p by something that can be there.
LEMMA ReplaceWellFormed ==
    ASSUME NEW t \in [Path -> Kinds], NEW p \in Path, NEW k \in Kinds, WellFormed(t),
           t[p] # "dir",
           k # "none" => \A q \in Above[p] : t[q] = "dir"
    PROVE  WellFormed([t EXCEPT ![p] = k])
  BY PathAssumption, TreeAssumption DEF PathAssumption, TreeAssumption, WellFormed

\* What the sweep removes from d are directories, with nothing left below them.
LEMMA SweptAreDirs ==
    ASSUME TypeOK, TreeWellFormed, NEW d \in Path, tree[d] = "dir",
           NEW e \in EmptyFrom(d)
    PROVE  /\ e \in Path
           /\ tree[e] = "dir"
           /\ \A q \in Path : e \in Above[q] /\ tree[q] # "none" => q \in EmptyFrom(d)
<1> USE PathAssumption, TreeAssumption DEF PathAssumption, TreeAssumption
<1>1. e \in Path /\ e \in Chain(d)
  BY ChainInPath DEF EmptyFrom
<1>2. tree[e] = "dir"
  BY <1>1 DEF Chain, TreeWellFormed
<1>3. ASSUME NEW q \in Path, e \in Above[q], tree[q] # "none"
      PROVE  q \in EmptyFrom(d)
  <2>1. q \in Under(e)
    BY <1>3 DEF Under
  <2>2. q \in Chain(d)
    BY <1>3, <2>1 DEF EmptyFrom
  <2>3. Under(q) \cup {q} \subseteq Under(e)
    BY <1>3, <2>1 DEF Under
  <2> QED
    BY <2>2, <2>3 DEF EmptyFrom
<1> QED
  BY <1>1, <1>2, <1>3

LEMMA SweepWellFormed ==
    ASSUME TypeOK, TreeWellFormed, NEW d \in Path, RemoveEmptyDirs(d)
    PROVE  TreeWellFormed'
<1>1. CASE tree[d] # "dir"
  BY <1>1 DEF RemoveEmptyDirs, TreeWellFormed
<1>2. CASE tree[d] = "dir"
  <2>1. tree' = [p \in Path |-> IF p \in EmptyFrom(d) THEN "none" ELSE tree[p]]
    BY <1>2 DEF RemoveEmptyDirs
  <2> SUFFICES ASSUME NEW p \in Path, tree'[p] # "none", NEW q \in Above[p]
               PROVE  tree'[q] = "dir"
    BY DEF TreeWellFormed
  <2>2. p \notin EmptyFrom(d) /\ tree[p] # "none"
    BY <2>1
  <2>3. q \in Path /\ tree[q] = "dir"
    BY <2>2, PathAssumption DEF PathAssumption, TreeWellFormed
  <2>4. q \notin EmptyFrom(d)
    BY <1>2, <2>2, <2>3, SweptAreDirs
  <2> QED
    BY <2>1, <2>3, <2>4
<1> QED
  BY <1>1, <1>2

LEMMA EditFileWellFormed ==
    ASSUME TypeOK, TreeWellFormed, NEW p \in Path,
           NEW k \in {"none", "dir", "hand", "special"}, EditFile(p, k)
    PROVE  TreeWellFormed'
<1> USE PathAssumption, TreeAssumption DEF PathAssumption, TreeAssumption
<1> SUFFICES ASSUME NEW q \in Path, tree'[q] # "none", NEW r \in Above[q]
             PROVE  tree'[r] = "dir"
  BY DEF TreeWellFormed
<1>1. r \in Path /\ Above[r] \subseteq Above[q] /\ p \notin Above[q]
  BY DEF EditFile
<1>2. r # p /\ p \notin Above[r]
  BY <1>1
<1>3. CASE k # "none" /\ r \in Above[p]
  BY <1>1, <1>2, <1>3 DEF EditFile
<1>4. CASE k = "none" \/ r \notin Above[p]
  <2>1. tree'[r] = tree[r]
    BY <1>1, <1>2, <1>4 DEF EditFile
  <2>2. q # p /\ ~(k # "none" /\ q \in Above[p])
    BY <1>1, <1>4 DEF EditFile
  <2>3. tree'[q] = tree[q]
    BY <1>1, <2>2 DEF EditFile
  <2> QED
    BY <2>1, <2>3 DEF TreeWellFormed
<1> QED
  BY <1>3, <1>4

\* The tree stays well formed, whatever the step.
LEMMA ShapeStep ==
    ASSUME TypeOK, TreeWellFormed, DirsMade, RecordOpen, [Next]_vars
    PROVE  TreeWellFormed' /\ DirsMade' /\ RecordOpen'
<1> DEFINE Shape == TreeWellFormed' /\ DirsMade' /\ RecordOpen'
<1>1. ASSUME NEW stage, Fail(stage)
      PROVE  Shape
  BY <1>1 DEF Fail, TreeWellFormed, DirsMade, RecordOpen
<1>2. ASSUME tree' = tree, pc' \notin Moving \cup {"mkdir", "writing"}
      PROVE  Shape
  BY <1>2 DEF TreeWellFormed, DirsMade, RecordOpen
<1>3. CASE LoadRecord \/ RefuseRecord \/ CleanUp \/ CleanUpFails \/ Crash
  BY <1>2, <1>3 DEF LoadRecord, RefuseRecord, CleanUp, CleanUpFails, Crash, Dies
<1>4. CASE GeneratorsSucceed \/ GeneratorsFail \/ CrashGenerating
  BY <1>4, OutDirsWellFormed, Made
     DEF GeneratorsSucceed, GeneratorsFail, CrashGenerating, Dies,
         WellFormed, TreeWellFormed, DirsMade, RecordOpen
<1>5. CASE AcceptPlans
  BY <1>5 DEF AcceptPlans, TreeWellFormed, DirsMade, RecordOpen
<1>6. ASSUME NEW p \in Path, MakeDirectory(p)
      PROVE  Shape
  <2>1. WellFormed(tree')
    <3>1. Above[p] \in SUBSET Path /\ \A q \in Above[p] : Above[q] \subseteq Above[p]
      BY PathAssumption, TreeAssumption DEF PathAssumption, TreeAssumption
    <3>2. \A q \in Above[p] : tree[q] \in {"none", "dir"}
      BY <1>6 DEF MakeDirectory, Blocked
    <3>3. WellFormed(WithDirs(tree, Above[p]))
      BY <3>1, <3>2, WithDirsWellFormed DEF TypeOK, TreeWellFormed, WellFormed
    <3> QED
      BY <1>6, <3>3 DEF MakeDirectory
  <2>2. DirsMade' /\ RecordOpen'
    BY <1>6, PathAssumption DEF PathAssumption, MakeDirectory, DirsMade, RecordOpen, WithDirs, TypeOK
  <2> QED
    BY <2>1, <2>2 DEF WellFormed, TreeWellFormed
<1>7. CASE StartMoving
  BY <1>7 DEF StartMoving, TreeWellFormed, DirsMade, RecordOpen, Produced
<1>8. ASSUME NEW p \in Path, ToMove(p), Placed(p), pc \in Moving
      PROVE  Shape
  <2>1. p \in Produced /\ tree[p] # "dir"
    BY <1>8 DEF ToMove, Placed, FirstPlanned
  <2>2. \A q \in Above[p] : tree[q] = "dir"
    BY <1>8, <2>1 DEF DirsMade
  <2>3. tree' = [tree EXCEPT ![p] = "generated"]
    BY <1>8 DEF Placed
  <2>4. WellFormed(tree')
    BY <2>1, <2>2, <2>3, ReplaceWellFormed DEF TypeOK, TreeWellFormed, WellFormed, Kinds
  <2>5. DirsMade' /\ RecordOpen'
    BY <1>8, <2>1, <2>3 DEF Placed, DirsMade, RecordOpen, TypeOK, Produced
  <2> QED
    BY <2>4, <2>5 DEF WellFormed, TreeWellFormed
<1>9. CASE RefusePlans \/ StepFails \/ RecordInTheWay
  BY <1>1, <1>9 DEF RefusePlans, StepFails, RecordInTheWay
<1>10. ASSUME NEW p \in Path,
              MakeDirectoryFails(p) \/ MoveFails(p) \/ InspectFails(p)
       PROVE  Shape
  BY <1>1, <1>10 DEF MakeDirectoryFails, MoveFails, InspectFails
<1>11. CASE StartPruning \/ StartSweeping \/ StartRecording \/ RecordUnchanged
  BY <1>2, <1>11 DEF StartPruning, StartSweeping, StartRecording, RecordUnchanged
<1>12. ASSUME NEW p \in Path, RemoveStale(p)
       PROVE  Shape
  <2>1. tree' = [tree EXCEPT ![p] = "none"] /\ tree[p] # "dir"
    BY <1>12 DEF RemoveStale
  <2>2. WellFormed(tree')
    BY <2>1, ReplaceWellFormed DEF TypeOK, TreeWellFormed, WellFormed, Kinds
  <2> QED
    BY <1>12, <2>2 DEF RemoveStale, WellFormed, TreeWellFormed, DirsMade, RecordOpen
<1>13. ASSUME NEW p \in Path, LeaveStale(p)
       PROVE  Shape
  BY <1>2, <1>13 DEF LeaveStale
<1>14. ASSUME NEW d \in Path, RemoveEmptyDirs(d)
       PROVE  Shape
  BY <1>14, SweepWellFormed DEF RemoveEmptyDirs, DirsMade, RecordOpen
<1>15. CASE TruncateRecord \/ WriteRecord
  <2>1. PICK k \in {"torn", "record"} : tree' = [tree EXCEPT ![Record] = k]
    BY <1>15 DEF TruncateRecord, WriteRecord
  <2>2. tree[Record] # "dir"
    BY <1>15 DEF TruncateRecord, WriteRecord, RecordOpen
  <2>3. WellFormed(tree')
    BY <2>1, <2>2, PathAssumption, ReplaceWellFormed
       DEF PathAssumption, TypeOK, TreeWellFormed, WellFormed, Kinds
  <2>4. DirsMade' /\ RecordOpen'
    BY <1>15, PathAssumption
       DEF PathAssumption, TruncateRecord, WriteRecord, DirsMade, RecordOpen, TypeOK
  <2> QED
    BY <2>3, <2>4 DEF WellFormed, TreeWellFormed
<1>16. ASSUME NEW p \in Path, NEW k \in {"none", "dir", "hand", "special"}, EditFile(p, k)
       PROVE  Shape
  BY <1>16, EditFileWellFormed DEF EditFile, DirsMade, RecordOpen
<1>17. ASSUME NEW k \in {"none", "torn"}, EditRecord(k)
       PROVE  Shape
  BY <1>17, PathAssumption, TreeAssumption
     DEF PathAssumption, TreeAssumption, EditRecord, TreeWellFormed, DirsMade, RecordOpen, TypeOK
<1>18. CASE UNCHANGED vars
  BY <1>18 DEF vars, TreeWellFormed, DirsMade, RecordOpen, Produced
<1>19. ASSUME NEW p \in Path, MoveIntoPlace(p) \/ PlaceCopy(p)
       PROVE  Shape
  BY <1>8, <1>19 DEF MoveIntoPlace, PlaceCopy
<1>20. ASSUME NEW p \in Path, StageCopy(p)
       PROVE  Shape
  BY <1>20 DEF StageCopy, TreeWellFormed, DirsMade, RecordOpen, Produced
<1>21. CASE CopyFails
  BY <1>2, <1>21 DEF CopyFails
<1> QED
  BY <1>3, <1>4, <1>5, <1>6, <1>7, <1>9, <1>10, <1>11, <1>12, <1>13, <1>14,
     <1>15, <1>16, <1>17, <1>18, <1>19, <1>20, <1>21
     DEF Next, RunStep, Merge, Prune, WriteOutputRecord, Person

-----------------------------------------------------------------------------
(***************************************************************************)
(* What each stage leaves to the next.                                     *)
(***************************************************************************)
\* The plan and the record the run read stay until the run is over.
LEMMA KnowledgeStep ==
    ASSUME Between, KnowsRecord, [Next]_vars
    PROVE  Between' /\ KnowsRecord'
<1> DEFINE Goal == Between' /\ KnowsRecord'
<1>1. ASSUME NEW stage, Fail(stage)
      PROVE  Goal
  BY <1>1 DEF Fail, Between, KnowsRecord, Reading
<1>2. ASSUME pc' \in Reading \ {"generate"}, pc \in Reading,
             previous' = previous, recorded' = recorded
      PROVE  Goal
  BY <1>2 DEF Between, KnowsRecord, Reading
<1>3. CASE LoadRecord \/ RefuseRecord
  BY <1>3 DEF LoadRecord, RefuseRecord, Between, KnowsRecord, Reading
<1>4. CASE GeneratorsSucceed \/ AcceptPlans \/ StartMoving \/ StartPruning
           \/ StartSweeping \/ StartRecording
  BY <1>2, <1>4
     DEF GeneratorsSucceed, AcceptPlans, StartMoving, StartPruning, StartSweeping,
         StartRecording, Reading
<1>5. CASE GeneratorsFail \/ RecordUnchanged \/ TruncateRecord \/ WriteRecord
  BY <1>5 DEF GeneratorsFail, RecordUnchanged, TruncateRecord, WriteRecord,
              Between, KnowsRecord, Reading
<1>6. CASE RefusePlans \/ RecordInTheWay \/ StepFails
  BY <1>1, <1>6 DEF RefusePlans, RecordInTheWay, StepFails
<1>7. ASSUME NEW p \in Path,
             MakeDirectoryFails(p) \/ MoveFails(p) \/ InspectFails(p)
      PROVE  Goal
  BY <1>1, <1>7 DEF MakeDirectoryFails, MoveFails, InspectFails
<1>8. ASSUME NEW p \in Path,
             MakeDirectory(p) \/ MoveIntoPlace(p) \/ StageCopy(p) \/ PlaceCopy(p)
                 \/ RemoveStale(p) \/ LeaveStale(p) \/ RemoveEmptyDirs(p)
      PROVE  Goal
  BY <1>2, <1>8
     DEF MakeDirectory, MoveIntoPlace, StageCopy, PlaceCopy, Placed, RemoveStale, LeaveStale,
         RemoveEmptyDirs, Reading
<1>9. CASE CopyFails \/ CleanUp \/ CleanUpFails \/ CrashGenerating \/ Crash
  BY <1>9 DEF CopyFails, CleanUp, CleanUpFails, CrashGenerating, Crash, Dies, Forget,
              Between, KnowsRecord, Reading
<1>10. CASE Person
  BY <1>10 DEF Person, EditFile, EditRecord, Between, KnowsRecord, Reading
<1>11. CASE UNCHANGED vars
  BY <1>11 DEF vars, Between, KnowsRecord
<1> QED
  BY <1>3, <1>4, <1>5, <1>6, <1>7, <1>8, <1>9, <1>10, <1>11
     DEF Next, RunStep, Merge, Prune, WriteOutputRecord

\* Files moved stay in place, and files pruned stay gone.
LEMMA FilesStep ==
    ASSUME TypeOK, TreeWellFormed, PlansAgree, FilesMoved, StaleGone, [Next]_vars
    PROVE  FilesMoved' /\ StaleGone'
<1> DEFINE Goal == FilesMoved' /\ StaleGone'
<1>1. ASSUME pc' \notin Merged \cup Moving
      PROVE  Goal
  BY <1>1 DEF FilesMoved, StaleGone, Merged, Pruned
<1>2. ASSUME NEW stage, Fail(stage)
      PROVE  Goal
  BY <1>1, <1>2 DEF Fail, Merged
<1>3. CASE LoadRecord \/ RefuseRecord \/ GeneratorsSucceed \/ GeneratorsFail
           \/ AcceptPlans \/ RecordUnchanged \/ WriteRecord
           \/ CopyFails \/ CleanUp \/ CleanUpFails \/ CrashGenerating \/ Crash
  BY <1>1, <1>3
     DEF LoadRecord, RefuseRecord, GeneratorsSucceed, GeneratorsFail, AcceptPlans,
         RecordUnchanged, WriteRecord, CopyFails, CleanUp, CleanUpFails, CrashGenerating, Crash,
         Dies, Merged
<1>4. CASE RefusePlans \/ RecordInTheWay \/ StepFails
  BY <1>2, <1>4 DEF RefusePlans, RecordInTheWay, StepFails
<1>5. ASSUME NEW p \in Path,
             MakeDirectoryFails(p) \/ MoveFails(p) \/ InspectFails(p)
      PROVE  Goal
  BY <1>2, <1>5 DEF MakeDirectoryFails, MoveFails, InspectFails
<1>6. ASSUME NEW p \in Path, MakeDirectory(p)
      PROVE  Goal
  BY <1>1, <1>6 DEF MakeDirectory, Merged
<1>7. CASE StartMoving \/ StartPruning \/ StartSweeping \/ StartRecording
  BY <1>7 DEF StartMoving, StartPruning, StartSweeping, StartRecording,
              FilesMoved, StaleGone, Merged, Pruned, Produced, Stale
<1>8. ASSUME NEW p \in Path, MoveIntoPlace(p) \/ PlaceCopy(p)
      PROVE  Goal
  BY <1>8 DEF MoveIntoPlace, PlaceCopy, Placed, FilesMoved, StaleGone, Merged, Pruned, TypeOK
<1>9. ASSUME NEW p \in Path, RemoveStale(p)
      PROVE  Goal
  <2>1. p \in Stale
    BY <1>9 DEF RemoveStale, FirstByName
  <2> QED
    BY <1>9, <2>1 DEF RemoveStale, FilesMoved, StaleGone, Merged, Pruned, Stale, Produced,
                      TypeOK
<1>10. ASSUME NEW p \in Path, LeaveStale(p)
       PROVE  Goal
  BY <1>10 DEF LeaveStale, FilesMoved, StaleGone, Merged, Pruned, Produced
<1>11. ASSUME NEW d \in Path, RemoveEmptyDirs(d)
       PROVE  Goal
  <2>1. \A p \in Path : tree'[p] = tree[p] \/ (tree[p] = "dir" /\ tree'[p] = "none")
    BY <1>11, SweptAreDirs DEF RemoveEmptyDirs
  <2>2. Produced \in SUBSET Path /\ Stale \in SUBSET Path
    BY DEF TypeOK, Produced, Stale
  <2>3. Produced' = Produced /\ Stale' = Stale /\ pc' = "sweep" /\ pc = "sweep"
    BY <1>11 DEF RemoveEmptyDirs, Produced, Stale
  <2> QED
    BY <2>1, <2>2, <2>3 DEF FilesMoved, StaleGone, Merged, Pruned
<1>12. CASE TruncateRecord
  <2>1. Record \notin Produced /\ pc = "record" /\ pc' = "writing"
    BY <1>12 DEF TruncateRecord, PlansAgree, Checked, Reserved
  <2>2. Produced' = Produced /\ Stale' = Stale
    BY <1>12 DEF TruncateRecord, Produced, Stale
  <2> QED
    BY <1>12, <2>1, <2>2 DEF TruncateRecord, FilesMoved, StaleGone, Merged, Pruned, TypeOK
<1>13. CASE Person
  BY <1>1, <1>13 DEF Person, EditFile, EditRecord, Merged
<1>14. ASSUME NEW p \in Path, StageCopy(p)
       PROVE  Goal
  BY <1>14 DEF StageCopy, FilesMoved, StaleGone, Merged, Pruned, Produced
<1>15. CASE UNCHANGED vars
  BY <1>15 DEF vars, FilesMoved, StaleGone, Merged, Pruned, Produced, Stale
<1> QED
  BY <1>3, <1>4, <1>5, <1>6, <1>7, <1>8, <1>9, <1>10, <1>11, <1>12, <1>13, <1>14, <1>15
     DEF Next, RunStep, Merge, Prune, WriteOutputRecord

\* The directory a copy is made in exists: it was made for the file.
LEMMA StagingExists ==
    ASSUME DirsMade
    PROVE  \A d \in Staging : d = Root \/ tree[d] = "dir"
<1> SUFFICES ASSUME NEW p \in Path, pc = "stage", ToMove(p)
             PROVE  Parent[p] = Root \/ tree[Parent[p]] = "dir"
  BY DEF Staging
<1>1. p \in Produced
  BY DEF ToMove, FirstPlanned
<1>2. \A q \in Above[p] : tree[q] = "dir"
  BY <1>1 DEF DirsMade
<1>3. Parent[p] # Root => Parent[p] \in Above[p]
  BY TreeAssumption DEF TreeAssumption
<1> QED
  BY <1>2, <1>3

\* No step takes a directory from under something temporary.
LEMMA HoldersStep ==
    ASSUME TypeOK, Between, DirsMade, RecordOpen, HoldersExist, [Next]_vars
    PROVE  HoldersExist'
<1> USE DEF HoldersExist, Holding
<1>0. Holding \in SUBSET (Path \cup {Root})
  BY GenAssumption DEF GenAssumption, TypeOK
<1>1. ASSUME Holding' \subseteq Holding,
             \A d \in Path : tree[d] = "dir" => tree'[d] = "dir" \/ d \notin Holding'
      PROVE  HoldersExist'
  BY <1>0, <1>1
<1>2. ASSUME NEW stage, Fail(stage)
      PROVE  HoldersExist'
  BY <1>1, <1>2 DEF Fail
<1>3. CASE LoadRecord \/ RefuseRecord \/ RefusePlans \/ AcceptPlans \/ StartMoving
           \/ StartPruning \/ StartSweeping \/ StartRecording \/ RecordUnchanged
           \/ RecordInTheWay \/ StepFails \/ CleanUp
  BY <1>1, <1>3
     DEF LoadRecord, RefuseRecord, RefusePlans, AcceptPlans, StartMoving, StartPruning,
         StartSweeping, StartRecording, RecordUnchanged, RecordInTheWay, StepFails,
         CleanUp, Forget, Fail
<1>4. CASE GeneratorsSucceed \/ GeneratorsFail \/ CrashGenerating
  <2>1. PICK made \in SUBSET Creatable :
           /\ tree' = OutDirs(tree, made) /\ scratch' \subseteq made
           /\ \E S \in SUBSET made : litter' = litter \cup {OutDir[g] : g \in S}
    <3>1. CASE GeneratorsSucceed
      <4>1. /\ Gen \in SUBSET Creatable /\ tree' = OutDirs(tree, Gen) /\ scratch' \subseteq Gen
            /\ litter' = litter \cup {OutDir[g] : g \in {}}
        BY <3>1 DEF GeneratorsSucceed, Pool!Delivered
      <4>2. {} \in SUBSET Gen
        OBVIOUS
      <4> QED
        BY <4>1, <4>2
    <3>2. CASE GeneratorsFail
      BY <3>2 DEF GeneratorsFail
    <3>3. CASE CrashGenerating
      BY <3>3 DEF CrashGenerating, Dies, Forget
    <3> QED
      BY <1>4, <3>1, <3>2, <3>3
  <2>2. \A d \in Path : tree[d] = "dir" => tree'[d] = "dir"
    BY <2>1 DEF OutDirs, WithDirs
  <2>3. ASSUME NEW g \in made, OutDir[g] # Root
        PROVE  tree'[OutDir[g]] = "dir"
    <3>1. OutDir[g] \in Path /\ OutDir[g] \in Chain(OutDir[g])
      BY <2>3, GenAssumption DEF GenAssumption, Creatable, Chain
    <3> QED
      BY <3>1, <2>1 DEF OutDirs, WithDirs
  <2>4. litter \in SUBSET (Path \cup {Root}) /\ made \subseteq Gen
    BY DEF TypeOK, Creatable
  <2> QED
    BY <2>1, <2>2, <2>3, <2>4
<1>5. ASSUME NEW p \in Path, MakeDirectory(p)
      PROVE  HoldersExist'
  BY <1>1, <1>5 DEF MakeDirectory, WithDirs
<1>6. ASSUME NEW p \in Path,
             MakeDirectoryFails(p) \/ MoveFails(p) \/ InspectFails(p)
      PROVE  HoldersExist'
  BY <1>2, <1>6 DEF MakeDirectoryFails, MoveFails, InspectFails
<1>7. ASSUME NEW p \in Path, MoveIntoPlace(p) \/ PlaceCopy(p)
      PROVE  HoldersExist'
  BY <1>1, <1>7 DEF MoveIntoPlace, PlaceCopy, Placed, TypeOK
<1>8. ASSUME NEW p \in Path, StageCopy(p) \/ LeaveStale(p)
      PROVE  HoldersExist'
  BY <1>1, <1>8 DEF StageCopy, LeaveStale
<1>9. ASSUME NEW p \in Path, RemoveStale(p)
      PROVE  HoldersExist'
  BY <1>1, <1>9 DEF RemoveStale, TypeOK
<1>10. ASSUME NEW d \in Path, RemoveEmptyDirs(d)
       PROVE  HoldersExist'
  <2>1. Holding' = Holding
    BY <1>10 DEF RemoveEmptyDirs
  <2>2. \A e \in Path : e \in EmptyFrom(d) => e \notin Holding
    BY DEF EmptyFrom
  <2>3. \A e \in Path : tree'[e] = tree[e] \/ e \in EmptyFrom(d)
    BY <1>10 DEF RemoveEmptyDirs
  <2> QED
    BY <1>1, <2>1, <2>2, <2>3
<1>11. CASE TruncateRecord \/ WriteRecord
  <2>1. Holding' = Holding /\ tree[Record] # "dir"
    BY <1>11 DEF TruncateRecord, WriteRecord, RecordOpen
  <2>2. \A d \in Path : d # Record => tree'[d] = tree[d]
    BY <1>11 DEF TruncateRecord, WriteRecord, TypeOK
  <2> QED
    BY <1>1, <2>1, <2>2
<1>12. CASE CopyFails
  BY <1>12, StagingExists DEF CopyFails
<1>13. CASE CleanUpFails
  BY <1>13 DEF CleanUpFails, Forget
<1>14. CASE Crash
  BY <1>14, StagingExists DEF Crash, Dies, Forget
<1>15. ASSUME NEW p \in Path, NEW k \in {"none", "dir", "hand", "special"}, EditFile(p, k)
       PROVE  HoldersExist'
  <2>1. scratch = {} /\ scratch' = {} /\ litter' = litter \ (Under(p) \cup {p})
    BY <1>15 DEF EditFile, Between
  <2>2. \A d \in Path : d \notin Under(p) \cup {p} /\ tree[d] = "dir" => tree'[d] = "dir"
    BY <1>15 DEF EditFile, Under
  <2> QED
    BY <1>1, <2>1, <2>2
<1>16. ASSUME NEW k \in {"none", "torn"}, EditRecord(k)
       PROVE  HoldersExist'
  <2>1. scratch = {} /\ scratch' = {} /\ litter' = litter \ (Under(Record) \cup {Record})
    BY <1>16 DEF EditRecord, Between
  <2>2. \A d \in Path : d \notin Under(Record) \cup {Record} /\ tree[d] = "dir" => tree'[d] = "dir"
    BY <1>16 DEF EditRecord, Under
  <2> QED
    BY <1>1, <2>1, <2>2
<1>17. CASE UNCHANGED vars
  BY <1>1, <1>17 DEF vars
<1> QED
  BY <1>3, <1>4, <1>5, <1>6, <1>7, <1>8, <1>9, <1>10, <1>11, <1>12, <1>13, <1>14,
     <1>15, <1>16, <1>17
     DEF Next, RunStep, Merge, Prune, WriteOutputRecord, Person

\* A run reports success only from a record that is the one it produced.
LEMMA SuccessStep ==
    ASSUME TypeOK, PlansAgree, FilesMoved, StaleGone, SuccessIsExact, [Next]_vars
    PROVE  SuccessIsExact'
<1>1. ASSUME pc' # "cleanup" \/ failure' # "none"
      PROVE  SuccessIsExact'
  BY <1>1 DEF SuccessIsExact
<1>2. CASE RecordUnchanged
  BY <1>2 DEF RecordUnchanged, SuccessIsExact, FilesMoved, StaleGone, Merged, Pruned,
              Produced, Stale
<1>3. CASE WriteRecord
  <2>1. Record \notin Produced /\ pc = "writing"
    BY <1>3 DEF WriteRecord, PlansAgree, Checked, Reserved
  <2>2. Produced' = Produced /\ Stale' = Stale
    BY <1>3 DEF WriteRecord, Produced, Stale
  <2>3. \A p \in Path : p # Record => tree'[p] = tree[p]
    BY <1>3 DEF WriteRecord, TypeOK
  <2>4. tree'[Record] = "record" /\ recorded' = Produced
    BY <1>3, PathAssumption DEF PathAssumption, WriteRecord, TypeOK
  <2>5. Produced \in SUBSET Path /\ Stale \in SUBSET Path
    BY DEF TypeOK, Produced, Stale
  <2>6. \A p \in Produced : tree[p] = "generated"
    BY <2>1 DEF FilesMoved, Merged
  <2>7. \A p \in Stale : tree[p] \notin Regular
    BY <2>1 DEF StaleGone, Pruned
  <2> QED
    BY <2>1, <2>2, <2>3, <2>4, <2>5, <2>6, <2>7 DEF SuccessIsExact
<1>4. CASE UNCHANGED vars
  BY <1>4 DEF vars, SuccessIsExact, Produced, Stale
<1>5. ASSUME NEW stage \in Failures \ {"none"}, Fail(stage)
      PROVE  SuccessIsExact'
  BY <1>1, <1>5 DEF Fail
<1>6. CASE RefusePlans \/ RecordInTheWay \/ StepFails
  BY <1>5, <1>6 DEF RefusePlans, RecordInTheWay, StepFails, Failures
<1>7. ASSUME NEW p \in Path,
             MakeDirectoryFails(p) \/ MoveFails(p) \/ InspectFails(p)
      PROVE  SuccessIsExact'
  BY <1>5, <1>7 DEF MakeDirectoryFails, MoveFails, InspectFails, Failures
<1>8. CASE LoadRecord \/ RefuseRecord \/ GeneratorsSucceed \/ GeneratorsFail
           \/ AcceptPlans \/ StartMoving \/ StartPruning \/ StartSweeping
           \/ StartRecording \/ TruncateRecord
  BY <1>1, <1>8
     DEF LoadRecord, RefuseRecord, GeneratorsSucceed, GeneratorsFail, AcceptPlans,
         StartMoving, StartPruning, StartSweeping, StartRecording, TruncateRecord
<1>9. CASE CopyFails \/ CleanUp \/ CleanUpFails \/ CrashGenerating \/ Crash
  BY <1>1, <1>9 DEF CopyFails, CleanUp, CleanUpFails, CrashGenerating, Crash, Dies
<1>10. ASSUME NEW p \in Path,
              MakeDirectory(p) \/ MoveIntoPlace(p) \/ StageCopy(p) \/ PlaceCopy(p)
                  \/ RemoveStale(p) \/ LeaveStale(p) \/ RemoveEmptyDirs(p)
       PROVE  SuccessIsExact'
  BY <1>1, <1>10
     DEF MakeDirectory, MoveIntoPlace, StageCopy, PlaceCopy, Placed, RemoveStale, LeaveStale,
         RemoveEmptyDirs
<1>11. CASE Person
  BY <1>1, <1>11 DEF Person, EditFile, EditRecord
<1> QED
  BY <1>2, <1>3, <1>4, <1>6, <1>7, <1>8, <1>9, <1>10, <1>11
     DEF Next, RunStep, Merge, Prune, WriteOutputRecord

-----------------------------------------------------------------------------
(***************************************************************************)
(* What the sweep leaves.                                                  *)
(***************************************************************************)
\* Neither a run nor a person takes a mount point away.
LEMMA MountsStep ==
    ASSUME TypeOK, MountsStand, RecordOpen, [Next]_vars
    PROVE  MountsStand'
<1> USE DEF MountsStand
<1>1. ASSUME mounts' = mounts, \A m \in mounts : tree[m] = "dir" => tree'[m] = "dir"
      PROVE  MountsStand'
  BY <1>1
<1>2. ASSUME tree' = tree, mounts' = mounts
      PROVE  MountsStand'
  BY <1>2
<1>3. CASE LoadRecord \/ RefuseRecord \/ RefusePlans \/ AcceptPlans \/ StartMoving
           \/ StartPruning \/ StartSweeping \/ StartRecording \/ RecordUnchanged
           \/ RecordInTheWay \/ StepFails \/ CleanUp \/ CopyFails \/ CleanUpFails \/ Crash
  BY <1>2, <1>3
     DEF LoadRecord, RefuseRecord, RefusePlans, AcceptPlans, StartMoving, StartPruning,
         StartSweeping, StartRecording, RecordUnchanged, RecordInTheWay, StepFails, CleanUp,
         CopyFails, CleanUpFails, Crash, Dies, Fail
<1>4. ASSUME NEW p \in Path,
             MakeDirectoryFails(p) \/ MoveFails(p) \/ InspectFails(p)
                 \/ StageCopy(p) \/ LeaveStale(p)
      PROVE  MountsStand'
  BY <1>2, <1>4
     DEF MakeDirectoryFails, MoveFails, InspectFails, StageCopy, LeaveStale, Fail
<1>5. CASE GeneratorsSucceed \/ GeneratorsFail \/ CrashGenerating
  BY <1>1, <1>5
     DEF GeneratorsSucceed, GeneratorsFail, CrashGenerating, Dies, OutDirs, WithDirs, TypeOK
<1>6. ASSUME NEW p \in Path, MakeDirectory(p) \/ MoveIntoPlace(p) \/ PlaceCopy(p) \/ RemoveStale(p)
      PROVE  MountsStand'
  BY <1>1, <1>6 DEF MakeDirectory, WithDirs, MoveIntoPlace, PlaceCopy, Placed, RemoveStale, TypeOK
<1>7. ASSUME NEW d \in Path, RemoveEmptyDirs(d)
      PROVE  MountsStand'
  BY <1>1, <1>7 DEF RemoveEmptyDirs, EmptyFrom, TypeOK
<1>8. CASE TruncateRecord \/ WriteRecord
  <2>1. tree[Record] # "dir"
    BY <1>8 DEF TruncateRecord, WriteRecord, RecordOpen
  <2> QED
    BY <1>1, <1>8, <2>1 DEF TruncateRecord, WriteRecord, TypeOK
<1>9. CASE Person
  <2>1. ASSUME NEW p \in Path, NEW k, EditFile(p, k)
        PROVE  MountsStand'
    BY <1>1, <2>1 DEF EditFile, Under, TypeOK
  <2>2. ASSUME NEW k, EditRecord(k)
        PROVE  MountsStand'
    BY <1>1, <2>2, BoundAssumption DEF BoundAssumption, EditRecord, TypeOK
  <2> QED
    BY <1>9, <2>1, <2>2 DEF Person
<1>10. CASE UNCHANGED vars
  BY <1>2, <1>10 DEF vars
<1> QED
  BY <1>3, <1>4, <1>5, <1>6, <1>7, <1>8, <1>9, <1>10
     DEF Next, RunStep, Merge, Prune, WriteOutputRecord

\* Where the climb from d stops, the directory is occupied, and stays so.
LEMMA ClimbStops ==
    ASSUME TypeOK, TreeWellFormed, HoldersExist, MountsStand,
           NEW d \in Path, RemoveEmptyDirs(d), tree[d] = "dir",
           NEW e \in Chain(d), tree'[e] = "dir"
    PROVE  Occupied(e)'
<1> USE PathAssumption, TreeAssumption DEF PathAssumption, TreeAssumption
<1>1. e \in Path /\ e \notin EmptyFrom(d)
  BY ChainInPath DEF RemoveEmptyDirs
<1>2. (Holding \cup mounts)' = Holding \cup mounts
  BY DEF RemoveEmptyDirs, Holding
<1>3. CASE e \in Holding \cup mounts
  BY <1>2, <1>3 DEF Occupied
<1>4. CASE e \notin Holding \cup mounts
  <2>1. PICK q \in Under(e) \cup {e} :
            q \in Holding \cup mounts \/ (q \notin Chain(d) /\ tree[q] # "none")
    BY <1>1 DEF EmptyFrom
  <2>2. q \in Under(e) /\ q \in Path
    BY <1>4, <2>1 DEF Under
  <2>3. tree[q] # "none"
    BY <2>1, <2>2 DEF HoldersExist, MountsStand
  <2>4. q \notin EmptyFrom(d)
    BY <2>1 DEF EmptyFrom
  <2>5. tree'[q] # "none"
    BY <2>2, <2>3, <2>4 DEF RemoveEmptyDirs
  <2> QED
    BY <2>2, <2>5 DEF Occupied, Under
<1> QED
  BY <1>3, <1>4

LEMMA SweepStep ==
    ASSUME TypeOK, TreeWellFormed, HoldersExist, MountsStand, Climbed, SweptDirsAreOccupied,
           NEW d \in Path, RemoveEmptyDirs(d)
    PROVE  Climbed' /\ SweptDirsAreOccupied'
<1> USE PathAssumption, TreeAssumption DEF PathAssumption, TreeAssumption
<1>0. /\ pc = "sweep" /\ d \in emptied \ swept
      /\ swept' = swept \cup {d} /\ emptied' = emptied
      /\ (Holding \cup mounts)' = Holding \cup mounts
      /\ swept \subseteq Path /\ emptied \subseteq Path
  BY DEF RemoveEmptyDirs, FirstByName, Holding, TypeOK
<1>1. CASE tree[d] # "dir"
  <2>1. tree' = tree
    BY <1>1 DEF RemoveEmptyDirs
  <2>2. PICK c \in swept : d \in Chain(c)
    BY <1>0, <1>1 DEF Climbed
  <2>3. Chain(d) \subseteq Chain(c)
    BY <1>0, <2>2, ChainClosed DEF Chain
  <2>4. \A e : Occupied(e) => Occupied(e)'
    BY <1>0, <2>1 DEF Occupied, Under
  <2>5. SweptDirsAreOccupied'
    BY <1>0, <2>1, <2>2, <2>3, <2>4 DEF SweptDirsAreOccupied, Chain
  <2>6. Climbed'
    BY <1>0, <2>1 DEF Climbed, Chain
  <2> QED
    BY <2>5, <2>6
<1>2. CASE tree[d] = "dir"
  <2>1. tree' = [p \in Path |-> IF p \in EmptyFrom(d) THEN "none" ELSE tree[p]]
    BY <1>2 DEF RemoveEmptyDirs
  <2>2. EmptyFrom(d) \subseteq Chain(d)
    BY DEF EmptyFrom
  <2>3. Climbed'
    <3> SUFFICES ASSUME NEW e \in emptied, tree'[e] # "dir"
                 PROVE  \E c \in swept' : e \in Chain(c)
      BY <1>0 DEF Climbed, Chain
    <3>1. CASE tree[e] = "dir"
      BY <1>0, <2>1, <2>2, <3>1
    <3>2. CASE tree[e] # "dir"
      BY <1>0, <3>2 DEF Climbed
    <3> QED
      BY <3>1, <3>2
  <2>4. SweptDirsAreOccupied'
    <3> SUFFICES ASSUME NEW c \in swept', NEW e \in Chain(c), tree'[e] = "dir"
                 PROVE  Occupied(e)'
      BY DEF SweptDirsAreOccupied, Chain
    <3>1. CASE e \in Chain(d)
      BY <1>2, <3>1, ClimbStops
    <3>2. CASE e \notin Chain(d)
      <4>1. c \in swept /\ e \in Path /\ e # Root
        BY <1>0, <3>2, ChainInPath
      <4>2. Occupied(e)
        BY <2>1, <4>1 DEF SweptDirsAreOccupied
      <4>3. ASSUME NEW q \in Under(e), tree[q] # "none"
            PROVE  tree'[q] # "none"
        <5>1. q \in Path /\ e \in Above[q]
          BY <4>1, <4>3 DEF Under
        <5>2. q \notin Chain(d)
          BY <3>2, <5>1, ChainClosed
        <5> QED
          BY <2>1, <2>2, <4>3, <5>1, <5>2
      <4> QED
        BY <1>0, <4>2, <4>3 DEF Occupied, Under
    <3> QED
      BY <3>1, <3>2
  <2> QED
    BY <2>3, <2>4
<1> QED
  BY <1>1, <1>2

\* What has been swept stays swept, whatever the step.
LEMMA OccupiedStep ==
    ASSUME TypeOK, TreeWellFormed, RecordOpen, HoldersExist, MountsStand,
           SweepComesLast, Climbed, SweptDirsAreOccupied, [Next]_vars
    PROVE  SweepComesLast' /\ Climbed' /\ SweptDirsAreOccupied'
<1> DEFINE Goal == SweepComesLast' /\ Climbed' /\ SweptDirsAreOccupied'
<1>1. ASSUME emptied' = {}, swept' = {}
      PROVE  Goal
  BY <1>1 DEF SweepComesLast, Climbed, SweptDirsAreOccupied
<1>2. ASSUME emptied' = emptied, swept' = swept, emptied = {}, swept = {}
      PROVE  Goal
  BY <1>1, <1>2
<1>3. ASSUME UNCHANGED <<tree, emptied, swept, scratch, litter, mounts>>,
             pc' \in Unpruned => pc \in Unpruned,
             pc' = "prune" => pc \in Unpruned \cup {"prune"},
             pc' = "sweep" => pc \in {"prune", "sweep"}
      PROVE  Goal
  <2>1. SweepComesLast'
    BY <1>3 DEF SweepComesLast, Unpruned
  <2>2. Climbed'
    BY <1>3 DEF SweepComesLast, Unpruned, Climbed, Chain
  <2>3. SweptDirsAreOccupied'
    BY <1>3 DEF SweptDirsAreOccupied, Chain, Occupied, Under, Holding
  <2> QED
    BY <2>1, <2>2, <2>3
<1>4. ASSUME NEW stage, Fail(stage)
      PROVE  Goal
  BY <1>3, <1>4 DEF Fail, Unpruned
<1>5. CASE LoadRecord \/ RefuseRecord \/ GeneratorsSucceed \/ GeneratorsFail
  BY <1>2, <1>5
     DEF LoadRecord, RefuseRecord, GeneratorsSucceed, GeneratorsFail, SweepComesLast, Unpruned
<1>6. CASE CleanUp \/ CleanUpFails \/ CrashGenerating \/ Crash
  BY <1>1, <1>6 DEF CleanUp, CleanUpFails, CrashGenerating, Crash, Dies, Forget
<1>7. CASE AcceptPlans \/ StartMoving \/ StartPruning \/ StartSweeping \/ StartRecording
           \/ RecordUnchanged
  BY <1>3, <1>7
     DEF AcceptPlans, StartMoving, StartPruning, StartSweeping, StartRecording,
         RecordUnchanged, Unpruned
<1>8. CASE RefusePlans \/ RecordInTheWay \/ StepFails
  BY <1>4, <1>8 DEF RefusePlans, RecordInTheWay, StepFails
<1>9. ASSUME NEW p \in Path,
             MakeDirectoryFails(p) \/ MoveFails(p) \/ InspectFails(p)
      PROVE  Goal
  BY <1>4, <1>9 DEF MakeDirectoryFails, MoveFails, InspectFails
<1>10. ASSUME NEW p \in Path,
              MakeDirectory(p) \/ MoveIntoPlace(p) \/ StageCopy(p) \/ PlaceCopy(p)
       PROVE  Goal
  BY <1>2, <1>10
     DEF MakeDirectory, MoveIntoPlace, StageCopy, PlaceCopy, Placed, SweepComesLast, Unpruned
<1>11. ASSUME NEW p \in Path, LeaveStale(p)
       PROVE  Goal
  BY <1>3, <1>11 DEF LeaveStale
<1>12. ASSUME NEW p \in Path, RemoveStale(p)
       PROVE  Goal
  <2>1. pc = "prune" /\ pc' = "prune" /\ swept' = swept /\ tree' = [tree EXCEPT ![p] = "none"]
        /\ tree[p] \in Regular /\ emptied' = emptied \cup ({Parent[p]} \ {Root})
        /\ (Holding \cup mounts)' = Holding \cup mounts
    BY <1>12 DEF RemoveStale, Holding
  <2>2. Parent[p] # Root => tree[Parent[p]] = "dir"
    BY <2>1, TreeAssumption DEF TreeAssumption, TreeWellFormed
  <2>3. \A d \in Path : tree[d] = "dir" => tree'[d] = "dir"
    BY <2>1 DEF TypeOK
  <2>4. emptied \subseteq Path /\ (Parent[p] # Root => Parent[p] \in Path)
    BY TreeAssumption DEF TreeAssumption, TypeOK
  <2>5. Climbed'
    BY <2>1, <2>2, <2>3, <2>4 DEF Climbed, Chain
  <2>6. swept = {}
    BY <2>1 DEF SweepComesLast
  <2>7. SweepComesLast' /\ SweptDirsAreOccupied'
    BY <2>1, <2>6 DEF SweepComesLast, Unpruned, SweptDirsAreOccupied
  <2> QED
    BY <2>5, <2>7
<1>13. ASSUME NEW d \in Path, RemoveEmptyDirs(d)
       PROVE  Goal
  <2>1. pc = "sweep" /\ pc' = "sweep"
    BY <1>13 DEF RemoveEmptyDirs
  <2> QED
    BY <1>13, <2>1, SweepStep DEF SweepComesLast, Unpruned
<1>14. CASE TruncateRecord \/ WriteRecord
  <2>1. pc' \in {"writing", "cleanup"} /\ UNCHANGED <<emptied, swept, scratch, litter, mounts>>
    BY <1>14 DEF TruncateRecord, WriteRecord
  <2>2. \A e \in Path : /\ tree'[e] = "dir" => tree[e] = "dir"
                        /\ tree[e] # "none" => tree'[e] # "none"
    BY <1>14 DEF TruncateRecord, WriteRecord, TypeOK
  <2>3. \A c \in swept : Chain(c) \subseteq Path
    BY PathAssumption DEF PathAssumption, Chain, TypeOK
  <2>4. SweptDirsAreOccupied'
    BY <2>1, <2>2, <2>3 DEF SweptDirsAreOccupied, Chain, Occupied, Under, Holding
  <2> QED
    BY <2>1, <2>4 DEF SweepComesLast, Unpruned, Climbed
<1>15. CASE CopyFails
  BY <1>2, <1>15 DEF CopyFails, SweepComesLast, Unpruned
<1>16. CASE Person
  BY <1>2, <1>16 DEF Person, EditFile, EditRecord, SweepComesLast, Unpruned
<1>17. CASE UNCHANGED vars
  BY <1>3, <1>17 DEF vars, Unpruned
<1> QED
  BY <1>5, <1>6, <1>7, <1>8, <1>9, <1>10, <1>11, <1>12, <1>13, <1>14, <1>15, <1>16, <1>17
     DEF Next, RunStep, Merge, Prune, WriteOutputRecord

-----------------------------------------------------------------------------
(***************************************************************************)
(* The theorems.                                                           *)
(***************************************************************************)
LEMMA InitInv == Init => Inv
<1> SUFFICES ASSUME Init PROVE Inv
  OBVIOUS
<1>1. TypeOK
  <2>1. mounts \subseteq Path
    BY BoundAssumption DEF BoundAssumption, Init
  <2>2. Record \in Path /\ tree[Record] = "none"
    <3>1. \A m \in mounts : Record \notin Chain(m)
      BY BoundAssumption, PathAssumption DEF BoundAssumption, PathAssumption, Init, Chain
    <3> QED
      BY <3>1, BoundAssumption, PathAssumption DEF BoundAssumption, PathAssumption, Init
  <2>3. tree \in [Path -> Kinds]
    BY DEF Init, Kinds
  <2> QED
    BY <2>1, <2>2, <2>3 DEF Init, TypeOK, Stages, Failures, NoPlan
<1> QED
  BY <1>1 DEF Init, Inv, TreeWellFormed, Between, KnowsRecord, PlansAgree, DirsMade,
              RecordOpen, FilesMoved, StaleGone, HoldersExist, Holding, SuccessIsExact,
              Reading, Checked, Merged, Pruned, MountsStand, SweepComesLast, Climbed,
              SweptDirsAreOccupied

LEMMA InvStep == Inv /\ [Next]_vars => Inv'
<1> SUFFICES ASSUME Inv, [Next]_vars PROVE Inv'
  OBVIOUS
<1>1. TypeOK'
  BY TypeStep DEF Inv
<1>2. TreeWellFormed' /\ DirsMade' /\ RecordOpen'
  BY ShapeStep DEF Inv
<1>3. Between' /\ KnowsRecord'
  BY KnowledgeStep DEF Inv
<1>4. PlansAgree'
  BY PlansAgreeStep DEF Inv
<1>5. FilesMoved' /\ StaleGone'
  BY FilesStep DEF Inv
<1>6. SuccessIsExact'
  BY SuccessStep DEF Inv
<1>7. HoldersExist'
  BY HoldersStep DEF Inv
<1>8. MountsStand'
  BY MountsStep DEF Inv
<1>9. SweepComesLast' /\ Climbed' /\ SweptDirsAreOccupied'
  BY OccupiedStep DEF Inv
<1> QED
  BY <1>1, <1>2, <1>3, <1>4, <1>5, <1>6, <1>7, <1>8, <1>9 DEF Inv

LEMMA Invariance == Spec => []Inv
  BY InitInv, InvStep, PTL DEF Spec

\* Every variable keeps its type: in particular avroc's record never names
\* itself, because a plan that holds the record's path is refused.
THEOREM TypeCorrect == Spec => []TypeOK
  BY Invariance, PTL DEF Inv

\* No crash, I/O error, conflict or edit leaves an entry below something that
\* is not a directory.
THEOREM TreeStaysWellFormed == Spec => []TreeWellFormed
  BY Invariance, PTL DEF Inv

\* A run that reports success has left exactly what its generators produced,
\* on disk and in the record.
THEOREM SuccessExact == Spec => []SuccessIsExact
  BY Invariance, PTL DEF Inv

\* The sweep of a run takes no directory from under a scratch directory it
\* still has to remove, nor from under what an earlier run left behind.
THEOREM TemporariesKept == Spec => []TemporariesKeepTheirPlace
<1>1. Inv => TemporariesKeepTheirPlace
  BY StagingExists DEF Inv, HoldersExist, TemporariesKeepTheirPlace
<1> QED
  BY <1>1, Invariance, PTL

\* A directory a file was pruned from is gone after the sweep, with every one
\* above it, unless something is in it or it is a mount point.
THEOREM SweptOrOccupied == Spec => []SweptDirsAreOccupied
  BY Invariance, PTL DEF Inv

-----------------------------------------------------------------------------
(***************************************************************************)
(* What a run may touch.                                                   *)
(***************************************************************************)
Touched == \A p \in Path \ {Record} : tree'[p] # tree[p] => MayChange(p)

LEMMA SweepTouches ==
    ASSUME TypeOK, TreeWellFormed, NEW d \in Path, RemoveEmptyDirs(d)
    PROVE  Touched
<1> SUFFICES ASSUME NEW p \in Path, tree'[p] # tree[p]
             PROVE  MayChange(p)
  BY DEF Touched
<1>1. /\ tree[d] = "dir"
      /\ tree' = [q \in Path |-> IF q \in EmptyFrom(d) THEN "none" ELSE tree[q]]
      /\ p \in EmptyFrom(d)
  BY DEF RemoveEmptyDirs
<1>2. tree[p] = "dir"
  BY <1>1, SweptAreDirs
<1>3. ASSUME NEW q \in Under(p)
      PROVE  tree[q] \in {"none", "dir"} /\ tree'[q] = "none"
  <2>1. q \in Path /\ p \in Above[q]
    <3>1. p # Root
      BY PathAssumption DEF PathAssumption
    <3> QED
      BY <1>3, <3>1 DEF Under
  <2>2. CASE tree[q] = "none"
    BY <1>1, <2>1, <2>2
  <2>3. CASE tree[q] # "none"
    <3>1. q \in EmptyFrom(d)
      BY <1>1, <2>1, <2>3, SweptAreDirs
    <3> QED
      BY <1>1, <2>1, <3>1, SweptAreDirs
  <2> QED
    BY <2>2, <2>3
<1> QED
  BY <1>1, <1>2, <1>3 DEF MayChange

\* One step of a run, and the deaths of its process.
LEMMA StepTouches ==
    ASSUME TypeOK, TreeWellFormed, pc # "idle", [Next]_vars
    PROVE  Touched
<1>1. CASE UNCHANGED tree
  BY <1>1 DEF Touched
<1>2. ASSUME NEW made \in SUBSET Creatable, tree' = OutDirs(tree, made)
      PROVE  Touched
  <2> DEFINE S == UNION {Chain(OutDir[g]) : g \in made}
  <2>1. \A p \in S : tree[p] \in {"none", "dir"}
    BY DEF Creatable, Blocked
  <2> HIDE DEF S
  <2>2. tree' = WithDirs(tree, S)
    BY <1>2 DEF OutDirs, S
  <2> QED
    BY <2>1, <2>2 DEF WithDirs, Touched, MayChange
<1>3. ASSUME NEW p \in Path, MakeDirectory(p)
      PROVE  Touched
  BY <1>3 DEF MakeDirectory, Blocked, WithDirs, Touched, MayChange
<1>4. ASSUME NEW p \in Path, MoveIntoPlace(p) \/ PlaceCopy(p)
      PROVE  Touched
  <2>1. p \in Produced /\ Placed(p)
    BY <1>4 DEF MoveIntoPlace, PlaceCopy, ToMove, FirstPlanned
  <2> QED
    BY <2>1 DEF Placed, Touched, MayChange, TypeOK
<1>5. ASSUME NEW p \in Path, RemoveStale(p)
      PROVE  Touched
  <2>1. p \in Stale
    BY <1>5 DEF RemoveStale, FirstByName
  <2> QED
    BY <1>5, <2>1 DEF RemoveStale, Touched, MayChange, TypeOK
<1>6. ASSUME NEW d \in Path, RemoveEmptyDirs(d)
      PROVE  Touched
  BY <1>6, SweepTouches
<1>7. CASE TruncateRecord \/ WriteRecord
  BY <1>7 DEF TruncateRecord, WriteRecord, Touched, TypeOK
<1>8. ASSUME NEW p \in Path,
             MakeDirectoryFails(p) \/ MoveFails(p) \/ StageCopy(p)
                 \/ LeaveStale(p) \/ InspectFails(p)
      PROVE  Touched
  BY <1>1, <1>8
     DEF MakeDirectoryFails, MoveFails, StageCopy, LeaveStale, InspectFails, Fail
<1>9. CASE LoadRecord \/ RefuseRecord \/ RefusePlans \/ AcceptPlans \/ StartMoving
           \/ StartPruning \/ StartSweeping \/ StartRecording \/ RecordUnchanged
           \/ RecordInTheWay \/ CleanUp \/ StepFails \/ CopyFails
           \/ CleanUpFails \/ Crash
  BY <1>1, <1>9
     DEF LoadRecord, RefuseRecord, RefusePlans, AcceptPlans, StartMoving, StartPruning,
         StartSweeping, StartRecording, RecordUnchanged, RecordInTheWay, CleanUp,
         StepFails, CopyFails, CleanUpFails, Crash, Fail
<1>10. CASE GeneratorsSucceed \/ GeneratorsFail \/ CrashGenerating
  BY <1>2, <1>10 DEF GeneratorsSucceed, GeneratorsFail, CrashGenerating
<1>11. CASE Person
  BY <1>11 DEF Person, EditFile, EditRecord
<1>12. CASE UNCHANGED vars
  BY <1>1, <1>12 DEF vars
<1> QED
  BY <1>3, <1>4, <1>5, <1>6, <1>7, <1>8, <1>9, <1>10, <1>11, <1>12
     DEF Next, RunStep, Merge, Prune, WriteOutputRecord

\* A run changes nothing in the project but directories it makes, files it
\* produced, regular files it had recorded, and directories left empty.
THEOREM TouchesOnly == Spec => TouchesOnlyItsOwn
<1>1. Inv /\ [Next]_vars =>
        [pc # "idle" => \A p \in Path \ {Record} : tree'[p] # tree[p] => MayChange(p)]_vars
  BY StepTouches DEF Inv, Touched
<1> QED
  BY <1>1, Invariance, PTL DEF Spec, TouchesOnlyItsOwn

-----------------------------------------------------------------------------
(***************************************************************************)
(* The refinement.                                                         *)
(***************************************************************************)
Running == pc \notin {"idle", "generate"}
OnDisk == {p \in Path : tree[p] \in Regular}
Owned == IF pc = "writing" THEN previous ELSE recorded

LEMMA InitRefines == Init => Ledger!LInit
  BY DEF Init, Ledger!LInit, Ledger!Nothing, NoPlan

\* Directories come and go without touching a file.
LEMMA OutDirsKeepFiles ==
    ASSUME TypeOK, NEW made \in SUBSET Creatable, tree' = OutDirs(tree, made)
    PROVE  OnDisk' = OnDisk
<1>1. \A g \in Creatable : \A p \in Chain(OutDir[g]) : tree[p] \in {"none", "dir"}
  BY DEF Creatable, Blocked
<1> QED
  BY <1>1 DEF OutDirs, WithDirs, OnDisk

LEMMA AgreedPlans ==
    ASSUME PlansAgree, pc \in Checked
    PROVE  Ledger!Agreed
  BY DEF PlansAgree, Collides, Reserved, Produced, Ledger!Agreed, Ledger!Claimed

\* Every step of the run is a step of the ledger, or invisible to it.
LEMMA StepRefines ==
    ASSUME Inv, [Next]_vars
    PROVE  [Ledger!LNext]_(Ledger!lvars)
<1> DEFINE Goal == [Ledger!LNext]_(Ledger!lvars)
<1> USE DEF Inv
<1>1. ASSUME Running' = Running, plan' = plan, OnDisk' = OnDisk, Owned' = Owned
      PROVE  Goal
  BY <1>1 DEF Running, OnDisk, Owned, Ledger!lvars
<1>2. ASSUME NEW stage, Fail(stage), Running
      PROVE  Goal
  <2>1. CASE pc = "writing"
    <3>1. Ledger!Lose
      BY <1>2, <2>1 DEF Fail, RecordOpen, Ledger!Lose
    <3> QED
      BY <3>1 DEF Ledger!LNext
  <2>2. CASE pc # "writing"
    BY <1>1, <1>2, <2>2 DEF Fail, Running, OnDisk, Owned
  <2> QED
    BY <2>1, <2>2
<1>3. ASSUME Running, pc' = "idle", plan' = NoPlan, tree' = tree, recorded' = recorded
      PROVE  Goal
  <2>1. CASE pc = "writing"
    <3>1. Ledger!Lose
      BY <1>3, <2>1 DEF RecordOpen, Running, Ledger!Lose, Ledger!Halted, Ledger!Nothing, NoPlan
    <3> QED
      BY <3>1 DEF Ledger!LNext
  <2>2. CASE pc # "writing"
    <3>1. Ledger!Stop
      BY <1>3, <2>2 DEF Running, Ledger!Stop, Ledger!Halted, Ledger!Nothing, NoPlan
    <3> QED
      BY <3>1 DEF Ledger!LNext
  <2> QED
    BY <2>1, <2>2
<1>4. ASSUME ~Running, Running', plan' \in [Gen -> SUBSET Path], OnDisk' = OnDisk,
             pc' # "writing", recorded' = recorded
      PROVE  Goal
  <2>1. Ledger!Begin
    BY <1>4 DEF Running, OnDisk, Ledger!Begin
  <2> QED
    BY <2>1 DEF Ledger!LNext
<1>5. CASE LoadRecord
  BY <1>1, <1>5 DEF LoadRecord, Running, OnDisk, Owned
<1>6. CASE RefuseRecord
  BY <1>4, <1>6 DEF RefuseRecord, Running, OnDisk, TypeOK
<1>7. CASE GeneratorsSucceed \/ GeneratorsFail
  <2>1. TypeOK'
    BY TypeStep
  <2>2. plan' \in [Gen -> SUBSET Path]
    BY <2>1 DEF TypeOK
  <2> QED
    BY <1>4, <1>7, <2>2, Made, OutDirsKeepFiles DEF GeneratorsSucceed, GeneratorsFail, Running
<1>8. CASE RefusePlans \/ RecordInTheWay \/ StepFails
  BY <1>2, <1>8 DEF RefusePlans, RecordInTheWay, StepFails, Running
<1>9. ASSUME NEW p \in Path,
             MakeDirectoryFails(p) \/ MoveFails(p) \/ InspectFails(p)
      PROVE  Goal
  BY <1>2, <1>9 DEF MakeDirectoryFails, MoveFails, InspectFails, Running
<1>10. CASE AcceptPlans \/ StartMoving \/ StartPruning \/ StartSweeping
            \/ StartRecording \/ RecordUnchanged
  BY <1>1, <1>10
     DEF AcceptPlans, StartMoving, StartPruning, StartSweeping, StartRecording,
         RecordUnchanged, Running, OnDisk, Owned
<1>11. ASSUME NEW p \in Path, MakeDirectory(p)
       PROVE  Goal
  <2>1. OnDisk' = OnDisk
    BY <1>11 DEF MakeDirectory, WithDirs, Blocked, OnDisk
  <2> QED
    BY <1>1, <1>11, <2>1 DEF MakeDirectory, Running, Owned
<1>12. ASSUME NEW p \in Path, MoveIntoPlace(p) \/ PlaceCopy(p)
       PROVE  Goal
  <2>1. p \in Produced /\ pc \in Moving /\ Placed(p)
    BY <1>12 DEF MoveIntoPlace, PlaceCopy, ToMove, FirstPlanned
  <2>2. OnDisk' = OnDisk \cup {p}
    BY <2>1 DEF Placed, OnDisk, TypeOK
  <2>3. Ledger!Agreed
    BY <2>1, AgreedPlans DEF Checked
  <2>4. Ledger!Adopt(p)
    BY <2>1, <2>2, <2>3 DEF Placed, OnDisk, Ledger!Adopt, Ledger!Claimed, Produced
  <2> QED
    BY <2>4 DEF Ledger!LNext
<1>13. ASSUME NEW p \in Path, RemoveStale(p)
       PROVE  Goal
  <2>1. p \in Stale /\ pc = "prune"
    BY <1>13 DEF RemoveStale, FirstByName
  <2>2. OnDisk' = OnDisk \ {p}
    BY <1>13 DEF RemoveStale, OnDisk, TypeOK
  <2>3. Ledger!Agreed
    BY <2>1, AgreedPlans DEF Checked
  <2>4. Produced \subseteq OnDisk
    BY <2>1 DEF FilesMoved, Merged, OnDisk, TypeOK, Produced
  <2>5. p \in recorded \ Produced
    BY <2>1 DEF KnowsRecord, Reading, Stale
  <2>6. Ledger!Discard(p)
    BY <1>13, <2>1, <2>2, <2>3, <2>4, <2>5
       DEF RemoveStale, OnDisk, Ledger!Discard, Ledger!Claimed, Produced
  <2> QED
    BY <2>6 DEF Ledger!LNext
<1>14. ASSUME NEW p \in Path, LeaveStale(p)
       PROVE  Goal
  BY <1>1, <1>14 DEF LeaveStale, Running, OnDisk, Owned
<1>15. ASSUME NEW d \in Path, RemoveEmptyDirs(d)
       PROVE  Goal
  <2>1. \A p \in Path : tree'[p] = tree[p] \/ (tree[p] = "dir" /\ tree'[p] = "none")
    BY <1>15, SweptAreDirs DEF RemoveEmptyDirs
  <2>2. OnDisk' = OnDisk
    BY <2>1 DEF OnDisk
  <2> QED
    BY <1>1, <1>15, <2>2 DEF RemoveEmptyDirs, Running, Owned
<1>16. CASE TruncateRecord
  <2>1. \A p \in Path : tree'[p] = tree[p] \/ (p = Record /\ tree'[p] = "torn")
    BY <1>16 DEF TruncateRecord, TypeOK
  <2>2. tree[Record] \notin Regular
    BY DEF TypeOK
  <2>3. OnDisk' = OnDisk
    BY <2>1, <2>2 DEF OnDisk
  <2>4. Owned' = Owned
    BY <1>16 DEF TruncateRecord, Owned, KnowsRecord, Reading
  <2> QED
    BY <1>1, <1>16, <2>3, <2>4 DEF TruncateRecord, Running
<1>17. CASE WriteRecord
  <2>1. OnDisk' = OnDisk
    BY <1>17, PathAssumption DEF PathAssumption, WriteRecord, RecordOpen, OnDisk, TypeOK
  <2>2. Ledger!Agreed
    BY <1>17, AgreedPlans DEF WriteRecord, Checked
  <2>3. Produced \subseteq OnDisk
    BY <1>17 DEF WriteRecord, FilesMoved, Merged, OnDisk, TypeOK, Produced
  <2>4. (previous \ Produced) \cap OnDisk = {}
    BY <1>17 DEF WriteRecord, StaleGone, Pruned, OnDisk, Stale
  <2>5. Ledger!Commit
    BY <1>17, <2>1, <2>2, <2>3, <2>4
       DEF WriteRecord, OnDisk, Ledger!Commit, Ledger!Claimed, Produced
  <2> QED
    BY <2>5 DEF Ledger!LNext
<1>18. CASE CleanUp \/ CleanUpFails \/ Crash
  BY <1>3, <1>18 DEF CleanUp, CleanUpFails, Crash, Dies, Forget, Running
<1>19. CASE CrashGenerating
  <2>1. OnDisk' = OnDisk
    BY <1>19, Made, OutDirsKeepFiles
  <2> QED
    BY <1>1, <1>19, <2>1 DEF CrashGenerating, Dies, Forget, Between, Running, Owned
<1>20. CASE Person
  <2>1. ~Running /\ ~Running' /\ plan' = plan /\ OnDisk' \in SUBSET Path
    BY <1>20 DEF Person, EditFile, EditRecord, Running, OnDisk
  <2>2. Owned' \in {Owned, {}}
    BY <1>20 DEF Person, EditFile, EditRecord, Owned
  <2>3. Ledger!Edit
    BY <2>1, <2>2 DEF Running, OnDisk, Owned, Ledger!Edit
  <2> QED
    BY <2>3 DEF Ledger!LNext
<1>21. CASE UNCHANGED vars
  BY <1>1, <1>21 DEF vars, Running, OnDisk, Owned
<1>22. ASSUME NEW p \in Path, StageCopy(p)
       PROVE  Goal
  BY <1>1, <1>22 DEF StageCopy, Running, OnDisk, Owned
<1>23. CASE CopyFails
  BY <1>1, <1>23 DEF CopyFails, Running, OnDisk, Owned
<1> QED
  BY <1>5, <1>6, <1>7, <1>8, <1>9, <1>10, <1>11, <1>12, <1>13, <1>14, <1>15, <1>16,
     <1>17, <1>18, <1>19, <1>20, <1>21, <1>22, <1>23
     DEF Next, RunStep, Merge, Prune, WriteOutputRecord

\* Merge, prune and record together implement the ledger: avroc changes only
\* what its generators produced or its record names, adopts nothing from plans
\* that collide, removes nothing before everything produced is in place, and
\* its record never forgets a file still to be removed.
THEOREM Refinement == Spec => RefinesLedger
<1>1. Init => Ledger!LInit
  BY InitRefines
<1>2. Inv /\ [Next]_vars => [Ledger!LNext]_(Ledger!lvars)
  BY StepRefines
<1> QED
  BY <1>1, <1>2, Invariance, PTL DEF Spec, RefinesLedger, Ledger!LSpec

-----------------------------------------------------------------------------
(***************************************************************************)
(* Why a run that has started does not go on for ever: every step of it    *)
(* descends.                                                               *)
(***************************************************************************)
StageRank ==
    CASE pc = "generate" -> 9 [] pc = "check" -> 8 [] pc = "mkdir" -> 7
      [] pc \in {"move", "stage"} -> 6 [] pc = "prune" -> 5 [] pc = "sweep" -> 4
      [] pc = "record" -> 3 [] pc = "writing" -> 2 [] pc = "cleanup" -> 1 [] OTHER -> 0
Unhandled == Path \ done
Unswept == Path \ swept
Uncopied == IF pc = "move" THEN 1 ELSE 0

\* What is left of a run: stages, files of the current one, directories to
\* sweep, and a copy to make.
Measure == <<StageRank, Cardinality(Unhandled), Cardinality(Unswept), Uncopied>>
RunDescends == [][pc # "idle" => Descends(Measure', Measure)]_vars

LEMMA SetShrinks ==
    ASSUME NEW S, IsFiniteSet(S), NEW T, NEW p \in S \ T
    PROVE  Cardinality(S \ (T \cup {p})) < Cardinality(S \ T)
<1>1. IsFiniteSet(S \ T)
  BY FS_Difference
<1>2. S \ (T \cup {p}) = (S \ T) \ {p}
  OBVIOUS
<1>3. Cardinality((S \ T) \ {p}) = Cardinality(S \ T) - 1 /\ Cardinality(S \ T) \in Nat
  BY <1>1, FS_RemoveElement, FS_CardinalityType
<1> QED
  BY <1>2, <1>3

LEMMA DescendsAt ==
    ASSUME NEW k \in 1..4,
           k = 1 => StageRank' < StageRank,
           k > 1 => StageRank' = StageRank,
           k = 2 => Cardinality(Unhandled)' < Cardinality(Unhandled),
           k > 2 => Cardinality(Unhandled)' = Cardinality(Unhandled),
           k = 3 => Cardinality(Unswept)' < Cardinality(Unswept),
           k > 3 => Cardinality(Unswept)' = Cardinality(Unswept) /\ Uncopied' < Uncopied
    PROVE  Descends(Measure', Measure)
<1> DEFINE a == Cardinality(Unhandled)
           b == Cardinality(Unswept)
<1>1. /\ Measure[1] = StageRank /\ Measure[2] = a /\ Measure[3] = b /\ Measure[4] = Uncopied
      /\ DOMAIN Measure = 1..4
  BY DEF Measure
<1>2. Measure'[1] = StageRank' /\ Measure'[2] = a' /\ Measure'[3] = b' /\ Measure'[4] = Uncopied'
  BY DEF Measure
<1> DEFINE new == Measure'
           old == Measure
<1> HIDE DEF new, old
<1>3. new[k] < old[k]
  BY <1>1, <1>2 DEF new, old
<1>4. \A j \in 1..(k - 1) : new[j] = old[j]
  <2> SUFFICES ASSUME NEW j \in 1..(k - 1) PROVE new[j] = old[j]
    OBVIOUS
  <2>1. j \in 1..3 /\ j < k
    OBVIOUS
  <2> QED
    BY <1>1, <1>2, <2>1 DEF new, old
<1> QED
  BY <1>1, <1>3, <1>4 DEF Descends, new, old

\* The steps that end a stage or the run.
LEMMA StageDescends ==
    ASSUME TypeOK, pc # "idle", pc' # pc,
           pc = "move" => pc' # "stage", pc = "stage" => pc' # "move", [Next]_vars
    PROVE  StageRank' < StageRank
<1> USE DEF StageRank
<1>1. ASSUME NEW stage, Fail(stage), pc # "cleanup" PROVE StageRank' < StageRank
  BY <1>1 DEF Fail, TypeOK, Stages
<1>2. CASE GeneratorsSucceed \/ GeneratorsFail
  BY <1>2 DEF GeneratorsSucceed, GeneratorsFail
<1>3. CASE RefusePlans \/ AcceptPlans \/ StartMoving
  BY <1>1, <1>3 DEF RefusePlans, AcceptPlans, StartMoving
<1>4. ASSUME NEW p \in Path, \/ MakeDirectory(p) \/ MakeDirectoryFails(p) \/ MoveIntoPlace(p)
                             \/ MoveFails(p) \/ StageCopy(p) \/ PlaceCopy(p)
      PROVE  StageRank' < StageRank
  BY <1>1, <1>4 DEF MakeDirectory, MakeDirectoryFails, MoveIntoPlace, MoveFails, StageCopy,
                    PlaceCopy, Placed
<1>5. CASE StartPruning \/ StartSweeping
  BY <1>5 DEF StartPruning, StartSweeping
<1>6. ASSUME NEW p \in Path, \/ RemoveStale(p) \/ LeaveStale(p) \/ InspectFails(p)
                             \/ RemoveEmptyDirs(p)
      PROVE  StageRank' < StageRank
  BY <1>1, <1>6 DEF RemoveStale, LeaveStale, InspectFails, RemoveEmptyDirs
<1>7. CASE WriteOutputRecord
  BY <1>1, <1>7 DEF WriteOutputRecord, StartRecording, RecordUnchanged, TruncateRecord,
                    RecordInTheWay, WriteRecord
<1>8. CASE CleanUp \/ CleanUpFails
  BY <1>8 DEF CleanUp, CleanUpFails
<1>9. CASE StepFails \/ CopyFails
  BY <1>1, <1>9 DEF StepFails, CopyFails
<1>10. CASE CrashGenerating \/ Crash
  BY <1>10 DEF CrashGenerating, Crash, Dies, TypeOK, Stages
<1>11. CASE LoadRecord \/ RefuseRecord \/ Person
  BY <1>11 DEF LoadRecord, RefuseRecord, Person, EditFile, EditRecord
<1>12. CASE UNCHANGED vars
  BY <1>12 DEF vars
<1> QED
  BY <1>2, <1>3, <1>4, <1>5, <1>6, <1>7, <1>8, <1>9, <1>10, <1>11, <1>12
     DEF Next, RunStep, Merge, Prune

\* The steps within a stage: each handles one file or one directory.
Handles(p) ==
    \/ MakeDirectory(p) \/ MoveIntoPlace(p) \/ StageCopy(p) \/ PlaceCopy(p)
    \/ RemoveStale(p) \/ LeaveStale(p) \/ RemoveEmptyDirs(p)

LEMMA WithinStage ==
    ASSUME pc # "idle", [Next]_vars, ~UNCHANGED vars,
           pc' = pc \/ (pc = "move" /\ pc' = "stage") \/ (pc = "stage" /\ pc' = "move")
    PROVE  \E p \in Path : Handles(p)
<1>1. ASSUME NEW stage, Fail(stage), pc # "cleanup", pc' = pc \/ pc' \in {"stage", "move"}
      PROVE  FALSE
  BY <1>1 DEF Fail
<1>2. ~GeneratorsSucceed /\ ~GeneratorsFail
  BY DEF GeneratorsSucceed, GeneratorsFail
<1>3. ~RefusePlans /\ ~AcceptPlans /\ ~StartMoving
  BY <1>1 DEF RefusePlans, AcceptPlans, StartMoving
<1>4. \A p \in Path : ~MakeDirectoryFails(p) /\ ~MoveFails(p)
  BY <1>1 DEF MakeDirectoryFails, MoveFails
<1>5. ~StartPruning /\ ~StartSweeping /\ \A p \in Path : ~InspectFails(p)
  BY <1>1 DEF StartPruning, StartSweeping, InspectFails
<1>6. ~WriteOutputRecord
  BY <1>1 DEF WriteOutputRecord, StartRecording, RecordUnchanged, TruncateRecord,
              RecordInTheWay, WriteRecord
<1>7. ~CleanUp /\ ~CleanUpFails /\ ~CrashGenerating /\ ~Crash
  BY DEF CleanUp, CleanUpFails, CrashGenerating, Crash, Dies
<1>8. ~StepFails /\ ~CopyFails
  BY <1>1 DEF StepFails, CopyFails
<1>9. ~LoadRecord /\ ~RefuseRecord /\ ~Person
  BY DEF LoadRecord, RefuseRecord, Person, EditFile, EditRecord
<1> QED
  BY <1>2, <1>3, <1>4, <1>5, <1>6, <1>7, <1>8, <1>9 DEF Next, RunStep, Merge, Prune, Handles

LEMMA HandlingDescends ==
    ASSUME IsFiniteSet(Path), NEW p \in Path, Handles(p)
    PROVE  Descends(Measure', Measure)
<1>1. CASE MakeDirectory(p) \/ MoveIntoPlace(p) \/ PlaceCopy(p) \/ RemoveStale(p) \/ LeaveStale(p)
  <2>1. p \notin done /\ done' = done \cup {p} /\ StageRank' = StageRank
    BY <1>1 DEF MakeDirectory, MoveIntoPlace, PlaceCopy, Placed, ToMove, RemoveStale, LeaveStale,
                FirstPlanned, FirstByName, StageRank
  <2>2. Cardinality(Unhandled)' < Cardinality(Unhandled)
    BY <2>1, SetShrinks DEF Unhandled
  <2> QED
    BY <2>1, <2>2, DescendsAt
<1>2. CASE RemoveEmptyDirs(p)
  <2>1. p \notin swept /\ swept' = swept \cup {p} /\ done' = done /\ pc' = pc
    BY <1>2 DEF RemoveEmptyDirs, FirstByName
  <2>2. Cardinality(Unswept)' < Cardinality(Unswept)
    BY <2>1, SetShrinks DEF Unswept
  <2>3. StageRank' = StageRank /\ Cardinality(Unhandled)' = Cardinality(Unhandled)
    BY <2>1 DEF StageRank, Unhandled
  <2> QED
    BY <2>2, <2>3, DescendsAt
<1>3. CASE StageCopy(p)
  <2>1. pc = "move" /\ pc' = "stage" /\ done' = done /\ swept' = swept
    BY <1>3 DEF StageCopy
  <2>2. /\ StageRank' = StageRank /\ Uncopied' < Uncopied
        /\ Cardinality(Unhandled)' = Cardinality(Unhandled)
        /\ Cardinality(Unswept)' = Cardinality(Unswept)
    BY <2>1 DEF StageRank, Uncopied, Unhandled, Unswept
  <2> QED
    BY <2>2, DescendsAt
<1> QED
  BY <1>1, <1>2, <1>3 DEF Handles

\* Every step of a run that has started leaves a smaller tuple of natural
\* numbers, in a project of finitely many entries: with Descent_proofs, the
\* merge, the pruning, the sweep and the record take finitely many steps,
\* whichever of them fails.
THEOREM StartedRunDescends ==
    ASSUME IsFiniteSet(Path)
    PROVE  Spec => RunDescends /\ [](Measure \in [1..4 -> Nat])
<1>1. Cardinality(Unhandled) \in Nat /\ Cardinality(Unswept) \in Nat
  BY FS_Difference, FS_CardinalityType DEF Unhandled, Unswept
<1>2. Measure \in [1..4 -> Nat]
  BY <1>1 DEF Measure, StageRank, Uncopied
<1>3. Inv /\ [Next]_vars => [pc # "idle" => Descends(Measure', Measure)]_vars
  <2> SUFFICES ASSUME Inv, [Next]_vars, ~UNCHANGED vars, pc # "idle"
               PROVE  Descends(Measure', Measure)
    OBVIOUS
  <2>1. CASE pc' = pc \/ (pc = "move" /\ pc' = "stage") \/ (pc = "stage" /\ pc' = "move")
    BY <2>1, WithinStage, HandlingDescends
  <2>2. CASE ~(pc' = pc \/ (pc = "move" /\ pc' = "stage") \/ (pc = "stage" /\ pc' = "move"))
    <3>1. StageRank' < StageRank
      BY <2>2, StageDescends DEF Inv
    <3> DEFINE k == 1
    <3>2. k \in 1..4
      OBVIOUS
    <3> QED
      BY <3>1, <3>2, DescendsAt
  <2> QED
    BY <2>1, <2>2
<1> QED
  BY <1>2, <1>3, Invariance, PTL DEF Spec, RunDescends

==============================================================================
