------------------------ MODULE GeneratorPool_proofs ------------------------
(***************************************************************************)
(* Proofs about GeneratorPool, for any number of generators, any bound on  *)
(* goroutines and any faults.  The inductive invariant reads generator.run *)
(* line by line: at each step of an invocation, which directories exist,   *)
(* whether its process lives, and whether a plan or an error is held.      *)
(***************************************************************************)
EXTENDS GeneratorPool, Descent, FiniteSetTheorems, TLAPS

Held(g) == g \in out \/ g \in err

\* Before the process: what has been made so far, and nothing held.
Setup(g) ==
    /\ step[g] \in {"waiting", "prepare"} => desc[g] = "none" /\ g \notin scratch
    /\ step[g] \in {"write", "scratch"} => g \notin scratch
    /\ step[g] \in {"scratch", "start", "fork", "running", "resolve", "dropscratch"} =>
          desc[g] = "whole"
    /\ step[g] \in {"start", "fork", "running", "resolve", "dropscratch"} => g \in scratch
    /\ step[g] \in {"waiting", "prepare", "write", "scratch", "start", "fork",
                    "running", "resolve"} => ~Held(g)

\* The process lives only while run waits for it.
Process(g) ==
    /\ proc[g] = "alive" => step[g] = "running"
    /\ step[g] = "resolve" \/ g \in out => proc[g] = "zero"

\* After the process: a plan or an error is held, and a plan's scratch
\* directory is there until generateAll removes it.
Unwound(g) ==
    /\ step[g] \in {"dropscratch", "dropdesc", "return", "done"} => Held(g)
    /\ step[g] \in {"return", "done"} /\ desc[g] # "none" => g \in err
    /\ g \in out /\ main # "returned" => g \in scratch
    /\ g \in scratch /\ step[g] \in {"dropdesc", "return", "done"} => g \in out \/ g \in stuck
    /\ g \in stuck /\ main # "returned" => g \in err
    /\ g \in outs <=> step[g] = "done" /\ g \notin err

Local(g) == Setup(g) /\ Process(g) /\ Unwound(g)

\* The caller: what it has submitted, what it waited for, what it reports.
CallerInv ==
    /\ \A g \in Gen : step[g] = "waiting" <=> g >= next
    /\ main # "submit" => next = N + 1
    /\ main \in {"merge", "cleanup", "returned"} => \A g \in Gen : step[g] = "done"
    /\ main = "merge" => err = {}
    /\ main = "cleanup" /\ result # "error" => err = {}
    /\ main = "returned" /\ result # "error" => err = {} /\ scratch \cap outs = {}
    /\ main \in {"submit", "wait", "merge"} <=> result = "none"

Bounded == Cardinality(Busy) <= MaxGoroutines

Inv ==
    /\ TypeOK
    /\ \A g \in Gen : Local(g)
    /\ CallerInv
    /\ Bounded
-----------------------------------------------------------------------------
(***************************************************************************)
(* One step of one invocation.                                             *)
(***************************************************************************)
USE DEF At, Goto, Errs, caller, disk, locals

LEMMA InvocationType ==
    ASSUME TypeOK, NEW h \in Gen, Invocation(h)
    PROVE  TypeOK'
<1> USE DEF TypeOK, Steps
<1>1. CASE MakeDescriptorDir(h)
  BY <1>1 DEF MakeDescriptorDir
<1>2. CASE MakeDescriptorDirFails(h)
  BY <1>2 DEF MakeDescriptorDirFails
<1>3. CASE WriteDescriptor(h)
  BY <1>3 DEF WriteDescriptor
<1>4. CASE WriteDescriptorFails(h)
  BY <1>4 DEF WriteDescriptorFails
<1>5. CASE MakeScratchDir(h)
  BY <1>5 DEF MakeScratchDir
<1>6. CASE MakeScratchDirFails(h)
  BY <1>6 DEF MakeScratchDirFails
<1>7. CASE CheckContext(h)
  BY <1>7 DEF CheckContext
<1>8. CASE StartCancelled(h)
  BY <1>8 DEF StartCancelled
<1>9. CASE Fork(h)
  BY <1>9 DEF Fork
<1>10. CASE ForkFails(h)
  BY <1>10 DEF ForkFails
<1>11. CASE ReapSuccess(h)
  BY <1>11 DEF ReapSuccess
<1>12. CASE ReapFailure(h)
  BY <1>12 DEF ReapFailure
<1>13. CASE Resolve(h)
  BY <1>13 DEF Resolve
<1>14. CASE KeepScratch(h)
  BY <1>14 DEF KeepScratch
<1>15. CASE DropScratch(h)
  BY <1>15 DEF DropScratch
<1>16. CASE DropScratchFails(h)
  BY <1>16 DEF DropScratchFails
<1>17. CASE DropDescriptor(h)
  BY <1>17 DEF DropDescriptor
<1>18. CASE DropDescriptorFails(h)
  BY <1>18 DEF DropDescriptorFails
<1>19. CASE Return(h)
  BY <1>19 DEF Return
<1> QED
  BY <1>1, <1>2, <1>3, <1>4, <1>5, <1>6, <1>7, <1>8, <1>9, <1>10,
     <1>11, <1>12, <1>13, <1>14, <1>15, <1>16, <1>17, <1>18, <1>19
     DEF Invocation

\* It keeps what is known of its own invocation.
LEMMA InvocationLocal ==
    ASSUME TypeOK, NEW h \in Gen, Local(h), Invocation(h)
    PROVE  Local(h)'
<1> USE DEF TypeOK, Local, Setup, Process, Unwound, Held
<1>1. CASE MakeDescriptorDir(h)
  BY <1>1 DEF MakeDescriptorDir
<1>2. CASE MakeDescriptorDirFails(h)
  BY <1>2 DEF MakeDescriptorDirFails
<1>3. CASE WriteDescriptor(h)
  BY <1>3 DEF WriteDescriptor
<1>4. CASE WriteDescriptorFails(h)
  BY <1>4 DEF WriteDescriptorFails
<1>5. CASE MakeScratchDir(h)
  BY <1>5 DEF MakeScratchDir
<1>6. CASE MakeScratchDirFails(h)
  BY <1>6 DEF MakeScratchDirFails
<1>7. CASE CheckContext(h)
  BY <1>7 DEF CheckContext
<1>8. CASE StartCancelled(h)
  BY <1>8 DEF StartCancelled
<1>9. CASE Fork(h)
  BY <1>9 DEF Fork
<1>10. CASE ForkFails(h)
  BY <1>10 DEF ForkFails
<1>11. CASE ReapSuccess(h)
  BY <1>11 DEF ReapSuccess
<1>12. CASE ReapFailure(h)
  BY <1>12 DEF ReapFailure
<1>13. CASE Resolve(h)
  BY <1>13 DEF Resolve
<1>14. CASE KeepScratch(h)
  BY <1>14 DEF KeepScratch
<1>15. CASE DropScratch(h)
  BY <1>15 DEF DropScratch
<1>16. CASE DropScratchFails(h)
  BY <1>16 DEF DropScratchFails
<1>17. CASE DropDescriptor(h)
  BY <1>17 DEF DropDescriptor
<1>18. CASE DropDescriptorFails(h)
  BY <1>18 DEF DropDescriptorFails
<1>19. CASE Return(h)
  BY <1>19 DEF Return
<1> QED
  BY <1>1, <1>2, <1>3, <1>4, <1>5, <1>6, <1>7, <1>8, <1>9, <1>10,
     <1>11, <1>12, <1>13, <1>14, <1>15, <1>16, <1>17, <1>18, <1>19
     DEF Invocation

\* It leaves every other invocation, and the caller, alone.
LEMMA InvocationElsewhere ==
    ASSUME TypeOK, NEW h \in Gen, Invocation(h), NEW g \in Gen, g # h, Local(g)
    PROVE  Local(g)'
<1> USE DEF TypeOK, Local, Setup, Process, Unwound, Held
<1>1. CASE MakeDescriptorDir(h)
  BY <1>1 DEF MakeDescriptorDir
<1>2. CASE MakeDescriptorDirFails(h)
  BY <1>2 DEF MakeDescriptorDirFails
<1>3. CASE WriteDescriptor(h)
  BY <1>3 DEF WriteDescriptor
<1>4. CASE WriteDescriptorFails(h)
  BY <1>4 DEF WriteDescriptorFails
<1>5. CASE MakeScratchDir(h)
  BY <1>5 DEF MakeScratchDir
<1>6. CASE MakeScratchDirFails(h)
  BY <1>6 DEF MakeScratchDirFails
<1>7. CASE CheckContext(h)
  BY <1>7 DEF CheckContext
<1>8. CASE StartCancelled(h)
  BY <1>8 DEF StartCancelled
<1>9. CASE Fork(h)
  BY <1>9 DEF Fork
<1>10. CASE ForkFails(h)
  BY <1>10 DEF ForkFails
<1>11. CASE ReapSuccess(h)
  BY <1>11 DEF ReapSuccess
<1>12. CASE ReapFailure(h)
  BY <1>12 DEF ReapFailure
<1>13. CASE Resolve(h)
  BY <1>13 DEF Resolve
<1>14. CASE KeepScratch(h)
  BY <1>14 DEF KeepScratch
<1>15. CASE DropScratch(h)
  BY <1>15 DEF DropScratch
<1>16. CASE DropScratchFails(h)
  BY <1>16 DEF DropScratchFails
<1>17. CASE DropDescriptor(h)
  BY <1>17 DEF DropDescriptor
<1>18. CASE DropDescriptorFails(h)
  BY <1>18 DEF DropDescriptorFails
<1>19. CASE Return(h)
  BY <1>19 DEF Return
<1> QED
  BY <1>1, <1>2, <1>3, <1>4, <1>5, <1>6, <1>7, <1>8, <1>9, <1>10,
     <1>11, <1>12, <1>13, <1>14, <1>15, <1>16, <1>17, <1>18, <1>19
     DEF Invocation

LEMMA InvocationCaller ==
    ASSUME TypeOK, CallerInv, NEW h \in Gen, Invocation(h)
    PROVE  CallerInv' /\ Busy' \subseteq Busy /\ next' = next
<1> USE DEF TypeOK, CallerInv, Busy
<1>1. CASE MakeDescriptorDir(h)
  BY <1>1 DEF MakeDescriptorDir
<1>2. CASE MakeDescriptorDirFails(h)
  BY <1>2 DEF MakeDescriptorDirFails
<1>3. CASE WriteDescriptor(h)
  BY <1>3 DEF WriteDescriptor
<1>4. CASE WriteDescriptorFails(h)
  BY <1>4 DEF WriteDescriptorFails
<1>5. CASE MakeScratchDir(h)
  BY <1>5 DEF MakeScratchDir
<1>6. CASE MakeScratchDirFails(h)
  BY <1>6 DEF MakeScratchDirFails
<1>7. CASE CheckContext(h)
  BY <1>7 DEF CheckContext
<1>8. CASE StartCancelled(h)
  BY <1>8 DEF StartCancelled
<1>9. CASE Fork(h)
  BY <1>9 DEF Fork
<1>10. CASE ForkFails(h)
  BY <1>10 DEF ForkFails
<1>11. CASE ReapSuccess(h)
  BY <1>11 DEF ReapSuccess
<1>12. CASE ReapFailure(h)
  BY <1>12 DEF ReapFailure
<1>13. CASE Resolve(h)
  BY <1>13 DEF Resolve
<1>14. CASE KeepScratch(h)
  BY <1>14 DEF KeepScratch
<1>15. CASE DropScratch(h)
  BY <1>15 DEF DropScratch
<1>16. CASE DropScratchFails(h)
  BY <1>16 DEF DropScratchFails
<1>17. CASE DropDescriptor(h)
  BY <1>17 DEF DropDescriptor
<1>18. CASE DropDescriptorFails(h)
  BY <1>18 DEF DropDescriptorFails
<1>19. CASE Return(h)
  BY <1>19 DEF Return
<1> QED
  BY <1>1, <1>2, <1>3, <1>4, <1>5, <1>6, <1>7, <1>8, <1>9, <1>10,
     <1>11, <1>12, <1>13, <1>14, <1>15, <1>16, <1>17, <1>18, <1>19
     DEF Invocation

-----------------------------------------------------------------------------
(***************************************************************************)
(* The caller and the environment.                                         *)
(***************************************************************************)
LEMMA GenFinite == IsFiniteSet(Gen) /\ \A S \in SUBSET Gen : IsFiniteSet(S)
<1>1. IsFiniteSet(Gen)
  BY PoolAssumption, FS_Interval DEF PoolAssumption, Gen
<1> QED
  BY <1>1, FS_Subset

LEMMA CallerType ==
    ASSUME TypeOK, Caller
    PROVE  TypeOK'
<1> USE PoolAssumption DEF PoolAssumption, TypeOK, Steps, Gen
<1>1. CASE Submit
  BY <1>1 DEF Submit
<1>2. CASE AllSubmitted
  BY <1>2 DEF AllSubmitted
<1>3. CASE Wait
  BY <1>3 DEF Wait
<1>4. CASE Merge
  BY <1>4 DEF Merge
<1>5. CASE CleanUp
  BY <1>5 DEF CleanUp
<1> QED
  BY <1>1, <1>2, <1>3, <1>4, <1>5 DEF Caller

LEMMA CallerLocal ==
    ASSUME TypeOK, CallerInv, Caller, NEW g \in Gen, Local(g)
    PROVE  Local(g)'
<1> USE DEF TypeOK, Local, Setup, Process, Unwound, Held
<1>1. CASE Submit
  BY <1>1, PoolAssumption DEF PoolAssumption, Submit, CallerInv, Gen
<1>2. CASE AllSubmitted
  BY <1>2 DEF AllSubmitted
<1>3. CASE Wait
  BY <1>3 DEF Wait
<1>4. CASE Merge
  BY <1>4 DEF Merge
<1>5. CASE CleanUp
  BY <1>5 DEF CleanUp, CallerInv
<1> QED
  BY <1>1, <1>2, <1>3, <1>4, <1>5 DEF Caller

LEMMA CallerKeepsInv ==
    ASSUME TypeOK, CallerInv, Caller
    PROVE  CallerInv'
<1> USE PoolAssumption DEF PoolAssumption, TypeOK, CallerInv, Gen
<1>1. CASE Submit
  BY <1>1 DEF Submit
<1>2. CASE AllSubmitted
  BY <1>2 DEF AllSubmitted
<1>3. CASE Wait
  BY <1>3 DEF Wait
<1>4. CASE Merge
  BY <1>4 DEF Merge
<1>5. CASE CleanUp
  BY <1>5 DEF CleanUp
<1> QED
  BY <1>1, <1>2, <1>3, <1>4, <1>5 DEF Caller

\* A goroutine is added only when fewer than MaxGoroutines are busy.
LEMMA CallerBounded ==
    ASSUME TypeOK, Bounded, Caller
    PROVE  Bounded'
<1>1. CASE Submit
  <2>1. next \in Gen /\ Busy \in SUBSET Gen /\ IsFiniteSet(Busy)
    BY <1>1, GenFinite DEF Submit, Busy
  <2>2. Busy' = Busy \cup {next}
    BY <1>1, <2>1 DEF Submit, Busy, TypeOK
  <2>3. Cardinality(Busy) < MaxGoroutines /\ Cardinality(Busy) \in Nat
    BY <1>1, <2>1, FS_CardinalityType DEF Submit
  <2>4. Cardinality(Busy \cup {next})
           = IF next \in Busy THEN Cardinality(Busy) ELSE Cardinality(Busy) + 1
    BY <2>1, FS_AddElement
  <2> QED
    BY <2>2, <2>3, <2>4, PoolAssumption DEF PoolAssumption, Bounded
<1>2. ASSUME step' = step
      PROVE  Bounded'
  BY <1>2 DEF Bounded, Busy
<1> QED
  BY <1>1, <1>2 DEF Caller, AllSubmitted, Wait, Merge, CleanUp

\* Exits, kills and cancellations change no step, and end only live processes.
LEMMA EnvironmentStep ==
    ASSUME Inv, Cancel \/ \E g \in Gen : Kill(g) \/ Exit(g)
    PROVE  Inv'
<1> USE DEF Inv
<1>1. TypeOK'
  BY DEF TypeOK, Cancel, Kill, Exit
<1>2. ASSUME NEW g \in Gen
      PROVE  Local(g)'
  BY <1>2 DEF Cancel, Kill, Exit, TypeOK, Local, Setup, Process, Unwound, Held
<1>3. CallerInv'
  BY DEF Cancel, Kill, Exit, CallerInv
<1>4. Bounded'
  BY DEF Cancel, Kill, Exit, Bounded, Busy
<1> QED
  BY <1>1, <1>2, <1>3, <1>4

LEMMA BusyShrinks ==
    ASSUME Bounded, Busy' \subseteq Busy
    PROVE  Bounded'
<1>1. IsFiniteSet(Busy) /\ IsFiniteSet(Busy')
  BY GenFinite DEF Busy
<1>2. Cardinality(Busy') <= Cardinality(Busy)
  BY <1>1, FS_Subset
<1>3. Cardinality(Busy') \in Nat /\ Cardinality(Busy) \in Nat
  BY <1>1, FS_CardinalityType
<1> QED
  BY <1>2, <1>3, PoolAssumption DEF PoolAssumption, Bounded

LEMMA InitInv == Init => Inv
<1> SUFFICES ASSUME Init PROVE Inv
  OBVIOUS
<1>1. TypeOK
  <2>1. next \in 1..(N + 1)
    BY PoolAssumption DEF PoolAssumption, Init
  <2> QED
    BY <2>1 DEF Init, TypeOK, Steps
<1>2. ASSUME NEW g \in Gen
      PROVE  Local(g)
  BY <1>2 DEF Init, Local, Setup, Process, Unwound, Held
<1>3. CallerInv
  BY PoolAssumption DEF PoolAssumption, Init, CallerInv, Gen
<1>4. Bounded
  <2>1. Busy = {}
    BY DEF Init, Busy
  <2> QED
    BY <2>1, FS_EmptySet, PoolAssumption DEF PoolAssumption, Bounded
<1> QED
  BY <1>1, <1>2, <1>3, <1>4 DEF Inv

LEMMA InvStep == Inv /\ [Next]_vars => Inv'
<1> SUFFICES ASSUME Inv, [Next]_vars PROVE Inv'
  OBVIOUS
<1>1. CASE Caller
  BY <1>1, CallerType, CallerLocal, CallerKeepsInv, CallerBounded DEF Inv
<1>2. ASSUME NEW h \in Gen, Invocation(h)
      PROVE  Inv'
  <2>1. TypeOK'
    BY <1>2, InvocationType DEF Inv
  <2>2. ASSUME NEW g \in Gen
        PROVE  Local(g)'
    BY <1>2, <2>2, InvocationLocal, InvocationElsewhere DEF Inv
  <2>3. CallerInv' /\ Busy' \subseteq Busy
    BY <1>2, InvocationCaller DEF Inv
  <2>4. Bounded'
    BY <2>3, BusyShrinks DEF Inv
  <2> QED
    BY <2>1, <2>2, <2>3, <2>4 DEF Inv
<1>3. CASE Cancel \/ \E g \in Gen : Kill(g) \/ Exit(g)
  BY <1>3, EnvironmentStep
<1>4. CASE UNCHANGED vars
  BY <1>4 DEF vars, Inv, TypeOK, Local, Setup, Process, Unwound, Held, CallerInv, Bounded, Busy
<1> QED
  BY <1>1, <1>2, <1>3, <1>4 DEF Next

LEMMA Invariance == Spec => []Inv
  BY InitInv, InvStep, PTL DEF Spec

-----------------------------------------------------------------------------
(***************************************************************************)
(* The theorems.                                                           *)
(***************************************************************************)
\* Every variable keeps its type.
THEOREM TypeCorrect == Spec => []TypeOK
  BY Invariance, PTL DEF Inv

\* However it ends, a process has its descriptor and its scratch directory for
\* as long as it lives.
THEOREM FilesOutlive == Spec => []FilesOutliveProcess
<1>1. Inv => FilesOutliveProcess
  BY DEF Inv, Local, Setup, Process, FilesOutliveProcess, Alive
<1> QED
  BY <1>1, Invariance, PTL

\* The bound on processes holds throughout, and once the pool has been waited
\* for no process lives and no descriptor is left without an error to show it.
THEOREM Quiet == Spec => []QuietAfterWait
<1>1. Inv => QuietAfterWait
  <2> SUFFICES ASSUME Inv PROVE QuietAfterWait
    OBVIOUS
  <2>1. Cardinality(Alive) <= MaxGoroutines
    <3>1. Alive \subseteq Busy
      BY DEF Inv, Local, Process, Alive, Busy
    <3>2. IsFiniteSet(Busy) /\ IsFiniteSet(Alive)
      BY GenFinite DEF Busy, Alive
    <3>3. Cardinality(Alive) <= Cardinality(Busy)
      BY <3>1, <3>2, FS_Subset
    <3>4. Cardinality(Alive) \in Nat /\ Cardinality(Busy) \in Nat
      BY <3>2, FS_CardinalityType
    <3> QED
      BY <3>3, <3>4, PoolAssumption DEF PoolAssumption, Inv, Bounded
  <2>2. ASSUME main \in {"merge", "cleanup", "returned"}
        PROVE  Alive = {} /\ \A g \in Gen : desc[g] # "none" => g \in err
    BY <2>2 DEF Inv, CallerInv, Local, Process, Unwound, Alive
  <2> QED
    BY <2>1, <2>2 DEF QuietAfterWait
<1> QED
  BY <1>1, Invariance, PTL

\* Nothing is merged unless every generator exited zero and its output is
\* still there, and no run succeeds without every plan.
THEOREM AllOrNothing == Spec => []MergeNeedsEveryPlan
<1>1. Inv => MergeNeedsEveryPlan
  <2> SUFFICES ASSUME Inv PROVE MergeNeedsEveryPlan
    OBVIOUS
  <2>1. ASSUME main = "merge", NEW g \in Gen
        PROVE  g \in outs /\ proc[g] = "zero" /\ g \in scratch
    BY <2>1 DEF Inv, CallerInv, Local, Process, Unwound, Held
  <2>2. ASSUME result = "ok"
        PROVE  outs = Gen
    BY <2>2 DEF Inv, TypeOK, CallerInv, Local, Unwound
  <2> QED
    BY <2>1, <2>2 DEF MergeNeedsEveryPlan
<1> QED
  BY <1>1, Invariance, PTL

\* A run that leaves a temporary directory behind reports an error.
THEOREM NoSilentLeftovers == Spec => []LeftoversAreReported
<1>1. Inv => LeftoversAreReported
  <2> SUFFICES ASSUME Inv, main = "returned", result # "error"
               PROVE  scratch = {} /\ \A g \in Gen : desc[g] = "none"
    BY DEF LeftoversAreReported
  <2>1. err = {} /\ scratch \cap outs = {} /\ \A g \in Gen : step[g] = "done"
    BY DEF Inv, CallerInv
  <2> QED
    BY <2>1 DEF Inv, TypeOK, Local, Unwound
<1> QED
  BY <1>1, Invariance, PTL

-----------------------------------------------------------------------------
(***************************************************************************)
(* When removals do not fail.                                              *)
(***************************************************************************)
NothingStuck ==
    stuck = {} /\ \A g \in Gen : /\ g \in out => g \notin err
                                 /\ main = "returned" => g \notin scratch \/ g \notin outs
                                 /\ step[g] \in {"return", "done"} => desc[g] = "none"

LEMMA NothingStuckStep ==
    ASSUME "remove" \notin Faults, Inv, NothingStuck, [Next]_vars
    PROVE  NothingStuck'
<1> USE DEF NothingStuck, Inv, TypeOK
<1>1. CASE Caller
  BY <1>1 DEF Caller, Submit, AllSubmitted, Wait, Merge, CleanUp
<1>2. ASSUME NEW h \in Gen, Invocation(h)
      PROVE  NothingStuck'
  BY <1>2 DEF Invocation, MakeDescriptorDir, MakeDescriptorDirFails, WriteDescriptor,
     WriteDescriptorFails, MakeScratchDir, MakeScratchDirFails, CheckContext, StartCancelled,
     Fork, ForkFails, ReapSuccess, ReapFailure, Resolve, KeepScratch, DropScratch,
     DropScratchFails, DropDescriptor, DropDescriptorFails, Return,
     Local, Setup, CallerInv, Held
<1>3. CASE Cancel \/ \E g \in Gen : Kill(g) \/ Exit(g)
  BY <1>3 DEF Cancel, Kill, Exit
<1>4. CASE UNCHANGED vars
  BY <1>4 DEF vars
<1> QED
  BY <1>1, <1>2, <1>3, <1>4 DEF Next

Removable == "remove" \notin Faults

LEMMA RemovableInvariance == Spec => [](Removable => NothingStuck)
<1>1. Init => NothingStuck
  BY DEF Init, NothingStuck
<1>2. Inv /\ (Removable => NothingStuck) /\ [Next]_vars => (Removable => NothingStuck)'
  BY NothingStuckStep DEF Removable
<1> QED
  BY <1>1, <1>2, Invariance, PTL DEF Spec

\* Where directories can be removed, every scratch directory is: the leak the
\* run MCGeneratorPool_Leak shows needs a descriptor that cannot be removed.
THEOREM NoLeakWithoutFaults ==
    ASSUME "remove" \notin Faults
    PROVE  Spec => []ScratchAlwaysRemoved
<1>1. Inv /\ (Removable => NothingStuck) => ScratchAlwaysRemoved
  <2> SUFFICES ASSUME Inv, NothingStuck, main = "returned" PROVE scratch = {}
    BY DEF ScratchAlwaysRemoved, Removable
  <2>1. ASSUME NEW g \in Gen
        PROVE  g \notin scratch
    BY DEF Inv, CallerInv, Local, Unwound, Held, NothingStuck
  <2> QED
    BY <2>1 DEF Inv, TypeOK
<1> QED
  BY <1>1, Invariance, RemovableInvariance, PTL

-----------------------------------------------------------------------------
(***************************************************************************)
(* The pool as its caller sees it.                                         *)
(***************************************************************************)
LEMMA InitContract == Init => Contract!PInit
  BY DEF Init, Contract!PInit, Waiting, Kept

\* Once every invocation is done, something temporary that the caller does not
\* hold belongs to an invocation that reported an error.
LEMMA LeftoversHaveErrors ==
    ASSUME Inv, \A g \in Gen : step[g] = "done"
    PROVE  /\ outs = Gen \ err
           /\ \A g \in Gen : desc[g] # "none" => g \in err
           /\ main # "returned" => outs \subseteq scratch
  BY DEF Inv, TypeOK, Local, Unwound, Held

\* The wait is the moment at which the outcome shows: all is there, or an
\* invocation at least has an error.
LEMMA WaitRefines ==
    ASSUME Inv, Removable => NothingStuck, Wait
    PROVE  Contract!Deliver \/ Contract!FallShort
<1>1. /\ main = "wait" /\ \A g \in Gen : step[g] = "done"
      /\ outs' = outs /\ desc' = desc /\ scratch' = scratch
  BY DEF Wait
<1>2. /\ outs = Gen \ err
      /\ \A g \in Gen : desc[g] # "none" => g \in err
      /\ outs \subseteq scratch
  BY <1>1, LeftoversHaveErrors
<1>3. scratch \subseteq Gen /\ err \subseteq Gen
  BY DEF Inv, TypeOK
<1>4. CASE err = {}
  <2>1. main' = "merge" /\ result' = result
    BY <1>4 DEF Wait
  <2> QED
    BY <1>1, <1>2, <1>3, <1>4, <2>1
       DEF Contract!Deliver, Contract!Delivered, Waiting, Kept
<1>5. CASE err # {}
  <2>1. main' = "cleanup" /\ result' = "error"
    BY <1>5 DEF Wait
  <2>2. ASSUME "remove" \notin Faults, NEW g \in Gen
        PROVE  desc[g] = "none" /\ g \notin scratch \ outs
    BY <1>1, <1>2, <2>2 DEF Removable, NothingStuck, Inv, Local, Unwound
  <2> QED
    BY <1>1, <1>2, <1>3, <1>5, <2>1, <2>2
       DEF Contract!FallShort, Contract!FellShort, Waiting, Kept, Removable
<1> QED
  BY <1>4, <1>5

\* Removing what is held leaves of it what cannot be removed.
LEMMA CleanUpRefines ==
    ASSUME Inv, Removable => NothingStuck, CleanUp
    PROVE  Contract!Remove
<1>1. /\ main = "cleanup" /\ main' = "returned" /\ outs' = outs /\ desc' = desc
      /\ \A g \in Gen : step[g] = "done"
  BY DEF CleanUp, Inv, CallerInv
<1>2. outs \subseteq scratch /\ outs \subseteq Gen /\ scratch \subseteq Gen
  BY <1>1, LeftoversHaveErrors DEF Inv, TypeOK
<1>3. PICK S \in SUBSET outs :
          /\ S # {} => "remove" \in Faults
          /\ scratch' = scratch \ (outs \ S)
          /\ result' = IF S = {} THEN result ELSE "error"
  BY DEF CleanUp
<1>4. {g \in Gen : desc'[g] # "none" \/ g \in scratch' \ {}}
        = {g \in Gen : desc[g] # "none" \/ g \in scratch \ outs} \cup S
  BY <1>1, <1>2, <1>3
<1> QED
  BY <1>1, <1>3, <1>4 DEF Contract!Remove, Waiting, Kept, Removable

\* Until the wait is over nothing shows, and after it only what the caller does.
LEMMA StepRefines ==
    ASSUME Inv, Removable => NothingStuck, [Next]_vars
    PROVE  [Contract!PNext]_(Contract!pvars)
<1> DEFINE Goal == [Contract!PNext]_(Contract!pvars)
<1>1. ASSUME Waiting, Waiting', result' = result
      PROVE  Goal
  BY <1>1 DEF Contract!pvars, Kept
<1>2. ASSUME main' = main, result' = result, outs' = outs, desc' = desc, scratch' = scratch
      PROVE  Goal
  BY <1>2 DEF Contract!pvars, Waiting, Kept
<1>3. CASE Wait
  BY <1>3, WaitRefines DEF Contract!PNext
<1>4. CASE Merge
  <2>1. Contract!Merge
    BY <1>4 DEF Merge, Contract!Merge, Waiting, Kept
  <2> QED
    BY <2>1 DEF Contract!PNext
<1>5. CASE CleanUp
  BY <1>5, CleanUpRefines DEF Contract!PNext
<1>6. CASE Submit \/ AllSubmitted
  BY <1>1, <1>6 DEF Submit, AllSubmitted, Waiting
<1>7. ASSUME NEW h \in Gen, Invocation(h)
      PROVE  Goal
  <2>1. step[h] # "done" /\ main' = main /\ result' = result
    BY <1>7 DEF Invocation, MakeDescriptorDir, MakeDescriptorDirFails, WriteDescriptor,
       WriteDescriptorFails, MakeScratchDir, MakeScratchDirFails, CheckContext, StartCancelled,
       Fork, ForkFails, ReapSuccess, ReapFailure, Resolve, KeepScratch, DropScratch,
       DropScratchFails, DropDescriptor, DropDescriptorFails, Return
  <2>2. Waiting
    BY <2>1 DEF Inv, TypeOK, CallerInv, Waiting
  <2> QED
    BY <1>1, <2>1, <2>2 DEF Waiting
<1>8. CASE Cancel \/ \E g \in Gen : Kill(g) \/ Exit(g)
  BY <1>2, <1>8 DEF Cancel, Kill, Exit
<1>9. CASE UNCHANGED vars
  BY <1>2, <1>9 DEF vars
<1> QED
  BY <1>3, <1>4, <1>5, <1>6, <1>7, <1>8, <1>9 DEF Next, Caller

\* generateAll's pool implements the contract OutputTree takes for granted: its
\* caller sees one outcome, all of the output or a failure, and is never told
\* of success with something temporary left behind.
THEOREM ImplementsContract == Spec => RefinesContract
<1>1. Init => Contract!PInit
  BY InitContract
<1>2. Inv /\ (Removable => NothingStuck) /\ [Next]_vars => [Contract!PNext]_(Contract!pvars)
  BY StepRefines
<1> QED
  BY <1>1, <1>2, Invariance, RemovableInvariance, PTL
     DEF Spec, RefinesContract, Contract!PSpec

-----------------------------------------------------------------------------
(***************************************************************************)
(* Why a run does not go on for ever: every step descends.                 *)
(***************************************************************************)
MainRank ==
    CASE main = "submit" -> 4 [] main = "wait" -> 3 [] main = "merge" -> 2
      [] main = "cleanup" -> 1 [] OTHER -> 0

StepRank(s) ==
    CASE s = "waiting" -> 12 [] s = "prepare" -> 11 [] s = "write" -> 10
      [] s = "scratch" -> 9 [] s = "start" -> 8 [] s = "fork" -> 7 [] s = "running" -> 5
      [] s = "resolve" -> 4 [] s = "dropscratch" -> 3 [] s = "dropdesc" -> 2
      [] s = "return" -> 1 [] OTHER -> 0

Weight(g) == StepRank(step[g]) + (IF proc[g] = "alive" THEN 1 ELSE 0)

\* What the invocations still have to do, a pair for each unit of it.
Togo == {p \in Gen \X (0..12) : p[2] < Weight(p[1])}
Signals == IF cancelled THEN 0 ELSE 1

\* What is left of a run: the caller's way, the invocations', and the one
\* cancellation.
Measure == <<MainRank, Cardinality(Togo), Signals>>
StepsDescend == [][Descends(Measure', Measure)]_vars

LEMMA WeightIsNatural ==
    ASSUME TypeOK, NEW g \in Gen
    PROVE  Weight(g) \in 0..13
<1>1. StepRank(step[g]) \in 0..12
  BY DEF StepRank
<1> QED
  BY <1>1 DEF Weight

LEMMA TogoFinite == IsFiniteSet(Togo)
<1>1. IsFiniteSet(Gen \X (0..12))
  <2>1. IsFiniteSet(0..12)
    <3>1. 0 \in Int /\ 12 \in Int
      OBVIOUS
    <3> QED
      BY <3>1, FS_Interval
  <2> QED
    BY <2>1, GenFinite, FS_Product
<1>2. Togo \in SUBSET (Gen \X (0..12))
  BY DEF Togo
<1> QED
  BY <1>1, <1>2, FS_Subset

LEMMA TogoShrinks ==
    ASSUME TypeOK, TypeOK', NEW h \in Gen, Weight(h)' < Weight(h),
           \A g \in Gen : g # h => Weight(g)' = Weight(g)
    PROVE  Cardinality(Togo)' < Cardinality(Togo)
<1>1. Weight(h) \in 0..13 /\ Weight(h)' \in 0..13
  <2>1. Weight(h) \in 0..13
    BY WeightIsNatural
  <2>2. StepRank(step'[h]) \in 0..12
    BY DEF StepRank
  <2> QED
    BY <2>1, <2>2 DEF Weight
<1>2. Togo' \subseteq Togo
  <2> SUFFICES ASSUME NEW g \in Gen, NEW k \in 0..12, k < Weight(g)' PROVE k < Weight(g)
    BY DEF Togo
  <2>1. CASE g = h
    BY <1>1, <2>1
  <2> QED
    BY <2>1
<1> DEFINE p == <<h, Weight(h)'>>
<1>3. p \in Togo /\ p \notin Togo'
  <2>1. Weight(h)' \in 0..12 /\ ~(Weight(h)' < Weight(h)')
    BY <1>1
  <2> QED
    BY <2>1 DEF Togo
<1>4. IsFiniteSet(Togo) /\ Togo' \in SUBSET Togo /\ Togo' # Togo
  BY <1>2, <1>3, TogoFinite
<1>5. Cardinality(Togo') <= Cardinality(Togo) /\ Cardinality(Togo) # Cardinality(Togo')
  BY <1>4, FS_Subset
<1>6. Cardinality(Togo') \in Nat /\ Cardinality(Togo) \in Nat
  <2>1. IsFiniteSet(Togo')
    BY <1>4, FS_Subset
  <2> QED
    BY <1>4, <2>1, FS_CardinalityType
<1> QED
  BY <1>5, <1>6

\* An invocation's own step goes down its list; starting the process goes down
\* by two, and adds the one that the process counts for.
LEMMA InvocationGoesDown ==
    ASSUME TypeOK, NEW h \in Gen, Invocation(h)
    PROVE  /\ Weight(h)' < Weight(h) /\ \A g \in Gen : g # h => Weight(g)' = Weight(g)
           /\ MainRank' = MainRank
<1> DEFINE Down == /\ StepRank(step'[h]) < StepRank(step[h])
                   /\ \A g \in Gen : g # h => step'[g] = step[g]
                   /\ main' = main
<1>1. CASE Fork(h)
  <2>1. /\ step[h] = "fork" /\ step' = [step EXCEPT ![h] = "running"]
        /\ proc' = [proc EXCEPT ![h] = "alive"] /\ main' = main
    BY <1>1 DEF Fork
  <2>2. step'[h] = "running" /\ \A g \in Gen : g # h => step'[g] = step[g] /\ proc'[g] = proc[g]
    BY <2>1 DEF TypeOK
  <2>3. StepRank(step'[h]) = 5 /\ StepRank(step[h]) = 7
    BY <2>1, <2>2 DEF StepRank
  <2> QED
    BY <2>1, <2>2, <2>3 DEF Weight, MainRank
<1>2. CASE ~Fork(h)
  <2> USE DEF TypeOK, StepRank
  <2>1. ASSUME MakeDescriptorDir(h) PROVE Down /\ proc' = proc
    BY <2>1 DEF MakeDescriptorDir
  <2>2. ASSUME MakeDescriptorDirFails(h) PROVE Down /\ proc' = proc
    BY <2>2 DEF MakeDescriptorDirFails
  <2>3. ASSUME WriteDescriptor(h) PROVE Down /\ proc' = proc
    BY <2>3 DEF WriteDescriptor
  <2>4. ASSUME WriteDescriptorFails(h) PROVE Down /\ proc' = proc
    BY <2>4 DEF WriteDescriptorFails
  <2>5. ASSUME MakeScratchDir(h) PROVE Down /\ proc' = proc
    BY <2>5 DEF MakeScratchDir
  <2>6. ASSUME MakeScratchDirFails(h) PROVE Down /\ proc' = proc
    BY <2>6 DEF MakeScratchDirFails
  <2>7. ASSUME CheckContext(h) PROVE Down /\ proc' = proc
    BY <2>7 DEF CheckContext
  <2>8. ASSUME StartCancelled(h) PROVE Down /\ proc' = proc
    BY <2>8 DEF StartCancelled
  <2>9. ASSUME ForkFails(h) PROVE Down /\ proc' = proc
    BY <2>9 DEF ForkFails
  <2>10. ASSUME ReapSuccess(h) PROVE Down /\ proc' = proc
    BY <2>10 DEF ReapSuccess
  <2>11. ASSUME ReapFailure(h) PROVE Down /\ proc' = proc
    BY <2>11 DEF ReapFailure
  <2>12. ASSUME Resolve(h) PROVE Down /\ proc' = proc
    BY <2>12 DEF Resolve
  <2>13. ASSUME KeepScratch(h) PROVE Down /\ proc' = proc
    BY <2>13 DEF KeepScratch
  <2>14. ASSUME DropScratch(h) PROVE Down /\ proc' = proc
    BY <2>14 DEF DropScratch
  <2>15. ASSUME DropScratchFails(h) PROVE Down /\ proc' = proc
    BY <2>15 DEF DropScratchFails
  <2>16. ASSUME DropDescriptor(h) PROVE Down /\ proc' = proc
    BY <2>16 DEF DropDescriptor
  <2>17. ASSUME DropDescriptorFails(h) PROVE Down /\ proc' = proc
    BY <2>17 DEF DropDescriptorFails
  <2>18. ASSUME Return(h) PROVE Down /\ proc' = proc
    BY <2>18 DEF Return
  <2> HIDE DEF TypeOK, StepRank
  <2>30. Down /\ proc' = proc
    BY <1>2, <2>1, <2>2, <2>3, <2>4, <2>5, <2>6, <2>7, <2>8, <2>9, <2>10, <2>11, <2>12, <2>13, <2>14, <2>15, <2>16, <2>17, <2>18 DEF Invocation
  <2>31. StepRank(step[h]) \in Nat /\ StepRank(step'[h]) \in Nat
    BY DEF StepRank
  <2> QED
    BY <2>30, <2>31 DEF Weight, MainRank
<1> QED
  BY <1>1, <1>2

\* Every step of a run leaves a smaller tuple of natural numbers, so with
\* Descent_proofs it takes finitely many steps, however many generators there
\* are, whenever they exit and whenever the run is cancelled.
THEOREM PoolDescends == Spec => StepsDescend /\ [](Measure \in [1..3 -> Nat])
<1>1. Inv => Measure \in [1..3 -> Nat]
  <2>1. Cardinality(Togo) \in Nat
    BY TogoFinite, FS_CardinalityType
  <2> QED
    BY <2>1 DEF Measure, MainRank, Signals
<1>2. Inv /\ Inv' /\ [Next]_vars => [Descends(Measure', Measure)]_vars
  <2> SUFFICES ASSUME Inv, Inv', Next PROVE Descends(Measure', Measure)
    OBVIOUS
  <2> DEFINE C == Cardinality(Togo)
  <2>1. ASSUME \/ MainRank' < MainRank
               \/ MainRank' = MainRank /\ C' < C
               \/ MainRank' = MainRank /\ C' = C /\ Signals' < Signals
        PROVE  Descends(Measure', Measure)
    <3>1. /\ Measure[1] = MainRank /\ Measure[2] = C /\ Measure[3] = Signals
          /\ Measure'[1] = MainRank' /\ Measure'[2] = C' /\ Measure'[3] = Signals'
          /\ DOMAIN Measure = 1..3
      BY DEF Measure
    <3> DEFINE new == Measure'
               old == Measure
    <3>2. /\ \A j \in 1..(1 - 1) : FALSE
          /\ \A j \in 1..(2 - 1) : j = 1
          /\ \A j \in 1..(3 - 1) : j = 1 \/ j = 2
      OBVIOUS
    <3> HIDE DEF new, old, C
    <3> QED
      BY <2>1, <3>1, <3>2 DEF Descends
  <2> HIDE DEF C
  <2>2. ASSUME NEW h \in Gen, Invocation(h)
        PROVE  Descends(Measure', Measure)
    <3>1. /\ Weight(h)' < Weight(h) /\ \A g \in Gen : g # h => Weight(g)' = Weight(g)
          /\ MainRank' = MainRank
      BY <2>2, InvocationGoesDown DEF Inv
    <3>2. C' < C
      BY <3>1, TogoShrinks DEF Inv, C
    <3> QED
      BY <2>1, <3>1, <3>2
  <2>3. ASSUME NEW h \in Gen, Kill(h) \/ Exit(h)
        PROVE  Descends(Measure', Measure)
    <3>1. /\ main' = main /\ step' = step /\ proc[h] = "alive" /\ proc'[h] # "alive"
          /\ \A g \in Gen : g # h => proc'[g] = proc[g]
      BY <2>3 DEF Kill, Exit, Inv, TypeOK
    <3>2. Weight(h)' < Weight(h) /\ \A g \in Gen : g # h => Weight(g)' = Weight(g)
      <4>1. StepRank(step[h]) \in Nat
        BY DEF StepRank
      <4> QED
        BY <3>1, <4>1 DEF Weight
    <3>3. C' < C /\ MainRank' = MainRank
      BY <3>1, <3>2, TogoShrinks DEF Inv, C, MainRank
    <3> QED
      BY <2>1, <3>3
  <2>4. CASE Submit
    <3>1. PICK h \in Gen :
             h = next /\ main' = main /\ proc' = proc /\ step' = [step EXCEPT ![h] = "prepare"]
      BY <2>4 DEF Submit
    <3>2. step[h] = "waiting"
      BY <3>1 DEF Inv, TypeOK, CallerInv, Gen
    <3>3. step'[h] = "prepare" /\ \A g \in Gen : g # h => step'[g] = step[g]
      BY <3>1 DEF Inv, TypeOK
    <3>4. StepRank(step[h]) = 12 /\ StepRank(step'[h]) = 11
      BY <3>2, <3>3 DEF StepRank
    <3>5. Weight(h)' < Weight(h) /\ \A g \in Gen : g # h => Weight(g)' = Weight(g)
      BY <3>1, <3>3, <3>4 DEF Weight
    <3>6. C' < C /\ MainRank' = MainRank
      BY <3>1, <3>5, TogoShrinks DEF Inv, C, MainRank
    <3> QED
      BY <2>1, <3>6
  <2>5. CASE AllSubmitted \/ Wait \/ Merge \/ CleanUp
    <3>1. MainRank' < MainRank
      BY <2>5 DEF AllSubmitted, Wait, Merge, CleanUp, MainRank
    <3> QED
      BY <2>1, <3>1
  <2>6. CASE Cancel
    <3>1. MainRank' = MainRank /\ Togo' = Togo /\ Signals' < Signals
      BY <2>6 DEF Cancel, MainRank, Togo, Weight, Signals
    <3>2. C' = C
      BY <3>1 DEF C
    <3> QED
      BY <2>1, <3>1, <3>2
  <2> QED
    BY <2>2, <2>3, <2>4, <2>5, <2>6 DEF Next, Caller
<1> QED
  BY <1>1, <1>2, Invariance, PTL DEF Spec, StepsDescend

=============================================================================
