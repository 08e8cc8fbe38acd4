-------------------------- MODULE GenerateRun_proofs --------------------------
(***************************************************************************)
(* Proofs about GenerateRun, for every PATH, every manifest and every      *)
(* declaration a generator may write.  The inductive invariant follows the *)
(* tables the phases hand on: the index is right about the directories     *)
(* searched so far, each task repeats its manifest entry and the index,    *)
(* each handshake the task at its place, each declaration held has been    *)
(* accepted for that task, and the cache holds exactly what was parsed.    *)
(***************************************************************************)
EXTENDS GenerateRun, Descent, FiniteSetTheorems, SequenceTheorems, TLAPS

Entry == [name : Exec, inputs : Seq(Spelling), options : SUBSET Option]

Before == {"env", "search", "plan", "load"}
Asked == {"handshake", "wait", "judge", "generate"}

\* The directories searched so far.
FoundIn(x, d) == x \in onPath[d] /\ \A e \in 1..(d - 1) : x \notin onPath[e]

IndexInv ==
    \A x \in Exec :
        /\ index[x] = 0 => \A d \in 1..(dir - 1) : x \notin onPath[d]
        /\ index[x] # 0 => index[x] < dir /\ FoundIn(x, index[x])

\* Tasks repeat the entries of the manifest.
TaskInv ==
    /\ pc \in {"env", "search"} => tasks = <<>>
    /\ Len(tasks) <= Len(manifest.gens)
    /\ \A t \in 1..Len(tasks) :
          /\ tasks[t].name = manifest.gens[t].name
          /\ tasks[t].options = manifest.gens[t].options
          /\ FoundIn(tasks[t].name, tasks[t].from)
    /\ pc \in Asked => Len(tasks) = Len(manifest.gens)
    /\ pc \notin {"env", "search", "returned"} => manifest.gens # <<>>

\* The generator being planned.
LoadInv ==
    pc = "load" =>
        /\ Len(tasks) < Len(manifest.gens)
        /\ index[Planning.name] # 0
        /\ inputs = manifest.shared \o Planning.inputs

\* Handshakes go through the tasks in order, one at a time.
AskInv ==
    /\ pc \in Before => ran = <<>> /\ heard = <<>>
    /\ Len(heard) <= Len(ran) /\ Len(ran) <= Len(heard) + 1 /\ Len(ran) <= Len(tasks)
    /\ pc \in {"handshake", "generate"} => Len(ran) = Len(heard)
    /\ pc \in {"wait", "judge"} => Len(ran) = Len(heard) + 1
    /\ \A t \in 1..Len(ran) : ran[t].name = tasks[t].name /\ ran[t].from = tasks[t].from
    /\ \A t \in 1..Len(heard) : Usable(heard[t]) /\ Accepts(tasks[t], heard[t])

\* What a run that has generated had done before.
EndInv ==
    /\ pc # "returned" => failed = "none"
    /\ pc = "generate" \/ (pc = "returned" /\ failed \in {"none", "generate"}) =>
          /\ manifest.gens # <<>>
          /\ Len(tasks) = Len(manifest.gens)
          /\ Len(heard) = Len(tasks)

\* What has been parsed, and what each task got of it.
Names(seq, n) == {seq[i] : i \in 1..n}

Covers(schemas, seq, n) ==
    /\ IsFiniteSet(Names(seq, n))
    /\ Len(schemas) = Cardinality(Names(seq, n))
    /\ {schemas[i] : i \in 1..Len(schemas)} = {Resolved[s] : s \in Names(seq, n)}

ParsedInv ==
    \A f \in File :
        /\ parses[f] <= 1
        /\ f \in cache => parses[f] = 1
        /\ f \notin cache /\ pc # "returned" => parses[f] = 0

PartInv ==
    pc = "load" =>
        /\ Covers(part, inputs, pos - 1)
        /\ \A i \in 1..Len(part) : part[i] \in cache

SchemaInv ==
    \A t \in 1..Len(tasks) :
        LET written == manifest.shared \o manifest.gens[t].inputs IN
        /\ Covers(tasks[t].schemas, written, Len(written))
        /\ \A i \in 1..Len(tasks[t].schemas) : tasks[t].schemas[i] \in cache

CacheInv == ParsedInv /\ PartInv /\ SchemaInv

Inv ==
    /\ TypeOK
    /\ IndexInv
    /\ TaskInv
    /\ LoadInv
    /\ AskInv
    /\ EndInv
    /\ CacheInv
-----------------------------------------------------------------------------
(***************************************************************************)
(* Types.                                                                  *)
(***************************************************************************)
USE DEF world, search, planning, child, asking, Goto, Fail

LEMMA PlanningType ==
    ASSUME TypeOK, Len(tasks) < Len(manifest.gens)
    PROVE  Planning \in Entry
<1>1. manifest.gens \in Seq(Entry) /\ tasks \in Seq(Task)
  BY DEF TypeOK, Entry
<1>2. Len(tasks) + 1 \in 1..Len(manifest.gens)
  BY <1>1, LenProperties
<1> QED
  BY <1>1, <1>2, ElementOfSeq DEF Planning

LEMMA InputType ==
    ASSUME TypeOK, pos <= Len(inputs)
    PROVE  Resolved[inputs[pos]] \in File
<1>1. inputs \in Seq(Spelling) /\ pos \in 1..Len(inputs)
  BY LenProperties DEF TypeOK
<1> QED
  BY <1>1, ElementOfSeq, NameAssumption DEF NameAssumption

LEMMA TypeStep ==
    ASSUME TypeOK, LoadInv, TaskInv, AskInv, [Next]_vars
    PROVE  TypeOK'
<1> USE NameAssumption DEF NameAssumption
<1>1. CASE LookupPath \/ NoPath \/ SearchFails
  BY <1>1 DEF LookupPath, NoPath, SearchFails, TypeOK
<1>2. CASE SearchDirectory
  <2>1. dir' \in 1..(Dirs + 1)
    BY <1>2 DEF SearchDirectory, TypeOK
  <2>2. index' \in [Exec -> 0..Dirs]
    BY <1>2 DEF SearchDirectory, TypeOK
  <2> QED
    BY <1>2, <2>1, <2>2 DEF SearchDirectory, TypeOK
<1>3. ASSUME NEW m \in Manifests, LoadManifest(m)
      PROVE  TypeOK'
  BY <1>3, ManifestAssumption DEF ManifestAssumption, LoadManifest, TypeOK
<1>4. CASE RefuseManifest \/ PlanFails \/ AllPlanned
  BY <1>4 DEF RefuseManifest, PlanFails, AllPlanned, TypeOK
<1>5. CASE PlanGenerator
  <2>1. Planning.inputs \in Seq(Spelling)
    BY <1>5, PlanningType DEF PlanGenerator, Entry
  <2>2. manifest.shared \in Seq(Spelling)
    BY DEF TypeOK
  <2>3. inputs' \in Seq(Spelling)
    BY <1>5, <2>1, <2>2, ConcatProperties DEF PlanGenerator
  <2>4. part' \in Seq(File)
    BY <1>5, EmptySeq DEF PlanGenerator
  <2>5. pos' \in 1..(Len(inputs') + 1)
    <3>1. Len(inputs') \in Nat
      BY <2>3, LenProperties
    <3>2. pos' = 1
      BY <1>5 DEF PlanGenerator
    <3> QED
      BY <3>1, <3>2
  <2> QED
    BY <1>5, <2>3, <2>4, <2>5 DEF PlanGenerator, TypeOK
<1>6. CASE SkipInput
  BY <1>6, LenProperties DEF SkipInput, TypeOK
<1>7. CASE LoadInput
  <2>1. Resolved[inputs[pos]] \in File
    BY <1>7, InputType DEF LoadInput
  <2>2. part' \in Seq(File)
    BY <1>7, <2>1, AppendProperties DEF LoadInput, TypeOK
  <2>3. /\ cache' \in SUBSET File
        /\ parses' \in [File -> Nat]
    <3>1. cache \in SUBSET File /\ cache' = cache \cup {Resolved[inputs[pos]]}
      BY <1>7 DEF LoadInput, TypeOK
    <3>2. parses \in [File -> Nat]
      BY DEF TypeOK
    <3>3. \/ parses' = parses
          \/ parses' = [parses EXCEPT ![Resolved[inputs[pos]]] = @ + 1]
      BY <1>7 DEF LoadInput
    <3> QED
      BY <2>1, <3>1, <3>2, <3>3
  <2>4. pos' \in 1..(Len(inputs') + 1)
    BY <1>7, LenProperties DEF LoadInput, TypeOK
  <2> QED
    BY <1>7, <2>2, <2>3, <2>4 DEF LoadInput, TypeOK
<1>8. CASE LoadInputFails
  <2>1. Resolved[inputs[pos]] \in File
    BY <1>8, InputType DEF LoadInputFails
  <2>2. parses' \in [File -> Nat]
    BY <1>8, <2>1 DEF LoadInputFails, TypeOK
  <2> QED
    BY <1>8, <2>2 DEF LoadInputFails, TypeOK
<1>9. CASE AddTask
  <2>1. Planning \in Entry /\ index[Planning.name] # 0
    BY <1>9, PlanningType DEF AddTask, LoadInv
  <2>2. index[Planning.name] \in 1..Dirs
    BY <2>1 DEF TypeOK, Entry
  <2> DEFINE new == [name |-> Planning.name, from |-> index[Planning.name],
                     options |-> Planning.options, schemas |-> part]
  <2>3. new \in Task
    BY <2>1, <2>2 DEF Entry, Task, TypeOK
  <2>4. tasks' = Append(tasks, new)
    BY <1>9 DEF AddTask
  <2> HIDE DEF new
  <2>5. tasks' \in Seq(Task)
    BY <2>3, <2>4, AppendProperties DEF TypeOK
  <2> QED
    BY <1>9, <2>5 DEF AddTask, TypeOK
<1>10. CASE Ask
  <2>1. tasks \in Seq(Task) /\ Len(heard) + 1 \in 1..Len(tasks)
    BY <1>10, LenProperties DEF Ask, TypeOK
  <2>2. Asking \in Task
    BY <2>1, ElementOfSeq DEF Asking
  <2>3. [name |-> Asking.name, from |-> Asking.from] \in [name : Exec, from : 1..Dirs]
    BY <2>2 DEF Task
  <2>4. ran' \in Seq([name : Exec, from : 1..Dirs])
    BY <1>10, <2>3, AppendProperties DEF Ask, TypeOK
  <2> QED
    BY <1>10, <2>4 DEF Ask, TypeOK
<1>11. CASE AskFails \/ Reap \/ ReapFailure
  BY <1>11 DEF AskFails, Reap, ReapFailure, TypeOK
<1>12. CASE GiveUpOnPipes \/ Refuse \/ AllAccepted
  BY <1>12 DEF GiveUpOnPipes, Refuse, AllAccepted, TypeOK
<1>13. CASE Accept
  <2>1. said \in Replies
    BY <1>13 DEF Accept, Usable, NoReply, TypeOK
  <2>2. heard' \in Seq(Replies)
    BY <1>13, <2>1, AppendProperties DEF Accept, TypeOK
  <2> QED
    BY <1>13, <2>2 DEF Accept, TypeOK
<1>14. CASE Generate
  BY <1>14 DEF Generate, TypeOK
<1>15. CASE Cancel
  BY <1>15 DEF Cancel, TypeOK
<1>16. CASE Kill
  BY <1>16 DEF Kill, TypeOK
<1>17. CASE LetGo
  BY <1>17 DEF LetGo, TypeOK
<1>18. ASSUME NEW how \in {"zero", "nonzero"}, NEW reply \in Replies, Exit(how, reply)
       PROVE  TypeOK'
  BY <1>18 DEF Exit, TypeOK
<1>19. CASE UNCHANGED vars
  BY <1>19 DEF vars, TypeOK
<1> QED
  BY <1>1, <1>2, <1>3, <1>4, <1>5, <1>6, <1>7, <1>8, <1>9, <1>10, <1>11, <1>12, <1>13,
     <1>14, <1>15, <1>16, <1>17, <1>18, <1>19
     DEF Next, Lookup, Plan, Handshake
-----------------------------------------------------------------------------
(***************************************************************************)
(* Steps, by what they may write: most either leave the tables alone or    *)
(* end the run.                                                            *)
(***************************************************************************)
tables == <<onPath, dir, index, manifest, tasks, inputs, pos, part, cache, ran, heard>>

Quiet ==
    \/ Cancel
    \/ \E how \in {"zero", "nonzero"}, reply \in Replies : Exit(how, reply)
    \/ Kill
    \/ LetGo
    \/ UNCHANGED vars

Failing ==
    \/ NoPath \/ SearchFails \/ RefuseManifest \/ PlanFails
    \/ LoadInputFails
    \/ AskFails \/ ReapFailure \/ GiveUpOnPipes \/ Refuse

Advancing ==
    \/ LookupPath \/ SearchDirectory
    \/ \E m \in Manifests : LoadManifest(m)
    \/ PlanGenerator \/ SkipInput \/ LoadInput \/ AddTask \/ AllPlanned
    \/ Ask \/ Reap \/ Accept \/ AllAccepted \/ Generate

LEMMA Steps ==
    ASSUME [Next]_vars
    PROVE  Quiet \/ Failing \/ Advancing
  BY DEF Next, Lookup, Plan, Handshake, Quiet, Failing, Advancing

LEMMA QuietStep ==
    ASSUME Quiet
    PROVE  UNCHANGED <<tables, pc, parses, failed>>
<1>1. CASE Cancel
  BY <1>1 DEF Cancel, tables
<1>2. ASSUME NEW how \in {"zero", "nonzero"}, NEW reply \in Replies, Exit(how, reply)
      PROVE  UNCHANGED <<tables, pc, parses, failed>>
  BY <1>2 DEF Exit, tables
<1>3. CASE Kill \/ LetGo
  BY <1>3 DEF Kill, LetGo, tables
<1>4. CASE UNCHANGED vars
  BY <1>4 DEF vars, tables
<1> QED
  BY <1>1, <1>2, <1>3, <1>4 DEF Quiet

LEMMA FailingStep ==
    ASSUME Failing
    PROVE  /\ UNCHANGED tables
           /\ pc # "returned"
           /\ pc' = "returned"
           /\ failed' \in {"path", "search", "manifest", "plan", "handshake"}
<1>1. CASE NoPath \/ SearchFails \/ RefuseManifest
  BY <1>1 DEF NoPath, SearchFails, RefuseManifest, tables
<1>2. CASE PlanFails \/ LoadInputFails
  BY <1>2 DEF PlanFails, LoadInputFails, tables
<1>3. CASE AskFails \/ ReapFailure
  BY <1>3 DEF AskFails, ReapFailure, tables
<1>4. CASE GiveUpOnPipes \/ Refuse
  BY <1>4 DEF GiveUpOnPipes, Refuse, tables
<1> QED
  BY <1>1, <1>2, <1>3, <1>4 DEF Failing

\* The index is built before the manifest is read, and not touched after.
LEMMA IndexStep ==
    ASSUME TypeOK, IndexInv, [Next]_vars
    PROVE  IndexInv'
<1>1. CASE SearchDirectory
  <2> SUFFICES ASSUME NEW x \in Exec
               PROVE  /\ index'[x] = 0 => \A d \in 1..(dir' - 1) : x \notin onPath'[d]
                      /\ index'[x] # 0 => index'[x] < dir' /\ FoundIn(x, index[x])'
    BY DEF IndexInv
  <2>1. onPath' = onPath /\ dir' = dir + 1 /\ dir \in 1..Dirs
    BY <1>1, NameAssumption DEF SearchDirectory, NameAssumption, TypeOK
  <2>2. index'[x] = IF index[x] = 0 /\ x \in onPath[dir] THEN dir ELSE index[x]
    BY <1>1 DEF SearchDirectory
  <2>3. /\ index[x] \in 0..Dirs
        /\ index[x] = 0 => \A d \in 1..(dir - 1) : x \notin onPath[d]
        /\ index[x] # 0 => index[x] < dir /\ FoundIn(x, index[x])
    BY DEF IndexInv, TypeOK
  <2>4. Dirs \in Nat
    BY NameAssumption DEF NameAssumption
  <2>5. CASE index[x] = 0 /\ x \in onPath[dir]
    BY <2>1, <2>2, <2>3, <2>4, <2>5 DEF FoundIn
  <2>6. CASE index[x] = 0 /\ x \notin onPath[dir]
    <3> SUFFICES ASSUME NEW d \in 1..(dir' - 1)
                 PROVE  x \notin onPath'[d]
      BY <2>2, <2>6
    <3>1. d = dir \/ d \in 1..(dir - 1)
      BY <2>1, <2>4
    <3> QED
      BY <2>1, <2>3, <2>6, <3>1
  <2>7. CASE index[x] # 0
    BY <2>1, <2>2, <2>3, <2>4, <2>7 DEF FoundIn
  <2> QED
    BY <2>5, <2>6, <2>7
<1>2. CASE UNCHANGED <<onPath, dir, index>>
  BY <1>2 DEF IndexInv, FoundIn
<1>3. CASE Quiet \/ Failing
  BY <1>2, <1>3, QuietStep, FailingStep DEF tables
<1>4. CASE LookupPath \/ PlanGenerator \/ SkipInput \/ LoadInput \/ AddTask \/ AllPlanned
  BY <1>2, <1>4 DEF LookupPath, PlanGenerator, SkipInput, LoadInput, AddTask, AllPlanned
<1>5. CASE Ask \/ Reap \/ Accept \/ AllAccepted \/ Generate
  BY <1>2, <1>5 DEF Ask, Reap, Accept, AllAccepted, Generate
<1>6. ASSUME NEW m \in Manifests, LoadManifest(m)
      PROVE  IndexInv'
  BY <1>2, <1>6 DEF LoadManifest
<1> QED
  BY <1>1, <1>3, <1>4, <1>5, <1>6, Steps DEF Advancing

LEMMA AddedTask ==
    ASSUME TypeOK, IndexInv, LoadInv, AddTask
    PROVE  /\ Len(tasks) \in Nat
           /\ Len(tasks) < Len(manifest.gens)
           /\ Len(tasks') = Len(tasks) + 1
           /\ \A t \in 1..Len(tasks) : tasks'[t] = tasks[t]
           /\ tasks'[Len(tasks) + 1].name = Planning.name
           /\ tasks'[Len(tasks) + 1].from = index[Planning.name]
           /\ tasks'[Len(tasks) + 1].options = Planning.options
           /\ tasks'[Len(tasks) + 1].schemas = part
           /\ FoundIn(Planning.name, index[Planning.name])
<1> DEFINE new == [name |-> Planning.name, from |-> index[Planning.name],
                   options |-> Planning.options, schemas |-> part]
<1>1. Len(tasks) < Len(manifest.gens) /\ index[Planning.name] # 0
  BY DEF AddTask, LoadInv
<1>2. Planning.name \in Exec
  BY <1>1, PlanningType DEF Entry
<1>3. FoundIn(Planning.name, index[Planning.name])
  BY <1>1, <1>2 DEF IndexInv
<1>4. tasks' = Append(tasks, new) /\ tasks \in Seq(Task)
  BY DEF AddTask, TypeOK
<1>5. new.name = Planning.name /\ new.from = index[Planning.name]
      /\ new.options = Planning.options /\ new.schemas = part
  OBVIOUS
<1> HIDE DEF new
<1>6. new \in Task
  <2>1. index[Planning.name] \in 1..Dirs
    BY <1>1, <1>2, NameAssumption DEF NameAssumption, TypeOK
  <2> QED
    BY <1>1, <2>1, PlanningType DEF new, Task, Entry, TypeOK
<1>7. /\ Len(tasks') = Len(tasks) + 1
      /\ \A t \in 1..Len(tasks) : tasks'[t] = tasks[t]
      /\ tasks'[Len(tasks) + 1] = new
  BY <1>4, <1>6, AppendProperties
<1>8. Len(tasks) \in Nat
  BY <1>4, LenProperties
<1> QED
  BY <1>1, <1>3, <1>5, <1>7, <1>8

\* A task is added for the next entry of the manifest, and nothing takes one
\* away or changes it.
LEMMA TaskStep ==
    ASSUME TypeOK, IndexInv, TaskInv, LoadInv, [Next]_vars
    PROVE  TaskInv'
<1> USE DEF Asked
<1>1. CASE Quiet
  BY <1>1, QuietStep DEF TaskInv, FoundIn, tables
<1>2. CASE Failing
  BY <1>2, FailingStep DEF TaskInv, FoundIn, tables
<1>3. CASE LookupPath \/ SearchDirectory
  BY <1>3 DEF LookupPath, SearchDirectory, TaskInv, FoundIn
<1>4. ASSUME NEW m \in Manifests, LoadManifest(m)
      PROVE  TaskInv'
  <2>1. manifest' = m /\ m.gens # <<>> /\ pc' = "plan" /\ tasks' = <<>>
    BY <1>4 DEF LoadManifest, TaskInv
  <2>2. Len(tasks') = 0 /\ Len(manifest'.gens) \in Nat
    BY <2>1, ManifestAssumption, LenProperties, EmptySeq DEF ManifestAssumption
  <2> QED
    BY <2>1, <2>2 DEF TaskInv
<1>5. CASE PlanGenerator \/ SkipInput \/ LoadInput
  BY <1>5 DEF PlanGenerator, SkipInput, LoadInput, TaskInv, FoundIn
<1>6. CASE AddTask
  <2>1. pc = "load" /\ pc' = "plan" /\ UNCHANGED <<onPath, manifest>>
    BY <1>6 DEF AddTask
  <2>2. Len(manifest.gens) \in Nat
    BY LenProperties DEF TypeOK
  <2>3. Len(tasks') <= Len(manifest'.gens)
    BY <1>6, <2>1, <2>2, AddedTask
  <2>4. ASSUME NEW t \in 1..Len(tasks')
        PROVE  /\ tasks'[t].name = manifest'.gens[t].name
               /\ tasks'[t].options = manifest'.gens[t].options
               /\ FoundIn(tasks[t].name, tasks[t].from)'
    <3>1. CASE t = Len(tasks) + 1
      BY <1>6, <2>1, <3>1, AddedTask DEF Planning, FoundIn
    <3>2. CASE t # Len(tasks) + 1
      <4>1. t \in 1..Len(tasks)
        BY <1>6, <2>4, <3>2, AddedTask
      <4> QED
        BY <1>6, <2>1, <4>1, AddedTask DEF TaskInv, FoundIn
    <3> QED
      BY <3>1, <3>2
  <2> QED
    BY <2>1, <2>3, <2>4 DEF TaskInv
<1>7. CASE AllPlanned \/ Ask \/ Reap
  BY <1>7 DEF AllPlanned, Ask, Reap, TaskInv, FoundIn
<1>8. CASE Accept \/ AllAccepted \/ Generate
  BY <1>8 DEF Accept, AllAccepted, Generate, TaskInv, FoundIn
<1> QED
  BY <1>1, <1>2, <1>3, <1>4, <1>5, <1>6, <1>7, <1>8, Steps DEF Advancing

LEMMA LoadStep ==
    ASSUME LoadInv, [Next]_vars
    PROVE  LoadInv'
<1>1. CASE Quiet
  BY <1>1, QuietStep DEF LoadInv, Planning, tables
<1>2. CASE Failing
  BY <1>2, FailingStep DEF LoadInv
<1>3. CASE PlanGenerator
  BY <1>3 DEF PlanGenerator, LoadInv, Planning
<1>4. CASE SkipInput \/ LoadInput
  BY <1>4 DEF SkipInput, LoadInput, LoadInv, Planning
<1>5. CASE LookupPath \/ SearchDirectory \/ AddTask \/ AllPlanned
  BY <1>5 DEF LookupPath, SearchDirectory, AddTask, AllPlanned, LoadInv
<1>6. CASE Ask \/ Reap \/ Accept \/ AllAccepted \/ Generate
  BY <1>6 DEF Ask, Reap, Accept, AllAccepted, Generate, LoadInv
<1>7. ASSUME NEW m \in Manifests, LoadManifest(m)
      PROVE  LoadInv'
  BY <1>7 DEF LoadManifest, LoadInv
<1> QED
  BY <1>1, <1>2, <1>3, <1>4, <1>5, <1>6, <1>7, Steps DEF Advancing

\* A handshake is with the task after the last one that vouched.
LEMMA AskStep ==
    ASSUME TypeOK, TaskInv, IndexInv, LoadInv, AskInv, [Next]_vars
    PROVE  AskInv'
<1> USE DEF Before
<1>0. Len(ran) \in Nat /\ Len(heard) \in Nat /\ Len(tasks) \in Nat
  BY LenProperties DEF TypeOK
<1>1. CASE Quiet
  BY <1>1, QuietStep DEF AskInv, Usable, Accepts, tables
<1>2. CASE Failing
  BY <1>2, FailingStep DEF AskInv, Usable, Accepts, tables
<1>3. CASE LookupPath \/ SearchDirectory
  BY <1>3 DEF LookupPath, SearchDirectory, AskInv, Usable, Accepts
<1>4. ASSUME NEW m \in Manifests, LoadManifest(m)
      PROVE  AskInv'
  BY <1>4 DEF LoadManifest, AskInv, Usable, Accepts
<1>5. CASE PlanGenerator \/ SkipInput \/ LoadInput
  BY <1>5 DEF PlanGenerator, SkipInput, LoadInput, AskInv, Usable, Accepts
<1>6. CASE AddTask
  <2>1. pc = "load" /\ pc' = "plan" /\ UNCHANGED <<ran, heard>>
    BY <1>6 DEF AddTask
  <2>2. ran = <<>> /\ heard = <<>> /\ Len(ran) = 0 /\ Len(heard) = 0
    BY <2>1, EmptySeq DEF AskInv
  <2>3. Len(tasks') \in Nat
    BY <1>6, AddedTask
  <2> QED
    BY <2>1, <2>2, <2>3 DEF AskInv
<1>7. CASE AllPlanned
  <2>1. pc = "plan" /\ pc' = "handshake" /\ UNCHANGED <<ran, heard, tasks>>
    BY <1>7 DEF AllPlanned
  <2>2. ran = <<>> /\ heard = <<>> /\ Len(ran) = 0 /\ Len(heard) = 0
    BY <2>1, EmptySeq DEF AskInv
  <2> QED
    BY <1>0, <2>1, <2>2 DEF AskInv
<1>8. CASE Ask
  <2>1. /\ pc = "handshake" /\ pc' = "wait" /\ UNCHANGED <<heard, tasks>>
        /\ Len(ran) = Len(heard) /\ Len(heard) < Len(tasks)
    BY <1>8 DEF Ask, AskInv
  <2> DEFINE call == [name |-> Asking.name, from |-> Asking.from]
  <2>2. ran' = Append(ran, call)
    BY <1>8 DEF Ask
  <2>3. Asking \in Task
    <3>1. tasks \in Seq(Task) /\ Len(heard) + 1 \in 1..Len(tasks)
      BY <1>0, <2>1 DEF TypeOK
    <3> QED
      BY <3>1, ElementOfSeq DEF Asking
  <2>4. call \in [name : Exec, from : 1..Dirs]
    BY <2>3 DEF Task
  <2>5. call.name = tasks[Len(ran) + 1].name /\ call.from = tasks[Len(ran) + 1].from
    BY <2>1 DEF Asking
  <2> HIDE DEF call
  <2>6. /\ Len(ran') = Len(ran) + 1
        /\ \A t \in 1..Len(ran) : ran'[t] = ran[t]
        /\ ran'[Len(ran) + 1] = call
    BY <2>2, <2>4, AppendProperties DEF TypeOK
  <2>7. ASSUME NEW t \in 1..Len(ran')
        PROVE  ran'[t].name = tasks'[t].name /\ ran'[t].from = tasks'[t].from
    <3>1. t \in 1..Len(ran) \/ t = Len(ran) + 1
      BY <1>0, <2>6
    <3> QED
      BY <2>1, <2>5, <2>6, <3>1 DEF AskInv
  <2> QED
    BY <1>0, <2>1, <2>6, <2>7 DEF AskInv, Usable, Accepts
<1>9. CASE Reap \/ AllAccepted \/ Generate
  BY <1>9 DEF Reap, AllAccepted, Generate, AskInv, Usable, Accepts
<1>10. CASE Accept
  <2>1. /\ pc = "judge" /\ pc' = "handshake" /\ UNCHANGED <<ran, tasks>>
        /\ Len(ran) = Len(heard) + 1 /\ heard' = Append(heard, said)
        /\ Usable(said) /\ Accepts(tasks[Len(heard) + 1], said)
    BY <1>10 DEF Accept, AskInv, Asking
  <2>2. said \in Replies
    BY <2>1 DEF Usable, NoReply, TypeOK
  <2>3. /\ Len(heard') = Len(heard) + 1
        /\ \A t \in 1..Len(heard) : heard'[t] = heard[t]
        /\ heard'[Len(heard) + 1] = said
    BY <2>1, <2>2, AppendProperties DEF TypeOK
  <2>4. ASSUME NEW t \in 1..Len(heard')
        PROVE  Usable(heard[t])' /\ Accepts(tasks[t], heard[t])'
    <3>1. t \in 1..Len(heard) \/ t = Len(heard) + 1
      BY <1>0, <2>3
    <3>2. CASE t \in 1..Len(heard)
      BY <2>1, <2>3, <3>2 DEF AskInv, Usable, Accepts
    <3>3. CASE t = Len(heard) + 1
      BY <2>1, <2>3, <3>3 DEF Usable, Accepts
    <3> QED
      BY <3>1, <3>2, <3>3
  <2> QED
    BY <1>0, <2>1, <2>3, <2>4 DEF AskInv
<1> QED
  BY <1>1, <1>2, <1>3, <1>4, <1>5, <1>6, <1>7, <1>8, <1>9, <1>10, Steps DEF Advancing

LEMMA EndStep ==
    ASSUME TypeOK, TaskInv, AskInv, EndInv, [Next]_vars
    PROVE  EndInv'
<1>1. CASE Quiet
  BY <1>1, QuietStep DEF EndInv, tables
<1>2. CASE Failing
  BY <1>2, FailingStep DEF EndInv
<1>3. CASE LookupPath \/ SearchDirectory
  BY <1>3 DEF LookupPath, SearchDirectory, EndInv
<1>4. ASSUME NEW m \in Manifests, LoadManifest(m)
      PROVE  EndInv'
  BY <1>4 DEF LoadManifest, EndInv
<1>5. CASE PlanGenerator \/ SkipInput \/ LoadInput \/ AddTask \/ AllPlanned
  BY <1>5 DEF PlanGenerator, SkipInput, LoadInput, AddTask, AllPlanned, EndInv
<1>6. CASE Ask \/ Reap \/ Accept
  BY <1>6 DEF Ask, Reap, Accept, EndInv
<1>7. CASE AllAccepted
  BY <1>7 DEF AllAccepted, EndInv, TaskInv, Asked
<1>8. CASE Generate
  BY <1>8 DEF Generate, EndInv
<1> QED
  BY <1>1, <1>2, <1>3, <1>4, <1>5, <1>6, <1>7, <1>8, Steps DEF Advancing

(***************************************************************************)
(* Parsing: one more input is one more schema, unless it was written       *)
(* before.                                                                 *)
(***************************************************************************)
LEMMA CoversNone ==
    ASSUME NEW seq
    PROVE  Covers(<<>>, seq, 0)
<1>1. Names(seq, 0) = {}
  BY DEF Names
<1> QED
  BY <1>1, FS_EmptySet DEF Covers

LEMMA CoversRepeated ==
    ASSUME NEW schemas, NEW seq, NEW n \in Nat \ {0}, Covers(schemas, seq, n - 1),
           \E j \in 1..(n - 1) : seq[j] = seq[n]
    PROVE  Covers(schemas, seq, n)
<1>1. Names(seq, n) = Names(seq, n - 1)
  BY DEF Names
<1> QED
  BY <1>1 DEF Covers

LEMMA CoversOneMore ==
    ASSUME NEW schemas \in Seq(File), NEW seq, NEW n \in Nat \ {0},
           Covers(schemas, seq, n - 1), Resolved[seq[n]] \in File,
           ~ \E j \in 1..(n - 1) : seq[j] = seq[n]
    PROVE  Covers(Append(schemas, Resolved[seq[n]]), seq, n)
<1> DEFINE file == Resolved[seq[n]]
           more == Append(schemas, file)
<1>1. Names(seq, n) = Names(seq, n - 1) \cup {seq[n]}
  BY DEF Names
<1>2. seq[n] \notin Names(seq, n - 1)
  BY DEF Names
<1>3. /\ IsFiniteSet(Names(seq, n))
      /\ Cardinality(Names(seq, n)) = Cardinality(Names(seq, n - 1)) + 1
  <2>1. IsFiniteSet(Names(seq, n - 1))
    BY DEF Covers
  <2>2. /\ IsFiniteSet(Names(seq, n - 1) \cup {seq[n]})
        /\ Cardinality(Names(seq, n - 1) \cup {seq[n]}) = Cardinality(Names(seq, n - 1)) + 1
    BY <1>2, <2>1, FS_AddElement
  <2> QED
    BY <1>1, <2>2
<1>4. /\ Len(more) = Len(schemas) + 1
      /\ \A i \in 1..Len(schemas) : more[i] = schemas[i]
      /\ more[Len(schemas) + 1] = file
      /\ Len(schemas) \in Nat
  BY AppendProperties, LenProperties
<1>5. {more[i] : i \in 1..Len(more)} = {schemas[i] : i \in 1..Len(schemas)} \cup {file}
  <2> HIDE DEF more, file
  <2>1. 1..Len(more) = (1..Len(schemas)) \cup {Len(schemas) + 1}
    BY <1>4
  <2> QED
    BY <1>4, <2>1
<1>6. {Resolved[s] : s \in Names(seq, n)}
         = {Resolved[s] : s \in Names(seq, n - 1)} \cup {file}
  BY <1>1
<1> QED
  BY <1>3, <1>4, <1>5, <1>6 DEF Covers

LEMMA LoadedInput ==
    ASSUME TypeOK, LoadInput
    PROVE  LET file == Resolved[inputs[pos]] IN
           /\ file \in File
           /\ part \in Seq(File)
           /\ part' = Append(part, file)
           /\ Len(part) \in Nat
           /\ Len(part') = Len(part) + 1
           /\ \A i \in 1..Len(part) : part'[i] = part[i]
           /\ part'[Len(part) + 1] = file
           /\ cache' = cache \cup {file}
           /\ \A f \in File :
                 parses'[f] = IF f = file /\ file \notin cache THEN parses[f] + 1
                              ELSE parses[f]
           /\ pos \in Nat \ {0}
<1> DEFINE file == Resolved[inputs[pos]]
<1>1. file \in File
  BY InputType DEF LoadInput
<1>2. /\ part' = Append(part, file)
      /\ cache' = cache \cup {file}
      /\ parses' = IF file \in cache THEN parses ELSE [parses EXCEPT ![file] = @ + 1]
  BY DEF LoadInput, Cached
<1>3. /\ part \in Seq(File)
      /\ parses \in [File -> Nat]
      /\ Len(inputs) \in Nat
      /\ pos \in 1..(Len(inputs) + 1)
  BY LenProperties DEF TypeOK
<1> HIDE DEF file
<1>4. /\ Len(part) \in Nat
      /\ Len(part') = Len(part) + 1
      /\ \A i \in 1..Len(part) : part'[i] = part[i]
      /\ part'[Len(part) + 1] = file
  BY <1>1, <1>2, <1>3, AppendProperties, LenProperties
<1>5. \A f \in File :
         parses'[f] = IF f = file /\ file \notin cache THEN parses[f] + 1 ELSE parses[f]
  BY <1>1, <1>2, <1>3
<1> QED
  BY <1>1, <1>2, <1>3, <1>4, <1>5 DEF file

\* A file enters the cache as it is parsed, and a schema a task as its file
\* enters the cache.
LEMMA CacheStep ==
    ASSUME TypeOK, IndexInv, TaskInv, LoadInv, CacheInv, [Next]_vars
    PROVE  CacheInv'
<1>1. CASE UNCHANGED <<pc, manifest, tasks, inputs, pos, part, cache, parses>>
  BY <1>1 DEF CacheInv, ParsedInv, PartInv, SchemaInv
<1>2. ASSUME UNCHANGED <<manifest, tasks, cache, parses>>, pc # "returned", pc' # "load"
      PROVE  CacheInv'
  BY <1>2 DEF CacheInv, ParsedInv, PartInv, SchemaInv
<1>3. CASE Quiet
  BY <1>1, <1>3, QuietStep DEF tables
<1>4. CASE NoPath \/ SearchFails \/ RefuseManifest
  BY <1>2, <1>4 DEF NoPath, SearchFails, RefuseManifest
<1>5. CASE PlanFails \/ AskFails \/ ReapFailure
  BY <1>2, <1>5 DEF PlanFails, AskFails, ReapFailure
<1>6. CASE GiveUpOnPipes \/ Refuse \/ Accept
  BY <1>2, <1>6 DEF GiveUpOnPipes, Refuse, Accept
<1>7. CASE LookupPath \/ SearchDirectory \/ AllPlanned
  BY <1>2, <1>7 DEF LookupPath, SearchDirectory, AllPlanned
<1>8. CASE Ask \/ Reap \/ AllAccepted \/ Generate
  BY <1>2, <1>8 DEF Ask, Reap, AllAccepted, Generate
<1>9. ASSUME NEW m \in Manifests, LoadManifest(m)
      PROVE  CacheInv'
  <2>1. tasks = <<>> /\ tasks' = <<>> /\ UNCHANGED <<cache, parses>> /\ pc # "returned"
        /\ pc' = "plan"
    BY <1>9 DEF LoadManifest, TaskInv
  <2>2. Len(tasks') = 0
    BY <2>1, EmptySeq
  <2> QED
    BY <2>1, <2>2 DEF CacheInv, ParsedInv, PartInv, SchemaInv
<1>10. CASE LoadInputFails
  <2>1. /\ UNCHANGED <<manifest, tasks, cache>>
        /\ pc = "load" /\ pc' = "returned"
        /\ Resolved[inputs[pos]] \notin cache
    BY <1>10 DEF LoadInputFails, Cached
  <2>2. /\ Resolved[inputs[pos]] \in File
        /\ parses \in [File -> Nat]
        /\ parses' = [parses EXCEPT ![Resolved[inputs[pos]]] = @ + 1]
    BY <1>10, InputType DEF LoadInputFails, TypeOK
  <2>3. \A f \in File : /\ f \in cache' => parses'[f] = 1
                        /\ parses'[f] <= 1
    BY <2>1, <2>2 DEF CacheInv, ParsedInv, PartInv, SchemaInv
  <2> QED
    BY <2>1, <2>3 DEF CacheInv, ParsedInv, PartInv, SchemaInv
<1>11. CASE PlanGenerator
  <2>1. /\ UNCHANGED <<manifest, tasks, cache, parses>>
        /\ pc # "returned" /\ pc' # "returned"
        /\ pos' = 1 /\ part' = <<>>
    BY <1>11 DEF PlanGenerator
  <2>2. Covers(part', inputs', pos' - 1) /\ Len(part') = 0
    BY <2>1, CoversNone, EmptySeq
  <2>3. PartInv'
    BY <2>2 DEF PartInv
  <2>4. ParsedInv' /\ SchemaInv'
    BY <2>1 DEF CacheInv, ParsedInv, SchemaInv
  <2> QED
    BY <2>3, <2>4 DEF CacheInv
<1>12. CASE SkipInput
  <2>1. /\ UNCHANGED <<manifest, tasks, inputs, part, cache, parses>>
        /\ pc = "load" /\ pc' = "load" /\ pos' = pos + 1 /\ Repeated
    BY <1>12 DEF SkipInput
  <2>2. pos \in Nat \ {0} /\ pos' - 1 = pos
    BY <2>1, LenProperties DEF TypeOK
  <2>3. Covers(part, inputs, pos)
    BY <2>1, <2>2, CoversRepeated DEF CacheInv, PartInv, Repeated
  <2>4. PartInv'
    BY <2>1, <2>2, <2>3 DEF CacheInv, PartInv
  <2>5. ParsedInv' /\ SchemaInv'
    BY <2>1 DEF CacheInv, ParsedInv, SchemaInv
  <2> QED
    BY <2>4, <2>5 DEF CacheInv
<1>13. CASE LoadInput
  <2> DEFINE file == Resolved[inputs[pos]]
  <2>1. /\ UNCHANGED <<manifest, tasks, inputs>>
        /\ pc = "load" /\ pc' = "load" /\ pos' = pos + 1 /\ ~Repeated
    BY <1>13 DEF LoadInput
  <2>2. /\ file \in File /\ part \in Seq(File) /\ part' = Append(part, file)
        /\ Len(part) \in Nat /\ Len(part') = Len(part) + 1
        /\ \A i \in 1..Len(part) : part'[i] = part[i]
        /\ part'[Len(part) + 1] = file
        /\ cache' = cache \cup {file}
        /\ \A f \in File :
              parses'[f] = IF f = file /\ file \notin cache THEN parses[f] + 1
                           ELSE parses[f]
        /\ pos \in Nat \ {0} /\ pos' - 1 = pos
    BY <1>13, <2>1, LoadedInput
  <2>3. Covers(part', inputs', pos' - 1)
    BY <2>1, <2>2, CoversOneMore DEF CacheInv, PartInv, Repeated
  <2> HIDE DEF file
  <2>4. \A i \in 1..Len(part') : part'[i] \in cache'
    <3> SUFFICES ASSUME NEW i \in 1..Len(part')
                 PROVE  part'[i] \in cache'
      OBVIOUS
    <3>1. i \in 1..Len(part) \/ i = Len(part) + 1
      BY <2>2
    <3> QED
      BY <2>1, <2>2, <3>1 DEF CacheInv, PartInv
  <2>5. PartInv'
    BY <2>3, <2>4 DEF PartInv
  <2>6. ParsedInv'
    BY <2>1, <2>2 DEF CacheInv, ParsedInv
  <2>7. SchemaInv'
    BY <2>1, <2>2 DEF CacheInv, SchemaInv
  <2> QED
    BY <2>5, <2>6, <2>7 DEF CacheInv
<1>14. CASE AddTask
  <2> DEFINE written == manifest.shared \o Planning.inputs
  <2>1. /\ UNCHANGED <<manifest, inputs, pos, part, cache, parses>>
        /\ pc = "load" /\ pc' = "plan" /\ pos > Len(inputs)
        /\ inputs = written
    BY <1>14 DEF AddTask, LoadInv
  <2>2. pos - 1 = Len(written)
    <3>1. Len(inputs) \in Nat /\ pos \in 1..(Len(inputs) + 1)
      BY LenProperties DEF TypeOK
    <3> HIDE DEF written
    <3> QED
      BY <2>1, <3>1
  <2>3. Covers(part, written, Len(written)) /\ \A i \in 1..Len(part) : part[i] \in cache
    BY <2>1, <2>2 DEF CacheInv, PartInv
  <2>4. ParsedInv' /\ PartInv'
    BY <2>1 DEF CacheInv, ParsedInv, PartInv
  <2>5. ASSUME NEW t \in 1..Len(tasks')
        PROVE  LET asked == manifest.shared \o manifest.gens[t].inputs IN
               /\ Covers(tasks'[t].schemas, asked, Len(asked))
               /\ \A i \in 1..Len(tasks'[t].schemas) : tasks'[t].schemas[i] \in cache
    <3>1. t \in 1..Len(tasks) \/ t = Len(tasks) + 1
      BY <1>14, AddedTask
    <3>2. CASE t \in 1..Len(tasks)
      BY <1>14, <3>2, AddedTask DEF CacheInv, SchemaInv
    <3>3. CASE t = Len(tasks) + 1
      BY <1>14, <2>3, <3>3, AddedTask DEF Planning
    <3> QED
      BY <3>1, <3>2, <3>3
  <2>6. SchemaInv'
    BY <2>1, <2>5 DEF SchemaInv
  <2> QED
    BY <2>4, <2>6 DEF CacheInv
<1> QED
  BY <1>3, <1>4, <1>5, <1>6, <1>7, <1>8, <1>9, <1>10, <1>11, <1>12, <1>13, <1>14, Steps
     DEF Failing, Advancing
-----------------------------------------------------------------------------
(***************************************************************************)
(* Theorems.                                                               *)
(***************************************************************************)
LEMMA Invariant == Spec => []Inv
<1>1. Init => Inv
  <2> SUFFICES ASSUME Init
               PROVE  Inv
    OBVIOUS
  <2>1. Len(<<>>) = 0
    BY EmptySeq
  <2>2. TypeOK
    <3>1. \A S : <<>> \in Seq(S)
      BY EmptySeq
    <3>2. pos \in 1..(Len(inputs) + 1) /\ dir \in 1..(Dirs + 1)
      BY <2>1, NameAssumption DEF NameAssumption, Init
    <3>3. index \in [Exec -> 0..Dirs] /\ parses \in [File -> Nat]
      BY NameAssumption DEF NameAssumption, Init
    <3>4. manifest.shared = <<>> /\ manifest.gens = <<>>
      BY DEF Init
    <3> QED
      BY <3>1, <3>2, <3>3, <3>4 DEF Init, TypeOK
  <2>3. IndexInv
    BY DEF Init, IndexInv
  <2>4. TaskInv /\ LoadInv
    BY <2>1, EmptySeq DEF Init, TaskInv, LoadInv, Asked
  <2>5. AskInv
    BY <2>1 DEF Init, AskInv, Before
  <2>6. EndInv
    BY DEF Init, EndInv
  <2>7. CacheInv
    BY <2>1 DEF Init, CacheInv, ParsedInv, PartInv, SchemaInv
  <2> QED
    BY <2>2, <2>3, <2>4, <2>5, <2>6, <2>7 DEF Inv
<1>2. Inv /\ [Next]_vars => Inv'
  BY TypeStep, IndexStep, TaskStep, LoadStep, AskStep, EndStep, CacheStep DEF Inv
<1> QED
  BY <1>1, <1>2, PTL DEF Spec

\* Every variable has its type, for every manifest and every declaration; a
\* task is only made of a generator that the search found (planGenerators).
THEOREM TypeCorrect == Spec => []TypeOK
<1>1. Inv => TypeOK
  BY DEF Inv
<1> QED
  BY <1>1, Invariant, PTL

\* avroc executes generators of the manifest only, in its order, and each from
\* the first directory of PATH that has it (newGeneratorIndex, checkGenerators).
THEOREM FirstOnPath == Spec => []RunsTheFirstOnPath
<1>1. Inv => RunsTheFirstOnPath
  <2> SUFFICES ASSUME Inv, NEW t \in 1..Len(ran)
               PROVE  /\ t <= Len(manifest.gens)
                      /\ ran[t].name = manifest.gens[t].name
                      /\ ran[t].name \in onPath[ran[t].from]
                      /\ \A d \in 1..(ran[t].from - 1) : ran[t].name \notin onPath[d]
    BY DEF RunsTheFirstOnPath
  <2>1. /\ Len(ran) \in Nat /\ Len(tasks) \in Nat /\ Len(manifest.gens) \in Nat
    BY LenProperties DEF Inv, TypeOK
  <2>2. t \in 1..Len(tasks)
    BY <2>1 DEF Inv, AskInv
  <2>3. ran[t].name = tasks[t].name /\ ran[t].from = tasks[t].from
    BY DEF Inv, AskInv
  <2>4. /\ Len(tasks) <= Len(manifest.gens)
        /\ tasks[t].name = manifest.gens[t].name
        /\ FoundIn(tasks[t].name, tasks[t].from)
    BY <2>2 DEF Inv, TaskInv
  <2> QED
    BY <2>1, <2>2, <2>3, <2>4 DEF FoundIn
<1> QED
  BY <1>1, Invariant, PTL

\* Generators vouch one after the other, and nothing generates before each of
\* them has vouched for its entry of the manifest (checkGenerators,
\* parsePluginInfo, checkPluginInfo).
THEOREM Vouching == Spec => []VouchedInTurn
<1>1. ASSUME Inv, NEW t \in 1..Len(heard)
      PROVE  Vouched(t)
  <2>1. /\ Len(ran) \in Nat /\ Len(heard) \in Nat /\ Len(tasks) \in Nat
    BY <1>1, LenProperties DEF Inv, TypeOK
  <2>2. t \in 1..Len(tasks)
    BY <1>1, <2>1 DEF Inv, AskInv
  <2>3. tasks[t].name = manifest.gens[t].name /\ tasks[t].options = manifest.gens[t].options
    BY <1>1, <2>2 DEF Inv, TaskInv
  <2>4. Usable(heard[t]) /\ Accepts(tasks[t], heard[t])
    BY <1>1 DEF Inv, AskInv
  <2>5. heard[t] \in Reply
    BY <1>1, ElementOfSeq, ReplyAssumption DEF ReplyAssumption, Inv, TypeOK
  <2>6. heard[t].member \in {"absent", "null", "array"} /\ heard[t].irVersion \in Int
    BY <2>5 DEF Reply
  <2> QED
    BY <2>3, <2>4, <2>6, NameAssumption DEF NameAssumption, Usable, Accepts, Vouched
<1>2. Inv => VouchedInTurn
  <2> SUFFICES ASSUME Inv
               PROVE  VouchedInTurn
    OBVIOUS
  <2>1. /\ Len(ran) \in Nat /\ Len(heard) \in Nat /\ Len(tasks) \in Nat
        /\ Len(ran) <= Len(heard) + 1
    BY LenProperties DEF Inv, TypeOK, AskInv
  <2>2. \A t \in 1..(Len(ran) - 1) : t <= Len(heard) /\ Vouched(t)
    BY <1>1, <2>1
  <2>3. ASSUME pc = "generate" \/ (pc = "returned" /\ failed \in {"none", "generate"})
        PROVE  /\ manifest.gens # <<>>
               /\ \A t \in 1..Len(manifest.gens) : t <= Len(heard) /\ Vouched(t)
    BY <1>1, <2>1, <2>3 DEF Inv, EndInv
  <2> QED
    BY <2>2, <2>3 DEF VouchedInTurn
<1> QED
  BY <1>2, Invariant, PTL

\* No file is parsed twice, however many generators share it and however they
\* write it, and a task has a schema for each of its inputs (planGenerators,
\* schemaCache.load, dedupInputs).
THEOREM ParsedOnce == Spec => []EachFileParsedOnce
<1>1. Inv => EachFileParsedOnce
  <2> SUFFICES ASSUME Inv
               PROVE  EachFileParsedOnce
    OBVIOUS
  <2>1. \A f \in File : parses[f] <= 1
    BY DEF Inv, CacheInv, ParsedInv
  <2>2. ASSUME NEW t \in 1..Len(tasks)
        PROVE  LET written == manifest.shared \o manifest.gens[t].inputs
                   schemas == tasks[t].schemas IN
               /\ Covers(schemas, written, Len(written))
               /\ \A i \in 1..Len(schemas) : parses[schemas[i]] = 1
    <3>1. tasks[t] \in Task
      BY ElementOfSeq DEF Inv, TypeOK
    <3>2. tasks[t].schemas \in Seq(File)
      BY <3>1 DEF Task
    <3>3. \A i \in 1..Len(tasks[t].schemas) : tasks[t].schemas[i] \in File
      BY <3>2, ElementOfSeq
    <3> QED
      BY <3>3 DEF Inv, CacheInv, ParsedInv, SchemaInv
  <2> QED
    BY <2>1, <2>2 DEF EachFileParsedOnce, Covers, Names
<1> QED
  BY <1>1, Invariant, PTL

-----------------------------------------------------------------------------
(***************************************************************************)
(* Why a run does not go on for ever: every step descends.                 *)
(***************************************************************************)
PhaseRank ==
    CASE pc = "env" -> 5 [] pc = "search" -> 4 [] pc \in {"plan", "load"} -> 3
      [] pc \in {"handshake", "wait", "judge"} -> 2 [] pc = "generate" -> 1 [] OTHER -> 0
AskRank == CASE pc = "handshake" -> 2 [] pc = "wait" -> 1 [] OTHER -> 0

DirsLeft == Dirs + 1 - dir
PlansLeft == 2 * (Len(manifest.gens) - Len(tasks)) + (IF pc = "plan" THEN 1 ELSE 0)
InputsLeft == Len(inputs) + 1 - pos
AsksLeft == 3 * (Len(tasks) - Len(heard)) + AskRank

\* What a generator, its children and whoever may cancel can still do.
WorldLeft == (IF proc = "alive" THEN 2 ELSE 0) + (IF held THEN 1 ELSE 0)
             + (IF cancelled THEN 0 ELSE 1)

\* What is left of a run: phases, directories of PATH, generators to plan,
\* inputs of the one being planned, handshakes, and the world's own steps.
Measure == <<PhaseRank, DirsLeft, PlansLeft, InputsLeft, AsksLeft, WorldLeft>>
StepsDescend == [][Descends(Measure', Measure)]_vars

LEMMA Lengths ==
    ASSUME Inv
    PROVE  /\ Len(tasks) \in Nat /\ Len(heard) \in Nat /\ Len(manifest.gens) \in Nat
           /\ Len(inputs) \in Nat /\ pos \in Nat /\ dir \in Nat /\ Dirs \in Nat
           /\ Len(heard) <= Len(tasks) /\ Len(tasks) <= Len(manifest.gens)
           /\ pos <= Len(inputs) + 1 /\ dir <= Dirs + 1
<1>1. /\ Len(tasks) \in Nat /\ Len(heard) \in Nat /\ Len(manifest.gens) \in Nat
      /\ Len(inputs) \in Nat /\ Len(ran) \in Nat /\ Dirs \in Nat
  BY LenProperties, NameAssumption DEF Inv, TypeOK, NameAssumption
<1>2. /\ pos \in Nat /\ pos <= Len(inputs) + 1 /\ dir \in Nat /\ dir <= Dirs + 1
  BY <1>1 DEF Inv, TypeOK
<1>3. Len(heard) <= Len(tasks) /\ Len(tasks) <= Len(manifest.gens)
  BY <1>1 DEF Inv, AskInv, TaskInv
<1> QED
  BY <1>1, <1>2, <1>3

LEMMA MeasureIsNatural ==
    ASSUME Inv
    PROVE  Measure \in [1..6 -> Nat]
<1>1. PhaseRank \in Nat /\ AskRank \in Nat /\ WorldLeft \in Nat
  BY DEF PhaseRank, AskRank, WorldLeft
<1>2. DirsLeft \in Nat /\ InputsLeft \in Nat
  BY Lengths DEF DirsLeft, InputsLeft
<1>3. AsksLeft \in Nat
  BY <1>1, Lengths DEF AsksLeft
<1>4. PlansLeft \in Nat
  <2>1. Len(manifest.gens) - Len(tasks) \in Nat
    BY Lengths
  <2> DEFINE n == Len(manifest.gens) - Len(tasks)
  <2>2. n \in Nat
    BY <2>1
  <2> HIDE DEF n
  <2>3. PlansLeft = 2 * n + (IF pc = "plan" THEN 1 ELSE 0)
    BY DEF PlansLeft, n
  <2> QED
    BY <2>2, <2>3
<1> QED
  BY <1>1, <1>2, <1>3, <1>4 DEF Measure

\* At which of its six places a step descends.
LEMMA DescendsAt ==
    ASSUME NEW k \in 1..6,
           k = 1 => PhaseRank' < PhaseRank,
           k > 1 => PhaseRank' = PhaseRank,
           k = 2 => DirsLeft' < DirsLeft,
           k > 2 => DirsLeft' = DirsLeft,
           k = 3 => PlansLeft' < PlansLeft,
           k > 3 => PlansLeft' = PlansLeft,
           k = 4 => InputsLeft' < InputsLeft,
           k > 4 => InputsLeft' = InputsLeft,
           k = 5 => AsksLeft' < AsksLeft,
           k > 5 => AsksLeft' = AsksLeft /\ WorldLeft' < WorldLeft
    PROVE  Descends(Measure', Measure)
<1>1. /\ Measure[1] = PhaseRank /\ Measure[2] = DirsLeft /\ Measure[3] = PlansLeft
      /\ Measure[4] = InputsLeft /\ Measure[5] = AsksLeft /\ Measure[6] = WorldLeft
      /\ DOMAIN Measure = 1..6
  BY DEF Measure
<1>2. /\ Measure'[1] = PhaseRank' /\ Measure'[2] = DirsLeft' /\ Measure'[3] = PlansLeft'
      /\ Measure'[4] = InputsLeft' /\ Measure'[5] = AsksLeft' /\ Measure'[6] = WorldLeft'
  BY DEF Measure
<1> DEFINE new == Measure'
           old == Measure
<1> HIDE DEF new, old
<1>3. new[k] < old[k]
  BY <1>1, <1>2 DEF new, old
<1>4. \A j \in 1..(k - 1) : new[j] = old[j]
  <2> SUFFICES ASSUME NEW j \in 1..(k - 1) PROVE new[j] = old[j]
    OBVIOUS
  <2>1. j \in 1..5 /\ j < k
    OBVIOUS
  <2> QED
    BY <1>1, <1>2, <2>1 DEF new, old
<1> QED
  BY <1>1, <1>3, <1>4 DEF Descends, new, old

\* The steps that end a phase.
LEMMA PhaseDescends ==
    ASSUME \/ Failing \/ LookupPath \/ AllPlanned \/ AllAccepted \/ Generate
           \/ \E m \in Manifests : LoadManifest(m)
    PROVE  Descends(Measure', Measure)
<1>1. PhaseRank' < PhaseRank
  <2>1. CASE Failing
    <3>1. pc' = "returned" /\ pc \in {"env", "search", "plan", "load", "handshake", "wait", "judge"}
      BY <2>1 DEF Failing, NoPath, SearchFails, RefuseManifest, PlanFails, LoadInputFails,
                  AskFails, ReapFailure, GiveUpOnPipes, Refuse
    <3> QED
      BY <3>1 DEF PhaseRank
  <2>2. CASE LookupPath \/ AllPlanned \/ AllAccepted \/ Generate
    BY <2>2 DEF LookupPath, AllPlanned, AllAccepted, Generate, PhaseRank
  <2>3. CASE \E m \in Manifests : LoadManifest(m)
    BY <2>3 DEF LoadManifest, PhaseRank
  <2> QED
    BY <2>1, <2>2, <2>3
<1> QED
  BY <1>1, DescendsAt

\* The steps through PATH and through the manifest.
LEMMA PlanDescends ==
    ASSUME Inv, \/ SearchDirectory \/ PlanGenerator \/ AddTask \/ SkipInput \/ LoadInput
    PROVE  Descends(Measure', Measure)
<1>1. CASE SearchDirectory
  <2>1. PhaseRank' = PhaseRank /\ dir' = dir + 1
    BY <1>1 DEF SearchDirectory, PhaseRank
  <2>2. DirsLeft' < DirsLeft
    BY <2>1, Lengths DEF DirsLeft
  <2> QED
    BY <2>1, <2>2, DescendsAt
<1>2. CASE PlanGenerator
  <2>1. /\ pc = "plan" /\ pc' = "load" /\ PhaseRank' = PhaseRank
        /\ dir' = dir /\ manifest' = manifest /\ tasks' = tasks
    BY <1>2 DEF PlanGenerator, PhaseRank
  <2>2. DirsLeft' = DirsLeft /\ PlansLeft' < PlansLeft
    BY <2>1, Lengths DEF DirsLeft, PlansLeft
  <2> QED
    BY <2>1, <2>2, DescendsAt
<1>3. CASE AddTask
  <2>1. /\ pc = "load" /\ pc' = "plan" /\ PhaseRank' = PhaseRank
        /\ dir' = dir /\ manifest' = manifest
    BY <1>3 DEF AddTask, PhaseRank
  <2>2. Len(tasks') = Len(tasks) + 1
    BY <1>3, AddedTask DEF Inv
  <2>3. DirsLeft' = DirsLeft /\ PlansLeft' < PlansLeft
    BY <2>1, <2>2, Lengths DEF DirsLeft, PlansLeft
  <2> QED
    BY <2>1, <2>3, DescendsAt
<1>4. CASE SkipInput \/ LoadInput
  <2>1. /\ pc' = pc /\ dir' = dir /\ manifest' = manifest /\ tasks' = tasks
        /\ inputs' = inputs /\ pos' = pos + 1
    BY <1>4 DEF SkipInput, LoadInput
  <2>2. PhaseRank' = PhaseRank /\ DirsLeft' = DirsLeft /\ PlansLeft' = PlansLeft
    BY <2>1 DEF PhaseRank, DirsLeft, PlansLeft
  <2>3. InputsLeft' < InputsLeft
    BY <2>1, Lengths DEF InputsLeft
  <2> QED
    BY <2>2, <2>3, DescendsAt
<1> QED
  BY <1>1, <1>2, <1>3, <1>4

\* The steps of a handshake.
LEMMA AskDescends ==
    ASSUME Inv, Ask \/ Reap \/ Accept
    PROVE  Descends(Measure', Measure)
<1>1. /\ dir' = dir /\ manifest' = manifest /\ tasks' = tasks /\ inputs' = inputs /\ pos' = pos
      /\ pc \in {"handshake", "wait", "judge"} /\ pc' \in {"handshake", "wait", "judge"}
  BY DEF Ask, Reap, Accept
<1>2. /\ PhaseRank' = PhaseRank /\ DirsLeft' = DirsLeft /\ PlansLeft' = PlansLeft
      /\ InputsLeft' = InputsLeft
  BY <1>1 DEF PhaseRank, DirsLeft, PlansLeft, InputsLeft
<1>3. CASE Ask \/ Reap
  <2>1. AskRank' < AskRank /\ heard' = heard /\ AskRank \in Nat /\ AskRank' \in Nat
    BY <1>3 DEF Ask, Reap, AskRank
  <2>2. AsksLeft' < AsksLeft
    BY <1>1, <2>1, Lengths DEF AsksLeft
  <2> QED
    BY <1>2, <2>2, DescendsAt
<1>4. CASE Accept
  <2>1. AskRank' = 2 /\ AskRank = 0 /\ heard' = Append(heard, said)
    BY <1>4 DEF Accept, AskRank
  <2>2. Len(heard') = Len(heard) + 1
    <3>1. heard \in Seq(Replies \cup {NoReply}) /\ said \in Replies \cup {NoReply}
      <4>1. heard \in Seq(Replies) /\ said \in Replies \cup {NoReply}
        BY DEF Inv, TypeOK
      <4> QED
        BY <4>1
    <3> QED
      BY <2>1, <3>1, AppendProperties
  <2>3. AsksLeft' < AsksLeft
    BY <1>1, <2>1, <2>2, Lengths DEF AsksLeft
  <2> QED
    BY <1>2, <2>3, DescendsAt
<1> QED
  BY <1>3, <1>4

\* The steps of the world.
LEMMA WorldDescends ==
    ASSUME Quiet, ~UNCHANGED vars
    PROVE  Descends(Measure', Measure)
<1>1. UNCHANGED <<tables, pc>>
  BY QuietStep
<1>2. /\ PhaseRank' = PhaseRank /\ DirsLeft' = DirsLeft /\ PlansLeft' = PlansLeft
      /\ InputsLeft' = InputsLeft /\ AsksLeft' = AsksLeft
  BY <1>1 DEF tables, PhaseRank, AskRank, DirsLeft, PlansLeft, InputsLeft, AsksLeft
<1>3. WorldLeft' < WorldLeft
  <2>1. CASE Cancel
    BY <2>1 DEF Cancel, WorldLeft
  <2>2. ASSUME NEW how \in {"zero", "nonzero"}, NEW reply \in Replies, Exit(how, reply)
        PROVE  WorldLeft' < WorldLeft
    BY <2>2 DEF Exit, WorldLeft
  <2>3. CASE Kill
    BY <2>3 DEF Kill, WorldLeft
  <2>4. CASE LetGo
    BY <2>4 DEF LetGo, WorldLeft
  <2> QED
    BY <2>1, <2>2, <2>3, <2>4 DEF Quiet
<1> QED
  BY <1>2, <1>3, DescendsAt

\* Every step of a run leaves a smaller tuple of natural numbers, so with
\* Descent_proofs it takes finitely many steps: no PATH, manifest or list of
\* inputs makes planning or the handshakes go round.
THEOREM RunDescends == Spec => StepsDescend /\ [](Measure \in [1..6 -> Nat])
<1>1. Inv => Measure \in [1..6 -> Nat]
  BY MeasureIsNatural
<1>2. Inv /\ [Next]_vars => [Descends(Measure', Measure)]_vars
  <2> SUFFICES ASSUME Inv, [Next]_vars, ~UNCHANGED vars PROVE Descends(Measure', Measure)
    OBVIOUS
  <2>1. Quiet \/ Failing \/ Advancing
    BY Steps
  <2> QED
    BY <2>1, PhaseDescends, PlanDescends, AskDescends, WorldDescends DEF Advancing
<1> QED
  BY <1>1, <1>2, Invariant, PTL DEF Spec, StepsDescend

=============================================================================
