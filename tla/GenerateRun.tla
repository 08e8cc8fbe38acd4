----------------------------- MODULE GenerateRun -----------------------------
(***************************************************************************)
(* avroc generate, phase by phase, up to the point where the pool starts:  *)
(* generators looked up on PATH, the manifest read, every generator of it  *)
(* turned into a task with its inputs parsed, and every task's executable  *)
(* asked what it accepts.  Only then does anything generate.               *)
(*                                                                         *)
(* The handshake runs one process at a time and captures what it writes,   *)
(* so besides a process that never exits there is one that exits and       *)
(* leaves a child holding the pipes avroc reads.  The context may be       *)
(* cancelled at any moment; only the handshake and the pool look at it.    *)
(*                                                                         *)
(* A file is whatever its contents parse to, so the schemas of a task are  *)
(* the files they came from.  The pool and the merge are one step here:    *)
(* GeneratorPool and OutputTree.                                           *)
(***************************************************************************)
EXTENDS Integers, Sequences, FiniteSets

CONSTANTS
    Exec,       \* the names avroc-gen-<name> there are
    Option,     \* the option names there are
    Spelling,   \* how a manifest may write an input
    File,       \* what inputs resolve to
    Resolved,   \* Resolved[s]: filepath.Join(workingDir, s)
    Dirs,       \* how many directories PATH has
    Manifests,  \* what avroc.json may hold
    Replies,    \* what a generator may write for --plugin-info
    IRVersion   \* ir.Version

ASSUME NameAssumption ==
    /\ Resolved \in [Spelling -> File]
    /\ Dirs \in Nat
    /\ IRVersion \in Int

ASSUME ManifestAssumption ==
    Manifests \subseteq
        [shared : Seq(Spelling),
         gens : Seq([name : Exec, inputs : Seq(Spelling), options : SUBSET Option])]

\* A reply is whole when it is one JSON object with a name, a version and an
\* ir_version; "array" is an options member that is an array of strings.
Reply == [whole : BOOLEAN, name : Exec, irVersion : Int,
          member : {"absent", "null", "array"}, options : SUBSET Option]

ASSUME ReplyAssumption == Replies \subseteq Reply

VARIABLES
    onPath,     \* onPath[d]: the generators in the d-th directory of PATH
    pc,         \* the phase of the run
    dir,        \* the next directory to search
    index,      \* index[x]: the directory generator x is taken from, 0 for none
    manifest,   \* the manifest
    tasks,      \* the generators planned so far
    inputs,     \* the inputs of the generator being planned, duplicates included
    pos,        \* the next of them
    part,       \* the schemas it has so far
    cache,      \* the files whose schema is held
    parses,     \* parses[f]: how often f has been parsed
    ran,        \* the executables run for a handshake
    heard,      \* the declarations accepted
    proc,       \* the process of the current handshake
    said,       \* what it wrote
    held,       \* whether another process still holds its pipes
    cancelled,  \* whether the context is done
    failed      \* the phase that failed, or "none"

vars == <<onPath, pc, dir, index, manifest, tasks, inputs, pos, part, cache, parses,
          ran, heard, proc, said, held, cancelled, failed>>

search == <<dir, index>>
planning == <<inputs, pos, part, cache, parses>>
child == <<proc, said, held>>
asking == <<ran, heard>>
world == <<onPath, cancelled>>

NoReply == [whole |-> FALSE, name |-> "none", irVersion |-> 0,
            member |-> "absent", options |-> {}]

Init ==
    /\ onPath \in [1..Dirs -> SUBSET Exec]
    /\ pc = "env"
    /\ dir = 1
    /\ index = [x \in Exec |-> 0]
    /\ manifest = [shared |-> <<>>, gens |-> <<>>]
    /\ tasks = <<>>
    /\ inputs = <<>>
    /\ pos = 1
    /\ part = <<>>
    /\ cache = {}
    /\ parses = [f \in File |-> 0]
    /\ ran = <<>>
    /\ heard = <<>>
    /\ proc = "none"
    /\ said = NoReply
    /\ held = FALSE
    /\ cancelled = FALSE
    /\ failed = "none"

Goto(phase) == pc' = phase

\* Every failure is reported and returned, and becomes exit status 1.
Fail(phase) ==
    /\ Goto("returned")
    /\ failed' = phase

(***************************************************************************)
(* PATH: the first directory that has a generator is the one it runs from. *)
(* An empty element, a directory that does not exist and one that may not  *)
(* be read have nothing in them.                                           *)
(***************************************************************************)
LookupPath ==
    /\ pc = "env"
    /\ Goto("search")
    /\ UNCHANGED <<world, search, manifest, tasks, planning, asking, child, failed>>

NoPath ==
    /\ pc = "env"
    /\ Fail("path")
    /\ UNCHANGED <<world, search, manifest, tasks, planning, asking, child>>

\* Mutant: a later directory of PATH takes over the name.
SearchDirectoryLastWins ==
    /\ pc = "search"
    /\ dir <= Dirs
    /\ index' = [x \in Exec |-> IF x \in onPath[dir] THEN dir ELSE index[x]]
    /\ dir' = dir + 1
    /\ UNCHANGED <<world, pc, manifest, tasks, planning, asking, child, failed>>

SearchDirectory ==
    /\ pc = "search"
    /\ dir <= Dirs
    /\ index' = [x \in Exec |->
                    IF index[x] = 0 /\ x \in onPath[dir] THEN dir ELSE index[x]]
    /\ dir' = dir + 1
    /\ UNCHANGED <<world, pc, manifest, tasks, planning, asking, child, failed>>

SearchFails ==
    /\ pc = "search"
    /\ dir <= Dirs
    /\ Fail("search")
    /\ UNCHANGED <<world, search, manifest, tasks, planning, asking, child>>

(***************************************************************************)
(* The manifest.                                                           *)
(***************************************************************************)
LoadManifest(m) ==
    /\ pc = "search"
    /\ dir > Dirs
    /\ m.gens # <<>>
    /\ manifest' = m
    /\ Goto("plan")
    /\ UNCHANGED <<world, search, tasks, planning, asking, child, failed>>

RefuseManifest ==
    /\ pc = "search"
    /\ dir > Dirs
    /\ Fail("manifest")
    /\ UNCHANGED <<world, search, manifest, tasks, planning, asking, child>>

(***************************************************************************)
(* planGenerators: generators in the manifest's order, and for each its    *)
(* inputs, the shared ones first and each once.                            *)
(***************************************************************************)
Planning == manifest.gens[Len(tasks) + 1]

\* Mutant: a generator not found on PATH is planned.
PlanGeneratorUnfound ==
    /\ pc = "plan"
    /\ Len(tasks) < Len(manifest.gens)
    /\ manifest.shared \o Planning.inputs # <<>>
    /\ inputs' = manifest.shared \o Planning.inputs
    /\ pos' = 1
    /\ part' = <<>>
    /\ Goto("load")
    /\ UNCHANGED <<world, search, manifest, tasks, cache, parses, asking, child, failed>>

PlanGenerator ==
    /\ pc = "plan"
    /\ Len(tasks) < Len(manifest.gens)
    /\ index[Planning.name] # 0
    /\ manifest.shared \o Planning.inputs # <<>>
    /\ inputs' = manifest.shared \o Planning.inputs
    /\ pos' = 1
    /\ part' = <<>>
    /\ Goto("load")
    /\ UNCHANGED <<world, search, manifest, tasks, cache, parses, asking, child, failed>>

PlanFails ==
    /\ pc = "plan"
    /\ Len(tasks) < Len(manifest.gens)
    /\ index[Planning.name] = 0 \/ manifest.shared \o Planning.inputs = <<>>
    /\ Fail("plan")
    /\ UNCHANGED <<world, search, manifest, tasks, planning, asking, child>>

\* dedupInputs: an input written earlier is not written again.
Repeated == \E j \in 1..(pos - 1) : inputs[j] = inputs[pos]

SkipInput ==
    /\ pc = "load"
    /\ pos <= Len(inputs)
    /\ Repeated
    /\ pos' = pos + 1
    /\ UNCHANGED <<world, pc, search, manifest, tasks, inputs, part, cache, parses,
                   asking, child, failed>>

\* Mutant: every generator has a cache of its own.
CachedPerGenerator == \E i \in 1..Len(part) : part[i] = Resolved[inputs[pos]]

\* Inputs written differently may still be one file; the cache knows files.
Cached == Resolved[inputs[pos]] \in cache

LoadInput ==
    /\ pc = "load"
    /\ pos <= Len(inputs)
    /\ ~Repeated
    /\ pos' = pos + 1
    /\ part' = Append(part, Resolved[inputs[pos]])
    /\ cache' = cache \cup {Resolved[inputs[pos]]}
    /\ parses' = IF Cached THEN parses
                 ELSE [parses EXCEPT ![Resolved[inputs[pos]]] = @ + 1]
    /\ UNCHANGED <<world, pc, search, manifest, tasks, inputs, asking, child, failed>>

\* It does not open, parse, validate or resolve.
LoadInputFails ==
    /\ pc = "load"
    /\ pos <= Len(inputs)
    /\ ~Repeated
    /\ ~Cached
    /\ Fail("plan")
    /\ parses' = [parses EXCEPT ![Resolved[inputs[pos]]] = @ + 1]
    /\ UNCHANGED <<world, search, manifest, tasks, inputs, pos, part, cache, asking, child>>

AddTask ==
    /\ pc = "load"
    /\ pos > Len(inputs)
    /\ tasks' = Append(tasks, [name |-> Planning.name,
                               from |-> index[Planning.name],
                               options |-> Planning.options,
                               schemas |-> part])
    /\ Goto("plan")
    /\ UNCHANGED <<world, search, manifest, planning, asking, child, failed>>

AllPlanned ==
    /\ pc = "plan"
    /\ Len(tasks) = Len(manifest.gens)
    /\ Goto("handshake")
    /\ UNCHANGED <<world, search, manifest, tasks, planning, asking, child, failed>>

(***************************************************************************)
(* checkGenerators: one handshake after the other, in the order of the     *)
(* tasks.                                                                  *)
(***************************************************************************)
Asking == tasks[Len(heard) + 1]

Ask ==
    /\ pc = "handshake"
    /\ Len(heard) < Len(tasks)
    /\ ~cancelled
    /\ Goto("wait")
    /\ ran' = Append(ran, [name |-> Asking.name, from |-> Asking.from])
    /\ proc' = "alive"
    /\ UNCHANGED <<world, search, manifest, tasks, planning, heard, said, held, failed>>

\* The context is done, or the file cannot be executed.
AskFails ==
    /\ pc = "handshake"
    /\ Len(heard) < Len(tasks)
    /\ Fail("handshake")
    /\ UNCHANGED <<world, search, manifest, tasks, planning, asking, child>>

\* cmd.Run returns once the process has exited and its pipes are closed.
Reap ==
    /\ pc = "wait"
    /\ proc = "zero"
    /\ ~held
    /\ Goto("judge")
    /\ UNCHANGED <<world, search, manifest, tasks, planning, asking, child, failed>>

ReapFailure ==
    /\ pc = "wait"
    /\ proc \in {"nonzero", "signal"} \/ (proc = "zero" /\ cancelled)
    /\ ~held
    /\ Fail("handshake")
    /\ UNCHANGED <<world, search, manifest, tasks, planning, asking, child>>

\* Mutant: no WaitDelay, so the pipes are waited for.
GiveUpOnPipesNever == FALSE

\* cmd.WaitDelay after the exit, avroc closes the pipes itself.
GiveUpOnPipes ==
    /\ pc = "wait"
    /\ proc # "alive"
    /\ held
    /\ Fail("handshake")
    /\ UNCHANGED <<world, search, manifest, tasks, planning, asking, child>>

\* Mutant: null is read as an absent member would be.
UsableNull(reply) == reply.whole

\* parsePluginInfo: null is neither an absent member nor an array.
Usable(reply) == reply.whole /\ reply.member # "null"

\* checkPluginInfo.
Accepts(task, reply) ==
    /\ reply.name = task.name
    /\ IRVersion <= reply.irVersion
    /\ reply.member = "array" => task.options \subseteq reply.options

Accept ==
    /\ pc = "judge"
    /\ Usable(said)
    /\ Accepts(Asking, said)
    /\ Goto("handshake")
    /\ heard' = Append(heard, said)
    /\ proc' = "none"
    /\ UNCHANGED <<world, search, manifest, tasks, planning, ran, said, held, failed>>

Refuse ==
    /\ pc = "judge"
    /\ ~(Usable(said) /\ Accepts(Asking, said))
    /\ Fail("handshake")
    /\ UNCHANGED <<world, search, manifest, tasks, planning, asking, child>>

AllAccepted ==
    /\ pc = "handshake"
    /\ Len(heard) = Len(tasks)
    /\ Goto("generate")
    /\ UNCHANGED <<world, search, manifest, tasks, planning, asking, child, failed>>

\* generateAll.
Generate ==
    /\ pc = "generate"
    /\ Goto("returned")
    /\ failed' \in {"none", "generate"}
    /\ UNCHANGED <<world, search, manifest, tasks, planning, asking, child>>

(***************************************************************************)
(* The environment.                                                        *)
(***************************************************************************)
Cancel ==
    /\ ~cancelled
    /\ pc # "returned"
    /\ cancelled' = TRUE
    /\ UNCHANGED <<onPath, pc, search, manifest, tasks, planning, asking, child, failed>>

\* The generator writes something and exits, perhaps with a child of its own
\* still running.
Exit(how, reply) ==
    /\ proc = "alive"
    /\ proc' = how
    /\ said' = reply
    /\ held' \in BOOLEAN
    /\ UNCHANGED <<world, pc, search, manifest, tasks, planning, asking, failed>>

\* exec kills the process once the context is done, and not its children.
Kill ==
    /\ cancelled
    /\ proc = "alive"
    /\ proc' = "signal"
    /\ held' \in BOOLEAN
    /\ UNCHANGED <<world, pc, search, manifest, tasks, planning, asking, said, failed>>

LetGo ==
    /\ held
    /\ held' = FALSE
    /\ UNCHANGED <<world, pc, search, manifest, tasks, planning, asking, proc, said, failed>>

Lookup == LookupPath \/ NoPath \/ SearchDirectory \/ SearchFails

Plan ==
    \/ \E m \in Manifests : LoadManifest(m)
    \/ RefuseManifest
    \/ PlanGenerator \/ PlanFails
    \/ SkipInput \/ LoadInput \/ LoadInputFails
    \/ AddTask \/ AllPlanned

Handshake ==
    \/ Ask \/ AskFails
    \/ Reap \/ ReapFailure \/ GiveUpOnPipes
    \/ Accept \/ Refuse
    \/ AllAccepted

Next ==
    \/ Lookup
    \/ Plan
    \/ Handshake
    \/ Generate
    \/ Cancel
    \/ \E how \in {"zero", "nonzero"}, reply \in Replies : Exit(how, reply)
    \/ Kill
    \/ LetGo

\* avroc keeps going, and exec delivers its kill.  No generator is assumed to
\* exit or to let go of a pipe.  The pool returns once it has been cancelled
\* (CancelledRunReturns of GeneratorPool), and is not assumed to otherwise.
Fairness ==
    /\ WF_vars(Lookup \/ Plan \/ Handshake)
    /\ WF_vars(Kill)
    /\ WF_vars(Generate /\ cancelled)

Spec == Init /\ [][Next]_vars /\ Fairness

(***************************************************************************)
(* Properties.                                                             *)
(***************************************************************************)
Task == [name : Exec, from : 1..Dirs, options : SUBSET Option, schemas : Seq(File)]

\* Every variable has its type; a task's generator has been found.
TypeOK ==
    /\ onPath \in [1..Dirs -> SUBSET Exec]
    /\ pc \in {"env", "search", "plan", "load", "handshake", "wait", "judge",
               "generate", "returned"}
    /\ dir \in 1..(Dirs + 1)
    /\ index \in [Exec -> 0..Dirs]
    /\ manifest.shared \in Seq(Spelling)
    /\ manifest.gens \in Seq([name : Exec, inputs : Seq(Spelling), options : SUBSET Option])
    /\ tasks \in Seq(Task)
    /\ inputs \in Seq(Spelling)
    /\ pos \in 1..(Len(inputs) + 1)
    /\ part \in Seq(File)
    /\ cache \in SUBSET File
    /\ parses \in [File -> Nat]
    /\ ran \in Seq([name : Exec, from : 1..Dirs])
    /\ heard \in Seq(Replies)
    /\ proc \in {"none", "alive", "zero", "nonzero", "signal"}
    /\ said \in Replies \cup {NoReply}
    /\ held \in BOOLEAN
    /\ cancelled \in BOOLEAN
    /\ failed \in {"none", "path", "search", "manifest", "plan", "handshake", "generate"}

\* avroc executes only generators the manifest names, in its order, and each
\* from the first directory of PATH that has it, whatever the directories after
\* that one have.
RunsTheFirstOnPath ==
    \A t \in 1..Len(ran) :
        /\ t <= Len(manifest.gens)
        /\ ran[t].name = manifest.gens[t].name
        /\ ran[t].name \in onPath[ran[t].from]
        /\ \A d \in 1..(ran[t].from - 1) : ran[t].name \notin onPath[d]

\* The t-th generator is the one the manifest asked for, reads the descriptors
\* this avroc writes, and has refused none of the options it will be given.
Vouched(t) ==
    LET asked == manifest.gens[t]
        reply == heard[t] IN
    /\ reply.whole
    /\ reply.name = asked.name
    /\ reply.irVersion >= IRVersion
    /\ \/ reply.member = "absent"
       \/ reply.member = "array" /\ \A o \in asked.options : o \in reply.options

\* Nothing generates before every generator of the manifest has vouched for
\* its entry, and none is asked before those listed above it have: of several
\* broken generators the same one is reported on every run.
VouchedInTurn ==
    /\ \A t \in 1..(Len(ran) - 1) : t <= Len(heard) /\ Vouched(t)
    /\ pc = "generate" \/ (pc = "returned" /\ failed \in {"none", "generate"}) =>
          /\ manifest.gens # <<>>
          /\ \A t \in 1..Len(manifest.gens) : t <= Len(heard) /\ Vouched(t)

\* No file is parsed twice in a run, however many generators share it and
\* however they write it, and a task still has one schema for each input the
\* manifest gives its generator, the shared ones included.
EachFileParsedOnce ==
    /\ \A f \in File : parses[f] <= 1
    /\ \A t \in 1..Len(tasks) :
          LET written == manifest.shared \o manifest.gens[t].inputs
              names == {written[i] : i \in 1..Len(written)}
              schemas == tasks[t].schemas IN
          /\ Len(schemas) = Cardinality(names)
          /\ {schemas[i] : i \in 1..Len(schemas)} = {Resolved[s] : s \in names}
          /\ \A i \in 1..Len(schemas) : parses[schemas[i]] = 1

\* A cancelled run returns, though a generator asked for its capabilities never
\* exits, or leaves a process behind that never closes the pipes avroc reads.
CancelledRunReturns == cancelled ~> pc = "returned"

(***************************************************************************)
(* A statement of the repository that the code does not keep.              *)
(***************************************************************************)
\* README.md:25 and 41: every generator is asked what it accepts before any
\* schema is parsed.  planGenerators parses, and comes first.
AskedBeforeParsing ==
    (\E f \in File : parses[f] > 0) => Len(heard) = Len(manifest.gens)
=============================================================================
