# Specifications of avroc

TLA+ models of avroc, the Avro IDL compiler of this repository, the TLC
configurations that check them on small instances, and TLAPS proofs of the
properties that matter most for every value of the constants.

avroc reads a manifest (`avroc.json`), finds the generators it names on `PATH`,
asks each what it accepts, runs all of them concurrently as child processes, and
merges what they produced into the project, removing what the run before
produced and this one did not.

## The system

| Part | State it keeps | Operations | What makes it hard | What makes it correct |
|---|---|---|---|---|
| Run phases and plan (`internal/avroc/generate.go`, `avroc.go`, `manifest.go`) | index of generators, manifest, tasks, schema cache | search PATH, load the manifest, plan each generator, load each input | the cache is keyed by file and the inputs are compared as written; shadowing on PATH | the first generator on PATH runs; each file parsed once; a task has all of its inputs |
| Capability handshake (`plugininfo.go`) | one process, its output and pipes | ask, reap, judge, refuse | processes that hang or leave a pipe open; cancellation; absent, null and empty options | nothing generates before all have vouched; the first refusal in the manifest's order ends the run; a cancelled run returns |
| Invocation pool (`generate.go`, `avroc.go`, `descriptor.go`) | per invocation: two private directories, a process, a result and an error | make, write, start, reap, resolve, remove; submit, wait, clean up | goroutines, kills racing exits, removals that fail, cancellation at any point | files outlive the process that uses them; merge only with every plan; leftovers are reported |
| Output tree: merge (`merge.go`) | the project's files | plan, compare, make directories, rename | an error or a crash between any two system calls | all or nothing between generators; no step damages the tree |
| Output tree: prune and record (`prune.go`) | the record `avroc.gen.json`, the project's files | load, remove stale files, sweep directories, rewrite | the record is what authorises deletion and is itself written in two steps; people edit between runs | only owned files are removed; a successful run leaves exactly what it produced |
| Schema resolution and validation (`resolve.go`, `validate.go`) | index of declarations, scope | index, resolve, validate | forward, cyclic and qualified references; two passes that must agree | what validation accepts resolution resolves, to one declaration |
| Descriptor contract (`internal/ir`) | none | encode, canonical form, validate | equality of schemas up to what the canonical form drops | the form is unique and idempotent |
| Plugin runtime (`internal/plugin`) | first write error, parsed arguments | parse, read, write files, report, shut down | sticky errors, order of deferred calls, flush budget | a zero exit means every file was written |
| Trace propagation and telemetry (`propagate.go`, `trace.go`, `internal/telemetry`) | span context, exporter queue | start, end, inject, extract, flush | inherited and own context in one environment; bounded flush | a child's parent is this run's span or none |
| Generators (`internal/avroc-gen-go`, `-json`, `-pcf`) | files and names produced | generate | two declarations that map to one name or one file | distinct declarations, distinct outputs |
| `init`, `inspect`, entry points | none | one file written or read | a check and a write apart | no manifest is overwritten |

The parts meet in `generate` (`generate.go:63`): the phases run in order, the
tasks they plan go to the pool, the pool's plans go to the merge, and what was
merged goes to pruning and the record. They share the file system (the scratch
directories are made *inside* the output directories that pruning sweeps), one
context, which a signal cancels, and nothing else.

## The modules

| Module | Models | Checked by | Proved in |
|---|---|---|---|
| `GenerateRun` | the phases up to the pool, and the handshake | `MCGenerateRun` | `GenerateRun_proofs` |
| `GeneratorPool` | `generateAll`'s pool and `generator.run` | `MCGeneratorPool.cfg` | `GeneratorPool_proofs` |
| `OutputTree` | merge, prune and record over any number of runs | `MCOutputTree` | `OutputTree_proofs` |
| `OutputLedger` | what avroc promises about files: the abstract specification `OutputTree` implements | as a property of `MCOutputTree` | `OutputTree_proofs` |
| `SchemaResolution` | validation and resolution of one IDL file | `MCSchemaOutput` | `SchemaResolution_proofs` |
| `SchemaOutput` | what the generators read out of the resolved file | `MCSchemaOutput` | `SchemaResolution_proofs` |
| `PluginRuntime` | one generator process, from its environment to its exit and the flush after it | `MCPluginRuntime` | `PluginRuntime_proofs` |
| `PoolOutcome`, `PoolContract` | how the pool ends, as `OutputTree` assumes and `GeneratorPool` provides: the abstract specification between the two | as a property of `MCGeneratorPool.cfg` | `GeneratorPool_proofs` |
| `Descent` | no code: the order in which a computation that ends gets smaller | in `StepsDescend` of `MCSchemaOutput` | `Descent_proofs` |

The components are separate modules because what passes between them is small: a
descriptor or an error for each input, a task list that is vouched for, an exit
status and a directory of files, a plan for each generator. `GenerateRun` has one
choice for resolving an input (`SchemaResolution`) and one step `Generate` for
the pool and the tree; `GeneratorPool` has one step `Exit` for a generator
(`PluginRuntime`) and one step `Merge` for the tree; `OutputTree` has one step,
`GeneratorsSucceed` or `GeneratorsFail`, for the pool. Those two steps and the pool
agree because both are written with `PoolOutcome`: `OutputTree` takes its operators
as guards, and `GeneratorPool` is shown to implement `PoolContract`, whose steps
they are. `SchemaOutput` extends
`SchemaResolution` with definitions over its variables and adds no step.

**GenerateRun.** `index`, `tasks`, `cache` and `heard` are the variables of
`lookupGenerators`, `planGenerators` and `checkGenerators`; `parses` and `ran`
record what was done, for the properties. The loop that drops repeated inputs is
folded into the loop that loads them (`SkipInput`). A declaration is a record
that keeps apart what `parsePluginInfo` keeps apart: unreadable or whole, and an
`options` member that is absent, null or an array. A process of the handshake
has exited or not, and separately its pipes are `held` or not: `cmd.Run` returns
when both are over (`Reap`), or `handshakeWaitDelay` after the exit
(`GiveUpOnPipes`).

**GeneratorPool.** `step[g]` is where the goroutine of `g` is in
`generator.run`, one value per system call, and `out` and `err` are its named
results, which its deferred calls read and write. The context is read at exactly
one place (`CheckContext`), and kills only a process that runs.

**OutputTree.** `tree` maps every path to what is there, and each system call
that changes the project (one `MkdirAll`, one `Rename`, one `Remove`, the
truncation and the write of the record) is a step, so a crash or an error
falls between any two. The directory sweep of one emptied directory is one step:
nothing else acts on the project meanwhile, and a crash inside it leaves a state
that a crash before another directory's sweep leaves as well. `recorded` is what
a readable record says; `previous` is what this run read. Where generators fail or
avroc dies among them, any of the output directories that can be made have been. A person may replace
any entry between runs. Where one of `mounts` lies between an output directory
and a file of it, the rename fails and the file is copied first
(`copyIntoPlace`): the stage `stage` is the time in which the copy exists beside
its place, under no name of the project, and `litter` remembers where one was
left. `os.Rename` refuses a directory in the way before it asks the system, so no
copy is made there.

**SchemaResolution.** `schema` is the file as the parser leaves it. The validator
is two predicates, `NamesDefined` and `DefaultFits`, over its own table
(`KnownAs`); the resolver looks names up in another (`Indexed`, `Candidates`), and
that the two agree is a property, never an assumption. The recursion of
`resolveType` is the variable `stack`: a frame holds the type names of a
declaration still to be resolved, the namespace they are read in, and the
constructors on the way there. `defined` is the resolver's set of full names
written out, and `out` the descriptor in the order it is written: a definition,
a reference or a primitive, each with the place it stands in. A type expression
is one constructor deep, so a field is its name, an array, a map or a union of
it; a record whose fields are several such expressions reaches deeper ones
through the types they name. Field names, aliases, symbols and sizes are left
out: neither table looks at them.

**SchemaOutput** states what each generator takes from `out`: the part under the
root type for the two that publish a schema and for the fingerprint, and for the
Go generator the definitions its walk reaches (`Walked`, `Declared`) beside the
names it writes (`GoUses`).

**PluginRuntime.** Everything settled before the process starts is one record
`inv`: what avroc itself was started with, the argument vector, the descriptor,
the kind of generator and what it will be asked to write, the collector. What may
go wrong while it runs is in the actions: a write that fails and leaves the file
absent or cut short, a closed standard output, a panic, a signal. `rest`, `seen`
and `options` are `ParseArgs`; `written` and `failed` are `OutputDir`, whose
error is kept; `span` and `code` are what the deferred calls of `run` read. The
flush advances in ticks, of which `FlushBudget` has `inv.budget`; a request ends
when the collector answers or by its own timeout, and the whole by the budget.
`careless` is a generator that ignores the error `WriteFile` returned: none here
does, but the runtime promises its exit status regardless.

**OutputLedger** has four variables and says only: own what the record names;
adopt only what was claimed, by one generator each, and never the record;
discard only what is owned and not claimed, and only after everything claimed is
there; commit only when claims and disk agree; lose ownership rather than gain
it. The refinement mapping reads `onDisk` off the tree, and keeps the old
ownership while the record is being written.

**PoolContract** sees of the pool what `generateAll` sees when it stops waiting:
`kept`, the scratch directories it holds, `left`, what nobody will remove, and the
`verdict`. Every generator delivered and nothing is left, or at least one fell
short, nothing is merged and the verdict is an error. Where temporary directories
can always be removed, nothing is ever left. Writing it found a gap in
`OutputTree`: a failed invocation whose removals failed as well leaves its
directories in the project (`avroc.go:297` and `:321`), and `GeneratorsFail` did not
put them in `litter`.

## The runs

| Run | Bounds | Shows |
|---|---|---|
| `output_tree` | two generators, one writing at the root and one into `gen`, which may be a mount point; paths `a`, `gen`, `gen/x`, `rec`, `rec/x` with `rec` the record; something of a person's at `a` before the first run; three runs, one edit, every fault | types; `SuccessIsExact`; `TemporariesKeepTheirPlace`; `RefinesLedger` |
| `output_tree_sweep` | one generator at the root; paths `a`, `a/b`, `a/b/c`, `a/c`, `rec`, with `a` perhaps a mount point or a person's before the first run; three runs, one edit, every fault | `SweptDirsAreOccupied`: what a sweep has to have removed; `TouchesOnlyItsOwn`: what a run may do to a path; `RunEnds` |
| `output_tree_merge_conflict`, `output_tree_emptied_dirs`, `output_tree_gone_file` | as `output_tree` with a path `a/b`, without faults or mount points | three statements of the sources that the code does not keep |
| `generator_pool` | three generators, two goroutines, every fault | files, processes, errors, that a cancelled run returns, and `RefinesContract`: what the caller sees is what `OutputTree` assumes |
| `generator_pool_leak` | two generators, one goroutine, removals fail | a statement of the sources that the code does not keep |
| `generate_run` | two generators, two directories of PATH with any contents, five manifests, eleven declarations | who runs, who vouched, what is parsed, and that a cancelled run returns |
| `generate_run_parse_first` | the same | a statement of the README that the code does not keep |
| `schema_output` | files of up to three types, two names to declare and a primitive, the schema's namespace, another and none; every file of five families | what validation lets through resolves; each type is written out once, before what refers to it, under its own name; defaults fit; what is published is closed and reads back; every step leaves less to do (`StepsDescend`), and resolution ends |
| `schema_go_types` | the family with constructors | a comment of the Go generator that the code does not keep |
| `plugin_runtime` | every vector of three arguments and every good one with an edit; every kind of generator over two files and four spellings; every environment, telemetry setting and collector | a vector is accepted exactly as documented; the exit status says whether the output is there; the context is this run's; the flush keeps to its budget and delivers; the process exits |

Why the bounds are enough to be of use: two generators collide, overlap in
directories and precede each other; a path tree of two levels has files in the
way of directories and directories in the way of files, at the root and inside
an output directory, and one of them below the record; in `output_tree_sweep`
two files share a directory that no scratch directory is in, and one of them may be
a directory with a file of its own, so that pruning empties two directories at once,
in either order, or finds something still there; three runs are one that
produces, one that fails in some way and one that has to live with it; a third
generator on two goroutines has to wait for one of the first two. An edit is the
person's one move between runs; a second only repeats the first at another path.
`MaxRuns` and `MaxEdits` bound counters and nothing else.

In `schema_output` the families are: `References`, where the two names refer to
each other and to themselves, plainly and qualified, are declared in either
namespace or twice in one, or not at all; `Constructors`, where the root may be an
expression and each name stands in an array, a map or a union; `Defaults`, where
each kind of default value meets each kind of declaration; `Shadowed`, where
the namespace of the schema and that of the record both declare a name; and `Mixed`,
where the file has no namespace and any of its declarations may. Two names
close a cycle and leave one to be reached from it; a third type is one that is
reached already, or never.

In `plugin_runtime` each family varies one part of an invocation that is
otherwise in order, because the parts meet only at the exit status: `Parsed` has
every vector of three arguments, in which a flag lacks its value or is repeated or
has a flag for its value, and the vectors one replacement or one or two additions
away from a good one; `Generated` has up to two files, which is where two spellings
of one path and a file after a failed one occur; `Traced` has budgets from one tick,
where halving it comes to nothing, to five, up to three requests, and collectors
that answer at once, just in time, too late, or never within the budget.

Deadlock is not checked: after its last run, or after it has returned, the
system really stops.

### Fairness

`GenerateRun`, `GeneratorPool` and `OutputTree` assume weak fairness of avroc's own steps (the Go scheduler
runs every goroutine, and no step of avroc waits for anything the models do not
show); nothing is assumed of crashes, I/O errors and people. `GeneratorPool` and
`GenerateRun` also assume it of the kill that `exec.CommandContext` sends. No
generator is assumed to exit, nothing to let go of a pipe, and nobody to cancel:
so the liveness properties say that a *cancelled* run returns. In `GenerateRun`
the step that stands for the pool is assumed to happen only once the run has
been cancelled, which is `CancelledRunReturns` of `GeneratorPool`; `OutputTree`
assumes nothing of the step that stands for it, and `RunEnds` speaks of a run
whose generators have finished.

`SchemaResolution` assumes weak fairness of its next step, which is a function
call that waits for nothing. `PluginRuntime` assumes it of the steps of the
process and of the clock while a request is outstanding, and nothing of a panic, a
signal or the collector: a collector that never answers is one whose latency
exceeds every timeout.

### What the code does not keep

Each is a run that TLC must find violated, and a finding in `PROJECT.json` that
quotes the statement.

- `ScratchAlwaysRemoved`: a scratch directory is lost when the descriptor's
  directory cannot be removed after a successful exit.
- `FailedMergeMovesNothing`: a directory in the way of a file is found by the
  rename, after the files before it have moved.
- `EmptiedDirsRemoved`: an output directory emptied by pruning stays, because
  the scratch directories are removed only afterwards.
- `GoneIsNotAFailure`: a recorded file below what has become a regular file
  fails this run and every later one.
- `AskedBeforeParsing`: inputs are parsed before the handshake.
- `GoTypesDeclared`: the Go generator's walk does not go into maps and unions, so
  a type first used in one, and therefore written out there, is named in the
  generated Go and declared nowhere. This one is a defect of the code rather than
  of a document.

Met while modelling, and not a run because no statement of the sources is as
definite, or because a property excludes exactly the case:

- A default is checked against the declaration a bare name has in the schema's
  namespace (`validate.go:249`), while the field resolves to the one in its
  record's (`resolve.go:178`), and of several declarations of one name the validator
  takes the last. Where these are not of one kind, a default that does not fit is
  accepted. `DefaultsFit` is the part that holds: it has the two namespaces, the
  repeated names and the mixed files, and leaves out the defaults of a simple name
  whose declarations differ in kind.
- A type without a namespace is published without the member
  (`avroc-gen-json/generate.go:99`), so a reader of the `.avsc` gives it the
  namespace of the record around it: in a file that has no namespace, names change
  where a declaration that has one uses, by its bare name, one that has none.
  `PublishedReadsBack` is the part that holds, in every other file without a
  namespace and in every file with one.
- A panic leaves the invocation's span un-ended: it is ended after `invoke`
  returns (`plugin.go:335`), although the comment at `plugin.go:283` has the
  deferred flush export it on a panic too. `SpanTellsTheStatus` excludes it.
- A regular file in the way of a directory a produced file needs fails the run
  before anything moves (`merge.go:136`), and so does every later run until a person
  removes it, though an earlier run may have generated it: pruning, which would
  remove it, comes after the merge. The model has those runs, `RefinesLedger` and
  `TouchesOnlyItsOwn` say that they lose nothing, and no property says that one of
  them ever succeeds.
- A copy across a mount point that cannot be removed again stays in the project
  without a word (`merge.go:413`), and keeps its directory from being pruned.
- `toPascalCase` drops namespaces, so that declarations `a.Foo` and `b.Foo` of one
  file become one Go type, as do declarations of one name in two files of a task.
- `generateItemWrite` emits nothing for items that are themselves arrays, maps or
  unions.

## The proofs

`tlapm` checks every proof to its last leaf. The assumptions are those the
modules name: that paths form a tree below the root and byte order is a strict
order on names, that the output directories are not the record and no mount point
is at or below it, that the manifests and declarations have their types, that there
is at least one goroutine, that the empty namespace is not one of the namespaces
and primitives are names, that a cleaned path is a file or outside, and that the
budget of a flush is positive.

| Theorem | For every | By |
|---|---|---|
| `OutputTree_proofs!TypeCorrect`, `TreeStaysWellFormed` | tree, generators, faults, bounds | `TypeOK`; the shape of the tree is inductive with it, given that a plan never has a file below another of the same plan |
| `OutputTree_proofs!TouchesOnly` | the same | the tree's shape, and the invariant per stage: what a rename may replace, what a sweep may find |
| `OutputTree_proofs!TemporariesKept` | the same | directories are made before anything temporary is put in them, and a sweep looks for it |
| `OutputTree_proofs!SweptOrOccupied` | the same | what a sweep stopped at was occupied then, and until the sweeps are over nothing but sweeps happens: one that later removes what occupied a directory climbs to it itself |
| `OutputTree_proofs!SuccessExact` | the same | an invariant per stage: what has been handled is in place, what has been removed stays removed, and each stage starts only when the one before is complete; plans agree once they have been accepted |
| `OutputTree_proofs!Refinement` | the same | every step is a step of the ledger or leaves it alone, one lemma per group of steps, on the same invariant |
| `GeneratorPool_proofs!TypeCorrect`, `FilesOutlive`, `Quiet`, `AllOrNothing`, `NoSilentLeftovers` | number of generators and goroutines, faults | one invariant that ties each invocation's step to its directories, its process and its results, and the caller's stage to the invocations' |
| `GeneratorPool_proofs!ImplementsContract` | the same | every step is one of the contract's or changes nothing the caller sees, on the same invariant |
| `GenerateRun_proofs!TypeCorrect`, `FirstOnPath`, `Vouching`, `ParsedOnce` | PATH, manifest, inputs and how they resolve, declarations | one invariant that follows the tables the phases hand on: the index is right about the directories searched, each task repeats its entry and the index, each handshake its task, and the schemas planned cover exactly the inputs read so far |
| `SchemaResolution_proofs!TypeCorrect`, `AcceptedFilesResolve`, `TypesAreWrittenOnce`, `ReferencesComeLater`, `DeclarationsAreDefined`, `AcceptedDefaultsFit` | file, names and namespaces, of any size and nesting of declarations | one invariant: the set of names written out is what the descriptor defines, each once; every name on the stack is of a use the validator saw; the scope is the schema's namespace or a record's own; and the types before `next` are all written out |
| `SchemaResolution_proofs!PublishedSchemaIsClosed`, `StreamItemIsDeclared` | the same | the same, with what is written while the root is open: it comes first, so nothing it refers to can have been written elsewhere before |
| `SchemaResolution_proofs!PublishedSchemaReadsBack` | the same | a frame with a namespace holds only names that mean a type with one (`SealedFrame`), so a bare name is only ever written where no namespace is around it |
| `SchemaResolution_proofs!GoTypesDeclaredUnbranched` | file that puts none of its own types in a map or a union | every frame of the stack and every name written out is reached through records and arrays alone |
| `SchemaResolution_proofs!ResolutionDescends`, `PluginRuntime_proofs!ProcessDescends`, `GeneratorPool_proofs!PoolDescends`, `GenerateRun_proofs!RunDescends`, `OutputTree_proofs!StartedRunDescends` | file; invocation; number of generators; PATH and manifest; finite set of paths | a tuple of three to six natural numbers, which every step lowers in lexicographic order |
| `PluginRuntime_proofs!TypeCorrect`, `VectorsConform`, `NothingUnchecked`, `ListedIsWhole`, `StatusIsTheOutput` | invocation, vector of any length, files, paths and how they clean | the arguments parsed are a prefix of the vector, by pairs; the files handled are a prefix of those asked for, written whole unless the error is set; each phase starts when the checks before it have passed |
| `PluginRuntime_proofs!ContextIsOwn`, `SpanIsFinished`, `FlushStaysInBudget`, `FlushIsComplete` | environment, budget, number of requests, latency | the environment is built before the process runs; the span ends once, between the status and the flush; while the collector is in time, the current request began after exactly as many latencies as there are requests sent |
| `GeneratorPool_proofs!NoLeakWithoutFaults` | the same, removals succeeding | the same invariant: the leak above needs a removal that fails |

The properties alone are not inductive. That a successful run is exact depends
on knowing at each stage what the earlier stages have achieved and that nothing
since has undone it: a rename must not replace what an earlier rename put there
(plans agree), a stale file is not among the produced, and a sweep removes only
directories with nothing in them. `QuietAfterWait`'s bound on processes is
proved from an injection of living processes into busy invocations, of which
`Submit` admits no more than `MaxGoroutines`.

That an accepted file resolves is the least obvious of them. The validator accepts
a bare name when a declaration of the schema's namespace has it, the resolver asks
the record's namespace first and the schema's second, and a qualified name is
spelled alike in both tables; the proof follows a use from `Valid` through the stack
to `Candidates`, one of which is always indexed. That the published schema is
closed needs the order of the top-level loop: the root is written first, so a
reference inside it can only be to what it wrote itself.

That a swept directory stays gone or occupied is about the order of the sweeps. A
sweep stops at the first directory that still holds something, and what it holds
may itself be an emptied directory that is swept next. The invariant is over all of
`swept` and every directory above its members: whoever removes the last entry of a
directory goes on to that directory. The litter of an earlier run, a mount point
and a scratch directory are never removed by a sweep, so they occupy for good.

Why everything ends has two halves. The half that is proved: in every module each
step lowers a measure (`Descends`). That is worth something because no sequence of
tuples of naturals descends for ever: `Descent_proofs` has it as a lemma about
tuples alone, from the library's lexicographic product of well-founded orders. So a
process takes finitely many steps, however it is interleaved, and with no bound on
the size of the file, the manifest or the number of generators. In the resolver the measure
puts the number of names not yet written out before the height of the stack: a
declaration may push any number of names, but only once. In the pool it counts
what each invocation has still to do, the process's exit included. For
`OutputTree` it is a run that descends, and the theorem assumes that the project
has finitely many paths, since a run removes what a record names; between runs a
person may act for ever. `SchemaResolution` states its measure beside the liveness
property, and TLC checks it with that; the others are stated with their proofs.

Model-checked only: the other half of liveness (`RunEnds`, both
`CancelledRunReturns`, `ResolutionEnds`, `Exits`), that under the fairness assumed
a step which could be taken is, until the run has ended. It is about `ENABLED`, which
is out of the prover's reach. Every safety property and action property that a
passing run checks is proved, and so are both refinements.

## Not modelled

- Symbolic links in the project.
- Two runs of avroc in one project at a time; nothing in the code guards against
  it.
- The Go that `avroc-gen-go` emits. What it declares and names is modelled; how it
  encodes and decodes values when it runs is a program of its own.
- `init` and `inspect`, which each write or read one file and keep nothing; the
  entry points, which turn a signal into the cancellation the models start from.
- The bytes of the manifest, the record, the descriptor and the declarations:
  each is readable or not, and has the fields the code decides on.
- Inside a type expression: nesting of constructors in one another, and which
  literal fits which primitive. Both are checks of one value against one type.
- `SourceDateEpoch`, the spans of the phases of an invocation, the encoding of
  OTLP and the parsing of its variables, which are pure conversions; messages and
  logging.
- The continuous integration under `.dagger` and `daggerverse`, and the code
  generated by protoc and by Dagger. Most lines of the repository are these (the
  generated clients alone are some 41,000); they build and release avroc, and are
  not linked into it or into a generator.

Everything marked `not_modelled` in `PROJECT.json` says why.

## Plan

Done: the run's phases and handshake, the pool, the output tree with its ledger
and the copy across mount points, resolution with what is generated from it, the
generator's side of an invocation with its trace context, the contract by which the
pool and the tree compose, and why each of them ends.

1. Two `OutputTree` runs in one project, to say exactly what is lost without a
   lock: which of the ledger's promises a second run can break, and that each run
   still removes only what some record named.
2. `PluginRuntime` under `GeneratorPool`, so that the exit statuses `Exit` chooses
   are those the runtime produces, and a kill may fall into a write or the flush.
3. Nested constructors in `SchemaResolution`, and the defaults of primitives.
4. The codec of the generated Go, as functions between values and sequences of
   encoded items, with reading what was written as the reference.

## Running

    tlc -workers 2 -config MCOutputTree.cfg MCOutputTree
    tlc -workers 2 -config MCGeneratorPool.cfg GeneratorPool
    tlc -workers 2 -config MCGenerateRun.cfg MCGenerateRun
    tlc -workers 2 -config MCSchemaOutput.cfg MCSchemaOutput
    tlc -workers 2 -config MCPluginRuntime.cfg MCPluginRuntime
    tlapm OutputTree_proofs.tla
    tlapm GeneratorPool_proofs.tla
    tlapm GenerateRun_proofs.tla
    tlapm SchemaResolution_proofs.tla
    tlapm PluginRuntime_proofs.tla
    tlapm Descent_proofs.tla

An operator marked `Mutant` is a plausible fault of the definition that follows
it. No specification uses it; `PROJECT.json` names the property that notices
when it takes that definition's place.
