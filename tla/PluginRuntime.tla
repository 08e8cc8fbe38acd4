---------------------------- MODULE PluginRuntime ----------------------------
(***************************************************************************)
(* One generator process as internal/plugin runs it: the environment avroc *)
(* hands it, the span it opens, its argument vector, its descriptor, the   *)
(* files it writes, its exit status and the flush of its telemetry.        *)
(*                                                                         *)
(* A zero exit is all avroc looks at, and the output of the process is     *)
(* whatever is in its directory then.  Everything of an invocation that is *)
(* settled before it starts is in inv; what may fail while it runs is in   *)
(* the actions.  The flush is timed: one tick is a fraction of the budget. *)
(***************************************************************************)
EXTENDS Integers, Sequences

CONSTANTS
    Files,          \* the files a generator may write, by their clean paths
    Outside,        \* what no path beneath --out cleans to
    Paths,          \* paths as a generator spells them
    Clean,          \* path.Clean of those OutputPath takes, Outside for the rest
    DefaultTimeout, \* telemetry.ExportTimeout
    Invocations     \* the invocations considered

\* An argument: a word of one part, or "k=v" in its two parts.
Info == <<"--plugin-info">>
Descriptor == <<"--descriptor">>
Out == <<"--out">>
Opt == <<"--opt">>
EndOfOptions == <<"--">>
Flags == {Descriptor, Out, Opt}
IsPair(arg) == Len(arg) = 2 /\ arg[1] # ""

\* A variable of the environment: its name, and whose context it carries, the
\* one avroc was started under or the one of this invocation.  Variables that
\* are not about the trace are left out: they all pass through.
Variable == {"TRACEPARENT", "traceparent", "TRACESTATE", "tracestate"} \X {"outer", "inner"}

Schema == [path : Paths, renders : BOOLEAN, record : BOOLEAN]

Invocation ==
    [environ : SUBSET {v \in Variable : v[2] = "outer"}, \* what avroc was started with
     telemetry : {"off", "bad", "on"},                  \* its OTEL_ variables, the child's too
     args : Seq(Seq(STRING)),
     descriptor : {"unreadable", "garbage", "whole"},
     version : Nat,
     kind : {"go", "plain", "careless"},                \* avroc-gen-go; -json and -pcf; another
     schemas : Seq(Schema),
     budget : Nat \ {0},                                \* FlushBudget, in ticks
     batches : Nat,                                     \* requests the flush needs
     latency : Nat,                                     \* ticks the collector takes
     collector : {"accepts", "refuses"}]

ASSUME CleanAssumption == Clean \in [Paths -> Files \cup {Outside}] /\ Outside \notin Files
ASSUME InvocationAssumption == Invocations \subseteq Invocation
ASSUME TimeoutAssumption == DefaultTimeout \in Nat \ {0}

VARIABLES
    inv,        \* the invocation
    phase,      \* where run is
    env,        \* the trace context in the child's environment
    parent,     \* the parent of its span
    cancelled,  \* its context is done
    rest,       \* the arguments not parsed yet
    seen,       \* the flags parsed that may be given once
    options,    \* the --opt pairs parsed
    todo,       \* the schemas not written yet
    written,    \* OutputDir.written
    failed,     \* OutputDir.err is set
    dir,        \* the files beneath --out
    said,       \* the declaration is on standard output
    code,       \* the exit status, or "none"
    span,       \* the invocation's span: its state, and the status it tells
    elapsed,    \* ticks since the flush began
    begun,      \* when its current request began
    left,       \* requests it still has to make
    sent        \* requests the collector took

setup == <<inv, env, parent>>
parser == <<rest, seen, options>>
output == <<todo, written, failed, dir, said>>
flush == <<elapsed, begun, left, sent>>
vars == <<setup, phase, cancelled, parser, output, code, span, flush>>

Version == 1
Tracing == inv.telemetry = "on"
Declaring == \E i \in DOMAIN inv.args : inv.args[i] = Info

Init ==
    /\ inv \in Invocations
    /\ phase = "fork"
    /\ env = inv.environ
    /\ parent = "none"
    /\ cancelled = FALSE
    /\ rest = inv.args /\ seen = {} /\ options = <<>>
    /\ todo = inv.schemas /\ written = <<>> /\ failed = FALSE
    /\ dir = [f \in Files |-> "absent"]
    /\ said = FALSE
    /\ code = "none"
    /\ span = [state |-> "none", status |-> "none"]
    /\ elapsed = 0 /\ begun = 0 /\ left = inv.batches /\ sent = 0

-----------------------------------------------------------------------------
(***************************************************************************)
(* avroc's side: the environment.                                          *)
(***************************************************************************)
\* What the environment says of a parent; Extract takes the state with it.
Extracted(environ) ==
    IF <<"TRACEPARENT", "inner">> \in environ THEN "inner"
    ELSE IF <<"TRACEPARENT", "outer">> \in environ THEN "outer" ELSE "none"

\* Mutant: an untraced avroc takes a parent from its environment, and its span,
\* which is no span, carries that on.
GeneratorEnvUngated ==
    IF Tracing THEN {<<"TRACEPARENT", "inner">>}
    ELSE {v \in inv.environ : v[1] = "TRACEPARENT"}

\* The context of the span avroc opened for this invocation, and nothing of the
\* one it was started under but the state that goes with a parent.
GeneratorEnv ==
    IF ~Tracing THEN {}
    ELSE {<<"TRACEPARENT", "inner">>} \cup
         {v \in inv.environ : v = <<"TRACESTATE", "outer">> /\ Extracted(inv.environ) # "none"}

Fork ==
    /\ phase = "fork"
    /\ env' = GeneratorEnv
    /\ phase' = "open"
    /\ UNCHANGED <<inv, parent, cancelled, parser, output, code, span, flush>>

\* A signal: the context is done, which only the generator itself might look at.
Cancel ==
    /\ phase \notin {"fork", "exited"}
    /\ ~cancelled
    /\ cancelled' = TRUE
    /\ UNCHANGED <<setup, phase, parser, output, code, span, flush>>

-----------------------------------------------------------------------------
(***************************************************************************)
(* The invocation.                                                         *)
(***************************************************************************)
\* Telemetry that cannot be honoured is a warning, and no span.
Open ==
    /\ phase = "open"
    /\ parent' = Extracted(env)
    /\ span' = [span EXCEPT !.state = IF Tracing THEN "open" ELSE "none"]
    /\ phase' = IF Declaring THEN "declare" ELSE "parse"
    /\ UNCHANGED <<inv, env, cancelled, parser, output, code, flush>>

Finish(status) == code' = status /\ phase' = "end"

Declare ==
    /\ phase = "declare"
    /\ \/ Len(inv.args) = 1 /\ said' = TRUE /\ Finish("zero")
       \/ said' = said /\ Finish("one")                 \* or standard output is closed
    /\ UNCHANGED <<setup, cancelled, parser, todo, written, failed, dir, span, flush>>

\* ParseArgs, an argument and its value at a time.
Parse == phase = "parse" /\ UNCHANGED <<setup, cancelled, output, span, flush>>
Take(n) == rest' = SubSeq(rest, n + 1, Len(rest))

\* Mutant: the pair is not split.
ParseOptionUnsplit ==
    /\ Parse /\ Len(rest) >= 2 /\ rest[1] = Opt
    /\ options' = Append(options, rest[2])
    /\ Take(2)
    /\ UNCHANGED <<phase, seen, code>>

ParseOption ==
    /\ Parse /\ Len(rest) >= 2 /\ rest[1] = Opt
    /\ IsPair(rest[2])
    /\ options' = Append(options, rest[2])
    /\ Take(2)
    /\ UNCHANGED <<phase, seen, code>>

ParseOnce ==
    /\ Parse /\ Len(rest) >= 2
    /\ rest[1] \in {Descriptor, Out} \ seen
    /\ seen' = seen \cup {rest[1]}
    /\ Take(2)
    /\ UNCHANGED <<phase, options, code>>

Ended == rest = <<>> \/ rest = <<EndOfOptions>>

\* Mutant: "--" ends the vector whatever comes after it.
ParseEndLoose ==
    /\ Parse /\ (rest # <<>> => rest[1] = EndOfOptions)
    /\ seen = {Descriptor, Out}
    /\ phase' = "read"
    /\ UNCHANGED <<parser, code>>

ParseEnd ==
    /\ Parse /\ Ended
    /\ seen = {Descriptor, Out}
    /\ phase' = "read"
    /\ UNCHANGED <<parser, code>>

\* No flag, one given before, one without its value, or no pair.
Refused ==
    IF Ended THEN seen # {Descriptor, Out}
    ELSE ~(/\ Len(rest) >= 2
           /\ rest[1] \in Flags \ seen
           /\ rest[1] = Opt => IsPair(rest[2]))

ParseFails ==
    /\ Parse
    /\ Refused
    /\ Finish("one")
    /\ UNCHANGED parser

Read ==
    /\ phase = "read"
    /\ IF inv.descriptor = "whole" THEN phase' = "check" /\ code' = code ELSE Finish("one")
    /\ UNCHANGED <<setup, cancelled, parser, output, span, flush>>

\* The last option of a name is the one that counts.
Value(given, name) ==
    LET of == {i \in DOMAIN given : given[i][1] = name}
    IN  IF of = {} THEN "" ELSE given[CHOOSE i \in of : \A j \in of : j <= i][2]

\* readOptions of avroc-gen-go; the others declare no options and read none.
OptionsTaken ==
    inv.kind = "go" =>
        /\ Value(options, "package_name") # ""
        /\ Value(options, "encoding") \in {"", "single_object"}
        /\ Value(options, "encoding") = "single_object" =>
              \A i \in DOMAIN inv.schemas : inv.schemas[i].record

\* Mutant: the version is for the schemas' own check to find.
CheckOptionsOnly ==
    /\ phase = "check"
    /\ IF OptionsTaken THEN phase' = "write" /\ code' = code ELSE Finish("one")
    /\ UNCHANGED <<setup, cancelled, parser, output, span, flush>>

Check ==
    /\ phase = "check"
    /\ IF inv.version = Version /\ OptionsTaken
       THEN phase' = "write" /\ code' = code ELSE Finish("one")
    /\ UNCHANGED <<setup, cancelled, parser, output, span, flush>>

Writing == phase = "write" /\ todo # <<>> /\ UNCHANGED <<setup, cancelled, parser, said, span, flush>>
Path == Head(todo).path
Name == Clean[Path]
WrittenNames == {written[i] : i \in DOMAIN written}

\* A schema a generator cannot render ends its work.
RenderFails ==
    /\ Writing
    /\ ~Head(todo).renders
    /\ Finish("one")
    /\ UNCHANGED <<todo, written, failed, dir>>

\* Mutant: a path is compared as it is spelled.
TakesUncleaned == Name # Outside /\ Path \notin WrittenNames

\* A path beneath --out that was not written before, however it is spelled.
Takes == Name # Outside /\ Name \notin WrittenNames

WriteFile ==
    /\ Writing
    /\ Head(todo).renders
    /\ Takes
    /\ dir' = [dir EXCEPT ![Name] = "whole"]
    /\ written' = Append(written, Name)
    /\ todo' = Tail(todo)
    /\ UNCHANGED <<phase, failed, code>>

\* Mutant: a generator that does not look at the error writes the file again.
RefuseRetry ==
    /\ failed' = TRUE
    /\ IF inv.kind = "careless" THEN UNCHANGED <<todo, phase, code>> ELSE todo' = Tail(todo) /\ Finish("one")
    /\ UNCHANGED written

\* The error WriteFile returns is kept, and ends a generator that looks at it.
Refuse ==
    /\ failed' = TRUE
    /\ todo' = Tail(todo)
    /\ IF inv.kind = "careless" THEN UNCHANGED <<phase, code>> ELSE Finish("one")
    /\ UNCHANGED written

RefuseFile ==
    /\ Writing
    /\ Head(todo).renders
    /\ ~Takes
    /\ Refuse
    /\ UNCHANGED dir

\* The directory cannot be made, or the file cannot be written whole: what was
\* written is removed, unless that fails too.
WriteFails ==
    /\ Writing
    /\ Head(todo).renders
    /\ Takes
    /\ Refuse
    /\ \E kept \in {"absent", "part"} : dir' = [dir EXCEPT ![Name] = kept]

\* Mutant: a generator that returned no error succeeded.
ReturnUnchecked ==
    /\ phase = "write"
    /\ todo = <<>>
    /\ Finish("zero")
    /\ UNCHANGED <<setup, cancelled, parser, output, span, flush>>

\* The generator returned no error; invoke asks the directory as well.
Return ==
    /\ phase = "write"
    /\ todo = <<>>
    /\ Finish(IF failed THEN "one" ELSE "zero")
    /\ UNCHANGED <<setup, cancelled, parser, output, span, flush>>

\* A generator panics: nothing but what is deferred still runs.
Panic ==
    /\ phase = "write"
    /\ code' = "two"
    /\ phase' = "flush"
    /\ UNCHANGED <<setup, cancelled, parser, output, span, flush>>

\* Mutant: only an invocation that succeeded ends its span.
EndSpanOnSuccess ==
    /\ phase = "end"
    /\ span' = IF span.state = "open" /\ code = "zero"
               THEN [state |-> "ended", status |-> code] ELSE span
    /\ phase' = "flush"
    /\ UNCHANGED <<setup, cancelled, parser, output, code, flush>>

EndSpan ==
    /\ phase = "end"
    /\ span' = IF span.state = "open" THEN [state |-> "ended", status |-> code] ELSE span
    /\ phase' = "flush"
    /\ UNCHANGED <<setup, cancelled, parser, output, code, flush>>

-----------------------------------------------------------------------------
(***************************************************************************)
(* The flush, which is deferred: its context is the invocation's without   *)
(* the cancellation, and its deadline the budget.                          *)
(***************************************************************************)
\* Mutant: half the budget, whatever that comes to.
ExportTimeoutHalved(budget) == budget \div 2

\* WithFlushBudget.
ExportTimeout(budget) == IF budget \div 2 > 0 THEN budget \div 2 ELSE budget

\* newExporter: no timeout is not a bound of zero.
Timeout ==
    LET timeout == ExportTimeout(inv.budget)
    IN  IF timeout > 0 THEN timeout ELSE DefaultTimeout

Flushing == phase = "flush" /\ UNCHANGED <<setup, cancelled, parser, output, code, span>>
Requesting == Flushing /\ Tracing /\ left > 0
Waited == elapsed - begun

Answered == Waited >= inv.latency
Expired == Waited >= Timeout
\* Mutant: the flush is cut off by the signal that cancelled the run.
OverdueWithCancel == elapsed >= inv.budget \/ cancelled

Overdue == elapsed >= inv.budget

Tick ==
    /\ Requesting
    /\ ~Answered /\ ~Expired /\ ~Overdue
    /\ elapsed' = elapsed + 1
    /\ UNCHANGED <<phase, begun, left, sent>>

NextRequest == left' = left - 1 /\ begun' = elapsed /\ UNCHANGED <<phase, elapsed>>

RequestAnswered ==
    /\ Requesting
    /\ Answered
    /\ sent' = IF inv.collector = "accepts" THEN sent + 1 ELSE sent
    /\ NextRequest

RequestExpires ==
    /\ Requesting
    /\ Expired
    /\ sent' = sent
    /\ NextRequest

CutOff ==
    /\ Requesting
    /\ Overdue
    /\ phase' = "exited"
    /\ UNCHANGED flush

Flushed ==
    /\ Flushing
    /\ ~Tracing \/ left = 0
    /\ phase' = "exited"
    /\ UNCHANGED flush

Step ==
    \/ Fork \/ Open \/ Declare
    \/ ParseOption \/ ParseOnce \/ ParseEnd \/ ParseFails
    \/ Read \/ Check \/ RenderFails \/ WriteFile \/ RefuseFile \/ WriteFails \/ Return \/ EndSpan
    \/ Tick \/ RequestAnswered \/ RequestExpires \/ CutOff \/ Flushed

Next == Step \/ Panic \/ Cancel

\* The process runs, and time passes while it waits for the collector.
Spec == Init /\ [][Next]_vars /\ WF_vars(Step)

-----------------------------------------------------------------------------
(***************************************************************************)
(* Properties.                                                             *)
(***************************************************************************)
Arg == Seq(STRING)
State == {"absent", "part", "whole"}
Status == {"none", "zero", "one", "two"}

\* The variables hold what they are declared to hold; an option has a name.
TypeOK ==
    /\ inv \in Invocation
    /\ phase \in {"fork", "open", "declare", "parse", "read", "check", "write", "end", "flush", "exited"}
    /\ env \subseteq Variable
    /\ parent \in {"none", "outer", "inner"}
    /\ cancelled \in BOOLEAN /\ failed \in BOOLEAN /\ said \in BOOLEAN
    /\ rest \in Seq(Arg) /\ seen \subseteq {Descriptor, Out}
    /\ options \in Seq({arg \in Arg : IsPair(arg)})
    /\ todo \in Seq(Schema) /\ written \in Seq(Files) /\ dir \in [Files -> State]
    /\ code \in Status
    /\ span \in [state : {"none", "open", "ended"}, status : Status]
    /\ elapsed \in Nat /\ begun \in Nat /\ left \in Nat /\ sent \in Nat

\* The vector docs/plugin/SPEC.md gives a generation, read as a whole: flags
\* with their values, one descriptor and one directory, pairs for options, and
\* a "--" that nothing follows.  A value may look like anything.
Places(args) == {i \in DOMAIN args : i % 2 = 1 /\ i < Len(args)}
Conforms(args) ==
    /\ Len(args) % 2 = 1 => args[Len(args)] = EndOfOptions
    /\ \A i \in Places(args) : args[i] \in Flags /\ (args[i] = Opt => IsPair(args[i + 1]))
    /\ \A flag \in {Descriptor, Out} :
          \E i \in Places(args) : \A j \in Places(args) : args[j] = flag <=> j = i

\* given holds the values of the options at these places, in their order.
Lists(given, args, places) ==
    \E at \in [DOMAIN given -> places] :
        /\ \A i, j \in DOMAIN given : i < j => at[i] < at[j]
        /\ \A i \in DOMAIN given : given[i] = args[at[i] + 1]
        /\ {at[i] : i \in DOMAIN given} = {i \in places : args[i] = Opt}

\* ParseArgs lets nothing through that does not conform, and the options it
\* returns are those of the vector, in its order.
ParsedAsSpecified ==
    phase \in {"read", "check", "write"} =>
        Conforms(inv.args) /\ Lists(options, inv.args, Places(inv.args))

\* The context a child is started with is that of the invocation, and none if
\* avroc is not tracing, whatever avroc itself was started with: no span hangs
\* from a trace that avroc has no part in.
ContextIsThisRuns ==
    phase # "fork" =>
        /\ parent \in {"none", "inner"}
        /\ env # {} => Tracing /\ <<"TRACEPARENT", "inner">> \in env
        /\ env \subseteq {<<"TRACEPARENT", "inner">>, <<"TRACESTATE", "outer">>}

Asked == {Clean[inv.schemas[i].path] : i \in DOMAIN inv.schemas}
AskedOnce ==
    \A i, j \in DOMAIN inv.schemas : Clean[inv.schemas[i].path] = Clean[inv.schemas[j].path] => i = j

\* What a zero exit vouches for: the declaration alone, or every file of the
\* descriptor, whole, and no other.
Succeeded ==
    IF Declaring THEN inv.args = <<Info>> /\ said
    ELSE /\ Conforms(inv.args) /\ inv.descriptor = "whole"
         /\ inv.version = Version /\ OptionsTaken
         /\ \A i \in DOMAIN inv.schemas : inv.schemas[i].renders
         /\ Asked \subseteq Files /\ AskedOnce
         /\ dir = [f \in Files |-> IF f \in Asked THEN "whole" ELSE "absent"]

\* The exit status says whether the output is there, whatever failed on the
\* way, whether or not the generator noticed, and whatever became of telemetry.
ExitIsTheOutput ==
    phase = "exited" /\ code # "two" => (code = "zero" <=> Succeeded)

\* Nothing is written for a vector, a descriptor or an option that is refused.
ChecksComeFirst ==
    (\E f \in Files : dir[f] # "absent") =>
        /\ ~Declaring /\ ~said
        /\ Conforms(inv.args) /\ inv.descriptor = "whole"
        /\ inv.version = Version /\ OptionsTaken

\* The files listed as written are those on disk that are whole, each once.
WrittenIsWhole ==
    /\ WrittenNames = {f \in Files : dir[f] = "whole"}
    /\ \A i, j \in DOMAIN written : written[i] = written[j] => i = j

\* Unless the generator panics, its span is ended before it is exported and
\* tells the status the process exits with.
SpanTellsTheStatus ==
    phase \in {"flush", "exited"} /\ Tracing /\ code # "two" =>
        span = [state |-> "ended", status |-> code]

\* The flush keeps to its budget, and a request begun with it fails by its own
\* timeout rather than by being cut off.
FlushFits ==
    /\ elapsed <= inv.budget
    /\ phase = "exited" /\ Tracing /\ left > 0 /\ left = inv.batches => Expired

\* A collector that answers in time gets every span, cancelled run or not.
FlushDelivers ==
    /\ phase = "exited" /\ Tracing /\ inv.collector = "accepts"
    /\ inv.latency < ExportTimeout(inv.budget)
    /\ inv.batches * inv.latency < inv.budget
    => sent = inv.batches

\* The process exits, whatever it is handed and whoever does not answer it.
Exits == <>(phase = "exited")

=============================================================================
