------------------------ MODULE PluginRuntime_proofs ------------------------
(***************************************************************************)
(* Proofs about PluginRuntime, for every invocation.  The inductive        *)
(* invariant says what the parser's state has to do with the vector, what  *)
(* the directory has to do with the schemas handled so far, and where the  *)
(* flush is in its budget.                                                 *)
(***************************************************************************)
EXTENDS PluginRuntime, Descent, SequenceTheorems, TLAPS

\* Before a generator runs.
Early == {"fork", "open", "declare", "parse", "read", "check"}
\* After the exit status is known.
Late == {"end", "flush", "exited"}

\* What each phase of run has not touched yet.
OrderInv ==
    /\ phase \in {"fork", "open", "declare"} => rest = inv.args /\ seen = {} /\ options = <<>>
    /\ phase \in Early =>
          todo = inv.schemas /\ written = <<>> /\ ~failed /\ dir = [f \in Files |-> "absent"] /\ ~said
    /\ phase \notin Late => code = "none"
    /\ phase \in Late => code # "none"
    /\ phase = "end" => code # "two"
    /\ phase = "declare" => Declaring
    /\ phase \in {"parse", "read", "check", "write"} => ~Declaring
    /\ said => Declaring

ContextInv == parent \in {"none", "inner"} /\ ContextIsThisRuns

\* The parser has handled the vector up to Done, a flag and a value at a time.
Done == Len(inv.args) - Len(rest)
Handled == {i \in DOMAIN inv.args : i % 2 = 1 /\ i <= Done}

Prefix ==
    /\ Done \in Nat /\ Done % 2 = 0
    /\ \A i \in DOMAIN rest : rest[i] = inv.args[Done + i]
    /\ \A i \in Handled : inv.args[i] \in Flags /\ (inv.args[i] = Opt => IsPair(inv.args[i + 1]))
    /\ \A flag \in {Descriptor, Out} : flag \in seen <=> \E i \in Handled : inv.args[i] = flag
    /\ \A i, j \in Handled : inv.args[i] = inv.args[j] /\ inv.args[i] # Opt => i = j
    /\ Lists(options, inv.args, Handled)

ParseInv == (phase \in {"fork", "open", "parse"} => Prefix) /\ ParsedAsSpecified

CheckedInv ==
    /\ phase \in {"check", "write"} => inv.descriptor = "whole"
    /\ phase = "write" => inv.version = Version /\ OptionsTaken

\* The generator has handled the schemas up to Taken, and something of them is
\* missing if a write failed.
Taken == Len(inv.schemas) - Len(todo)
NameOf(i) == Clean[inv.schemas[i].path]

Missing(i) ==
    \/ NameOf(i) = Outside
    \/ \E j \in 1..Taken : j # i /\ NameOf(j) = NameOf(i)
    \/ dir[NameOf(i)] # "whole"

WorkInv ==
    /\ Taken \in Nat
    /\ \A i \in DOMAIN todo : todo[i] = inv.schemas[Taken + i]
    /\ \A i \in 1..Taken : inv.schemas[i].renders
    /\ \A i \in DOMAIN written : \E j \in 1..Taken : written[i] = NameOf(j)
    /\ failed => \E i \in 1..Taken : Missing(i)
    /\ ~failed =>
          /\ \A f \in Files : dir[f] # "part"
          /\ \A i \in 1..Taken : NameOf(i) \in WrittenNames
          /\ \A i, j \in 1..Taken : NameOf(i) = NameOf(j) => i = j

\* The status is settled where it is set.
StatusInv == phase \in Late /\ code # "two" => (code = "zero" <=> Succeeded)

SpanInv ==
    /\ Tracing /\ phase \notin {"fork", "open", "flush", "exited"} => span.state = "open"
    /\ SpanTellsTheStatus

\* Where the flush is in its budget.
Timely ==
    /\ Tracing /\ inv.collector = "accepts"
    /\ inv.latency < ExportTimeout(inv.budget)
    /\ inv.batches * inv.latency < inv.budget

FlushInv ==
    /\ phase \notin {"flush", "exited"} =>
          elapsed = 0 /\ begun = 0 /\ left = inv.batches /\ sent = 0
    /\ begun <= elapsed /\ elapsed <= inv.budget /\ left <= inv.batches
    /\ left = inv.batches => begun = 0
    /\ phase = "exited" /\ Tracing /\ left > 0 => elapsed >= inv.budget
    /\ Timely =>
          /\ sent = inv.batches - left
          /\ begun = sent * inv.latency
          /\ elapsed - begun <= inv.latency

Inv ==
    /\ TypeOK /\ OrderInv /\ ContextInv /\ ParseInv /\ CheckedInv /\ WrittenIsWhole /\ WorkInv
    /\ ChecksComeFirst /\ StatusInv /\ SpanInv /\ FlushInv

-----------------------------------------------------------------------------
(***************************************************************************)
(* What the steps leave alone.                                             *)
(***************************************************************************)
\* The steps after the exit status is settled, and the ones before the parser.
Quiet == EndSpan \/ Tick \/ RequestAnswered \/ RequestExpires \/ CutOff \/ Flushed \/ Cancel

\* No step changes the invocation.
LEMMA SameInvocation ==
    ASSUME [Next]_vars PROVE inv' = inv
  BY DEF Next, Step, Fork, Open, Declare, Parse, ParseOption, ParseOnce, ParseEnd, ParseFails, Read,
         Check, Writing, RenderFails, WriteFile, RefuseFile, WriteFails, Return, Panic, EndSpan,
         Flushing, Requesting, Tick, RequestAnswered, RequestExpires, CutOff, Flushed, Cancel,
         NextRequest, setup, vars

LEMMA QuietFrame ==
    ASSUME Quiet
    PROVE  /\ UNCHANGED <<setup, parser, output, code>>
           /\ phase' = phase \/ (phase \in Late /\ phase' \in Late \ {"end"})
  <1>1. CASE EndSpan
    BY <1>1 DEF EndSpan, Late
  <1>2. CASE Cancel
    BY <1>2 DEF Cancel
  <1>3. CASE Tick \/ RequestAnswered \/ RequestExpires \/ CutOff \/ Flushed
    <2>1. Flushing
      BY <1>3 DEF Requesting, Tick, RequestAnswered, RequestExpires, CutOff, Flushed
    <2>2. phase' \in {phase, "exited"}
      BY <1>3 DEF NextRequest, Tick, RequestAnswered, RequestExpires, CutOff, Flushed
    <2> QED
      BY <2>1, <2>2 DEF Flushing, Late
  <1> QED
    BY <1>1, <1>2, <1>3 DEF Quiet

\* Every step is one of these.
LEMMA Steps ==
    ASSUME [Next]_vars
    PROVE  \/ Fork \/ Open \/ Declare
           \/ ParseOption \/ ParseOnce \/ ParseEnd \/ ParseFails
           \/ Read \/ Check \/ RenderFails \/ WriteFile \/ RefuseFile \/ WriteFails \/ Return
           \/ Panic \/ Quiet \/ UNCHANGED vars
  BY DEF Next, Step, Quiet

LEMMA FlagsDiffer == Descriptor # Out /\ Descriptor # Opt /\ Out # Opt
  BY DEF Descriptor, Out, Opt

LEMMA TakeType ==
    ASSUME NEW S, NEW s \in Seq(S), NEW n \in Nat, n <= Len(s)
    PROVE  /\ SubSeq(s, n + 1, Len(s)) \in Seq(S)
           /\ Len(SubSeq(s, n + 1, Len(s))) = Len(s) - n
           /\ \A i \in 1..(Len(s) - n) : SubSeq(s, n + 1, Len(s))[i] = s[n + i]
  <1>1. Len(s) \in Nat /\ n + 1 \in 1..(Len(s) + 1)
    BY LenProperties
  <1> QED
    BY <1>1, SubSeqProperties

LEMMA TailType ==
    ASSUME NEW S, NEW s \in Seq(S), s # <<>>
    PROVE  /\ Head(s) \in S /\ Tail(s) \in Seq(S)
           /\ Head(s) = s[1] /\ Len(s) >= 1
           /\ Len(Tail(s)) = Len(s) - 1
           /\ \A i \in 1..(Len(s) - 1) : Tail(s)[i] = s[i + 1]
  BY HeadTailProperties, EmptySeq, LenProperties

-----------------------------------------------------------------------------
(***************************************************************************)
(* Types.                                                                  *)
(***************************************************************************)
LEMMA InvType ==
    ASSUME TypeOK
    PROVE  /\ inv.environ \subseteq Variable
           /\ inv.args \in Seq(Arg) /\ inv.schemas \in Seq(Schema)
           /\ inv.budget \in Nat \ {0} /\ inv.batches \in Nat /\ inv.latency \in Nat
           /\ inv.version \in Nat
  BY DEF TypeOK, Invocation, Arg

LEMMA InitType ==
    ASSUME Init PROVE TypeOK
  <1>1. inv \in Invocation
    BY InvocationAssumption DEF Init
  <1>2. /\ inv.args \in Seq(Arg) /\ inv.schemas \in Seq(Schema) /\ inv.batches \in Nat
        /\ inv.environ \subseteq Variable
    BY <1>1 DEF Invocation, Arg
  <1>3. options \in Seq({arg \in Arg : IsPair(arg)}) /\ written \in Seq(Files)
    BY EmptySeq DEF Init
  <1>4. dir \in [Files -> State]
    BY DEF Init, State
  <1> QED
    BY <1>1, <1>2, <1>3, <1>4 DEF Init, TypeOK, Status

\* The path of the schema at hand, and what it cleans to.
LEMMA NameType ==
    ASSUME TypeOK, todo # <<>>
    PROVE  /\ Head(todo) \in Schema /\ Path \in Paths /\ Name \in Files \cup {Outside}
           /\ Tail(todo) \in Seq(Schema)
           /\ Takes => Name \in Files
  <1>1. todo \in Seq(Schema)
    BY DEF TypeOK
  <1>2. Head(todo) \in Schema /\ Tail(todo) \in Seq(Schema)
    BY <1>1, TailType
  <1>3. Path \in Paths
    BY <1>2 DEF Path, Schema
  <1> QED
    BY <1>2, <1>3, CleanAssumption DEF Name, Takes

LEMMA WriteType ==
    ASSUME TypeOK, WriteFile \/ RefuseFile \/ WriteFails \/ RenderFails
    PROVE  TypeOK'
  <1> USE DEF State
  <1>1. /\ todo # <<>> /\ phase = "write"
        /\ UNCHANGED <<setup, cancelled, parser, said, span, flush>>
    BY DEF WriteFile, RefuseFile, WriteFails, RenderFails, Writing
  <1>2. /\ Name \in Files \cup {Outside} /\ Tail(todo) \in Seq(Schema) /\ (Takes => Name \in Files)
    BY <1>1, NameType
  <1>3. todo' \in Seq(Schema)
    BY <1>2 DEF WriteFile, RefuseFile, WriteFails, RenderFails, Refuse, TypeOK
  <1>4. written' \in Seq(Files)
    <2>1. written \in Seq(Files)
      BY DEF TypeOK
    <2>2. CASE WriteFile
      BY <2>1, <2>2, <1>2, AppendProperties DEF WriteFile
    <2> QED
      BY <2>1, <2>2 DEF WriteFile, RefuseFile, WriteFails, RenderFails, Refuse
  <1>5. dir' \in [Files -> State]
    BY <1>2 DEF WriteFile, RefuseFile, WriteFails, RenderFails, TypeOK
  <1>6. failed' \in BOOLEAN /\ code' \in Status /\ phase' \in {"write", "end"}
    BY <1>1 DEF WriteFile, RefuseFile, WriteFails, RenderFails, Refuse, Finish, TypeOK, Status
  <1> QED
    BY <1>1, <1>3, <1>4, <1>5, <1>6 DEF TypeOK, setup, parser, flush

LEMMA ParseType ==
    ASSUME TypeOK, ParseOption \/ ParseOnce \/ ParseEnd \/ ParseFails
    PROVE  TypeOK'
  <1>1. /\ phase = "parse"
        /\ UNCHANGED <<setup, cancelled, output, span, flush>>
    BY DEF ParseOption, ParseOnce, ParseEnd, ParseFails, Parse
  <1>2. phase' \in {"parse", "read", "end"} /\ code' \in Status
    BY <1>1 DEF ParseOption, ParseOnce, ParseEnd, ParseFails, Finish, TypeOK, Status
  <1>3. rest \in Seq(Arg)
    BY DEF TypeOK
  <1>4. rest' \in Seq(Arg)
    <2>1. CASE ParseOption \/ ParseOnce
      <3>1. rest' = SubSeq(rest, 3, Len(rest)) /\ Len(rest) >= 2
        BY <2>1 DEF ParseOption, ParseOnce, Take
      <3> QED
        BY <1>3, <3>1, TakeType
    <2> QED
      BY <1>3, <2>1 DEF ParseEnd, ParseFails, parser
  <1>5. seen' \subseteq {Descriptor, Out}
    BY DEF ParseOption, ParseOnce, ParseEnd, ParseFails, parser, TypeOK
  <1>6. options' \in Seq({arg \in Arg : IsPair(arg)})
    <2>1. options \in Seq({arg \in Arg : IsPair(arg)})
      BY DEF TypeOK
    <2>2. CASE ParseOption
      <3>1. rest[2] \in Arg
        BY <1>3, <2>2, ElementOfSeq DEF ParseOption
      <3>2. IsPair(rest[2]) /\ options' = Append(options, rest[2])
        BY <2>2 DEF ParseOption
      <3> QED
        BY <2>1, <3>1, <3>2, AppendProperties
    <2> QED
      BY <2>1, <2>2 DEF ParseOnce, ParseEnd, ParseFails, parser
  <1> QED
    BY <1>1, <1>2, <1>4, <1>5, <1>6 DEF TypeOK, setup, output, flush

LEMMA FlushType ==
    ASSUME TypeOK, Quiet
    PROVE  TypeOK'
  <1>1. UNCHANGED <<setup, parser, output, code>> /\ (phase' = phase \/ phase' \in {"flush", "exited"})
    BY QuietFrame DEF Late
  <1>2. cancelled' \in BOOLEAN
    <2>1. cancelled' = cancelled \/ cancelled' = TRUE
      BY DEF Quiet, EndSpan, Flushing, Requesting, Tick, RequestAnswered, RequestExpires, CutOff,
             Flushed, Cancel
    <2> QED
      BY <2>1 DEF TypeOK
  <1>4. span' \in [state : {"none", "open", "ended"}, status : Status]
    <2>1. CASE EndSpan
      BY <2>1 DEF TypeOK, EndSpan
    <2>2. span' = span \/ EndSpan
      BY DEF Quiet, Flushing, Requesting, Tick, RequestAnswered, RequestExpires, CutOff, Flushed, Cancel
    <2> QED
      BY <2>1, <2>2 DEF TypeOK
  <1>3. elapsed' \in Nat /\ begun' \in Nat /\ left' \in Nat /\ sent' \in Nat
    <2>1. CASE Tick \/ RequestAnswered \/ RequestExpires
      BY <2>1 DEF TypeOK, Requesting, Tick, RequestAnswered, RequestExpires, NextRequest
    <2> QED
      BY <2>1 DEF TypeOK, Quiet, EndSpan, CutOff, Flushed, Cancel, flush
  <1> QED
    BY <1>1, <1>2, <1>3, <1>4 DEF TypeOK, setup, parser, output

LEMMA TypeStep ==
    ASSUME TypeOK, [Next]_vars
    PROVE  TypeOK'
  <1>1. CASE Fork
    <2>1. env' \subseteq Variable
      BY <1>1, InvType DEF Fork, GeneratorEnv, Variable
    <2> QED
      BY <1>1, <2>1 DEF Fork, TypeOK, parser, output, flush
  <1>2. CASE Open
    BY <1>2 DEF Open, Extracted, TypeOK, parser, output, flush
  <1>3. CASE Declare
    BY <1>3 DEF Declare, Finish, TypeOK, Status, setup, parser, flush
  <1>4. CASE Read \/ Check \/ Return \/ Panic
    BY <1>4 DEF Read, Check, Return, Panic, Finish, TypeOK, Status, setup, parser, output, flush
  <1>5. CASE UNCHANGED vars
    BY <1>5 DEF vars, TypeOK, setup, parser, output, flush
  <1> QED
    BY <1>1, <1>2, <1>3, <1>4, <1>5, ParseType, WriteType, FlushType, Steps

-----------------------------------------------------------------------------
(***************************************************************************)
(* The order of the phases.                                                *)
(***************************************************************************)
\* Declaring and Tracing are about the invocation alone.
LEMMA SameVector ==
    ASSUME [Next]_vars PROVE Declaring' = Declaring /\ Tracing' = Tracing
  BY SameInvocation DEF Declaring, Tracing

LEMMA OrderStep ==
    ASSUME TypeOK, OrderInv, [Next]_vars
    PROVE  OrderInv'
  <1> USE DEF Early, Late
  <1>0. inv' = inv /\ Declaring' = Declaring
    BY SameInvocation, SameVector
  <1>1. CASE Fork
    BY <1>0, <1>1 DEF Fork, OrderInv, parser, output
  <1>2. CASE Open
    BY <1>0, <1>2 DEF Open, OrderInv, parser, output
  <1>3. CASE Declare
    <2>1. /\ phase = "declare" /\ phase' = "end" /\ code' \in {"zero", "one"} /\ Declaring
      BY <1>3 DEF Declare, Finish, OrderInv
    <2> QED
      BY <1>0, <2>1 DEF OrderInv
  <1>4. CASE ParseOption \/ ParseOnce \/ ParseEnd \/ ParseFails
    <2>1. /\ phase = "parse" /\ UNCHANGED output
          /\ \/ phase' \in {"parse", "read"} /\ code' = code
             \/ phase' = "end" /\ code' = "one"
      BY <1>4 DEF ParseOption, ParseOnce, ParseEnd, ParseFails, Parse, Finish
    <2> QED
      BY <1>0, <2>1 DEF OrderInv, output
  <1>5. CASE Read \/ Check
    <2>1. /\ phase \in {"read", "check"} /\ UNCHANGED output
          /\ \/ phase' \in {"check", "write"} /\ code' = code
             \/ phase' = "end" /\ code' = "one"
      BY <1>5 DEF Read, Check, Finish
    <2> QED
      BY <1>0, <2>1 DEF OrderInv, output
  <1>6. CASE RenderFails \/ WriteFile \/ RefuseFile \/ WriteFails \/ Return \/ Panic
    <2>1. /\ phase = "write" /\ said' = said
          /\ \/ phase' = "write" /\ code' = code
             \/ phase' = "end" /\ code' \in {"zero", "one"}
             \/ phase' = "flush" /\ code' = "two"
      BY <1>6 DEF RenderFails, WriteFile, RefuseFile, WriteFails, Return, Panic, Writing, Refuse,
                  Finish, output
    <2> QED
      BY <1>0, <2>1 DEF OrderInv
  <1>7. CASE Quiet
    BY <1>0, <1>7, QuietFrame DEF OrderInv, parser, output
  <1>8. CASE UNCHANGED vars
    BY <1>0, <1>8 DEF OrderInv, vars, parser, output
  <1> QED
    BY <1>1, <1>2, <1>3, <1>4, <1>5, <1>6, <1>7, <1>8, Steps

-----------------------------------------------------------------------------
(***************************************************************************)
(* The context and the span.                                               *)
(***************************************************************************)
\* Nothing but Fork sets the environment, and nothing but Open the parent.
LEMMA ContextFrame ==
    ASSUME [Next]_vars, ~Fork, ~Open
    PROVE  UNCHANGED <<env, parent>> /\ (phase = "fork" <=> phase' = "fork")
  <1>1. UNCHANGED <<env, parent>>
    BY DEF Next, Step, Declare, Parse, ParseOption, ParseOnce, ParseEnd, ParseFails, Read, Check,
           Writing, RenderFails, WriteFile, RefuseFile, WriteFails, Return, Panic, EndSpan, Flushing,
           Requesting, Tick, RequestAnswered, RequestExpires, CutOff, Flushed, Cancel, setup, vars
  <1>2. phase = "fork" <=> phase' = "fork"
    BY DEF Next, Step, Declare, Parse, ParseOption, ParseOnce, ParseEnd, ParseFails, Read, Check,
           Writing, RenderFails, WriteFile, RefuseFile, WriteFails, Refuse, Finish, Return, Panic,
           EndSpan, Flushing, Requesting, Tick, RequestAnswered, RequestExpires, NextRequest, CutOff,
           Flushed, Cancel, vars
  <1> QED
    BY <1>1, <1>2

LEMMA ContextStep ==
    ASSUME ContextInv, [Next]_vars
    PROVE  ContextInv'
  <1>0. inv' = inv /\ Tracing' = Tracing
    BY SameInvocation, SameVector
  <1>1. CASE Fork
    BY <1>0, <1>1 DEF Fork, GeneratorEnv, ContextInv, ContextIsThisRuns
  <1>2. CASE Open
    BY <1>0, <1>2 DEF Open, Extracted, ContextInv, ContextIsThisRuns
  <1> QED
    BY <1>0, <1>1, <1>2, ContextFrame DEF ContextInv, ContextIsThisRuns

LEMMA SpanStep ==
    ASSUME TypeOK, OrderInv, SpanInv, [Next]_vars
    PROVE  SpanInv'
  <1> USE DEF SpanInv, SpanTellsTheStatus
  <1>0. Tracing' = Tracing
    BY SameVector
  <1>t. span \in [state : {"none", "open", "ended"}, status : Status]
    BY DEF TypeOK
  <1>1. CASE Fork
    BY <1>0, <1>1 DEF Fork
  <1>2. CASE Open
    BY <1>0, <1>t, <1>2 DEF Open
  <1>3. CASE Declare
    BY <1>0, <1>3 DEF Declare, Finish
  <1>4. CASE ParseOption \/ ParseOnce \/ ParseEnd \/ ParseFails
    BY <1>0, <1>4 DEF ParseOption, ParseOnce, ParseEnd, ParseFails, Parse, Finish
  <1>5. CASE Read \/ Check \/ RenderFails \/ WriteFile \/ RefuseFile \/ WriteFails \/ Return
    <2>1. phase \in {"read", "check", "write"} /\ phase' \notin {"fork", "open", "flush", "exited"} /\ span' = span
      BY <1>5 DEF Read, Check, RenderFails, WriteFile, RefuseFile, WriteFails, Return, Writing,
                  Refuse, Finish
    <2> QED
      BY <1>0, <2>1
  <1>6. CASE Panic
    BY <1>0, <1>6 DEF Panic
  <1>7. CASE EndSpan
    BY <1>0, <1>7 DEF EndSpan
  <1>8. CASE Tick \/ RequestAnswered \/ RequestExpires \/ CutOff \/ Flushed
    <2>1. phase = "flush" /\ phase' \in {"flush", "exited"} /\ UNCHANGED <<code, span>>
      BY <1>8 DEF Tick, RequestAnswered, RequestExpires, CutOff, Flushed, Requesting, Flushing, NextRequest
    <2> QED
      BY <1>0, <2>1
  <1>9. CASE Cancel \/ UNCHANGED vars
    <2>1. UNCHANGED <<phase, code, span>>
      BY <1>9 DEF Cancel, vars
    <2> QED
      BY <1>0, <2>1
  <1> QED
    BY <1>1, <1>2, <1>3, <1>4, <1>5, <1>6, <1>7, <1>8, <1>9, Steps DEF Quiet

-----------------------------------------------------------------------------
(***************************************************************************)
(* The checks that come first, and the directory.                          *)
(***************************************************************************)
\* What is taken from the options and the schemas depends on nothing else.
LEMMA SameOptions ==
    ASSUME inv' = inv, options' = options
    PROVE  OptionsTaken' = OptionsTaken
  BY DEF OptionsTaken

LEMMA CheckedStep ==
    ASSUME CheckedInv, [Next]_vars
    PROVE  CheckedInv'
  <1>0. inv' = inv
    BY SameInvocation
  <1>1. CASE Read
    BY <1>0, <1>1 DEF Read, Finish, CheckedInv
  <1>2. CASE Check
    <2>1. phase = "check" /\ (phase' = "write" => inv.version = Version /\ OptionsTaken) /\ options' = options
      BY <1>2 DEF Check, Finish, parser
    <2> QED
      BY <1>0, <2>1, SameOptions DEF CheckedInv, Version
  <1>3. CASE RenderFails \/ WriteFile \/ RefuseFile \/ WriteFails \/ Return \/ Panic
    <2>1. phase = "write" /\ phase' \in {"write", "end", "flush"} /\ options' = options
      BY <1>3 DEF RenderFails, WriteFile, RefuseFile, WriteFails, Return, Panic, Writing, Refuse,
                  Finish, parser
    <2> QED
      BY <1>0, <2>1, SameOptions DEF CheckedInv, Version
  <1>4. CASE Quiet
    BY <1>0, <1>4, QuietFrame, SameOptions DEF CheckedInv, Version, Late, parser
  <1>5. CASE Fork \/ Open \/ Declare \/ ParseOption \/ ParseOnce \/ ParseEnd \/ ParseFails
    <2>1. phase' \notin {"check", "write"}
      BY <1>5 DEF Fork, Open, Declare, ParseOption, ParseOnce, ParseEnd, ParseFails, Parse, Finish
    <2> QED
      BY <2>1 DEF CheckedInv
  <1>6. CASE UNCHANGED vars
    BY <1>0, <1>6, SameOptions DEF CheckedInv, Version, vars, parser
  <1> QED
    BY <1>1, <1>2, <1>3, <1>4, <1>5, <1>6, Steps

\* The files listed as written are one more after a write.
LEMMA AppendNames ==
    ASSUME TypeOK, todo # <<>>, Takes, written' = Append(written, Name)
    PROVE  /\ WrittenNames' = WrittenNames \cup {Name}
           /\ Len(written') = Len(written) + 1
           /\ \A i \in DOMAIN written : written'[i] = written[i]
           /\ DOMAIN written' = DOMAIN written \cup {Len(written) + 1}
           /\ written'[Len(written) + 1] = Name
  <1>1. written \in Seq(Files) /\ Name \in Files
    BY NameType DEF TypeOK
  <1>2. /\ Len(written') = Len(written) + 1 /\ written' \in Seq(Files)
        /\ \A i \in 1..Len(written) : written'[i] = written[i]
        /\ written'[Len(written) + 1] = Name
    BY <1>1, AppendProperties
  <1>3. DOMAIN written = 1..Len(written) /\ DOMAIN written' = 1..Len(written') /\ Len(written) \in Nat
    BY <1>1, <1>2, LenProperties
  <1>4. DOMAIN written' = DOMAIN written \cup {Len(written) + 1}
    BY <1>2, <1>3
  <1>5. WrittenNames' = {written'[i] : i \in DOMAIN written'}
    BY DEF WrittenNames
  <1>6. WrittenNames = {written[i] : i \in DOMAIN written}
    BY DEF WrittenNames
  <1>7. WrittenNames' = WrittenNames \cup {Name}
    BY <1>2, <1>3, <1>4, <1>5, <1>6
  <1> QED
    BY <1>2, <1>3, <1>4, <1>7

LEMMA SameNames ==
    ASSUME written' = written PROVE WrittenNames' = WrittenNames
  BY DEF WrittenNames

LEMMA WholeStep ==
    ASSUME TypeOK, WrittenIsWhole, [Next]_vars
    PROVE  WrittenIsWhole'
  <1>1. CASE WriteFile
    <2>1. /\ todo # <<>> /\ Takes /\ written' = Append(written, Name)
          /\ dir' = [dir EXCEPT ![Name] = "whole"] /\ Name \in Files /\ Name \notin WrittenNames
      BY <1>1, NameType DEF WriteFile, Writing, Takes
    <2>2. WrittenNames' = {f \in Files : dir'[f] = "whole"}
      BY <2>1, AppendNames DEF WrittenIsWhole, TypeOK
    <2>3. \A i \in DOMAIN written : written[i] # Name
      BY <2>1 DEF WrittenNames
    <2>4. \A i, j \in DOMAIN written' : written'[i] = written'[j] => i = j
      BY <2>1, <2>3, AppendNames DEF WrittenIsWhole
    <2> QED
      BY <2>2, <2>4 DEF WrittenIsWhole
  <1>2. CASE WriteFails
    <2>1. /\ Takes /\ UNCHANGED written /\ Name \in Files /\ Name \notin WrittenNames
      BY <1>2, NameType DEF WriteFails, Writing, Takes, Refuse
    <2>2. PICK kept \in {"absent", "part"} : dir' = [dir EXCEPT ![Name] = kept]
      BY <1>2 DEF WriteFails
    <2> QED
      BY <2>1, <2>2, SameNames DEF WrittenIsWhole, TypeOK
  <1>3. CASE UNCHANGED <<written, dir>>
    BY <1>3, SameNames DEF WrittenIsWhole
  <1>4. CASE Fork \/ Open \/ Declare \/ ParseOption \/ ParseOnce \/ ParseEnd \/ ParseFails
    BY <1>3, <1>4 DEF Fork, Open, Declare, ParseOption, ParseOnce, ParseEnd, ParseFails, Parse, output
  <1>5. CASE Read \/ Check \/ RenderFails \/ RefuseFile \/ Return \/ Panic
    BY <1>3, <1>5 DEF Read, Check, RenderFails, RefuseFile, Refuse, Return, Panic, output
  <1> QED
    BY <1>1, <1>2, <1>3, <1>4, <1>5, QuietFrame, Steps DEF output, vars

-----------------------------------------------------------------------------
(***************************************************************************)
(* The flush and its budget.                                               *)
(***************************************************************************)
\* Half a budget of at least one tick, or all of it, is a timeout within it.
LEMMA TimeoutFits ==
    ASSUME NEW budget \in Nat \ {0}
    PROVE  /\ ExportTimeout(budget) \in Nat \ {0}
           /\ ExportTimeout(budget) <= budget
  BY DEF ExportTimeout

LEMMA OneMoreRequest ==
    ASSUME NEW done \in Nat, NEW all \in Nat, NEW latency \in Nat, done + 1 <= all
    PROVE  (done + 1) * latency = done * latency + latency /\ (done + 1) * latency <= all * latency
  <1>1. PICK more \in Nat : all = (done + 1) + more
    BY Z3
  <1>2. all * latency = (done + 1) * latency + more * latency /\ more * latency \in Nat
    BY <1>1, Z3
  <1>3. (done + 1) * latency = done * latency + latency /\ (done + 1) * latency \in Nat
    BY Z3
  <1> QED
    BY <1>2, <1>3

\* Which invocations are timely is settled before they start.
LEMMA SameTimely ==
    ASSUME [Next]_vars PROVE Timely' = Timely
  BY SameInvocation, SameVector DEF Timely

\* Nothing before the flush takes any of its time.
LEMMA FlushFrame ==
    ASSUME [Next]_vars, ~(Tick \/ RequestAnswered \/ RequestExpires)
    PROVE  UNCHANGED flush
  BY DEF Next, Step, Fork, Open, Declare, Parse, ParseOption, ParseOnce, ParseEnd, ParseFails, Read,
         Check, Writing, RenderFails, WriteFile, RefuseFile, WriteFails, Return, Panic, EndSpan,
         CutOff, Flushed, Cancel, vars

LEMMA FlushPhase ==
    ASSUME [Next]_vars, ~CutOff, ~Flushed
    PROVE  /\ phase \in {"flush", "exited"} => phase' = phase
           /\ phase' = "exited" => phase = "exited"
  BY DEF Next, Step, Fork, Open, Declare, Parse, ParseOption, ParseOnce, ParseEnd, ParseFails, Read,
         Check, Writing, RenderFails, WriteFile, RefuseFile, WriteFails, Return, Panic, EndSpan,
         Refuse, Finish, Flushing, Requesting, Tick, RequestAnswered, RequestExpires, NextRequest,
         Cancel, vars

LEMMA FlushStep ==
    ASSUME TypeOK, FlushInv, [Next]_vars
    PROVE  FlushInv'
  <1>0. inv' = inv /\ Tracing' = Tracing /\ Timely' = Timely
    BY SameInvocation, SameVector, SameTimely
  <1>t. /\ elapsed \in Nat /\ begun \in Nat /\ left \in Nat /\ sent \in Nat
        /\ inv.budget \in Nat \ {0} /\ inv.batches \in Nat /\ inv.latency \in Nat
    BY InvType DEF TypeOK
  <1>1. CASE Tick
    <2>1. /\ phase = "flush" /\ phase' = "flush" /\ left > 0
          /\ elapsed' = elapsed + 1 /\ UNCHANGED <<begun, left, sent>>
          /\ elapsed < inv.budget /\ elapsed - begun < inv.latency
      BY <1>1, <1>t DEF Tick, Requesting, Flushing, Answered, Overdue, Waited
    <2> QED
      BY <1>0, <1>t, <2>1 DEF FlushInv
  <1>2. CASE RequestAnswered
    <2>1. /\ phase = "flush" /\ phase' = "flush" /\ left > 0
          /\ left' = left - 1 /\ begun' = elapsed /\ elapsed' = elapsed
          /\ elapsed - begun >= inv.latency
          /\ sent' = IF inv.collector = "accepts" THEN sent + 1 ELSE sent
      BY <1>2, <1>t DEF RequestAnswered, Requesting, Flushing, Answered, Waited, NextRequest
    <2>2. ASSUME Timely
          PROVE  sent' = inv.batches - left' /\ begun' = sent' * inv.latency /\ elapsed' - begun' <= inv.latency
      <3>1. /\ sent = inv.batches - left /\ begun = sent * inv.latency
            /\ elapsed - begun <= inv.latency /\ sent' = sent + 1
        BY <2>1, <2>2 DEF FlushInv, Timely
      <3>2. (sent + 1) * inv.latency = sent * inv.latency + inv.latency
        <4>1. sent + 1 <= inv.batches
          BY <1>t, <2>1, <3>1
        <4> QED
          BY <1>t, <4>1, OneMoreRequest
      <3>3. begun' = begun + inv.latency
        BY <1>t, <2>1, <3>1
      <3>4. begun' = sent' * inv.latency
        BY <3>1, <3>2, <3>3
      <3>5. sent' = inv.batches - left'
        BY <1>t, <2>1, <3>1
      <3> QED
        BY <1>t, <2>1, <3>4, <3>5
    <2>3. begun' <= elapsed' /\ elapsed' <= inv.budget /\ left' <= inv.batches /\ left' # inv.batches
      BY <1>t, <2>1 DEF FlushInv
    <2> QED
      BY <1>0, <2>1, <2>2, <2>3 DEF FlushInv
  <1>3. CASE RequestExpires
    <2>1. /\ phase = "flush" /\ phase' = "flush" /\ left > 0
          /\ left' = left - 1 /\ begun' = elapsed /\ elapsed' = elapsed
          /\ elapsed - begun >= Timeout
      BY <1>3, <1>t DEF RequestExpires, Requesting, Flushing, Expired, Waited, NextRequest
    <2>2. ~Timely
      <3>1. Timeout = ExportTimeout(inv.budget) /\ Timeout \in Nat
        BY <1>t, TimeoutFits DEF Timeout
      <3> QED
        BY <1>t, <2>1, <3>1 DEF FlushInv, Timely
    <2>3. begun' <= elapsed' /\ elapsed' <= inv.budget /\ left' <= inv.batches /\ left' # inv.batches
      BY <1>t, <2>1 DEF FlushInv
    <2> QED
      BY <1>0, <2>1, <2>2, <2>3 DEF FlushInv
  <1>4. CASE CutOff
    BY <1>0, <1>4 DEF CutOff, Requesting, Flushing, Overdue, FlushInv, flush
  <1>5. CASE Flushed
    BY <1>0, <1>t, <1>5 DEF Flushed, Flushing, FlushInv, flush
  <1>6. CASE ~(Tick \/ RequestAnswered \/ RequestExpires \/ CutOff \/ Flushed)
    <2>1. UNCHANGED <<elapsed, begun, left, sent>>
      BY <1>6, FlushFrame DEF flush
    <2>2. /\ phase \in {"flush", "exited"} => phase' = phase
          /\ phase' = "exited" => phase = "exited"
      BY <1>6, FlushPhase
    <2> QED
      BY <1>0, <2>1, <2>2 DEF FlushInv
  <1> QED
    BY <1>1, <1>2, <1>3, <1>4, <1>5, <1>6

\* What the budget promises, once the process has exited.
LEMMA FlushPromises ==
    ASSUME TypeOK, FlushInv
    PROVE  FlushFits /\ FlushDelivers
  <1>t. /\ elapsed \in Nat /\ begun \in Nat /\ left \in Nat /\ sent \in Nat
        /\ inv.budget \in Nat \ {0} /\ inv.batches \in Nat /\ inv.latency \in Nat
    BY InvType DEF TypeOK
  <1>1. Timeout = ExportTimeout(inv.budget) /\ Timeout \in Nat /\ Timeout <= inv.budget
    BY <1>t, TimeoutFits DEF Timeout
  <1>2. FlushFits
    BY <1>t, <1>1 DEF FlushFits, FlushInv, Expired, Waited
  <1>3. ASSUME phase = "exited", Timely
        PROVE  sent = inv.batches
    <2>1. /\ sent = inv.batches - left /\ begun = sent * inv.latency /\ left <= inv.batches
          /\ elapsed - begun <= inv.latency /\ inv.batches * inv.latency < inv.budget
      BY <1>3 DEF FlushInv, Timely
    <2>2. CASE left > 0
      <3>1. sent + 1 <= inv.batches
        BY <1>t, <2>1, <2>2
      <3>2. sent * inv.latency + inv.latency <= inv.batches * inv.latency
        BY <1>t, <3>1, OneMoreRequest
      <3>3. elapsed < inv.budget
        <4> DEFINE all == inv.batches * inv.latency
        <4>1. all \in Nat
          BY <1>t
        <4>2. begun + inv.latency <= all /\ all < inv.budget
          BY <2>1, <3>2
        <4> HIDE DEF all
        <4> QED
          BY <1>t, <2>1, <4>1, <4>2
      <3> QED
        BY <1>3, <1>t, <2>2, <3>3 DEF FlushInv, Timely
    <2> QED
      BY <1>t, <2>1, <2>2
  <1> QED
    BY <1>2, <1>3 DEF FlushDelivers, Timely

-----------------------------------------------------------------------------
(***************************************************************************)
(* The parser.                                                             *)
(***************************************************************************)
LEMMA Parity ==
    ASSUME NEW n \in Nat, n % 2 = 0
    PROVE  /\ (n + 1) % 2 = 1 /\ (n + 2) % 2 = 0
           /\ \A i \in Nat : i % 2 = 1 /\ i <= n => i < n
           /\ \A i \in Nat : i % 2 = 1 /\ i <= n + 2 => i <= n \/ i = n + 1
  OBVIOUS

LEMMA ListsNone ==
    ASSUME NEW args PROVE Lists(<<>>, args, {})
  <1> DEFINE at == [i \in {} |-> 0]
  <1>1. at \in [DOMAIN <<>> -> {}]
    OBVIOUS
  <1>2. {at[i] : i \in DOMAIN <<>>} = {}
    OBVIOUS
  <1> QED
    BY <1>1, <1>2 DEF Lists

LEMMA ListsSame ==
    ASSUME NEW given, NEW args, NEW places, NEW k, args[k] # Opt, Lists(given, args, places)
    PROVE  Lists(given, args, places \cup {k})
  <1>1. PICK at \in [DOMAIN given -> places] :
           /\ \A i, j \in DOMAIN given : i < j => at[i] < at[j]
           /\ \A i \in DOMAIN given : given[i] = args[at[i] + 1]
           /\ {at[i] : i \in DOMAIN given} = {i \in places : args[i] = Opt}
    BY DEF Lists
  <1>2. at \in [DOMAIN given -> places \cup {k}]
    OBVIOUS
  <1>3. {i \in places : args[i] = Opt} = {i \in places \cup {k} : args[i] = Opt}
    OBVIOUS
  <1>4. {at[i] : i \in DOMAIN given} = {i \in places \cup {k} : args[i] = Opt}
    BY <1>1, <1>3
  <1> QED
    BY <1>1, <1>2, <1>4 DEF Lists

LEMMA ListsMore ==
    ASSUME NEW S, NEW given \in Seq(S), NEW args, NEW places, NEW k \in Nat, places \subseteq Nat,
           \A i \in places : i < k, args[k] = Opt, args[k + 1] \in S, Lists(given, args, places)
    PROVE  Lists(Append(given, args[k + 1]), args, places \cup {k})
  <1> DEFINE n == Len(given)
             more == Append(given, args[k + 1])
  <1>1. PICK at \in [DOMAIN given -> places] :
           /\ \A i, j \in DOMAIN given : i < j => at[i] < at[j]
           /\ \A i \in DOMAIN given : given[i] = args[at[i] + 1]
           /\ {at[i] : i \in DOMAIN given} = {i \in places : args[i] = Opt}
    BY DEF Lists
  <1>2. /\ n \in Nat /\ DOMAIN given = 1..n
        /\ more \in Seq(S) /\ Len(more) = n + 1
        /\ \A i \in 1..n : more[i] = given[i]
        /\ more[n + 1] = args[k + 1]
    BY LenProperties, AppendProperties
  <1>3. DOMAIN more = 1..(n + 1)
    BY <1>2, LenProperties
  <1> DEFINE upto == [i \in 1..(n + 1) |-> IF i = n + 1 THEN k ELSE at[i]]
  <1> HIDE DEF n, more
  <1>4. upto \in [DOMAIN more -> places \cup {k}]
    BY <1>1, <1>2, <1>3
  <1>5. \A i, j \in DOMAIN more : i < j => upto[i] < upto[j]
    <2> SUFFICES ASSUME NEW i \in 1..(n + 1), NEW j \in 1..(n + 1), i < j
                 PROVE  upto[i] < upto[j]
      BY <1>3
    <2>1. i \in 1..n /\ upto[i] = at[i] /\ at[i] \in places
      BY <1>1, <1>2
    <2>2. CASE j = n + 1
      BY <2>1, <2>2
    <2>3. CASE j \in 1..n
      <3>1. upto[j] = at[j]
        BY <1>2, <2>3
      <3> QED
        BY <1>1, <1>2, <2>1, <2>3, <3>1
    <2> QED
      BY <1>2, <2>2, <2>3
  <1>6. \A i \in DOMAIN more : more[i] = args[upto[i] + 1]
    BY <1>1, <1>2, <1>3
  <1>7. {upto[i] : i \in DOMAIN more} = {at[i] : i \in DOMAIN given} \cup {k}
    <2>1. \A i \in DOMAIN given : i \in DOMAIN more /\ upto[i] = at[i]
      BY <1>2, <1>3
    <2>2. n + 1 \in DOMAIN more /\ upto[n + 1] = k
      BY <1>2, <1>3
    <2>3. \A i \in DOMAIN more : i \in DOMAIN given \/ i = n + 1
      BY <1>2, <1>3
    <2> HIDE DEF upto
    <2> QED
      BY <2>1, <2>2, <2>3
  <1>8. {i \in places : args[i] = Opt} \cup {k} = {i \in places \cup {k} : args[i] = Opt}
    OBVIOUS
  <1>9. {upto[i] : i \in DOMAIN more} = {i \in places \cup {k} : args[i] = Opt}
    BY <1>1, <1>7, <1>8
  <1> HIDE DEF upto
  <1> QED
    BY <1>4, <1>5, <1>6, <1>9 DEF Lists, more

\* The parser starts with the whole vector.
LEMMA PrefixStarts ==
    ASSUME TypeOK, rest = inv.args, seen = {}, options = <<>>
    PROVE  Prefix
  <1>1. Len(inv.args) \in Nat /\ DOMAIN rest = 1..Len(rest)
    BY InvType, LenProperties
  <1>2. Done = 0
    BY <1>1 DEF Done
  <1>3. Handled = {}
    BY <1>1, <1>2 DEF Handled
  <1>4. Lists(options, inv.args, Handled)
    BY <1>3, ListsNone
  <1> QED
    BY <1>1, <1>2, <1>3, <1>4 DEF Prefix

\* Where the parser is, in terms of the vector.
LEMMA PrefixPlaces ==
    ASSUME TypeOK, Prefix
    PROVE  /\ Len(inv.args) \in Nat /\ DOMAIN inv.args = 1..Len(inv.args)
           /\ Len(rest) \in Nat /\ DOMAIN rest = 1..Len(rest)
           /\ Done \in Nat /\ Done % 2 = 0 /\ Len(inv.args) = Done + Len(rest)
           /\ \A i \in Handled : i \in Nat /\ i < Done /\ i + 1 <= Done
  <1>1. /\ Len(inv.args) \in Nat /\ DOMAIN inv.args = 1..Len(inv.args)
        /\ Len(rest) \in Nat /\ DOMAIN rest = 1..Len(rest)
    BY InvType, LenProperties DEF TypeOK
  <1>2. Done \in Nat /\ Done % 2 = 0
    BY DEF Prefix
  <1>3. Len(inv.args) = Done + Len(rest)
    BY <1>1 DEF Done
  <1>4. \A i \in Handled : i \in Nat /\ i % 2 = 1 /\ i <= Done
    BY <1>1 DEF Handled
  <1> QED
    BY <1>1, <1>2, <1>3, <1>4, Parity

LEMMA TwoMore ==
    ASSUME TypeOK, Prefix, inv' = inv, Len(rest) >= 2, Take(2)
    PROVE  /\ Done' = Done + 2 /\ Done' \in Nat /\ Done' % 2 = 0
           /\ \A i \in DOMAIN rest' : rest'[i] = inv.args[Done' + i]
           /\ Handled' = Handled \cup {Done + 1} /\ Done + 1 \notin Handled
           /\ rest[1] = inv.args[Done + 1] /\ rest[2] = inv.args[Done + 2]
           /\ inv.args[Done + 2] \in Arg
  <1>1. /\ Len(inv.args) \in Nat /\ DOMAIN inv.args = 1..Len(inv.args)
        /\ Len(rest) \in Nat /\ DOMAIN rest = 1..Len(rest)
        /\ Done \in Nat /\ Done % 2 = 0 /\ Len(inv.args) = Done + Len(rest)
        /\ \A i \in Handled : i \in Nat /\ i < Done
    BY PrefixPlaces
  <1>2. /\ rest' \in Seq(Arg) /\ Len(rest') = Len(rest) - 2
        /\ \A i \in 1..(Len(rest) - 2) : rest'[i] = rest[2 + i]
    <2>1. rest \in Seq(Arg) /\ rest' = SubSeq(rest, 2 + 1, Len(rest))
      BY DEF Take, TypeOK
    <2> QED
      BY <1>1, <2>1, TakeType
  <1>3. DOMAIN rest' = 1..(Len(rest) - 2)
    BY <1>2, LenProperties
  <1>4. Done' = Done + 2
    BY <1>1, <1>2 DEF Done
  <1>5. \A i \in 1..Len(rest) : rest[i] = inv.args[Done + i]
    BY <1>1 DEF Prefix
  <1>6. \A i \in DOMAIN rest' : rest'[i] = inv.args[Done' + i]
    <2> SUFFICES ASSUME NEW i \in 1..(Len(rest) - 2) PROVE rest'[i] = inv.args[Done' + i]
      BY <1>3
    <2>1. 2 + i \in 1..Len(rest) /\ Done + (2 + i) = Done' + i
      BY <1>1, <1>4
    <2> QED
      BY <1>2, <1>5, <2>1
  <1>7. Handled' = Handled \cup {Done + 1}
    <2>1. Handled' = {i \in DOMAIN inv.args : i % 2 = 1 /\ i <= Done + 2}
      BY <1>4 DEF Handled
    <2>2. Done + 1 \in DOMAIN inv.args /\ (Done + 1) % 2 = 1
      BY <1>1, Parity
    <2> DEFINE d == Done
    <2>3. ASSUME NEW i \in DOMAIN inv.args, i % 2 = 1
          PROVE  i <= d + 2 <=> (i <= d \/ i = d + 1)
      <3>1. i \in Nat /\ d \in Nat /\ d % 2 = 0
        BY <1>1
      <3> HIDE DEF d
      <3>2. i <= d + 2 => i <= d \/ i = d + 1
        BY <2>3, <3>1, Parity
      <3> QED
        BY <3>1, <3>2
    <2> QED
      BY <1>1, <2>1, <2>2, <2>3 DEF Handled
  <1>8. Done + 1 \notin Handled
    BY <1>1
  <1>9. rest[1] = inv.args[Done + 1] /\ rest[2] = inv.args[Done + 2] /\ rest[2] \in Arg
    BY <1>1, <1>5, ElementOfSeq DEF TypeOK
  <1> QED
    BY <1>1, <1>4, <1>6, <1>7, <1>8, <1>9, Parity

LEMMA OptionStep ==
    ASSUME TypeOK, Prefix, inv' = inv, ParseOption
    PROVE  Prefix'
  <1>1. /\ Len(rest) >= 2 /\ Take(2) /\ rest[1] = Opt /\ IsPair(rest[2])
        /\ options' = Append(options, rest[2]) /\ seen' = seen
    BY DEF ParseOption
  <1>2. /\ Done' = Done + 2 /\ Done' \in Nat /\ Done' % 2 = 0
        /\ \A i \in DOMAIN rest' : rest'[i] = inv.args[Done' + i]
        /\ Handled' = Handled \cup {Done + 1} /\ Done + 1 \notin Handled
        /\ inv.args[Done + 1] = Opt /\ inv.args[Done + 2] = rest[2] /\ inv.args[Done + 2] \in Arg
    BY <1>1, TwoMore
  <1>3. /\ Done \in Nat /\ Handled \subseteq Nat /\ \A i \in Handled : i < Done + 1
    BY PrefixPlaces
  <1>4. \A i \in Handled' : inv.args[i] \in Flags /\ (inv.args[i] = Opt => IsPair(inv.args[i + 1]))
    <2>1. IsPair(inv.args[(Done + 1) + 1])
      BY <1>1, <1>2, <1>3
    <2> QED
      BY <1>2, <2>1 DEF Prefix, Flags
  <1>5. \A flag \in {Descriptor, Out} : flag \in seen' <=> \E i \in Handled' : inv.args[i] = flag
    BY <1>1, <1>2, FlagsDiffer DEF Prefix
  <1>6. \A i, j \in Handled' : inv.args[i] = inv.args[j] /\ inv.args[i] # Opt => i = j
    BY <1>2 DEF Prefix
  <1>7. Lists(options', inv.args, Handled')
    <2> DEFINE Pairs == {arg \in Arg : IsPair(arg)}
    <2>0. (Done + 1) + 1 = Done + 2 /\ Done + 1 \in Nat
      BY <1>3
    <2>1. options \in Seq(Pairs)
      BY DEF TypeOK
    <2>2. inv.args[(Done + 1) + 1] \in Pairs
      BY <1>1, <1>2, <2>0
    <2>4. options' = Append(options, inv.args[(Done + 1) + 1])
      BY <1>1, <1>2, <2>0
    <2>3. Lists(options, inv.args, Handled)
      BY DEF Prefix
    <2> HIDE DEF Pairs
    <2> QED
      BY <1>2, <1>3, <2>0, <2>1, <2>2, <2>3, <2>4, ListsMore
  <1> QED
    BY <1>2, <1>4, <1>5, <1>6, <1>7 DEF Prefix

LEMMA OnceStep ==
    ASSUME TypeOK, Prefix, inv' = inv, ParseOnce
    PROVE  Prefix'
  <1>1. /\ Len(rest) >= 2 /\ Take(2) /\ rest[1] \in {Descriptor, Out} /\ rest[1] \notin seen
        /\ options' = options /\ seen' = seen \cup {rest[1]}
    BY DEF ParseOnce
  <1>2. /\ Done' = Done + 2 /\ Done' \in Nat /\ Done' % 2 = 0
        /\ \A i \in DOMAIN rest' : rest'[i] = inv.args[Done' + i]
        /\ Handled' = Handled \cup {Done + 1} /\ Done + 1 \notin Handled
        /\ inv.args[Done + 1] = rest[1]
    BY <1>1, TwoMore
  <1>3. inv.args[Done + 1] # Opt
    BY <1>1, <1>2, FlagsDiffer
  <1>4. \A i \in Handled' : inv.args[i] \in Flags /\ (inv.args[i] = Opt => IsPair(inv.args[i + 1]))
    BY <1>1, <1>2, <1>3 DEF Prefix, Flags
  <1>5. \A flag \in {Descriptor, Out} : flag \in seen' <=> \E i \in Handled' : inv.args[i] = flag
    BY <1>1, <1>2 DEF Prefix
  <1>6. \A i, j \in Handled' : inv.args[i] = inv.args[j] /\ inv.args[i] # Opt => i = j
    <2>1. \A i \in Handled : inv.args[i] # inv.args[Done + 1]
      BY <1>1, <1>2 DEF Prefix
    <2> QED
      BY <1>2, <2>1 DEF Prefix
  <1>7. Lists(options', inv.args, Handled')
    BY <1>1, <1>2, <1>3, ListsSame DEF Prefix
  <1> QED
    BY <1>2, <1>4, <1>5, <1>6, <1>7 DEF Prefix

\* A vector the parser comes to the end of conforms, if nothing is missing.
LEMMA EndStep ==
    ASSUME TypeOK, Prefix, Ended, seen = {Descriptor, Out}
    PROVE  Conforms(inv.args) /\ Lists(options, inv.args, Places(inv.args))
  <1>1. /\ Len(inv.args) \in Nat /\ DOMAIN inv.args = 1..Len(inv.args)
        /\ Len(rest) \in Nat /\ DOMAIN rest = 1..Len(rest)
        /\ Done \in Nat /\ Done % 2 = 0 /\ Len(inv.args) = Done + Len(rest)
        /\ \A i \in Handled : i \in Nat /\ i < Done
    BY PrefixPlaces
  <1>2. Len(rest) = 0 \/ (Len(rest) = 1 /\ inv.args[Len(inv.args)] = EndOfOptions)
    <2>1. CASE rest = <<>>
      BY <2>1, EmptySeq
    <2>2. CASE rest = <<EndOfOptions>>
      <3>1. Len(rest) = 1 /\ rest[1] = EndOfOptions
        BY <2>2
      <3>2. inv.args[Done + 1] = EndOfOptions
        BY <1>1, <3>1 DEF Prefix
      <3> QED
        BY <1>1, <3>1, <3>2
    <2> QED
      BY <2>1, <2>2 DEF Ended
  <1>3. Places(inv.args) = Handled
    <2>1. ASSUME NEW i \in DOMAIN inv.args, i % 2 = 1
          PROVE  i < Len(inv.args) <=> i <= Done
      <3> DEFINE d == Done
                 n == Len(inv.args)
      <3>0. Len(rest) \in {0, 1}
        BY <1>2
      <3>1. i \in Nat /\ d \in Nat /\ d % 2 = 0 /\ (n = d \/ n = d + 1) /\ i <= n
        BY <1>1, <3>0
      <3> HIDE DEF d, n
      <3>2. i <= d => i < d
        BY <2>1, <3>1, Parity
      <3>3. i < n <=> i <= d
        BY <3>1, <3>2
      <3> QED
        BY <3>3 DEF d, n
    <2> QED
      BY <2>1 DEF Places, Handled
  <1>4. Len(inv.args) % 2 = 1 => inv.args[Len(inv.args)] = EndOfOptions
    <2>1. CASE Len(rest) = 0
      BY <1>1, <2>1
    <2> QED
      BY <1>2, <2>1
  <1>5. \A flag \in {Descriptor, Out} :
           \E i \in Places(inv.args) : \A j \in Places(inv.args) : inv.args[j] = flag <=> j = i
    BY <1>3, FlagsDiffer DEF Prefix
  <1>6. \A i \in Places(inv.args) : inv.args[i] \in Flags /\ (inv.args[i] = Opt => IsPair(inv.args[i + 1]))
    BY <1>3 DEF Prefix
  <1>7. Lists(options, inv.args, Places(inv.args))
    BY <1>3 DEF Prefix
  <1> QED
    BY <1>4, <1>5, <1>6, <1>7 DEF Conforms

\* A vector the parser refuses does not conform.
LEMMA RefusedStep ==
    ASSUME TypeOK, Prefix, Refused
    PROVE  ~Conforms(inv.args)
  <1>1. /\ Len(inv.args) \in Nat /\ DOMAIN inv.args = 1..Len(inv.args)
        /\ Len(rest) \in Nat /\ DOMAIN rest = 1..Len(rest)
        /\ Done \in Nat /\ Done % 2 = 0 /\ Len(inv.args) = Done + Len(rest)
        /\ \A i \in Handled : i \in Nat /\ i < Done
    BY PrefixPlaces
  <1>2. CASE Ended
    <2>1. PICK flag \in {Descriptor, Out} : flag \notin seen
      BY <1>2 DEF Refused, TypeOK
    <2>2. Handled = Places(inv.args)
      <3>1. Len(rest) = 0 \/ Len(rest) = 1
        BY <1>2, EmptySeq DEF Ended
      <3>2. ASSUME NEW i \in DOMAIN inv.args, i % 2 = 1
            PROVE  i < Len(inv.args) <=> i <= Done
        <4> DEFINE d == Done
                   n == Len(inv.args)
        <4>1. i \in Nat /\ d \in Nat /\ d % 2 = 0 /\ (n = d \/ n = d + 1) /\ i <= n
          BY <1>1, <3>1
        <4> HIDE DEF d, n
        <4>2. i <= d => i < d
          BY <3>2, <4>1, Parity
        <4>3. i < n <=> i <= d
          BY <4>1, <4>2
        <4> QED
          BY <4>3 DEF d, n
      <3> QED
        BY <3>2 DEF Places, Handled
    <2>3. \A i \in Places(inv.args) : inv.args[i] # flag
      BY <2>1, <2>2 DEF Prefix
    <2> QED
      BY <2>1, <2>3 DEF Conforms
  <1>3. CASE ~Ended /\ Len(rest) = 1
    <2>1. inv.args[Len(inv.args)] = rest[1]
      BY <1>1, <1>3 DEF Prefix
    <2>2. rest = <<rest[1]>>
      BY <1>1, <1>3 DEF TypeOK
    <2>3. rest[1] # EndOfOptions
      BY <1>3, <2>2 DEF Ended
    <2>4. Len(inv.args) % 2 = 1
      BY <1>1, <1>3, Parity
    <2> QED
      BY <2>1, <2>3, <2>4 DEF Conforms
  <1>4. CASE ~Ended /\ Len(rest) >= 2
    <2>1. /\ Done + 1 \in Places(inv.args)
          /\ inv.args[Done + 1] = rest[1] /\ inv.args[Done + 1 + 1] = rest[2]
      <3>1. Done + 1 \in DOMAIN inv.args /\ Done + 1 < Len(inv.args) /\ (Done + 1) % 2 = 1
        BY <1>1, <1>4, Parity
      <3>2. rest[1] = inv.args[Done + 1] /\ rest[2] = inv.args[Done + 2]
        BY <1>1, <1>4 DEF Prefix
      <3> QED
        BY <1>1, <3>1, <3>2 DEF Places
    <2>2. CASE rest[1] \in seen
      <3>1. rest[1] \in {Descriptor, Out}
        BY <2>2 DEF TypeOK
      <3>2. PICK i \in Handled : inv.args[i] = rest[1]
        BY <2>2, <3>1 DEF Prefix
      <3>3. i \in Places(inv.args) /\ i # Done + 1
        BY <1>1, <1>4 DEF Handled, Places
      <3> DEFINE k == Done + 1
      <3>4. k \in Places(inv.args) /\ inv.args[k] = rest[1] /\ i # k
        BY <2>1, <3>3
      <3> HIDE DEF k
      <3>5. ~(\E a \in Places(inv.args) : \A b \in Places(inv.args) : inv.args[b] = rest[1] <=> b = a)
        BY <3>2, <3>3, <3>4
      <3> QED
        BY <3>1, <3>5 DEF Conforms
    <2>3. rest[1] \in seen \/ rest[1] \notin Flags \/ (rest[1] = Opt /\ ~IsPair(rest[2]))
      BY <1>4 DEF Refused
    <2>4. CASE rest[1] \notin Flags \/ (rest[1] = Opt /\ ~IsPair(rest[2]))
      <3> SUFFICES ASSUME Conforms(inv.args) PROVE FALSE
        OBVIOUS
      <3>1. \A i \in Places(inv.args) :
               inv.args[i] \in Flags /\ (inv.args[i] = Opt => IsPair(inv.args[i + 1]))
        BY DEF Conforms
      <3>2. inv.args[Done + 1] \in Flags /\ (inv.args[Done + 1] = Opt => IsPair(inv.args[Done + 1 + 1]))
        BY <2>1, <3>1
      <3> QED
        BY <2>1, <2>4, <3>2
    <2> QED
      BY <2>2, <2>3, <2>4
  <1>5. Ended \/ Len(rest) >= 1
    BY <1>1, EmptySeq DEF Ended, TypeOK
  <1> QED
    BY <1>1, <1>2, <1>3, <1>4, <1>5

LEMMA SamePrefix ==
    ASSUME UNCHANGED <<inv, parser>>, Prefix
    PROVE  Prefix' /\ options' = options
  <1>1. UNCHANGED <<inv, rest, seen, options>>
    BY DEF parser
  <1>2. Done' = Done /\ Handled' = Handled
    BY <1>1 DEF Done, Handled
  <1> QED
    BY <1>1, <1>2 DEF Prefix

LEMMA ParseStep ==
    ASSUME TypeOK, ParseInv, [Next]_vars
    PROVE  ParseInv'
  <1>0. inv' = inv
    BY SameInvocation
  <1>1. CASE Fork \/ Open
    <2>1. /\ phase \in {"fork", "open"} /\ phase' \in {"open", "declare", "parse"}
          /\ UNCHANGED parser
      BY <1>1 DEF Fork, Open
    <2> QED
      BY <1>0, <2>1, SamePrefix DEF ParseInv, ParsedAsSpecified
  <1>2. CASE ParseOption \/ ParseOnce
    <2>1. phase = "parse" /\ phase' = "parse"
      BY <1>2 DEF ParseOption, ParseOnce, Parse
    <2> QED
      BY <1>0, <1>2, <2>1, OptionStep, OnceStep DEF ParseInv, ParsedAsSpecified
  <1>3. CASE ParseEnd
    <2>1. phase = "parse" /\ phase' = "read" /\ Ended /\ seen = {Descriptor, Out} /\ options' = options
      BY <1>3 DEF ParseEnd, Parse, parser
    <2> QED
      BY <1>0, <2>1, EndStep DEF ParseInv, ParsedAsSpecified
  <1>4. CASE Read \/ Check \/ RenderFails \/ WriteFile \/ RefuseFile \/ WriteFails \/ Return \/ Panic
    <2>1. /\ phase \in {"read", "check", "write"} /\ phase' \in {"check", "write", "end", "flush"}
          /\ options' = options
      BY <1>4 DEF Read, Check, RenderFails, WriteFile, RefuseFile, WriteFails, Return, Panic, Writing,
                  Refuse, Finish, parser
    <2> QED
      BY <1>0, <2>1 DEF ParseInv, ParsedAsSpecified
  <1>5. CASE Declare \/ ParseFails
    <2>1. phase' = "end"
      BY <1>5 DEF Declare, ParseFails, Finish
    <2> QED
      BY <2>1 DEF ParseInv, ParsedAsSpecified
  <1>6. CASE UNCHANGED <<parser, phase>>
    <2>1. UNCHANGED <<inv, parser, phase, options>>
      BY <1>0, <1>6 DEF parser
    <2> QED
      BY <2>1, SamePrefix DEF ParseInv, ParsedAsSpecified
  <1>7. CASE Quiet
    BY <1>6, <1>7, QuietFrame DEF ParseInv, ParsedAsSpecified, Late
  <1> QED
    BY <1>1, <1>2, <1>3, <1>4, <1>5, <1>6, <1>7, Steps DEF vars

-----------------------------------------------------------------------------
(***************************************************************************)
(* The files and the status.                                               *)
(***************************************************************************)
\* The schema at hand, and what there is to do once it is handled.
LEMMA AtHand ==
    ASSUME TypeOK, WorkInv, todo # <<>>
    PROVE  /\ Taken \in Nat /\ Taken + 1 \in DOMAIN inv.schemas
           /\ Head(todo) = inv.schemas[Taken + 1] /\ Name = NameOf(Taken + 1)
           /\ inv' = inv /\ todo' = Tail(todo) =>
                 /\ Taken' = Taken + 1
                 /\ \A i \in DOMAIN todo' : todo'[i] = inv.schemas[Taken' + i]
  <1>1. todo \in Seq(Schema) /\ inv.schemas \in Seq(Schema)
    BY InvType DEF TypeOK
  <1>2. /\ Len(todo) \in Nat /\ Len(inv.schemas) \in Nat
        /\ DOMAIN todo = 1..Len(todo) /\ DOMAIN inv.schemas = 1..Len(inv.schemas)
    BY <1>1, LenProperties
  <1>3. /\ Head(todo) = todo[1] /\ Len(todo) >= 1 /\ Tail(todo) \in Seq(Schema)
        /\ Len(Tail(todo)) = Len(todo) - 1
        /\ \A i \in 1..(Len(todo) - 1) : Tail(todo)[i] = todo[i + 1]
    BY <1>1, TailType
  <1>4. Taken \in Nat /\ Len(inv.schemas) = Taken + Len(todo)
    BY <1>2 DEF Taken, WorkInv
  <1>5. \A i \in 1..Len(todo) : todo[i] = inv.schemas[Taken + i]
    BY <1>2 DEF WorkInv
  <1>6. Head(todo) = inv.schemas[Taken + 1] /\ Taken + 1 \in DOMAIN inv.schemas
    BY <1>2, <1>3, <1>4, <1>5
  <1>7. Name = NameOf(Taken + 1)
    BY <1>6 DEF Name, Path, NameOf
  <1>8. ASSUME inv' = inv, todo' = Tail(todo)
        PROVE  Taken' = Taken + 1 /\ \A i \in DOMAIN todo' : todo'[i] = inv.schemas[Taken' + i]
    <2>1. Taken' = Taken + 1
      BY <1>2, <1>3, <1>8 DEF Taken
    <2>2. DOMAIN todo' = 1..(Len(todo) - 1)
      BY <1>3, <1>8, LenProperties
    <2>3. ASSUME NEW i \in 1..(Len(todo) - 1)
          PROVE  todo'[i] = inv.schemas[Taken' + i]
      <3>1. i + 1 \in 1..Len(todo) /\ Taken + (i + 1) = Taken' + i
        BY <1>2, <1>4, <2>1
      <3> QED
        BY <1>3, <1>5, <1>8, <3>1
    <2> QED
      BY <2>1, <2>2, <2>3
  <1> QED
    BY <1>4, <1>6, <1>7, <1>8

LEMMA WorkFrame ==
    ASSUME inv' = inv, UNCHANGED <<todo, written, failed, dir>>, WorkInv
    PROVE  WorkInv'
  <1>1. Taken' = Taken /\ WrittenNames' = WrittenNames
    BY DEF Taken, WrittenNames
  <1>2. \A i : Missing(i)' = Missing(i)
    BY <1>1 DEF Missing, NameOf
  <1> QED
    BY <1>1, <1>2 DEF WorkInv, NameOf

\* Something stays missing: a file that is there after all was asked for twice.
LEMMA StaysMissing ==
    ASSUME TypeOK, WorkInv, todo # <<>>, inv' = inv, Taken' = Taken + 1, Name \in Files,
           NEW state \in State, dir' = [dir EXCEPT ![Name] = state],
           NEW i \in 1..Taken, Missing(i)
    PROVE  Missing(i)'
  <1>1. /\ Taken \in Nat /\ Name = NameOf(Taken + 1) /\ dir \in [Files -> State]
        /\ Taken + 1 \in DOMAIN inv.schemas
    BY AtHand DEF TypeOK
  <1>2. CASE NameOf(i) = Name
    <2>1. Taken + 1 \in 1..Taken' /\ Taken + 1 # i
      BY <1>1
    <2> QED
      BY <1>1, <1>2, <2>1 DEF Missing, NameOf
  <1>3. CASE NameOf(i) # Name
    <2>1. NameOf(i) \in Files \cup {Outside}
      <3>1. DOMAIN inv.schemas = 1..Len(inv.schemas) /\ Len(inv.schemas) \in Nat
        BY InvType, LenProperties
      <3>2. i \in DOMAIN inv.schemas
        BY <1>1, <3>1
      <3>3. inv.schemas[i] \in Schema
        BY <3>1, <3>2, InvType, ElementOfSeq
      <3> QED
        BY <3>3, CleanAssumption DEF NameOf, Schema
    <2>2. NameOf(i) # Outside => dir'[NameOf(i)] = dir[NameOf(i)]
      BY <1>1, <1>3, <2>1
    <2>3. \A j \in 1..Taken : j \in 1..Taken'
      BY <1>1
    <2> QED
      BY <2>2, <2>3 DEF Missing, NameOf
  <1> QED
    BY <1>2, <1>3

LEMMA WriteFileStep ==
    ASSUME TypeOK, WorkInv, inv' = inv, WriteFile
    PROVE  WorkInv'
  <1>1. /\ todo # <<>> /\ Head(todo).renders /\ Takes /\ todo' = Tail(todo) /\ failed' = failed
        /\ dir' = [dir EXCEPT ![Name] = "whole"] /\ written' = Append(written, Name)
    BY DEF WriteFile, Writing
  <1>2. /\ Taken \in Nat /\ Taken' = Taken + 1
        /\ Head(todo) = inv.schemas[Taken + 1] /\ Name = NameOf(Taken + 1)
        /\ \A i \in DOMAIN todo' : todo'[i] = inv.schemas[Taken' + i]
    BY <1>1, AtHand
  <1>3. /\ Name \in Files /\ Name \notin WrittenNames
        /\ dir \in [Files -> State]
    BY <1>1, NameType DEF Takes, TypeOK
  <1>4. 1..Taken' = (1..Taken) \cup {Taken + 1}
    BY <1>2
  <1>5. \A i \in 1..Taken' : inv.schemas[i].renders
    BY <1>1, <1>2, <1>4 DEF WorkInv
  <1>6. \A i \in DOMAIN written' : \E j \in 1..Taken' : written'[i] = NameOf(j)
    BY <1>1, <1>2, <1>4, AppendNames DEF WorkInv
  <1>7. failed => \E i \in 1..Taken' : Missing(i)'
    <2> SUFFICES ASSUME failed PROVE \E i \in 1..Taken' : Missing(i)'
      OBVIOUS
    <2>1. PICK i \in 1..Taken : Missing(i)
      BY DEF WorkInv
    <2>2. Missing(i)'
      BY <1>1, <1>2, <1>3, <2>1, StaysMissing DEF State
    <2> QED
      BY <1>4, <2>2
  <1>8. ASSUME ~failed
        PROVE  /\ \A f \in Files : dir'[f] # "part"
               /\ \A i \in 1..Taken' : NameOf(i) \in WrittenNames'
               /\ \A i, j \in 1..Taken' : NameOf(i) = NameOf(j) => i = j
    <2>1. \A f \in Files : dir'[f] # "part"
      BY <1>1, <1>3, <1>8 DEF WorkInv
    <2>2. \A i \in 1..Taken' : NameOf(i) \in WrittenNames'
      BY <1>1, <1>2, <1>4, <1>8, AppendNames DEF WorkInv
    <2>3. \A i \in 1..Taken : NameOf(i) # NameOf(Taken + 1)
      BY <1>2, <1>3, <1>8 DEF WorkInv
    <2>4. \A i, j \in 1..Taken' : NameOf(i) = NameOf(j) => i = j
      BY <1>4, <1>8, <2>3 DEF WorkInv
    <2> QED
      BY <2>1, <2>2, <2>4
  <1>9. Taken' \in Nat
    BY <1>2
  <1>10. failed' => \E i \in 1..Taken' : Missing(i)'
    BY <1>1, <1>7
  <1>11. ~failed' =>
            /\ \A f \in Files : dir'[f] # "part"
            /\ \A i \in 1..Taken' : NameOf(i) \in WrittenNames'
            /\ \A i, j \in 1..Taken' : NameOf(i) = NameOf(j) => i = j
    BY <1>1, <1>8
  <1> QED
    BY <1>2, <1>5, <1>6, <1>9, <1>10, <1>11 DEF WorkInv, NameOf

LEMMA RefuseStep ==
    ASSUME TypeOK, WorkInv, inv' = inv, RefuseFile \/ WriteFails
    PROVE  WorkInv' /\ failed'
  <1>1. /\ todo # <<>> /\ Head(todo).renders /\ todo' = Tail(todo) /\ failed' /\ written' = written
    BY DEF RefuseFile, WriteFails, Refuse, Writing
  <1>2. /\ Taken \in Nat /\ Taken' = Taken + 1
        /\ Head(todo) = inv.schemas[Taken + 1] /\ Name = NameOf(Taken + 1)
        /\ \A i \in DOMAIN todo' : todo'[i] = inv.schemas[Taken' + i]
    BY <1>1, AtHand
  <1>3. Taken + 1 \in 1..Taken' /\ \A i \in 1..Taken : i \in 1..Taken' /\ i # Taken + 1
    BY <1>2
  <1>4. 1..Taken' = (1..Taken) \cup {Taken + 1}
    BY <1>2
  <1>5. \A i \in 1..Taken' : inv.schemas[i].renders
    BY <1>1, <1>2, <1>4 DEF WorkInv
  <1>6. \A i \in DOMAIN written' : \E j \in 1..Taken' : written'[i] = NameOf(j)
    BY <1>1, <1>3 DEF WorkInv
  <1>7. ASSUME NEW k \in Nat, k = Taken + 1
        PROVE  Missing(k)'
    <2>0. NameOf(k) = Name /\ k \in 1..Taken'
      BY <1>2, <1>3, <1>7
    <2>1. CASE Name = Outside
      BY <2>0, <2>1 DEF Missing, NameOf
    <2>2. CASE Name \in WrittenNames
      <3>1. PICK i \in DOMAIN written : written[i] = Name
        BY <2>2 DEF WrittenNames
      <3>2. PICK j \in 1..Taken : written[i] = NameOf(j)
        BY DEF WorkInv
      <3> QED
        BY <1>3, <1>7, <2>0, <3>1, <3>2 DEF Missing, NameOf
    <2>3. CASE Takes
      <3>1. PICK kept \in {"absent", "part"} : dir' = [dir EXCEPT ![Name] = kept]
        BY <2>3 DEF RefuseFile, WriteFails
      <3>2. Name \in Files /\ dir \in [Files -> State]
        BY <1>1, <2>3, NameType DEF TypeOK
      <3> QED
        BY <2>0, <3>1, <3>2 DEF Missing, NameOf
    <2> QED
      BY <2>1, <2>2, <2>3 DEF Takes
  <1>8. \E i \in 1..Taken' : Missing(i)'
    <2>1. PICK k \in Nat : k = Taken + 1
      BY <1>2
    <2> QED
      BY <1>3, <1>7, <2>1
  <1>9. Taken' \in Nat
    BY <1>2
  <1> QED
    BY <1>1, <1>2, <1>5, <1>6, <1>8, <1>9 DEF WorkInv, NameOf

LEMMA WorkStep ==
    ASSUME TypeOK, WorkInv, [Next]_vars
    PROVE  WorkInv'
  <1>0. inv' = inv
    BY SameInvocation
  <1>1. CASE WriteFile \/ RefuseFile \/ WriteFails
    BY <1>0, <1>1, WriteFileStep, RefuseStep
  <1>2. CASE UNCHANGED <<todo, written, failed, dir>>
    BY <1>0, <1>2, WorkFrame
  <1>3. CASE Fork \/ Open \/ Declare \/ ParseOption \/ ParseOnce \/ ParseEnd \/ ParseFails
    BY <1>2, <1>3 DEF Fork, Open, Declare, ParseOption, ParseOnce, ParseEnd, ParseFails, Parse, output
  <1>4. CASE Read \/ Check \/ RenderFails \/ Return \/ Panic
    BY <1>2, <1>4 DEF Read, Check, RenderFails, Return, Panic, output
  <1> QED
    BY <1>1, <1>2, <1>3, <1>4, QuietFrame, Steps DEF output, vars

\* Nothing is written before a generator runs, and none runs unchecked.
LEMMA ChecksStep ==
    ASSUME TypeOK, OrderInv, ParseInv, CheckedInv, ChecksComeFirst, [Next]_vars
    PROVE  ChecksComeFirst'
  <1>0. inv' = inv /\ Declaring' = Declaring
    BY SameInvocation, SameVector
  <1>1. CASE Fork \/ Open \/ Declare \/ ParseOption \/ ParseOnce \/ ParseEnd \/ ParseFails \/ Read \/ Check
    <2>1. phase \in Early /\ dir' = dir
      BY <1>1 DEF Fork, Open, Declare, ParseOption, ParseOnce, ParseEnd, ParseFails, Parse, Read, Check,
                  Early, output
    <2>2. \A f \in Files : dir'[f] = "absent"
      BY <2>1 DEF OrderInv
    <2> QED
      BY <2>2 DEF ChecksComeFirst
  <1>2. CASE RenderFails \/ WriteFile \/ RefuseFile \/ WriteFails \/ Return \/ Panic
    <2>1. phase = "write" /\ said' = said /\ options' = options
      BY <1>2 DEF RenderFails, WriteFile, RefuseFile, WriteFails, Return, Panic, Writing, output, parser
    <2>2. /\ ~Declaring /\ ~said /\ Conforms(inv.args) /\ inv.descriptor = "whole"
          /\ inv.version = Version /\ OptionsTaken
      BY <2>1 DEF OrderInv, ParseInv, ParsedAsSpecified, CheckedInv
    <2> QED
      BY <1>0, <2>1, <2>2, SameOptions DEF ChecksComeFirst, Version
  <1>3. CASE UNCHANGED <<parser, output>>
    BY <1>0, <1>3, SameOptions DEF ChecksComeFirst, Version, parser, output
  <1> QED
    BY <1>1, <1>2, <1>3, QuietFrame, Steps DEF vars

\* Success is about the vector, the schemas and what is on disk or said.
LEMMA SameSuccess ==
    ASSUME inv' = inv, UNCHANGED <<said, options, dir>>
    PROVE  Succeeded' = Succeeded
  <1>1. /\ Declaring' = Declaring /\ Asked' = Asked /\ AskedOnce' = AskedOnce
        /\ OptionsTaken' = OptionsTaken
    BY SameOptions DEF Declaring, Asked, AskedOnce
  <1> QED
    BY <1>1 DEF Succeeded, Version, Info

\* A write that failed leaves something missing.
LEMMA FailedFails ==
    ASSUME TypeOK, inv' = inv, Declaring' = Declaring, ~Declaring, WorkInv', failed',
           Taken' <= Len(inv.schemas)
    PROVE  ~Succeeded'
  <1> SUFFICES ASSUME Succeeded' PROVE FALSE
    OBVIOUS
  <1>1. PICK i \in 1..Taken' : Missing(i)'
    BY DEF WorkInv
  <1>2. DOMAIN inv.schemas = 1..Len(inv.schemas) /\ Len(inv.schemas) \in Nat /\ Taken' \in Nat
    BY InvType, LenProperties DEF WorkInv
  <1>3. \A k \in 1..Taken' : k \in DOMAIN inv.schemas
    BY <1>2
  <1>4. /\ Asked' \subseteq Files /\ AskedOnce'
        /\ dir' = [f \in Files |-> IF f \in Asked' THEN "whole" ELSE "absent"]
    BY DEF Succeeded
  <1>5. NameOf(i) \in Asked'
    BY <1>3 DEF Asked, NameOf
  <1>6. NameOf(i) # Outside /\ dir'[NameOf(i)] = "whole"
    BY <1>4, <1>5, CleanAssumption
  <1>7. \A j \in 1..Taken' : NameOf(j) = NameOf(i) => j = i
    BY <1>3, <1>4 DEF AskedOnce, NameOf
  <1> QED
    BY <1>1, <1>6, <1>7 DEF Missing, NameOf

\* A generator that wrote all its files without a failure has written them.
LEMMA WroteAll ==
    ASSUME TypeOK, OrderInv, ParseInv, CheckedInv, WrittenIsWhole, WorkInv,
           phase = "write", todo = <<>>, ~failed
    PROVE  Succeeded
  <1>1. DOMAIN inv.schemas = 1..Len(inv.schemas) /\ Len(inv.schemas) \in Nat
    BY InvType, LenProperties
  <1>2. Taken = Len(inv.schemas)
    BY <1>1, EmptySeq DEF Taken
  <1>3. /\ ~Declaring /\ Conforms(inv.args) /\ inv.descriptor = "whole"
        /\ inv.version = Version /\ OptionsTaken
    BY DEF OrderInv, ParseInv, ParsedAsSpecified, CheckedInv
  <1>4. \A i \in DOMAIN inv.schemas : inv.schemas[i].renders
    BY <1>1, <1>2 DEF WorkInv
  <1>5. AskedOnce
    BY <1>1, <1>2 DEF WorkInv, NameOf, AskedOnce
  <1>6. Asked = WrittenNames
    <2>1. \A i \in DOMAIN inv.schemas : NameOf(i) \in WrittenNames
      BY <1>1, <1>2 DEF WorkInv
    <2>2. \A i \in DOMAIN written : \E j \in DOMAIN inv.schemas : written[i] = NameOf(j)
      BY <1>1, <1>2 DEF WorkInv
    <2> QED
      BY <2>1, <2>2 DEF Asked, WrittenNames, NameOf
  <1>7. Asked \subseteq Files /\ \A f \in Files : f \in Asked <=> dir[f] = "whole"
    BY <1>6 DEF WrittenIsWhole
  <1>8. dir = [f \in Files |-> IF f \in Asked THEN "whole" ELSE "absent"]
    <2>1. dir \in [Files -> State]
      BY DEF TypeOK
    <2>2. \A f \in Files : dir[f] = IF f \in Asked THEN "whole" ELSE "absent"
      BY <1>7, <2>1 DEF WorkInv, State
    <2> QED
      BY <2>1, <2>2
  <1> QED
    BY <1>3, <1>4, <1>5, <1>7, <1>8 DEF Succeeded

LEMMA StatusStep ==
    ASSUME Inv, [Next]_vars
    PROVE  StatusInv'
  <1>0. inv' = inv /\ Declaring' = Declaring
    BY SameInvocation, SameVector
  <1>1. CASE Declare
    <2>1. phase = "declare" /\ Declaring /\ ~said
      BY <1>1 DEF Declare, Inv, OrderInv, Early
    <2>2. CASE Len(inv.args) = 1 /\ said' = TRUE /\ Finish("zero")
      <3>1. PICK i \in DOMAIN inv.args : inv.args[i] = Info
        BY <2>1 DEF Declaring
      <3>2. inv.args \in Seq(Arg)
        BY InvType DEF Inv
      <3>3. inv.args = <<Info>>
        BY <2>2, <3>1, <3>2, LenProperties
      <3> QED
        BY <1>0, <2>1, <2>2, <3>3 DEF StatusInv, Succeeded, Finish, Info
    <2>3. CASE said' = said /\ Finish("one")
      BY <1>0, <2>1, <2>3 DEF StatusInv, Succeeded, Finish
    <2> QED
      BY <1>1, <2>2, <2>3 DEF Declare
  <1>2. CASE ParseFails
    <2>1. phase = "parse" /\ Refused /\ code' = "one"
      BY <1>2 DEF ParseFails, Parse, Finish
    <2>2. ~Conforms(inv.args) /\ ~Declaring
      BY <2>1, RefusedStep DEF Inv, OrderInv, ParseInv
    <2> QED
      BY <1>0, <2>1, <2>2 DEF StatusInv, Succeeded
  <1>3. CASE Read
    <2>1. phase' \in Late => code' = "one" /\ inv.descriptor # "whole"
      BY <1>3 DEF Read, Finish, Late
    <2>2. ~Declaring
      BY <1>3 DEF Read, Inv, OrderInv
    <2> QED
      BY <1>0, <2>1, <2>2 DEF StatusInv, Succeeded
  <1>4. CASE Check
    <2>1. /\ phase' \in Late => code' = "one" /\ ~(inv.version = Version /\ OptionsTaken)
          /\ options' = options
      BY <1>4 DEF Check, Finish, Late, parser
    <2>2. ~Declaring
      BY <1>4 DEF Check, Inv, OrderInv
    <2> QED
      BY <1>0, <2>1, <2>2, SameOptions DEF StatusInv, Succeeded, Version
  <1>5. CASE RenderFails
    <2>1. todo # <<>> /\ ~Head(todo).renders /\ phase = "write" /\ code' = "one"
      BY <1>5 DEF RenderFails, Writing, Finish
    <2>2. Taken + 1 \in DOMAIN inv.schemas /\ ~inv.schemas[Taken + 1].renders
      BY <2>1, AtHand DEF Inv
    <2>3. ~Declaring
      BY <2>1 DEF Inv, OrderInv
    <2> QED
      BY <1>0, <2>1, <2>2, <2>3 DEF StatusInv, Succeeded
  <1>6. CASE WriteFile
    BY <1>6 DEF WriteFile, Writing, StatusInv, Late
  <1>7. CASE RefuseFile \/ WriteFails
    <2>1. todo # <<>> /\ phase = "write" /\ (phase' \in Late => code' = "one") /\ todo' = Tail(todo)
      BY <1>7 DEF RefuseFile, WriteFails, Refuse, Writing, Finish, Late
    <2>2. WorkInv' /\ failed'
      BY <1>0, <1>7, RefuseStep DEF Inv
    <2>3. Taken' <= Len(inv.schemas)
      <3>1. Taken' = Taken + 1 /\ Taken + 1 \in DOMAIN inv.schemas
        BY <1>0, <2>1, AtHand DEF Inv
      <3>2. DOMAIN inv.schemas = 1..Len(inv.schemas)
        BY InvType, LenProperties DEF Inv
      <3> QED
        BY <3>1, <3>2
    <2>4. ~Declaring
      BY <2>1 DEF Inv, OrderInv
    <2>5. ~Succeeded'
      BY <1>0, <2>2, <2>3, <2>4, FailedFails DEF Inv
    <2> QED
      BY <2>1, <2>5 DEF StatusInv
  <1>8. CASE Return
    <2>1. /\ todo = <<>> /\ phase = "write" /\ code' = IF failed THEN "one" ELSE "zero"
          /\ UNCHANGED <<todo, failed, said, options, dir>>
      BY <1>8 DEF Return, Finish, output, parser
    <2>2. Succeeded' = Succeeded
      BY <1>0, <2>1, SameSuccess
    <2>3. CASE failed
      <3>1. WorkInv'
        BY WorkStep DEF Inv
      <3>2. Taken' <= Len(inv.schemas)
        BY <1>0, <2>1, EmptySeq, InvType, LenProperties DEF Taken, Inv
      <3>3. ~Declaring
        BY <2>1 DEF Inv, OrderInv
      <3>4. ~Succeeded'
        BY <1>0, <2>1, <2>3, <3>1, <3>2, <3>3, FailedFails DEF Inv
      <3> QED
        BY <2>1, <2>3, <3>4 DEF StatusInv
    <2>4. CASE ~failed
      BY <2>1, <2>2, <2>4, WroteAll DEF StatusInv, Inv
    <2> QED
      BY <2>3, <2>4
  <1>9. CASE Panic
    BY <1>9 DEF Panic, StatusInv
  <1>10. CASE Quiet \/ UNCHANGED vars
    <2>1. UNCHANGED <<said, options, dir, code>> /\ (phase' = phase \/ phase \in Late)
      BY <1>10, QuietFrame DEF vars, parser, output
    <2>2. Succeeded' = Succeeded
      BY <1>0, <2>1, SameSuccess
    <2> QED
      BY <2>1, <2>2 DEF StatusInv, Inv
  <1>11. CASE Fork \/ Open \/ ParseOption \/ ParseOnce \/ ParseEnd
    <2>1. phase' \notin Late
      BY <1>11 DEF Fork, Open, ParseOption, ParseOnce, ParseEnd, Parse, Late
    <2> QED
      BY <2>1 DEF StatusInv
  <1> QED
    BY <1>1, <1>2, <1>3, <1>4, <1>5, <1>6, <1>7, <1>8, <1>9, <1>10, <1>11, Steps

-----------------------------------------------------------------------------
(***************************************************************************)
(* The invariant, and what it shows.                                       *)
(***************************************************************************)
LEMMA InitInv ==
    ASSUME Init PROVE Inv
  <1>1. TypeOK
    BY InitType
  <1>2. OrderInv
    BY DEF Init, OrderInv, Early, Late
  <1>3. ContextInv
    BY DEF Init, ContextInv, ContextIsThisRuns
  <1>4. ParseInv
    <2>1. Prefix
      BY <1>1, PrefixStarts DEF Init
    <2> QED
      BY <2>1 DEF Init, ParseInv, ParsedAsSpecified
  <1>5. CheckedInv /\ StatusInv /\ ChecksComeFirst
    BY DEF Init, CheckedInv, StatusInv, ChecksComeFirst, Late
  <1>6. WrittenIsWhole
    <2>1. written = <<>> /\ \A f \in Files : dir[f] = "absent"
      BY DEF Init
    <2> QED
      BY <2>1 DEF WrittenIsWhole, WrittenNames
  <1>7. WorkInv
    <2>1. /\ todo = inv.schemas /\ written = <<>> /\ ~failed /\ \A f \in Files : dir[f] = "absent"
      BY DEF Init
    <2>2. Taken = 0
      BY <1>1, <2>1, InvType, LenProperties DEF Taken
    <2>3. \A i \in DOMAIN todo : todo[i] = inv.schemas[Taken + i]
      BY <1>1, <2>1, <2>2, InvType, LenProperties
    <2> QED
      BY <2>1, <2>2, <2>3 DEF WorkInv
  <1>8. SpanInv
    BY DEF Init, SpanInv, SpanTellsTheStatus
  <1>9. FlushInv
    <2>1. inv.budget \in Nat \ {0} /\ inv.batches \in Nat /\ inv.latency \in Nat
      BY <1>1, InvType
    <2>2. phase = "fork" /\ elapsed = 0 /\ begun = 0 /\ left = inv.batches /\ sent = 0
      BY DEF Init
    <2> QED
      BY <2>1, <2>2 DEF FlushInv
  <1> QED
    BY <1>1, <1>2, <1>3, <1>4, <1>5, <1>6, <1>7, <1>8, <1>9 DEF Inv

LEMMA InvStep ==
    ASSUME Inv, [Next]_vars PROVE Inv'
  <1>1. TypeOK' /\ OrderInv' /\ ContextInv' /\ ParseInv' /\ CheckedInv'
    BY TypeStep, OrderStep, ContextStep, ParseStep, CheckedStep DEF Inv
  <1>2. WrittenIsWhole' /\ WorkInv' /\ ChecksComeFirst' /\ StatusInv' /\ SpanInv' /\ FlushInv'
    BY WholeStep, WorkStep, ChecksStep, StatusStep, SpanStep, FlushStep DEF Inv
  <1> QED
    BY <1>1, <1>2 DEF Inv

\* The inductive invariant holds throughout.
THEOREM InvAlways == Spec => []Inv
  <1>1. Init => Inv
    BY InitInv
  <1>2. Inv /\ [Next]_vars => Inv'
    BY InvStep
  <1> QED
    BY <1>1, <1>2, PTL DEF Spec

\* The variables of one generator process hold what they are declared to hold:
\* ParseArgs appends no option without a name.
THEOREM TypeCorrect == Spec => []TypeOK
  <1>1. Inv => TypeOK
    BY DEF Inv
  <1> QED
    BY <1>1, InvAlways, PTL

\* ParseArgs lets no vector of any length through that the contract does not
\* give, and returns the options of those it does.
THEOREM VectorsConform == Spec => []ParsedAsSpecified
  <1>1. Inv => ParsedAsSpecified
    BY DEF Inv, ParseInv
  <1> QED
    BY <1>1, InvAlways, PTL

\* generatorEnv hands a child the context of its own invocation or none.
THEOREM ContextIsOwn == Spec => []ContextIsThisRuns
  <1>1. Inv => ContextIsThisRuns
    BY DEF Inv, ContextInv
  <1> QED
    BY <1>1, InvAlways, PTL

\* run exits with zero exactly when the output is complete.
THEOREM StatusIsTheOutput == Spec => []ExitIsTheOutput
  <1>1. Inv => ExitIsTheOutput
    BY DEF Inv, StatusInv, ExitIsTheOutput, Late
  <1> QED
    BY <1>1, InvAlways, PTL

\* No file is written for what is refused.
THEOREM NothingUnchecked == Spec => []ChecksComeFirst
  <1>1. Inv => ChecksComeFirst
    BY DEF Inv
  <1> QED
    BY <1>1, InvAlways, PTL

\* OutputDir.Written lists the whole files, each once.
THEOREM ListedIsWhole == Spec => []WrittenIsWhole
  <1>1. Inv => WrittenIsWhole
    BY DEF Inv
  <1> QED
    BY <1>1, InvAlways, PTL

\* Short of a panic, the span that is exported has ended with the status.
THEOREM SpanIsFinished == Spec => []SpanTellsTheStatus
  <1>1. Inv => SpanTellsTheStatus
    BY DEF Inv, SpanInv
  <1> QED
    BY <1>1, InvAlways, PTL

\* The flush stays within any budget, and its requests within their share of it.
THEOREM FlushStaysInBudget == Spec => []FlushFits
  <1>1. Inv => FlushFits
    BY FlushPromises DEF Inv
  <1> QED
    BY <1>1, InvAlways, PTL

\* A collector that answers in time gets everything, even from a cancelled run.
THEOREM FlushIsComplete == Spec => []FlushDelivers
  <1>1. Inv => FlushDelivers
    BY FlushPromises DEF Inv
  <1> QED
    BY <1>1, InvAlways, PTL

-----------------------------------------------------------------------------
(***************************************************************************)
(* Why the process exits: every step descends.                             *)
(***************************************************************************)
Rank ==
    CASE phase = "fork" -> 8 [] phase = "open" -> 7 [] phase \in {"declare", "parse"} -> 6
      [] phase = "read" -> 5 [] phase = "check" -> 4 [] phase = "write" -> 3
      [] phase = "end" -> 2 [] phase = "flush" -> 1 [] OTHER -> 0
Ticks == inv.budget - elapsed
Signals == IF cancelled THEN 0 ELSE 1

\* What is left of a process: phases, arguments, schemas, requests, ticks of
\* the budget, and the one signal that cancels it.
Measure == <<Rank, Len(rest), Len(todo), left, Ticks, Signals>>
StepsDescend == [][Descends(Measure', Measure)]_vars

LEMMA MeasureIsNatural ==
    ASSUME TypeOK, FlushInv
    PROVE  Measure \in [1..6 -> Nat]
  <1>1. Len(rest) \in Nat /\ Len(todo) \in Nat /\ left \in Nat
    BY LenProperties DEF TypeOK
  <1>2. Ticks \in Nat
    BY InvType DEF TypeOK, FlushInv, Ticks
  <1>3. Rank \in Nat /\ Signals \in Nat
    BY DEF Rank, Signals
  <1> QED
    BY <1>1, <1>2, <1>3 DEF Measure

\* At which of its six places a step descends.
LEMMA DescendsAt ==
    ASSUME NEW k \in 1..6,
           k = 1 => Rank' < Rank,
           k > 1 => Rank' = Rank,
           k = 2 => Len(rest)' < Len(rest),
           k > 2 => Len(rest)' = Len(rest),
           k = 3 => Len(todo)' < Len(todo),
           k > 3 => Len(todo)' = Len(todo),
           k = 4 => left' < left,
           k > 4 => left' = left,
           k = 5 => Ticks' < Ticks,
           k > 5 => Ticks' = Ticks /\ Signals' < Signals
    PROVE  Descends(Measure', Measure)
  <1>1. /\ Measure[1] = Rank /\ Measure[2] = Len(rest) /\ Measure[3] = Len(todo)
        /\ Measure[4] = left /\ Measure[5] = Ticks /\ Measure[6] = Signals
        /\ DOMAIN Measure = 1..6
    BY DEF Measure
  <1>2. /\ Measure'[1] = Rank' /\ Measure'[2] = Len(rest)' /\ Measure'[3] = Len(todo)'
        /\ Measure'[4] = left' /\ Measure'[5] = Ticks' /\ Measure'[6] = Signals'
    BY DEF Measure
  <1> DEFINE new == Measure'
             old == Measure
  <1> HIDE DEF new, old
  <1>3. new[k] < old[k]
    BY <1>1, <1>2 DEF new, old
  <1>4. \A j \in 1..(k - 1) : new[j] = old[j]
    <2> SUFFICES ASSUME NEW j \in 1..(k - 1) PROVE new[j] = old[j]
      OBVIOUS
    <2>1. j \in 1..5 /\ j < k
      OBVIOUS
    <2> QED
      BY <1>1, <1>2, <2>1 DEF new, old
  <1> QED
    BY <1>1, <1>3, <1>4 DEF Descends, new, old

LEMMA PhaseDescends ==
    ASSUME TypeOK, [Next]_vars,
           \/ Fork \/ Open \/ Declare \/ ParseEnd \/ ParseFails \/ Read \/ Check
           \/ RenderFails \/ Return \/ Panic \/ EndSpan \/ CutOff \/ Flushed
    PROVE  Descends(Measure', Measure)
  <1>1. CASE Fork \/ Open \/ Declare
    <2>1. Rank' < Rank
      BY <1>1 DEF Fork, Open, Declare, Finish, Rank
    <2> QED
      BY <2>1, DescendsAt
  <1>2. CASE ParseEnd \/ ParseFails
    <2>1. Rank' < Rank
      BY <1>2 DEF Parse, ParseEnd, ParseFails, Finish, Rank
    <2> QED
      BY <2>1, DescendsAt
  <1>3. CASE Read \/ Check
    <2>1. Rank' < Rank
      BY <1>3 DEF Read, Check, Finish, Rank
    <2> QED
      BY <2>1, DescendsAt
  <1>4. CASE RenderFails \/ Return \/ Panic
    <2>1. Rank' < Rank
      BY <1>4 DEF RenderFails, Writing, Return, Panic, Finish, Rank
    <2> QED
      BY <2>1, DescendsAt
  <1>5. CASE EndSpan \/ CutOff \/ Flushed
    <2>1. Rank' < Rank
      BY <1>5 DEF EndSpan, CutOff, Requesting, Flushing, Flushed, Rank
    <2> QED
      BY <2>1, DescendsAt
  <1> QED
    BY <1>1, <1>2, <1>3, <1>4, <1>5

LEMMA ParseDescends ==
    ASSUME TypeOK, ParseOption \/ ParseOnce
    PROVE  Descends(Measure', Measure)
  <1>1. Len(rest) >= 2 /\ phase' = phase /\ rest' = SubSeq(rest, 2 + 1, Len(rest))
    BY DEF ParseOption, ParseOnce, Parse, Take
  <1>2. rest \in Seq(Arg)
    BY DEF TypeOK
  <1>3. Len(rest)' = Len(rest) - 2 /\ Len(rest) \in Nat
    <2>1. Len(rest) \in Nat
      BY <1>2, LenProperties
    <2>2. Len(SubSeq(rest, 2 + 1, Len(rest))) = Len(rest) - 2
      BY <1>1, <1>2, TakeType
    <2> QED
      BY <1>1, <2>1, <2>2
  <1>4. Rank' = Rank /\ Len(rest)' < Len(rest)
    BY <1>1, <1>3 DEF Rank
  <1> QED
    BY <1>4, DescendsAt

LEMMA WriteDescends ==
    ASSUME TypeOK, WriteFile \/ RefuseFile \/ WriteFails
    PROVE  Descends(Measure', Measure)
  <1>1. /\ phase = "write" /\ todo # <<>> /\ rest' = rest
        /\ todo' = Tail(todo)
        /\ phase' = phase \/ phase' = "end"
    BY DEF Writing, WriteFile, RefuseFile, WriteFails, Refuse, Finish, parser
  <1>2. todo \in Seq(Schema)
    BY DEF TypeOK
  <1>3. Len(todo)' = Len(todo) - 1 /\ Len(todo) \in Nat
    BY <1>1, <1>2, TailType, LenProperties
  <1>4. CASE phase' = phase
    <2>1. Rank' = Rank
      BY <1>4 DEF Rank
    <2>2. Len(rest)' = Len(rest) /\ Len(todo)' < Len(todo)
      BY <1>1, <1>3
    <2> DEFINE k == 3
    <2>3. k \in 1..6
      OBVIOUS
    <2> QED
      BY <2>1, <2>2, <2>3, DescendsAt
  <1>5. CASE phase' = "end"
    <2>1. Rank' < Rank
      BY <1>1, <1>5 DEF Rank
    <2> QED
      BY <2>1, DescendsAt
  <1> QED
    BY <1>1, <1>4, <1>5

LEMMA TimeDescends ==
    ASSUME TypeOK, FlushInv, [Next]_vars, Tick \/ RequestAnswered \/ RequestExpires \/ Cancel
    PROVE  Descends(Measure', Measure)
  <1>1. rest' = rest /\ todo' = todo /\ phase' = phase /\ Rank' = Rank
    BY DEF Tick, RequestAnswered, RequestExpires, NextRequest, Cancel, Requesting, Flushing,
           parser, output, Rank
  <1>2. inv' = inv /\ inv.budget \in Nat /\ elapsed \in Nat /\ left \in Nat
    BY SameInvocation, InvType DEF TypeOK
  <1>3. CASE Tick
    <2>1. left' = left /\ elapsed' = elapsed + 1
      BY <1>3 DEF Tick
    <2>2. Ticks' < Ticks
      BY <1>2, <2>1 DEF Ticks
    <2> QED
      BY <1>1, <2>1, <2>2, DescendsAt
  <1>4. CASE RequestAnswered \/ RequestExpires
    <2>1. left' < left
      BY <1>2, <1>4 DEF RequestAnswered, RequestExpires, NextRequest
    <2> QED
      BY <1>1, <2>1, DescendsAt
  <1>5. CASE Cancel
    <2>1. left' = left /\ Ticks' = Ticks /\ Signals' < Signals
      BY <1>2, <1>5 DEF Cancel, flush, Ticks, Signals
    <2> QED
      BY <1>1, <2>1, DescendsAt
  <1> QED
    BY <1>3, <1>4, <1>5

\* Every step of a generator process leaves a smaller tuple of natural numbers,
\* whatever it is handed and whoever does not answer it: with Descent_proofs,
\* it takes finitely many steps, the ticks of its flush included.
THEOREM ProcessDescends == Spec => StepsDescend /\ [](Measure \in [1..6 -> Nat])
  <1>1. Inv /\ [Next]_vars => [Descends(Measure', Measure)]_vars
    <2> SUFFICES ASSUME Inv, [Next]_vars, ~UNCHANGED vars PROVE Descends(Measure', Measure)
      OBVIOUS
    <2>1. CASE \/ Fork \/ Open \/ Declare \/ ParseEnd \/ ParseFails \/ Read \/ Check
               \/ RenderFails \/ Return \/ Panic \/ EndSpan \/ CutOff \/ Flushed
      BY <2>1, PhaseDescends DEF Inv
    <2>2. CASE ParseOption \/ ParseOnce
      BY <2>2, ParseDescends DEF Inv
    <2>3. CASE WriteFile \/ RefuseFile \/ WriteFails
      BY <2>3, WriteDescends DEF Inv
    <2>4. CASE Tick \/ RequestAnswered \/ RequestExpires \/ Cancel
      BY <2>4, TimeDescends DEF Inv
    <2> QED
      BY <2>1, <2>2, <2>3, <2>4, Steps DEF Quiet
  <1>2. Inv => Measure \in [1..6 -> Nat]
    BY MeasureIsNatural DEF Inv
  <1> QED
    BY <1>1, <1>2, InvAlways, PTL DEF Spec, StepsDescend

=============================================================================
