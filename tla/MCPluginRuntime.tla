---------------------------- MODULE MCPluginRuntime ----------------------------
(***************************************************************************)
(* PluginRuntime on three families of invocations, each of which varies    *)
(* one part of an invocation that is otherwise in order: the vector, what  *)
(* is generated, and the trace.                                            *)
(***************************************************************************)
EXTENDS PluginRuntime

MCClean == [p \in {"a", "./a", "b", "../a"} |->
              CASE p \in {"a", "./a"} -> "a" [] p = "b" -> "b" [] OTHER -> "outside"]

UpTo(n, S) == UNION {[1..k -> S] : k \in 0..n}

File == [path |-> "a", renders |-> TRUE, record |-> TRUE]
Vector == <<Descriptor, <<"d">>, Out, <<"o">>, Opt, <<"package_name", "p">>>>

Good ==
    [environ |-> {}, telemetry |-> "off", args |-> Vector, descriptor |-> "whole",
     version |-> 1, kind |-> "go", schemas |-> <<File>>, budget |-> 2, batches |-> 1,
     latency |-> 0, collector |-> "accepts"]

\* Vectors of up to three arguments, and those a good one is one edit away from.
Args == {Info, Descriptor, Out, Opt, EndOfOptions, <<"package_name", "p">>, <<"", "p">>, <<"d">>}
Replaced == {[Vector EXCEPT ![i] = arg] : i \in DOMAIN Vector, arg \in Args}
Vectors ==
    UpTo(3, Args) \cup Replaced
    \cup {<<f, arg, g, arg>> : f \in Flags, g \in Flags, arg \in Args}
    \cup {Append(Vector, arg) : arg \in Args}
    \cup {Vector \o <<f, arg>> : f \in Flags \cup {EndOfOptions}, arg \in Args}
    \cup {<<Opt, <<"package_name", "">>>> \o Vector,
          Vector \o <<Opt, <<"package_name", "">>>>}
Parsed == {[Good EXCEPT !.args = v, !.telemetry = "on"] : v \in Vectors}

\* What is generated: every kind of generator, every descriptor, and files that
\* clean to one path, escape, or cannot be rendered.
Encoded(v) == Vector \o <<Opt, <<"encoding", v>>>>
Written == {[path |-> p, renders |-> r, record |-> c] :
               p \in {"a", "./a", "b", "../a"}, r \in BOOLEAN, c \in BOOLEAN}
Generated ==
    {[Good EXCEPT !.args = args, !.kind = kind, !.schemas = schemas] :
        args \in {Vector, Encoded("single_object"), Encoded("text")},
        kind \in {"go", "plain", "careless"}, schemas \in UpTo(2, Written)}
    \cup {[Good EXCEPT !.descriptor = d, !.version = v, !.kind = kind] :
              d \in {"unreadable", "garbage", "whole"}, v \in 0..2, kind \in {"go", "plain"}}

\* The trace: environments avroc was started with, and collectors that answer
\* at once, late or never.
Environs == SUBSET ({"TRACEPARENT", "traceparent", "TRACESTATE", "tracestate"} \X {"outer"})
Traced ==
    {[Good EXCEPT !.environ = e, !.telemetry = t] : e \in Environs, t \in {"off", "bad", "on"}}
    \cup {[Good EXCEPT !.telemetry = "on", !.budget = b, !.batches = n, !.latency = l, !.collector = c] :
              b \in 1..5, n \in 0..3, l \in 0..6, c \in {"accepts", "refuses"}}

MCInvocations == Parsed \cup Generated \cup Traced
=============================================================================
