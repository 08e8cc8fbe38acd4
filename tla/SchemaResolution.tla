--------------------------- MODULE SchemaResolution ---------------------------
(***************************************************************************)
(* What resolveInput makes of one parsed IDL file: validateSchema accepts  *)
(* or refuses it, and resolveSchema turns what was accepted into the       *)
(* resolved IR a generator is handed.                                      *)
(*                                                                         *)
(* The two keep symbol tables of their own.  The validator asks whether a  *)
(* written name is in the schema's table; the resolver looks it up in the  *)
(* namespace of the record it is written in, then in the schema's.  The    *)
(* resolver writes a declaration out in full the first time it reaches it, *)
(* inside whatever refers to it, and refers to it by full name from then   *)
(* on.  Its recursion is a stack here.                                     *)
(*                                                                         *)
(* A type expression is the list of the names it is made of, each with the *)
(* constructor around it, one deep: what a field is called, what an enum's *)
(* symbols are and how large a fixed is make no difference to any of this. *)
(***************************************************************************)
EXTENDS Integers, Sequences, FiniteSets, Descent

CONSTANTS
    Names,      \* simple names
    Spaces,     \* namespaces, without the empty one
    NoSpace,    \* the empty namespace
    Primitives, \* avroPrimitives(): the simple names Avro keeps for itself
    Schemas     \* what an IDL file may parse to

Via == {"plain", "array", "map", "union"}
Value == {"none", "array", "object", "string"}

\* A name as written, or in full: dotted, or bare when the namespace is empty.
Spelling == (Spaces \cup {NoSpace}) \X Names

\* One name in a type expression, and the default value of its field if the
\* field has one; only the first branch of a union is asked to fit it.
Use == [ref : Spelling, via : Via, default : Value]

\* A type at the top level of the file: a declaration ("enum" is for fixed as
\* well), or an expression, which is what "schema array<Event>;" is.
Item == [kind : {"record", "enum", "expr"}, space : Spaces \cup {NoSpace},
         name : Names, uses : Seq(Use)]

ASSUME NameAssumption == NoSpace \notin Spaces /\ Primitives \subseteq Names

\* types[1] is schema.Type and the rest is schema.Types.
File == {s \in [space : Spaces \cup {NoSpace}, types : Seq(Item)] : s.types # <<>>}
ASSUME SchemaAssumption == Schemas \subseteq File

VARIABLES
    schema,     \* the file as parsed
    phase,      \* where resolveInput is
    next,       \* the next type at the top level
    stack,      \* the types being written out, the innermost last
    defined,    \* the full names already written out
    out         \* what the descriptor defines and refers to, in its order

vars == <<schema, phase, next, stack, defined, out>>

Types == schema.types
IsNamed(t) == t.kind # "expr"
IsBare(ref) == ref[1] = NoSpace
IsPrimitive(ref) == IsBare(ref) /\ ref[2] \in Primitives

Qualify(space, ref) == IF IsBare(ref) THEN <<space, ref[2]>> ELSE ref

\* The namespace and full name of a declaration at the top level.
SpaceOf(t) == IF t.space = NoSpace THEN schema.space ELSE t.space
FullName(t) == <<SpaceOf(t), t.name>>

Uses == UNION {{t.uses[i] : i \in DOMAIN t.uses} : t \in {Types[i] : i \in DOMAIN Types}}
Declarations == {i \in DOMAIN Types : IsNamed(Types[i])}

\* A name declared twice stands for its last declaration.
Last(S) == CHOOSE i \in S : \A j \in S : j <= i

Init ==
    /\ schema \in Schemas
    /\ phase = "validate"
    /\ next = 1
    /\ stack = <<>>
    /\ defined = {}
    /\ out = <<>>

-----------------------------------------------------------------------------
(***************************************************************************)
(* Validation.                                                             *)
(***************************************************************************)

\* Mutant: the bare name is registered whatever the namespace.
KnownAsBare(t) == {FullName(t), <<NoSpace, t.name>>}

\* What a declaration may be called: its full name, and its bare name when
\* its namespace is the schema's.
KnownAs(t) ==
    {FullName(t)} \cup (IF SpaceOf(t) = schema.space THEN {<<NoSpace, t.name>>} ELSE {})

DefinedNames == UNION {KnownAs(Types[i]) : i \in Declarations}

DefinedAs(ref) == {i \in Declarations : ref \in KnownAs(Types[i])}

Fits(kind, value) == value = IF kind = "record" THEN "object" ELSE "string"

\* Mutant: a default of a named type is not followed to its declaration.
DefaultFitsPrimitive(use) ==
    IsPrimitive(use.ref) => use.default \in {"none", "string"}

\* Primitives stand for those whose default is written as a string.  A name
\* that is not in the table is not this check's to report.
DefaultFits(use) ==
    CASE use.default = "none" -> TRUE
      [] use.via = "array" -> use.default = "array"
      [] use.via = "map" -> use.default = "object"
      [] IsPrimitive(use.ref) -> use.default = "string"
      [] DefinedAs(use.ref) # {} -> Fits(Types[Last(DefinedAs(use.ref))].kind, use.default)
      [] OTHER -> TRUE

NamesDefined == \A use \in Uses : IsPrimitive(use.ref) \/ use.ref \in DefinedNames
Valid == NamesDefined /\ \A use \in Uses : DefaultFits(use)

Accept ==
    /\ phase = "validate"
    /\ Valid
    /\ phase' = "resolve"
    /\ UNCHANGED <<schema, next, stack, defined, out>>

Reject ==
    /\ phase = "validate"
    /\ ~Valid
    /\ phase' = "rejected"
    /\ UNCHANGED <<schema, next, stack, defined, out>>

-----------------------------------------------------------------------------
(***************************************************************************)
(* Resolution.                                                             *)
(***************************************************************************)
Indexed == {FullName(Types[i]) : i \in Declarations}
Declaration(full) == Types[Last({i \in Declarations : FullName(Types[i]) = full})]

Candidates(ref, scope) ==
    IF IsBare(ref) THEN <<Qualify(scope, ref), Qualify(schema.space, ref), ref>>
                   ELSE <<ref>>

Hits(ref, scope) == {k \in DOMAIN Candidates(ref, scope) : Candidates(ref, scope)[k] \in Indexed}

First(S) == CHOOSE k \in S : \A j \in S : k <= j
Lookup(ref, scope) == Candidates(ref, scope)[First(Hits(ref, scope))]

Done(ref, scope) == Hits(ref, scope) # {} /\ Lookup(ref, scope) \in defined

\* Where a name stands in the descriptor: under which top-level type, inside
\* which constructors on the way down, in the scope of which namespace.
Place(use, frame) ==
    [top |-> next, path |-> Append(frame.path, use.via), scope |-> frame.scope,
     via |-> use.via, default |-> use.default]

Here(path) == [top |-> next, path |-> path, scope |-> schema.space,
               via |-> "plain", default |-> "none"]

Emit(kind, name, place) == out' = Append(out, [kind |-> kind, name |-> name, at |-> place])

Top == stack[Len(stack)]
Below == SubSeq(stack, 1, Len(stack) - 1)
Resolving == phase = "resolve" /\ stack # <<>> /\ Top.rest # <<>>
Current == Head(Top.rest)

\* The frame that is left when the current name has been dealt with.
Rest == Append(Below, [Top EXCEPT !.rest = Tail(@)])

\* Mutant: a namespace is not inherited.
SpaceInOwn(t, enclosing) == t.space

\* The namespace a declaration has where it is written out: its own, or the
\* one enclosing it, which is the schema's wherever it was reached from.
SpaceIn(t, enclosing) == IF t.space = NoSpace THEN enclosing ELSE t.space

\* Mutant: a declaration takes the namespace of whatever referred to it.
WriteOutInScope(t, frames, place) ==
    LET space == SpaceIn(t, place.scope)
    IN  /\ defined' = defined \cup {<<space, t.name>>}
        /\ Emit(t.kind, <<space, t.name>>, place)
        /\ stack' = Append(frames, [rest |-> t.uses, scope |-> space, path |-> place.path])

\* Mutant: a declaration without fields is not marked.
WriteOutUnmarked(t, frames, place) ==
    LET space == SpaceIn(t, schema.space)
    IN  /\ defined' = IF t.kind = "record" THEN defined \cup {<<space, t.name>>} ELSE defined
        /\ Emit(t.kind, <<space, t.name>>, place)
        /\ stack' = Append(frames, [rest |-> t.uses, scope |-> space, path |-> place.path])

\* Mutant: the full name is taken for the namespace of the fields.
WriteOutFullScope(t, frames, place) ==
    LET full == <<SpaceIn(t, schema.space), t.name>>
    IN  /\ defined' = defined \cup {full}
        /\ Emit(t.kind, full, place)
        /\ stack' = Append(frames, [rest |-> t.uses, scope |-> full, path |-> place.path])

\* resolveRecord, resolveEnum and resolveFixed: the name is marked before the
\* fields are resolved, in the namespace of the declaration itself.
WriteOut(t, frames, place) ==
    LET space == SpaceIn(t, schema.space)
    IN  /\ defined' = defined \cup {<<space, t.name>>}
        /\ Emit(t.kind, <<space, t.name>>, place)
        /\ stack' = Append(frames, [rest |-> t.uses, scope |-> space, path |-> place.path])

ResolvePrimitive ==
    /\ Resolving
    /\ IsPrimitive(Current.ref)
    /\ Emit("primitive", Current.ref, Place(Current, Top))
    /\ stack' = Rest
    /\ UNCHANGED <<schema, phase, next, defined>>

\* The first use of a declaration writes it out in place; where there is none
\* the name is unresolved.
Inline ==
    /\ Resolving
    /\ ~IsPrimitive(Current.ref)
    /\ ~Done(Current.ref, Top.scope)
    /\ IF Hits(Current.ref, Top.scope) = {}
       THEN phase' = "failed" /\ UNCHANGED <<stack, defined, out>>
       ELSE /\ phase' = phase
            /\ WriteOut(Declaration(Lookup(Current.ref, Top.scope)), Rest, Place(Current, Top))
    /\ UNCHANGED <<schema, next>>

\* Mutant: a reference is written as the IDL has it.
ReferAsWritten ==
    /\ Resolving
    /\ ~IsPrimitive(Current.ref)
    /\ Done(Current.ref, Top.scope)
    /\ Emit("named", Current.ref, Place(Current, Top))
    /\ stack' = Rest
    /\ UNCHANGED <<schema, phase, next, defined>>

\* Every later use is a reference by full name.
Refer ==
    /\ Resolving
    /\ ~IsPrimitive(Current.ref)
    /\ Done(Current.ref, Top.scope)
    /\ Emit("named", Lookup(Current.ref, Top.scope), Place(Current, Top))
    /\ stack' = Rest
    /\ UNCHANGED <<schema, phase, next, defined>>

\* The innermost type is written; at the bottom, so is the top-level one.
Return ==
    /\ phase = "resolve"
    /\ stack # <<>>
    /\ Top.rest = <<>>
    /\ stack' = Below
    /\ next' = IF Len(stack) = 1 THEN next + 1 ELSE next
    /\ UNCHANGED <<schema, phase, defined, out>>

AtTop == phase = "resolve" /\ stack = <<>> /\ next <= Len(Types)
Reached == IsNamed(Types[next]) /\ FullName(Types[next]) \in defined

\* The root, and what was not reached from what came before it.
WriteOutTop ==
    /\ AtTop
    /\ ~Reached
    /\ IF IsNamed(Types[next])
       THEN WriteOut(Types[next], <<>>, Here(<<>>))
       ELSE /\ stack' = <<[rest |-> Types[next].uses, scope |-> schema.space, path |-> <<>>]>>
            /\ UNCHANGED <<defined, out>>
    /\ UNCHANGED <<schema, phase, next>>

\* Mutant: what is reached already does not move the loop on.
StayOnReached ==
    /\ AtTop
    /\ Reached
    /\ UNCHANGED vars

SkipReached ==
    /\ AtTop
    /\ Reached
    /\ next' = next + 1
    /\ UNCHANGED <<schema, phase, stack, defined, out>>

Finish ==
    /\ phase = "resolve"
    /\ stack = <<>>
    /\ next > Len(Types)
    /\ phase' = "done"
    /\ UNCHANGED <<schema, next, stack, defined, out>>

Resolve ==
    \/ ResolvePrimitive \/ Inline \/ Refer \/ Return
    \/ WriteOutTop \/ SkipReached \/ Finish

Next == Accept \/ Reject \/ Resolve

\* Nothing here waits for anything: a call that can take a step takes it.
Spec == Init /\ [][Next]_vars /\ WF_vars(Next)

-----------------------------------------------------------------------------
(***************************************************************************)
(* Properties.                                                             *)
(***************************************************************************)
Space == Spaces \cup {NoSpace}
At == [top : Nat, path : Seq(Via), scope : Space, via : Via, default : Value]
Token == [kind : {"record", "enum", "expr", "named", "primitive"}, name : Spelling, at : At]
Frame == [rest : Seq(Use), scope : Space, path : Seq(Via)]

\* The variables hold what they are declared to hold.
TypeOK ==
    /\ schema \in File
    /\ phase \in {"validate", "rejected", "resolve", "failed", "done"}
    /\ next \in Nat \ {0}
    /\ stack \in Seq(Frame)
    /\ defined \subseteq Spelling
    /\ out \in Seq(Token)

Definitions == {i \in DOMAIN out : out[i].kind \notin {"named", "primitive"}}
Named == {i \in DOMAIN out : out[i].kind = "named"}

\* The resolver's lookup finds every name the validator let through, though
\* the two tables are built apart and keyed differently: resolveSchema has an
\* error for an unresolved name, and no accepted file reaches it.
AcceptedResolves == phase # "failed"

\* A type is written out in full at one place of the descriptor, however many
\* ways lead to it and whether or not it leads back to itself.
WrittenOutOnce ==
    \A i, j \in Definitions : out[i].name = out[j].name => i = j

\* Where a reference to a type stands, the type has been written out before.
ReferencesFollow ==
    \A j \in Named : \E i \in Definitions : i < j /\ out[i].name = out[j].name

\* The descriptor defines what the file declares, under the full names it
\* declares: nothing is lost because nothing refers to it, and a declaration
\* does not take another namespace because of where it was first reached.
DefinesTheDeclared ==
    LET names == {out[i].name : i \in Definitions}
    IN  names \subseteq Indexed /\ (phase = "done" => names = Indexed)

\* The declarations of one simple name, in whatever namespaces, are alike.
OneKind(name) ==
    \A d, e \in Declarations :
        Types[d].name = name /\ Types[e].name = name => Types[d].kind = Types[e].kind

\* A default value is of the kind of the type its field turns out to have: the
\* validator reads a name as the schema's namespace has it and the resolver
\* starts from the record's, and of several declarations of a name the one takes
\* the last and the other the first it reaches.  Only where these differ in kind
\* can a default be accepted that does not fit.
HasDefault(i) == out[i].at.via \in {"plain", "union"} /\ out[i].at.default # "none"
DefaultsFit ==
    \A i \in Definitions, j \in DOMAIN out :
        /\ out[j].name = out[i].name
        /\ out[j].kind # "primitive"
        /\ HasDefault(j)
        /\ OneKind(out[i].name[2])
        => Fits(out[i].kind, out[j].at.default)

\* What is left to do, the weightiest first: the phases to come, the names to
\* write out, the top-level types, the types open on the stack, and the names
\* of the innermost of them.
Measure ==
    <<CASE phase = "validate" -> 2 [] phase = "resolve" -> 1 [] OTHER -> 0,
      Cardinality(Indexed \ defined),
      2 * (Len(Types) + 1 - next) + (IF stack = <<>> THEN 1 ELSE 0),
      Len(stack),
      IF stack = <<>> THEN 0 ELSE Len(Top.rest)>>

\* Every step leaves less to do, though a step may leave more on the stack and
\* more names to look at: a type that refers to itself is not entered twice.
StepsDescend == [][Descends(Measure', Measure)]_vars

\* Resolution comes to an end, on files whose types refer to each other in a
\* circle as well.
ResolutionEnds == <>(phase \in {"rejected", "failed", "done"})

=============================================================================
