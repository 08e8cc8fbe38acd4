----------------------------- MODULE SchemaOutput -----------------------------
(***************************************************************************)
(* What avroc's generators read out of one resolved schema.  None of them  *)
(* keeps a symbol table: each walks the descriptor SchemaResolution leaves *)
(* and relies on where it wrote a type out and where it refers to one.     *)
(*                                                                         *)
(* avroc-gen-json, avroc-gen-pcf and the fingerprint of avroc-gen-go walk  *)
(* the root type; avroc-gen-go declares a Go type for the definitions its  *)
(* walk collects, and names one wherever a type it declares uses another.  *)
(***************************************************************************)
EXTENDS SchemaResolution

RootIsExpression == ~IsNamed(Types[1])

\* Mutant: the walk starts at the additional types.
PublishedTypes == {i \in DOMAIN out : out[i].at.top # 1}

\* typeToJSON and canonicalType write the root, a reference as its name.
Published == {i \in DOMAIN out : out[i].at.top = 1}

\* A reader of Avro JSON gives a bare name the namespace around it, and that is
\* how a type without one is written: an empty namespace member is left out.
ReadName(token) == Qualify(token.at.scope, token.name)

\* A type whose uses mean the same read under its own namespace as in the file.
Sealed(t) ==
    \A k \in DOMAIN t.uses : LET ref == t.uses[k].ref IN
        IsPrimitive(ref) \/ ~IsBare(ref) \/ Qualify(SpaceOf(t), ref) \in Indexed

OneReading ==
    \/ schema.space # NoSpace
    \/ \A i \in Declarations : SpaceOf(Types[i]) # NoSpace => Sealed(Types[i])

\* Mutant: the walk does not go into an array.
WalkedPlain(path) == \A k \in DOMAIN path : path[k] = "plain"

\* collectNestedTypes goes into a record and an array, not into a map or the
\* branches of a union.
Walked(path) == \A k \in DOMAIN path : path[k] \in {"plain", "array"}

\* toPascalCase drops the namespace.
GoName(full) == full[2]

\* collectTypes: the Go types the file declares, its unions apart.
Declared == {GoName(out[i].name) : i \in {k \in Definitions : Walked(out[k].at.path)}}

Outside(path) == SubSeq(path, 1, Len(path) - 1)

\* The names a file writes as Go types: those in the fields, items, values
\* and union branches of what it declares.  For a root that is a map of a
\* type it declares nothing.
GoUses ==
    {i \in DOMAIN out :
        /\ out[i].kind # "primitive"
        /\ Walked(Outside(out[i].at.path))
        /\ ~(RootIsExpression /\ out[i].at.top = 1 /\ out[i].at.path = <<"map">>)}

\* arrayStreamFor: a root that is an array of a named type gets a reader and a
\* writer of that type.
Streams ==
    /\ RootIsExpression
    /\ out # <<>>
    /\ out[1].at.via = "array"
    /\ out[1].kind # "primitive"

-----------------------------------------------------------------------------
\* The schema avroc-gen-json and avroc-gen-pcf publish, and avroc-gen-go takes
\* a fingerprint of, defines every type it refers to, before it refers to it:
\* it is read with no other file beside it.
PublishedIsClosed ==
    \A j \in Published \cap Named :
        \E i \in Published \cap Definitions : i < j /\ out[i].name = out[j].name

\* What avroc-gen-json writes is read back under the names the descriptor has: no
\* bare name stands inside a record that has a namespace to give it, whichever
\* record a type was first reached from.  This is so in a file with a namespace,
\* and in one without unless a declaration that has a namespace of its own uses,
\* by its bare name, one that has none.
PublishedReadsBack ==
    OneReading =>
        \A i \in Published : out[i].kind # "primitive" => ReadName(out[i]) = out[i].name

\* The item type of a stream reader is one the same file declares, with the
\* methods the reader calls.
StreamItemDeclared ==
    phase = "done" /\ Streams => GoName(out[1].name) \in Declared

\* Every Go type a file names is one it declares.
GoTypesDeclared ==
    phase = "done" => \A i \in GoUses : GoName(out[i].name) \in Declared

=============================================================================
