---------------------------- MODULE MCSchemaOutput ----------------------------
(***************************************************************************)
(* SchemaOutput on files of up to three types at the top level: two names  *)
(* to declare, the schema's namespace and another, and a primitive.        *)
(***************************************************************************)
EXTENDS SchemaOutput

To(space, name, via, default) == [ref |-> <<space, name>>, via |-> via, default |-> default]
Plain(space, name) == To(space, name, "plain", "none")

Record(space, name, uses) == [kind |-> "record", space |-> space, name |-> name, uses |-> uses]
Enum(space, name) == [kind |-> "enum", space |-> space, name |-> name, uses |-> <<>>]
Expression(uses) == [kind |-> "expr", space |-> "", name |-> "A", uses |-> uses]

UpTo(n, S) == UNION {[1..k -> S] : k \in 0..n}

Plains == {Plain("", "A"), Plain("", "B"), Plain("o", "A"), Plain("o", "B"), Plain("", "int")}

\* References: cycles, namespaces, names declared in both, names declared
\* twice in one, and names declared nowhere.
References ==
    {[space |-> "s", types |-> <<root, second, third>>] :
        root \in {Record(sp, "A", u) : sp \in {"", "o"}, u \in UpTo(2, Plains)},
        second \in {Record(sp, "B", u) : sp \in {"", "o"},
                                       u \in {<<>>, <<Plain("", "A")>>, <<Plain("", "B")>>}},
        third \in {Record(sp, n, u) : sp \in {"", "o"}, n \in {"A", "B"},
                                      u \in {<<>>, <<Plain("o", "B")>>}}}

\* Constructors, a root that is an expression, and a file without a namespace.
Through == {To("", n, via, "none") : n \in {"A", "B"}, via \in Via}
Constructors ==
    {[space |-> "", types |-> <<root, Record("", "A", u), third>>] :
        root \in {Expression(<<use>>) : use \in Through \cup {To("", "int", "array", "none")}},
        u \in UpTo(1, Through) \cup {<<t, To("", "B", "plain", "none")>> : t \in Through},
        third \in {Enum("", "B")} \cup {Record("", "B", <<use>>) : use \in Through}}

\* Default values, of each kind and through each constructor.
WithDefault == {To("", n, via, d) : n \in {"B", "int"}, via \in Via, d \in Value}
Defaults ==
    {[space |-> "s", types |-> <<Record(sp, "A", <<use, other>>), second>>] :
        sp \in {"", "o"}, use \in WithDefault,
        other \in {To("", "B", "plain", d) : d \in Value},
        second \in {Record("", "B", <<>>), Enum("", "B"), Enum("o", "B")}}

\* A name the schema's namespace and the record's both declare.
Shadowed ==
    {[space |-> "s",
      types |-> <<Record("o", "A", <<To("", "B", via, "object")>>), second, third>>] :
        via \in Via, second \in {Record("", "B", <<>>), Enum("", "B")},
        third \in {Record("o", "B", <<>>), Enum("o", "B")}}

\* A file without a namespace, some of whose declarations have one.
Mixed ==
    {[space |-> "", types |-> <<root, second, third>>] :
        root \in {Record(sp, "A", u) : sp \in {"", "o"}, u \in UpTo(2, Plains)},
        second \in {Record(sp, "B", u) : sp \in {"", "o"},
                                       u \in {<<>>, <<Plain("", "A")>>, <<Plain("", "B")>>}},
        third \in {Enum("", "B"), Enum("o", "B")}}

MCSchemas == References \cup Constructors \cup Defaults \cup Shadowed \cup Mixed
MCConstructors == Constructors
=============================================================================
