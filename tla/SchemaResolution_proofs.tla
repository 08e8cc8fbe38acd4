----------------------- MODULE SchemaResolution_proofs -----------------------
(***************************************************************************)
(* Proofs about SchemaResolution and SchemaOutput, for every file an IDL   *)
(* source may parse to.  The inductive invariant says what the resolver's  *)
(* symbol table, its stack and the descriptor so far have to do with each  *)
(* other and with the file.                                                *)
(***************************************************************************)
EXTENDS SchemaOutput, SequenceTheorems, FiniteSetTheorems, WellFoundedInduction, TLAPS

\* The stack only holds names the file uses.
UsesOf(frames) ==
    \A k \in DOMAIN frames : \A i \in DOMAIN frames[k].rest : frames[k].rest[i] \in Uses

\* What passed validation is all the resolver sees, and it finds every name.
ValidInv ==
    /\ phase \notin {"validate", "rejected"} => Valid
    /\ phase # "failed"
    /\ UsesOf(stack)

\* The table of what is written out is what the descriptor defines.
WrittenInv ==
    /\ defined = {out[i].name : i \in Definitions}
    /\ \A i \in Definitions : \E d \in Declarations :
          FullName(Types[d]) = out[i].name /\ Types[d].kind = out[i].kind

\* How far the loop over the top-level types has come.
ProgressInv ==
    /\ \A i \in Declarations : i < next => FullName(Types[i]) \in defined
    /\ stack # <<>> =>
          next <= Len(Types) /\ (IsNamed(Types[next]) => FullName(Types[next]) \in defined)
    /\ phase = "done" => next > Len(Types)

\* A default that fits the declaration its name was validated against.
FitsOwn(token) ==
    \E use \in Uses :
        /\ use.via = token.at.via
        /\ use.default = token.at.default
        /\ use.ref[2] = token.name[2]
        /\ ~IsPrimitive(use.ref)
        /\ DefaultFits(use)
        /\ use.ref \in DefinedNames

Defaulted(token) == token.at.via \in {"plain", "union"} /\ token.at.default # "none"

UsesInv ==
    \A j \in DOMAIN out : out[j].kind # "primitive" /\ Defaulted(out[j]) => FitsOwn(out[j])

\* The descriptor is written top-level type by top-level type.
OrderInv ==
    /\ \A i \in DOMAIN out : 1 <= out[i].at.top /\ out[i].at.top <= next
    /\ \A i, j \in DOMAIN out : i <= j => out[i].at.top <= out[j].at.top

\* Nothing is written above the first thing written.
FirstInv ==
    /\ out = <<>> => \A k \in DOMAIN stack : stack[k].path = <<>>
    /\ out # <<>> => out[1].at.path \in {<<>>, <<out[1].at.via>>}

Inv ==
    /\ TypeOK /\ ValidInv /\ WrittenInv /\ WrittenOutOnce /\ ReferencesFollow
    /\ ProgressInv /\ UsesInv /\ OrderInv /\ FirstInv

-----------------------------------------------------------------------------
(***************************************************************************)
(* The choices the symbol tables make are of something that exists.        *)
(***************************************************************************)
Less == {p \in Nat \X Nat : p[1] < p[2]}

LEMMA LeastExists ==
    ASSUME NEW S \in SUBSET Nat, S # {}
    PROVE  \E k \in S : \A j \in S : k <= j
<1>1. IsWellFoundedOn(Less, Nat)
  BY NatLessThanWellFounded DEF OpToRel, Less
<1>2. PICK k \in S : \A j \in S : ~(<<j, k>> \in Less)
  BY <1>1, WFMin
<1>3. ASSUME NEW j \in S PROVE k <= j
  <2>1. <<j, k>> \notin Less /\ j \in Nat /\ k \in Nat
    BY <1>2
  <2> QED
    BY <2>1 DEF Less
<1> QED
  BY <1>3

LEMMA GreatestExists ==
    ASSUME NEW n \in Nat, NEW S \in SUBSET (1..n), S # {}
    PROVE  \E k \in S : \A j \in S : j <= k
<1> DEFINE T == {x \in Nat : n - x \in S}
<1>1. ASSUME NEW k \in S PROVE n - k \in T /\ k \in Nat
  <2>1. n - k \in Nat /\ n - (n - k) = k
    OBVIOUS
  <2> QED
    BY <2>1
<1>2. T \in SUBSET Nat /\ T # {}
  BY <1>1
<1>3. PICK m \in T : \A j \in T : m <= j
  <2> HIDE DEF T
  <2> QED
    BY <1>2, LeastExists
<1>4. ASSUME NEW j \in S PROVE j <= n - m
  <2>1. n - j \in T /\ j \in Nat
    BY <1>1
  <2>2. m <= n - j /\ m \in Nat
    BY <1>3, <2>1
  <2> QED
    BY <2>1, <2>2
<1> QED
  BY <1>3, <1>4

LEMMA LastOf ==
    ASSUME NEW n \in Nat, NEW S \in SUBSET (1..n), S # {}
    PROVE  Last(S) \in S
BY GreatestExists DEF Last

LEMMA FirstOf ==
    ASSUME NEW S \in SUBSET Nat, S # {}
    PROVE  First(S) \in S
BY LeastExists DEF First

\* The types of a file, and what its uses and declarations are.
LEMMA FileTypes ==
    ASSUME schema \in File
    PROVE  /\ Len(Types) \in Nat /\ DOMAIN Types = 1..Len(Types)
           /\ \A i \in DOMAIN Types : Types[i] \in Item /\ SpaceOf(Types[i]) \in Space
           /\ \A i \in Declarations : i \in DOMAIN Types /\ FullName(Types[i]) \in Spelling
                                      /\ FullName(Types[i]) \in Indexed
           /\ Uses \subseteq Use
           /\ \A i \in DOMAIN Types : \A k \in DOMAIN Types[i].uses : Types[i].uses[k] \in Uses
           /\ schema.space \in Space
<1>1. Types \in Seq(Item) /\ schema.space \in Space
  BY DEF File, Types, Space
<1>2. Len(Types) \in Nat /\ DOMAIN Types = 1..Len(Types)
  BY <1>1, LenProperties
<1>3. ASSUME NEW i \in DOMAIN Types PROVE Types[i] \in Item
  BY <1>1, <1>2, <1>3, ElementOfSeq
<1>4. ASSUME NEW i \in DOMAIN Types
      PROVE  SpaceOf(Types[i]) \in Space /\ FullName(Types[i]) \in Spelling
  BY <1>1, <1>3 DEF SpaceOf, FullName, Spelling, Item, Space
<1>5. ASSUME NEW i \in Declarations
      PROVE  i \in DOMAIN Types /\ FullName(Types[i]) \in Indexed
  BY DEF Declarations, Indexed
<1>6. ASSUME NEW i \in DOMAIN Types, NEW k \in DOMAIN Types[i].uses
      PROVE  Types[i].uses[k] \in Use
  <2>1. Types[i].uses \in Seq(Use)
    BY <1>3 DEF Item
  <2> QED
    BY <2>1, LenProperties, ElementOfSeq
<1>7. Uses \subseteq Use
  BY <1>6 DEF Uses
<1>8. \A i \in DOMAIN Types : \A k \in DOMAIN Types[i].uses : Types[i].uses[k] \in Uses
  BY DEF Uses
<1> QED
  BY <1>1, <1>2, <1>3, <1>4, <1>5, <1>7, <1>8

\* The declaration of an indexed name carries that name.
LEMMA DeclarationOf ==
    ASSUME schema \in File, NEW full \in Indexed
    PROVE  \E d \in Declarations : Declaration(full) = Types[d] /\ FullName(Types[d]) = full
<1> DEFINE S == {i \in Declarations : FullName(Types[i]) = full}
<1>1. S # {} /\ S \subseteq 1..Len(Types) /\ Len(Types) \in Nat
  BY FileTypes DEF Indexed
<1>2. Last(S) \in S
  <2> HIDE DEF S
  <2> QED
    BY <1>1, LastOf
<1> QED
  BY <1>2 DEF Declaration

\* What the resolver finds is indexed, and has the simple name it was asked.
LEMMA LookupFinds ==
    ASSUME NEW ref \in Spelling, NEW scope, Hits(ref, scope) # {}
    PROVE  Lookup(ref, scope) \in Indexed /\ Lookup(ref, scope)[2] = ref[2]
<1>1. Hits(ref, scope) \in SUBSET Nat /\ DOMAIN Candidates(ref, scope) \subseteq 1..3
  BY DEF Hits, Candidates
<1>2. First(Hits(ref, scope)) \in Hits(ref, scope)
  BY <1>1, FirstOf
<1>3. \A k \in DOMAIN Candidates(ref, scope) : Candidates(ref, scope)[k][2] = ref[2]
  BY <1>1 DEF Candidates, Qualify, Spelling
<1> QED
  BY <1>2, <1>3 DEF Hits, Lookup

\* The table the resolver looks in has whatever the validator's has.
LEMMA DefinedIsFound ==
    ASSUME schema \in File, NEW ref \in DefinedNames, ref \in Spelling, NEW scope
    PROVE  Hits(ref, scope) # {}
<1>1. PICK i \in Declarations : ref \in KnownAs(Types[i])
  BY DEF DefinedNames
<1>2. FullName(Types[i]) \in Indexed
  BY FileTypes
<1>3. CASE ref = FullName(Types[i])
  <2>1. CASE IsBare(ref)
    <3>1. 3 \in DOMAIN Candidates(ref, scope) /\ Candidates(ref, scope)[3] = ref
      BY <2>1 DEF Candidates
    <3> QED
      BY <3>1, <1>2, <1>3 DEF Hits
  <2>2. CASE ~IsBare(ref)
    <3>1. 1 \in DOMAIN Candidates(ref, scope) /\ Candidates(ref, scope)[1] = ref
      BY <2>2 DEF Candidates
    <3> QED
      BY <3>1, <1>2, <1>3 DEF Hits
  <2> QED
    BY <2>1, <2>2
<1>4. CASE SpaceOf(Types[i]) = schema.space /\ ref = <<NoSpace, Types[i].name>>
  <2>1. IsBare(ref) /\ Qualify(schema.space, ref) = FullName(Types[i])
    BY <1>4 DEF IsBare, Qualify, FullName
  <2>2. 2 \in DOMAIN Candidates(ref, scope) /\ Candidates(ref, scope)[2] = FullName(Types[i])
    BY <2>1 DEF Candidates
  <2> QED
    BY <2>2, <1>2 DEF Hits
<1> QED
  BY <1>1, <1>3, <1>4 DEF KnownAs

-----------------------------------------------------------------------------
(***************************************************************************)
(* The parts of a step.                                                    *)
(***************************************************************************)
\* The file does not change, and nothing that is read off it does.
LEMMA SameFile ==
    ASSUME schema' = schema
    PROVE  /\ Types' = Types /\ Uses' = Uses /\ Declarations' = Declarations
           /\ Indexed' = Indexed /\ DefinedNames' = DefinedNames /\ Valid' = Valid
           /\ \A i : FullName(Types[i])' = FullName(Types[i])
           /\ \A i : IsNamed(Types[i])' = IsNamed(Types[i])
           /\ \A token : FitsOwn(token)' = FitsOwn(token)
<1>1. Types' = Types
  BY DEF Types
<1>2. \A t : SpaceOf(t)' = SpaceOf(t) /\ FullName(t)' = FullName(t) /\ KnownAs(t)' = KnownAs(t)
  BY DEF SpaceOf, FullName, KnownAs
<1>3. Uses' = Uses /\ Declarations' = Declarations
  BY <1>1 DEF Uses, Declarations
<1>4. Indexed' = Indexed /\ DefinedNames' = DefinedNames
  BY <1>1, <1>2, <1>3 DEF Indexed, DefinedNames
<1>5. \A ref : DefinedAs(ref)' = DefinedAs(ref)
  BY <1>1, <1>2, <1>3 DEF DefinedAs
<1>6. \A use : DefaultFits(use)' = DefaultFits(use)
  BY <1>1, <1>5 DEF DefaultFits
<1>7. Valid' = Valid
  BY <1>3, <1>4, <1>6 DEF Valid, NamesDefined
<1>8. \A token : FitsOwn(token)' = FitsOwn(token)
  BY <1>3, <1>4, <1>6 DEF FitsOwn
<1> QED
  BY <1>1, <1>2, <1>3, <1>4, <1>7, <1>8 DEF IsNamed

\* The stack without its innermost frame, and with a name taken off that.
LEMMA Popped ==
    ASSUME stack \in Seq(Frame), stack # <<>>
    PROVE  /\ Len(stack) \in Nat \ {0} /\ Top \in Frame
           /\ Below \in Seq(Frame) /\ Len(Below) = Len(stack) - 1
           /\ \A k \in DOMAIN Below : k \in DOMAIN stack /\ Below[k] = stack[k]
           /\ UsesOf(stack) => UsesOf(Below)
<1>1. Len(stack) \in Nat \ {0} /\ DOMAIN stack = 1..Len(stack)
  BY EmptySeq, LenProperties
<1>2. \A k \in 1..Len(stack) : stack[k] \in Frame
  BY ElementOfSeq
<1> DEFINE n == Len(stack) - 1
<1>3. n \in Nat /\ n + 1 = Len(stack)
  BY <1>1
<1> HIDE DEF n
<1>4. Below \in Seq(Frame) /\ Len(Below) = n /\ \A k \in 1..n : Below[k] = stack[k]
  <2>1. \A k \in 1..n : stack[k] \in Frame
    BY <1>2, <1>3
  <2>2. /\ SubSeq(stack, 1, n) \in Seq(Frame)
        /\ Len(SubSeq(stack, 1, n)) = IF 1 <= n THEN n - 1 + 1 ELSE 0
        /\ \A k \in 1..(n - 1 + 1) : SubSeq(stack, 1, n)[k] = stack[1 + k - 1]
    BY <1>3, <2>1, SubSeqProperties
  <2>3. Below = SubSeq(stack, 1, n)
    BY DEF Below, n
  <2>4. (IF 1 <= n THEN n - 1 + 1 ELSE 0) = n /\ \A k \in 1..n : 1 + k - 1 = k
    BY <1>3
  <2>5. \A k \in 1..n : Below[k] = stack[k]
    BY <1>3, <2>2, <2>3, <2>4
  <2> QED
    BY <2>2, <2>3, <2>4, <2>5
<1>5. DOMAIN Below = 1..Len(Below)
  BY <1>4, LenProperties
<1>6. \A k \in DOMAIN Below : k \in DOMAIN stack /\ Below[k] = stack[k]
  BY <1>1, <1>3, <1>4, <1>5
<1> QED
  <2>1. Len(Below) = Len(stack) - 1
    BY <1>4 DEF n
  <2> QED
    BY <1>1, <1>2, <1>4, <1>6, <2>1 DEF Top, UsesOf

LEMMA Taken ==
    ASSUME schema \in File, stack \in Seq(Frame), UsesOf(stack), Resolving
    PROVE  /\ Current \in Use /\ Current \in Uses
           /\ Rest \in Seq(Frame) /\ Rest # <<>> /\ UsesOf(Rest)
           /\ Place(Current, Top).path = Append(Top.path, Current.via)
<1>1. stack # <<>> /\ Top.rest # <<>>
  BY DEF Resolving
<1>2. /\ Top \in Frame /\ Below \in Seq(Frame) /\ UsesOf(Below)
      /\ Len(stack) \in DOMAIN stack
  BY <1>1, Popped, LenProperties
<1>3. Top.rest \in Seq(Use)
  BY <1>2 DEF Frame
<1>4. /\ Head(Top.rest) \in Use /\ Tail(Top.rest) \in Seq(Use)
      /\ Len(Tail(Top.rest)) = Len(Top.rest) - 1
      /\ \A i \in 1..Len(Tail(Top.rest)) : Tail(Top.rest)[i] = Top.rest[i + 1]
  BY <1>1, <1>3, HeadTailProperties
<1>5. Len(Top.rest) \in Nat \ {0} /\ DOMAIN Top.rest = 1..Len(Top.rest)
  BY <1>1, <1>3, EmptySeq, LenProperties
<1>6. DOMAIN Tail(Top.rest) = 1..Len(Tail(Top.rest))
  BY <1>4, LenProperties
<1>7. \A i \in DOMAIN Top.rest : Top.rest[i] \in Uses
  BY <1>2 DEF UsesOf, Top
<1>8. Current \in Uses
  <2>1. Head(Top.rest) = Top.rest[1]
    BY <1>3, <1>1
  <2> QED
    BY <2>1, <1>5, <1>7 DEF Current
<1>9. \A i \in DOMAIN Tail(Top.rest) : Tail(Top.rest)[i] \in Uses
  BY <1>4, <1>5, <1>6, <1>7
<1> DEFINE frame == [Top EXCEPT !.rest = Tail(Top.rest)]
<1>10. frame \in Frame /\ frame.rest = Tail(Top.rest)
  BY <1>2, <1>4 DEF Frame
<1>11. Rest = Append(Below, frame)
  BY DEF Rest
<1> HIDE DEF frame
<1>12. /\ Rest \in Seq(Frame) /\ Rest # <<>> /\ Len(Rest) = Len(Below) + 1
       /\ \A k \in 1..Len(Below) : Rest[k] = Below[k]
       /\ Rest[Len(Below) + 1] = frame
  BY <1>2, <1>10, <1>11, AppendProperties
<1>13. DOMAIN Rest = 1..Len(Rest) /\ DOMAIN Below = 1..Len(Below) /\ Len(Below) \in Nat
  BY <1>2, <1>12, LenProperties
<1>14. UsesOf(Rest)
  <2> SUFFICES ASSUME NEW k \in DOMAIN Rest, NEW i \in DOMAIN Rest[k].rest
               PROVE  Rest[k].rest[i] \in Uses
    BY DEF UsesOf
  <2>1. CASE k \in DOMAIN Below
    BY <2>1, <1>2, <1>12, <1>13 DEF UsesOf
  <2>2. CASE k = Len(Below) + 1
    BY <2>2, <1>9, <1>10, <1>12
  <2> QED
    BY <2>1, <2>2, <1>12, <1>13
<1> QED
  BY <1>4, <1>8, <1>12, <1>14 DEF Current, Place

\* Pushing a declaration writes its token and marks its full name.
LEMMA Pushed ==
    ASSUME schema \in File, NEW d \in Declarations, NEW frames \in Seq(Frame), UsesOf(frames),
           NEW place \in At, WriteOut(Types[d], frames, place)
    PROVE  \E token \in Token, frame \in Frame :
              /\ token = [kind |-> Types[d].kind, name |-> FullName(Types[d]), at |-> place]
              /\ token.kind \in {"record", "enum"}
              /\ out' = Append(out, token)
              /\ defined' = defined \cup {token.name}
              /\ stack' = Append(frames, frame)
              /\ frame.path = place.path
              /\ stack' \in Seq(Frame) /\ UsesOf(stack')
<1> DEFINE t == Types[d]
           token == [kind |-> t.kind, name |-> FullName(t), at |-> place]
           frame == [rest |-> t.uses, scope |-> SpaceOf(t), path |-> place.path]
<1>1. /\ d \in DOMAIN Types /\ t \in Item /\ SpaceOf(t) \in Space /\ FullName(t) \in Spelling
      /\ t.kind \in {"record", "enum"}
  BY FileTypes DEF Declarations, IsNamed, Item
<1>2. \A k \in DOMAIN t.uses : t.uses[k] \in Uses
  BY <1>1, FileTypes
<1>3. SpaceIn(t, schema.space) = SpaceOf(t) /\ FullName(t) = <<SpaceOf(t), t.name>>
  BY DEF SpaceIn, SpaceOf, FullName
<1> HIDE DEF t
<1>4. token \in Token /\ token.name = FullName(t) /\ token.kind = t.kind
  BY <1>1 DEF Token
<1>5. frame \in Frame /\ frame.rest = t.uses /\ frame.path = place.path
  BY <1>1 DEF Frame, Item, At
<1>6. /\ out' = Append(out, token) /\ defined' = defined \cup {FullName(t)}
      /\ stack' = Append(frames, frame)
  <2>1. WriteOut(t, frames, place)
    BY DEF t
  <2> QED
    BY <2>1, <1>3 DEF WriteOut, Emit
<1> HIDE DEF frame, token
<1>7. /\ stack' \in Seq(Frame) /\ Len(stack') = Len(frames) + 1
      /\ \A k \in 1..Len(frames) : stack'[k] = frames[k]
      /\ stack'[Len(frames) + 1] = frame
  BY <1>5, <1>6, AppendProperties
<1>8. /\ DOMAIN stack' = 1..Len(stack') /\ Len(frames) \in Nat
      /\ DOMAIN frames = 1..Len(frames)
  BY <1>7, LenProperties
<1>9. UsesOf(stack')
  <2> SUFFICES ASSUME NEW k \in DOMAIN stack', NEW i \in DOMAIN stack'[k].rest
               PROVE  stack'[k].rest[i] \in Uses
    BY DEF UsesOf
  <2>1. CASE k \in DOMAIN frames
    BY <2>1, <1>7, <1>8 DEF UsesOf
  <2>2. CASE k = Len(frames) + 1
    BY <2>2, <1>2, <1>5, <1>7
  <2> QED
    BY <2>1, <2>2, <1>7, <1>8
<1>10. /\ token = [kind |-> t.kind, name |-> FullName(t), at |-> place]
       /\ token.kind \in {"record", "enum"}
  BY <1>1, <1>4 DEF token
<1> QED
  BY <1>4, <1>5, <1>6, <1>7, <1>9, <1>10 DEF t

\* Whatever is written at the end of the descriptor, a definition not there
\* before, a reference to one that is, or a primitive, keeps it in order.
LEMMA Emitting ==
    ASSUME Inv, schema' = schema, next' = next,
           NEW token \in Token, out' = Append(out, token), token.at.top = next,
           token.kind # "primitive" /\ Defaulted(token) => FitsOwn(token),
           out = <<>> => token.at.path \in {<<>>, <<token.at.via>>},
           \/ token.kind = "primitive" /\ defined' = defined
           \/ token.kind = "named" /\ token.name \in defined /\ defined' = defined
           \/ /\ token.kind \in {"record", "enum"}
              /\ token.name \notin defined
              /\ defined' = defined \cup {token.name}
              /\ \E d \in Declarations :
                    FullName(Types[d]) = token.name /\ Types[d].kind = token.kind
    PROVE  /\ out' \in Seq(Token) /\ defined' \subseteq Spelling
           /\ WrittenInv' /\ WrittenOutOnce' /\ ReferencesFollow'
           /\ UsesInv' /\ OrderInv' /\ FirstInv'
<1> DEFINE n == Len(out)
<1>1. out \in Seq(Token) /\ defined \subseteq Spelling /\ next \in Nat \ {0}
  BY DEF Inv, TypeOK
<1>2. n \in Nat /\ DOMAIN out = 1..n
  BY <1>1, LenProperties
<1>3. /\ out' \in Seq(Token) /\ out' # <<>> /\ Len(out') = n + 1
      /\ \A i \in 1..n : out'[i] = out[i]
      /\ out'[n + 1] = token
  BY <1>1, AppendProperties
<1>4. DOMAIN out' = 1..(n + 1)
  BY <1>3, LenProperties
<1> HIDE DEF n
<1>5. /\ DOMAIN out' = DOMAIN out \cup {n + 1} /\ n + 1 \notin DOMAIN out
      /\ \A i \in DOMAIN out : out'[i] = out[i] /\ i < n + 1
  BY <1>2, <1>3, <1>4
<1>6. Definitions' = IF token.kind \in {"named", "primitive"}
                     THEN Definitions ELSE Definitions \cup {n + 1}
  BY <1>3, <1>5 DEF Definitions
<1>7. Named' = IF token.kind = "named" THEN Named \cup {n + 1} ELSE Named
  BY <1>3, <1>5 DEF Named
<1>8. \A i \in Definitions : i \in DOMAIN out /\ out[i].name \in defined
  BY DEF Inv, WrittenInv, Definitions
<1>9. /\ Types' = Types /\ Declarations' = Declarations
      /\ \A i : FullName(Types[i])' = FullName(Types[i])
      /\ \A t : FitsOwn(t)' = FitsOwn(t)
  BY SameFile
<1>10. defined' \subseteq Spelling
  BY <1>1 DEF Token
<1>11. WrittenInv'
  <2>1. defined' = {out'[i].name : i \in Definitions'}
    BY <1>3, <1>5, <1>6, <1>8 DEF Inv, WrittenInv
  <2>2. \A i \in Definitions' : \E d \in Declarations :
           FullName(Types[d]) = out'[i].name /\ Types[d].kind = out'[i].kind
    BY <1>3, <1>5, <1>6, <1>8 DEF Inv, WrittenInv
  <2> QED
    BY <2>1, <2>2, <1>9 DEF WrittenInv, FullName, SpaceOf, Types
<1>12. WrittenOutOnce'
  BY <1>3, <1>5, <1>6, <1>8 DEF Inv, WrittenOutOnce
<1>13. ReferencesFollow'
  <2> SUFFICES ASSUME NEW j \in Named'
               PROVE  \E i \in Definitions' : i < j /\ out'[i].name = out'[j].name
    BY DEF ReferencesFollow
  <2>1. CASE j \in Named
    <3>1. PICK i \in Definitions : i < j /\ out[i].name = out[j].name
      BY <2>1 DEF Inv, ReferencesFollow
    <3> QED
      BY <3>1, <2>1, <1>5, <1>6, <1>8 DEF Named
  <2>2. CASE j \notin Named
    <3>1. j = n + 1 /\ token.kind = "named" /\ token.name \in defined
      BY <2>2, <1>7
    <3>2. PICK i \in Definitions : out[i].name = token.name
      BY <3>1 DEF Inv, WrittenInv
    <3> QED
      BY <3>1, <3>2, <1>3, <1>5, <1>6, <1>8
  <2> QED
    BY <2>1, <2>2
<1>14. UsesInv'
  <2>1. \A j \in DOMAIN out' : out'[j].kind # "primitive" /\ Defaulted(out'[j]) => FitsOwn(out'[j])
    BY <1>3, <1>5 DEF Inv, UsesInv
  <2> QED
    BY <2>1, <1>9 DEF UsesInv, Defaulted
<1>15. OrderInv'
  <2>1. \A i \in DOMAIN out : 1 <= out[i].at.top /\ out[i].at.top <= next
    BY DEF Inv, OrderInv
  <2>2. \A i \in DOMAIN out' : 1 <= out'[i].at.top /\ out'[i].at.top <= next
    BY <2>1, <1>1, <1>3, <1>5
  <2>3. \A i, j \in DOMAIN out' : i <= j => out'[i].at.top <= out'[j].at.top
    <3> SUFFICES ASSUME NEW i \in DOMAIN out', NEW j \in DOMAIN out', i <= j
                 PROVE  out'[i].at.top <= out'[j].at.top
      OBVIOUS
    <3>1. CASE j = n + 1
      BY <3>1, <2>2, <1>3
    <3>2. CASE j # n + 1
      BY <3>2, <1>2, <1>5 DEF Inv, OrderInv
    <3> QED
      BY <3>1, <3>2
  <2> QED
    BY <2>2, <2>3 DEF OrderInv
<1>16. FirstInv'
  <2>1. CASE out = <<>>
    <3>1. n = 0
      BY <2>1, EmptySeq DEF n
    <3> QED
      BY <3>1, <2>1, <1>3 DEF FirstInv
  <2>2. CASE out # <<>>
    <3>1. 1 \in DOMAIN out
      BY <2>2, <1>1, <1>2, EmptySeq DEF n
    <3> QED
      BY <3>1, <2>2, <1>3, <1>5 DEF FirstInv, Inv
  <2> QED
    BY <2>1, <2>2
<1> QED
  BY <1>3, <1>10, <1>11, <1>12, <1>13, <1>14, <1>15, <1>16

\* A step under the current top-level type leaves the loop where it is.
LEMMA Inside ==
    ASSUME ProgressInv, schema' = schema, next' = next, stack # <<>>,
           defined \subseteq defined', phase' = "resolve"
    PROVE  ProgressInv'
<1>1. /\ Types' = Types /\ Declarations' = Declarations
      /\ \A i : FullName(Types[i])' = FullName(Types[i])
  BY SameFile
<1>2. \A i \in Declarations : i < next' => FullName(Types[i]) \in defined'
  BY DEF ProgressInv
<1>3. next' <= Len(Types) /\ (IsNamed(Types[next]) => FullName(Types[next]) \in defined')
  BY DEF ProgressInv
<1> QED
  BY <1>1, <1>2, <1>3 DEF ProgressInv, FullName, SpaceOf, Types, IsNamed

\* The place of the current name.
LEMMA PlaceOfCurrent ==
    ASSUME Inv, Resolving
    PROVE  /\ Place(Current, Top) \in At /\ Place(Current, Top).top = next
           /\ Place(Current, Top).via = Current.via
           /\ Place(Current, Top).default = Current.default
           /\ out = <<>> => Place(Current, Top).path = <<Current.via>>
           /\ stack # <<>> /\ phase = "resolve" /\ Valid
           /\ Current \in Use /\ Current \in Uses /\ Current.ref \in Spelling
           /\ Rest \in Seq(Frame) /\ Rest # <<>> /\ UsesOf(Rest)
<1>1. stack \in Seq(Frame) /\ schema \in File /\ next \in Nat \ {0} /\ UsesOf(stack)
  BY DEF Inv, TypeOK, ValidInv
<1>2. stack # <<>> /\ phase = "resolve"
  BY DEF Resolving
<1>3. Top \in Frame /\ Len(stack) \in DOMAIN stack
  BY <1>1, <1>2, Popped, LenProperties
<1>4. /\ Current \in Use /\ Current \in Uses /\ Rest \in Seq(Frame) /\ Rest # <<>> /\ UsesOf(Rest)
      /\ Place(Current, Top).path = Append(Top.path, Current.via)
  BY <1>1, Taken
<1>5. Append(Top.path, Current.via) \in Seq(Via)
  BY <1>3, <1>4, AppendProperties DEF Frame, Use
<1>6. Place(Current, Top) \in At
  BY <1>1, <1>3, <1>4, <1>5 DEF Place, At, Frame, Use, Space
<1>7. ASSUME out = <<>> PROVE Append(Top.path, Current.via) = <<Current.via>>
  <2>1. Top.path = <<>>
    BY <1>3, <1>7 DEF Inv, FirstInv, Top
  <2> QED
    BY <2>1
<1> QED
  BY <1>1, <1>2, <1>4, <1>6, <1>7 DEF Place, Inv, ValidInv, Use

-----------------------------------------------------------------------------
(***************************************************************************)
(* One lemma per action.                                                   *)
(***************************************************************************)
LEMMA StepPrimitive ==
    ASSUME Inv, ResolvePrimitive
    PROVE  Inv'
<1> DEFINE token == [kind |-> "primitive", name |-> Current.ref, at |-> Place(Current, Top)]
<1>1. /\ Resolving /\ out' = Append(out, token) /\ stack' = Rest
      /\ schema' = schema /\ phase' = phase /\ next' = next /\ defined' = defined
  BY DEF ResolvePrimitive, Emit
<1>2. token \in Token /\ token.kind = "primitive" /\ token.at.top = next
      /\ (out = <<>> => token.at.path = <<token.at.via>>)
  BY <1>1, PlaceOfCurrent DEF Token
<1> HIDE DEF token
<1>3. /\ out' \in Seq(Token) /\ defined' \subseteq Spelling
      /\ WrittenInv' /\ WrittenOutOnce' /\ ReferencesFollow' /\ UsesInv' /\ OrderInv' /\ FirstInv'
  BY <1>1, <1>2, Emitting
<1>4. stack # <<>> /\ phase = "resolve" /\ Valid /\ Rest \in Seq(Frame) /\ UsesOf(Rest)
  BY <1>1, PlaceOfCurrent
<1>5. TypeOK'
  BY <1>1, <1>3, <1>4 DEF Inv, TypeOK
<1>6. ValidInv'
  BY <1>1, <1>4, SameFile DEF ValidInv, UsesOf
<1>7. ProgressInv'
  BY <1>1, <1>4, Inside DEF Inv
<1> QED
  BY <1>3, <1>5, <1>6, <1>7 DEF Inv

LEMMA StepInline ==
    ASSUME Inv, Inline
    PROVE  Inv'
<1> DEFINE full == Lookup(Current.ref, Top.scope)
<1>1. /\ Resolving /\ ~IsPrimitive(Current.ref) /\ ~Done(Current.ref, Top.scope)
      /\ schema' = schema /\ next' = next
  BY DEF Inline
<1>2. /\ Place(Current, Top) \in At /\ Place(Current, Top).top = next
      /\ Place(Current, Top).via = Current.via /\ Place(Current, Top).default = Current.default
      /\ out = <<>> => Place(Current, Top).path = <<Current.via>>
      /\ stack # <<>> /\ phase = "resolve" /\ Valid
      /\ Current \in Use /\ Current \in Uses /\ Current.ref \in Spelling
      /\ Rest \in Seq(Frame) /\ Rest # <<>> /\ UsesOf(Rest)
  BY <1>1, PlaceOfCurrent
<1>3. schema \in File
  BY DEF Inv, TypeOK
<1>4. Current.ref \in DefinedNames /\ DefaultFits(Current)
  BY <1>1, <1>2 DEF Valid, NamesDefined
<1>5. Hits(Current.ref, Top.scope) # {}
  BY <1>2, <1>3, <1>4, DefinedIsFound
<1>6. full \in Indexed /\ full[2] = Current.ref[2] /\ full \notin defined
  BY <1>1, <1>2, <1>5, LookupFinds DEF Done
<1>7. phase' = phase /\ WriteOut(Declaration(full), Rest, Place(Current, Top))
  BY <1>5 DEF Inline
<1> HIDE DEF full
<1>8. PICK d \in Declarations : Declaration(full) = Types[d] /\ FullName(Types[d]) = full
  BY <1>3, <1>6, DeclarationOf
<1>9. WriteOut(Types[d], Rest, Place(Current, Top))
  BY <1>7, <1>8
<1>10. PICK token \in Token, frame \in Frame :
          /\ token = [kind |-> Types[d].kind, name |-> FullName(Types[d]), at |-> Place(Current, Top)]
          /\ token.kind \in {"record", "enum"}
          /\ out' = Append(out, token)
          /\ defined' = defined \cup {token.name}
          /\ stack' = Append(Rest, frame)
          /\ frame.path = Place(Current, Top).path
          /\ stack' \in Seq(Frame) /\ UsesOf(stack')
  BY <1>2, <1>3, <1>9, Pushed
<1>11. token.name = full /\ token.kind = Types[d].kind /\ token.at = Place(Current, Top)
  BY <1>8, <1>10
<1>12. FitsOwn(token)
  BY <1>1, <1>2, <1>4, <1>6, <1>11 DEF FitsOwn
<1>13. token.at.top = next /\ (out = <<>> => token.at.path = <<token.at.via>>)
  BY <1>2, <1>11
<1>14. /\ out' \in Seq(Token) /\ defined' \subseteq Spelling
       /\ WrittenInv' /\ WrittenOutOnce' /\ ReferencesFollow' /\ UsesInv' /\ OrderInv' /\ FirstInv'
  <2>1. \E e \in Declarations : FullName(Types[e]) = token.name /\ Types[e].kind = token.kind
    BY <1>8, <1>11
  <2>2. token.name \notin defined
    BY <1>6, <1>11
  <2> QED
    BY <1>1, <1>10, <1>12, <1>13, <2>1, <2>2, Emitting
<1>15. TypeOK'
  BY <1>1, <1>2, <1>7, <1>10, <1>14 DEF Inv, TypeOK
<1>16. ValidInv'
  BY <1>1, <1>2, <1>7, <1>10, SameFile DEF ValidInv, UsesOf
<1>17. ProgressInv'
  BY <1>1, <1>2, <1>7, <1>10, Inside DEF Inv
<1> QED
  BY <1>14, <1>15, <1>16, <1>17 DEF Inv

LEMMA StepRefer ==
    ASSUME Inv, Refer
    PROVE  Inv'
<1> DEFINE full == Lookup(Current.ref, Top.scope)
           token == [kind |-> "named", name |-> full, at |-> Place(Current, Top)]
<1>1. /\ Resolving /\ ~IsPrimitive(Current.ref) /\ Done(Current.ref, Top.scope)
      /\ out' = Append(out, token) /\ stack' = Rest
      /\ schema' = schema /\ phase' = phase /\ next' = next /\ defined' = defined
  BY DEF Refer, Emit
<1>2. /\ Place(Current, Top) \in At /\ Place(Current, Top).top = next
      /\ Place(Current, Top).via = Current.via /\ Place(Current, Top).default = Current.default
      /\ out = <<>> => Place(Current, Top).path = <<Current.via>>
      /\ stack # <<>> /\ phase = "resolve" /\ Valid
      /\ Current \in Use /\ Current \in Uses /\ Current.ref \in Spelling
      /\ Rest \in Seq(Frame) /\ Rest # <<>> /\ UsesOf(Rest)
  BY <1>1, PlaceOfCurrent
<1>3. full \in defined /\ full[2] = Current.ref[2]
  BY <1>1, <1>2, LookupFinds DEF Done
<1>4. Current.ref \in DefinedNames /\ DefaultFits(Current)
  BY <1>1, <1>2 DEF Valid, NamesDefined
<1> HIDE DEF full
<1>5. /\ token \in Token /\ token.kind = "named" /\ token.name = full
      /\ token.at = Place(Current, Top)
  BY <1>2, <1>3 DEF Token, Inv, TypeOK
<1> HIDE DEF token
<1>6. FitsOwn(token)
  BY <1>1, <1>2, <1>3, <1>4, <1>5 DEF FitsOwn
<1>7. token.at.top = next /\ (out = <<>> => token.at.path = <<token.at.via>>)
  BY <1>2, <1>5
<1>8. /\ out' \in Seq(Token) /\ defined' \subseteq Spelling
      /\ WrittenInv' /\ WrittenOutOnce' /\ ReferencesFollow' /\ UsesInv' /\ OrderInv' /\ FirstInv'
  BY <1>1, <1>3, <1>5, <1>6, <1>7, Emitting
<1>9. TypeOK'
  BY <1>1, <1>2, <1>8 DEF Inv, TypeOK
<1>10. ValidInv'
  BY <1>1, <1>2, SameFile DEF ValidInv, UsesOf
<1>11. ProgressInv'
  BY <1>1, <1>2, Inside DEF Inv
<1> QED
  BY <1>8, <1>9, <1>10, <1>11 DEF Inv

\* A step that writes nothing.
LEMMA Silent ==
    ASSUME Inv, schema' = schema, out' = out, defined' = defined, next' \in {next, next + 1}
    PROVE  /\ WrittenInv' /\ WrittenOutOnce' /\ ReferencesFollow' /\ UsesInv' /\ OrderInv'
           /\ next' \in Nat \ {0}
<1>1. next \in Nat \ {0} /\ out \in Seq(Token)
  BY DEF Inv, TypeOK
<1>2. Definitions' = Definitions /\ Named' = Named
  BY DEF Definitions, Named
<1>3. Declarations' = Declarations /\ Types' = Types /\ \A t : FitsOwn(t)' = FitsOwn(t)
  BY SameFile
<1>4. WrittenInv'
  BY <1>2, <1>3 DEF Inv, WrittenInv, FullName, SpaceOf, Types
<1>5. WrittenOutOnce' /\ ReferencesFollow'
  BY <1>2 DEF Inv, WrittenOutOnce, ReferencesFollow
<1>6. UsesInv'
  BY <1>3 DEF Inv, UsesInv, Defaulted
<1>7. OrderInv'
  <2>1. \A i \in DOMAIN out : out[i].at.top \in Nat
    <3>1. \A i \in DOMAIN out : out[i] \in Token
      BY <1>1, LenProperties, ElementOfSeq
    <3> QED
      BY <3>1 DEF Token, At
  <2> QED
    BY <1>1, <2>1 DEF Inv, OrderInv
<1> QED
  BY <1>1, <1>4, <1>5, <1>6, <1>7

LEMMA StepValidate ==
    ASSUME Inv, Accept \/ Reject
    PROVE  Inv'
<1>1. /\ schema' = schema /\ out' = out /\ defined' = defined /\ next' = next /\ stack' = stack
      /\ \/ phase' = "resolve" /\ Valid
         \/ phase' = "rejected"
  BY DEF Accept, Reject
<1>2. WrittenInv' /\ WrittenOutOnce' /\ ReferencesFollow' /\ UsesInv' /\ OrderInv'
  BY <1>1, Silent
<1>3. TypeOK'
  BY <1>1 DEF Inv, TypeOK
<1>4. ValidInv'
  BY <1>1, SameFile DEF Inv, ValidInv, UsesOf
<1>5. ProgressInv'
  <2>1. phase' # "done"
    BY <1>1
  <2> QED
    BY <1>1, <2>1, SameFile DEF Inv, ProgressInv, FullName, SpaceOf, Types, IsNamed
<1>6. FirstInv'
  BY <1>1 DEF Inv, FirstInv
<1> QED
  BY <1>2, <1>3, <1>4, <1>5, <1>6 DEF Inv

LEMMA StepReturn ==
    ASSUME Inv, Return
    PROVE  Inv'
<1>1. /\ phase = "resolve" /\ stack # <<>> /\ stack' = Below
      /\ next' = IF Len(stack) = 1 THEN next + 1 ELSE next
      /\ schema' = schema /\ phase' = phase /\ defined' = defined /\ out' = out
  BY DEF Return
<1>2. stack \in Seq(Frame) /\ UsesOf(stack) /\ Valid /\ next \in Nat
  BY <1>1 DEF Inv, TypeOK, ValidInv
<1>3. /\ Len(stack) \in Nat \ {0} /\ Below \in Seq(Frame) /\ Len(Below) = Len(stack) - 1
      /\ \A k \in DOMAIN Below : k \in DOMAIN stack /\ Below[k] = stack[k]
      /\ UsesOf(Below)
  BY <1>1, <1>2, Popped
<1>4. /\ WrittenInv' /\ WrittenOutOnce' /\ ReferencesFollow' /\ UsesInv' /\ OrderInv'
      /\ next' \in Nat \ {0}
  BY <1>1, Silent
<1>5. TypeOK'
  BY <1>1, <1>3, <1>4 DEF Inv, TypeOK
<1>6. ValidInv'
  BY <1>1, <1>2, <1>3, SameFile DEF ValidInv, UsesOf
<1>7. /\ next <= Len(Types) /\ (IsNamed(Types[next]) => FullName(Types[next]) \in defined)
      /\ \A i \in Declarations : i < next => FullName(Types[i]) \in defined
  BY <1>1 DEF Inv, ProgressInv
<1>8. \A i \in Declarations : i \in Nat
  BY FileTypes DEF Inv, TypeOK
<1>9. \A i \in Declarations : i < next' => FullName(Types[i]) \in defined
  <2> SUFFICES ASSUME NEW i \in Declarations, i < next' PROVE FullName(Types[i]) \in defined
    OBVIOUS
  <2>1. CASE i = next
    BY <2>1, <1>7 DEF Declarations
  <2>2. CASE i # next
    BY <2>2, <1>1, <1>2, <1>7, <1>8
  <2> QED
    BY <2>1, <2>2
<1>10. stack' # <<>> => next' = next
  <2>1. CASE Len(stack) = 1
    BY <2>1, <1>1, <1>3, EmptySeq
  <2> QED
    BY <2>1, <1>1
<1>11. ProgressInv'
  BY <1>1, <1>7, <1>9, <1>10 DEF ProgressInv, FullName, SpaceOf, Types, IsNamed, Declarations
<1>12. FirstInv'
  BY <1>1, <1>3 DEF Inv, FirstInv
<1> QED
  BY <1>4, <1>5, <1>6, <1>11, <1>12 DEF Inv

LEMMA StepTop ==
    ASSUME Inv, WriteOutTop
    PROVE  Inv'
<1>1. /\ phase = "resolve" /\ stack = <<>> /\ next <= Len(Types)
      /\ schema' = schema /\ phase' = phase /\ next' = next
      /\ IsNamed(Types[next]) => FullName(Types[next]) \notin defined
  BY DEF WriteOutTop, AtTop, Reached
<1>2. schema \in File /\ next \in Nat \ {0} /\ Valid
  BY <1>1 DEF Inv, TypeOK, ValidInv
<1>3. next \in DOMAIN Types /\ Types[next] \in Item /\ schema.space \in Space
  BY <1>1, <1>2, FileTypes
<1>4. /\ Here(<<>>) \in At /\ Here(<<>>).top = next /\ Here(<<>>).default = "none"
      /\ Here(<<>>).path = <<>>
  <2>1. <<>> \in Seq(Via)
    BY EmptySeq
  <2> QED
    BY <2>1, <1>2, <1>3 DEF Here, At, Via, Value
<1>5. CASE IsNamed(Types[next])
  <2>1. next \in Declarations
    BY <1>3, <1>5 DEF Declarations
  <2> DEFINE empty == <<>>
  <2>2. WriteOut(Types[next], empty, Here(<<>>))
    BY <1>5 DEF WriteOutTop
  <2>3. empty \in Seq(Frame) /\ UsesOf(empty)
    BY EmptySeq DEF UsesOf
  <2> HIDE DEF empty
  <2>4. PICK token \in Token, frame \in Frame :
           /\ token = [kind |-> Types[next].kind, name |-> FullName(Types[next]), at |-> Here(<<>>)]
           /\ token.kind \in {"record", "enum"}
           /\ out' = Append(out, token)
           /\ defined' = defined \cup {token.name}
           /\ stack' = Append(empty, frame)
           /\ frame.path = Here(<<>>).path
           /\ stack' \in Seq(Frame) /\ UsesOf(stack')
    BY <1>2, <1>4, <2>1, <2>2, <2>3, Pushed
  <2>5. /\ token.name = FullName(Types[next]) /\ token.at = Here(<<>>)
        /\ token.kind = Types[next].kind
    BY <2>4
  <2>6. token.name \notin defined /\ ~Defaulted(token) /\ token.at.top = next /\ token.at.path = <<>>
    BY <1>1, <1>4, <1>5, <2>5 DEF Defaulted
  <2>7. /\ out' \in Seq(Token) /\ defined' \subseteq Spelling
        /\ WrittenInv' /\ WrittenOutOnce' /\ ReferencesFollow' /\ UsesInv' /\ OrderInv' /\ FirstInv'
    <3>1. \E e \in Declarations : FullName(Types[e]) = token.name /\ Types[e].kind = token.kind
      BY <2>1, <2>5
    <3> QED
      BY <1>1, <2>4, <2>6, <3>1, Emitting
  <2>8. TypeOK'
    BY <1>1, <2>4, <2>7 DEF Inv, TypeOK
  <2>9. ValidInv'
    BY <1>1, <1>2, <2>4, SameFile DEF ValidInv, UsesOf
  <2>10. /\ \A i \in Declarations : i < next' => FullName(Types[i]) \in defined'
         /\ next' <= Len(Types) /\ FullName(Types[next]) \in defined'
    BY <1>1, <2>4, <2>5 DEF Inv, ProgressInv
  <2>11. ProgressInv'
    BY <1>1, <2>10 DEF ProgressInv, FullName, SpaceOf, Types, IsNamed, Declarations
  <2> QED
    BY <2>7, <2>8, <2>9, <2>11 DEF Inv
<1>6. CASE ~IsNamed(Types[next])
  <2> DEFINE frame == [rest |-> Types[next].uses, scope |-> schema.space, path |-> <<>>]
  <2>1. stack' = <<frame>> /\ defined' = defined /\ out' = out
    BY <1>6 DEF WriteOutTop
  <2>2. frame \in Frame
    <3>1. <<>> \in Seq(Via)
      BY EmptySeq
    <3> QED
      BY <3>1, <1>3 DEF Frame, Item
  <2>3. frame.path = <<>> /\ frame.rest = Types[next].uses
    OBVIOUS
  <2> HIDE DEF frame
  <2>4. stack' \in Seq(Frame) /\ DOMAIN stack' = {1} /\ stack'[1] = frame
    BY <2>1, <2>2
  <2>5. UsesOf(stack')
    BY <1>2, <1>3, <2>3, <2>4, FileTypes DEF UsesOf
  <2>6. WrittenInv' /\ WrittenOutOnce' /\ ReferencesFollow' /\ UsesInv' /\ OrderInv'
    BY <1>1, <2>1, Silent
  <2>7. TypeOK'
    BY <1>1, <2>1, <2>4 DEF Inv, TypeOK
  <2>8. ValidInv'
    BY <1>1, <1>2, <2>5, SameFile DEF ValidInv, UsesOf
  <2>9. ProgressInv'
    <3>1. \A i \in Declarations : i < next' => FullName(Types[i]) \in defined'
      BY <1>1, <2>1 DEF Inv, ProgressInv
    <3> QED
      BY <1>1, <1>6, <3>1 DEF ProgressInv, FullName, SpaceOf, Types, IsNamed, Declarations
  <2>10. FirstInv'
    BY <2>1, <2>3, <2>4 DEF Inv, FirstInv
  <2> QED
    BY <2>6, <2>7, <2>8, <2>9, <2>10 DEF Inv
<1> QED
  BY <1>5, <1>6

LEMMA StepSkip ==
    ASSUME Inv, SkipReached
    PROVE  Inv'
<1>1. /\ phase = "resolve" /\ stack = <<>> /\ next' = next + 1
      /\ schema' = schema /\ phase' = phase /\ stack' = stack /\ defined' = defined /\ out' = out
      /\ FullName(Types[next]) \in defined
  BY DEF SkipReached, AtTop, Reached
<1>2. /\ WrittenInv' /\ WrittenOutOnce' /\ ReferencesFollow' /\ UsesInv' /\ OrderInv'
      /\ next' \in Nat \ {0}
  BY <1>1, Silent
<1>3. TypeOK'
  BY <1>1, <1>2 DEF Inv, TypeOK
<1>4. ValidInv'
  BY <1>1, SameFile DEF Inv, ValidInv, UsesOf
<1>5. \A i \in Declarations : i \in Nat
  BY FileTypes DEF Inv, TypeOK
<1>6. \A i \in Declarations : i < next' => FullName(Types[i]) \in defined
  BY <1>1, <1>5 DEF Inv, TypeOK, ProgressInv
<1>7. ProgressInv'
  BY <1>1, <1>6 DEF ProgressInv, FullName, SpaceOf, Types, IsNamed, Declarations
<1>8. FirstInv'
  BY <1>1 DEF Inv, FirstInv
<1> QED
  BY <1>2, <1>3, <1>4, <1>7, <1>8 DEF Inv

LEMMA StepFinish ==
    ASSUME Inv, Finish
    PROVE  Inv'
<1>1. /\ phase = "resolve" /\ phase' = "done" /\ stack = <<>> /\ next > Len(Types)
      /\ schema' = schema /\ next' = next /\ stack' = stack /\ defined' = defined /\ out' = out
  BY DEF Finish
<1>2. WrittenInv' /\ WrittenOutOnce' /\ ReferencesFollow' /\ UsesInv' /\ OrderInv'
  BY <1>1, Silent
<1>3. TypeOK'
  BY <1>1 DEF Inv, TypeOK
<1>4. ValidInv'
  BY <1>1, SameFile DEF Inv, ValidInv, UsesOf
<1>5. ProgressInv'
  BY <1>1 DEF Inv, ProgressInv, FullName, SpaceOf, Types, IsNamed, Declarations
<1>6. FirstInv'
  BY <1>1 DEF Inv, FirstInv
<1> QED
  BY <1>2, <1>3, <1>4, <1>5, <1>6 DEF Inv

LEMMA StepStutter ==
    ASSUME Inv, UNCHANGED vars
    PROVE  Inv'
<1>1. /\ schema' = schema /\ phase' = phase /\ next' = next /\ stack' = stack
      /\ defined' = defined /\ out' = out
  BY DEF vars
<1>2. WrittenInv' /\ WrittenOutOnce' /\ ReferencesFollow' /\ UsesInv' /\ OrderInv'
  BY <1>1, Silent
<1>3. TypeOK'
  BY <1>1 DEF Inv, TypeOK
<1>4. ValidInv'
  BY <1>1, SameFile DEF Inv, ValidInv, UsesOf
<1>5. ProgressInv'
  BY <1>1 DEF Inv, ProgressInv, FullName, SpaceOf, Types, IsNamed, Declarations
<1>6. FirstInv'
  BY <1>1 DEF Inv, FirstInv
<1> QED
  BY <1>2, <1>3, <1>4, <1>5, <1>6 DEF Inv

-----------------------------------------------------------------------------
(***************************************************************************)
(* What the invariant says of the descriptor.                              *)
(***************************************************************************)
LEMMA InvDefines ==
    ASSUME Inv
    PROVE  DefinesTheDeclared
<1>1. {out[i].name : i \in Definitions} = defined
  BY DEF Inv, WrittenInv
<1>2. defined \subseteq Indexed
  BY <1>1 DEF Inv, WrittenInv, Indexed
<1>3. ASSUME phase = "done" PROVE Indexed \subseteq defined
  <2>1. /\ \A i \in Declarations : i \in 1..Len(Types)
        /\ Len(Types) \in Nat /\ next \in Nat
    BY FileTypes DEF Inv, TypeOK
  <2>2. \A i \in Declarations : i < next => FullName(Types[i]) \in defined
    BY DEF Inv, ProgressInv
  <2>3. next > Len(Types)
    BY <1>3 DEF Inv, ProgressInv
  <2>4. \A i \in Declarations : FullName(Types[i]) \in defined
    BY <2>1, <2>2, <2>3
  <2> QED
    BY <2>4 DEF Indexed
<1> QED
  BY <1>1, <1>2, <1>3 DEF DefinesTheDeclared

\* A default was checked against the last declaration its name can mean, which is
\* of the same kind as the one the field has where all of that name are.
LEMMA InvDefaultsFit ==
    ASSUME Inv
    PROVE  DefaultsFit
<1> SUFFICES ASSUME NEW i \in Definitions, NEW j \in DOMAIN out,
                    out[j].name = out[i].name, HasDefault(j), out[j].kind # "primitive",
                    OneKind(out[i].name[2])
             PROVE  Fits(out[i].kind, out[j].at.default)
  BY DEF DefaultsFit
<1>1. PICK d \in Declarations : FullName(Types[d]) = out[i].name /\ Types[d].kind = out[i].kind
  BY DEF Inv, WrittenInv
<1>2. Defaulted(out[j])
  BY DEF HasDefault, Defaulted
<1>3. PICK use \in Uses :
         /\ use.via = out[j].at.via /\ use.default = out[j].at.default
         /\ use.ref[2] = out[j].name[2] /\ ~IsPrimitive(use.ref) /\ DefaultFits(use)
         /\ use.ref \in DefinedNames
  BY <1>2 DEF Inv, UsesInv, FitsOwn
<1> DEFINE S == DefinedAs(use.ref)
<1>4. \A k \in S : k \in Declarations /\ Types[k].name = Types[d].name
  <2>1. \A k \in S : k \in Declarations /\ use.ref[2] = Types[k].name
    BY DEF DefinedAs, KnownAs, FullName
  <2>2. use.ref[2] = Types[d].name
    BY <1>1, <1>3 DEF FullName
  <2> QED
    BY <2>1, <2>2
<1>5. \A k \in S : Types[k].kind = out[i].kind
  <2>1. out[i].name[2] = Types[d].name
    BY <1>1 DEF FullName
  <2> QED
    BY <2>1, <1>1, <1>4 DEF OneKind
<1>6. S # {}
  BY <1>3 DEF DefinedNames, DefinedAs
<1>7. Last(S) \in S
  <2>1. S \in SUBSET (1..Len(Types)) /\ Len(Types) \in Nat
    BY FileTypes DEF DefinedAs, Inv, TypeOK
  <2> HIDE DEF S
  <2> QED
    BY <2>1, <1>6, LastOf
<1>8. use.default # "none" /\ use.via \notin {"array", "map"}
  BY <1>2, <1>3 DEF Defaulted
<1>9. Fits(Types[Last(S)].kind, use.default)
  BY <1>3, <1>6, <1>8 DEF DefaultFits
<1> QED
  BY <1>3, <1>5, <1>7, <1>9

LEMMA InvPublished ==
    ASSUME Inv
    PROVE  PublishedIsClosed
<1> SUFFICES ASSUME NEW j \in Published \cap Named
             PROVE  \E i \in Published \cap Definitions : i < j /\ out[i].name = out[j].name
  BY DEF PublishedIsClosed
<1>1. PICK i \in Definitions : i < j /\ out[i].name = out[j].name
  BY DEF Inv, ReferencesFollow
<1>2. /\ i \in DOMAIN out /\ j \in DOMAIN out /\ out[j].at.top = 1
      /\ DOMAIN out = 1..Len(out) /\ Len(out) \in Nat
  BY LenProperties DEF Definitions, Published, Inv, TypeOK
<1>3. out[i] \in Token
  BY <1>2, ElementOfSeq DEF Inv, TypeOK
<1>4. 1 <= out[i].at.top /\ out[i].at.top <= 1
  BY <1>1, <1>2 DEF Inv, OrderInv
<1>5. out[i].at.top = 1
  BY <1>3, <1>4 DEF Token, At
<1> QED
  BY <1>1, <1>2, <1>5 DEF Published

\* The item is the first thing written, so it is written out, not referred to.
LEMMA InvStream ==
    ASSUME Inv
    PROVE  StreamItemDeclared
<1> SUFFICES ASSUME Streams, phase = "done"
             PROVE  GoName(out[1].name) \in Declared
  BY DEF StreamItemDeclared
<1>1. out # <<>>
  BY DEF Streams
<1>2. 1 \in DOMAIN out /\ DOMAIN out \subseteq Nat /\ \A k \in DOMAIN out : 1 <= k
  BY <1>1, EmptySeq, LenProperties DEF Inv, TypeOK
<1>3. 1 \notin Named
  BY <1>2 DEF Inv, ReferencesFollow, Definitions
<1>4. 1 \in Definitions
  BY <1>2, <1>3 DEF Definitions, Named, Streams
<1>5. Walked(out[1].at.path)
  <2>1. out[1].at.path \in {<<>>, <<"array">>}
    BY <1>1 DEF Inv, FirstInv, Streams
  <2>2. Walked(<<>>) /\ Walked(<<"array">>)
    BY DEF Walked
  <2> QED
    BY <2>1, <2>2
<1> QED
  BY <1>4, <1>5 DEF Declared

-----------------------------------------------------------------------------
(***************************************************************************)
(* The theorems.                                                           *)
(***************************************************************************)
\* The invariant holds of every run of resolveInput on every file.
THEOREM InvAlways == Spec => []Inv
<1>1. Init => Inv
  <2> SUFFICES ASSUME Init PROVE Inv
    OBVIOUS
  <2>1. /\ schema \in File /\ phase = "validate" /\ next = 1 /\ stack = <<>>
        /\ defined = {} /\ out = <<>>
    BY SchemaAssumption DEF Init
  <2>2. TypeOK
    BY <2>1, EmptySeq DEF TypeOK
  <2>3. Definitions = {} /\ Named = {}
    BY <2>1 DEF Definitions, Named
  <2>4. ValidInv /\ WrittenInv /\ WrittenOutOnce /\ ReferencesFollow /\ UsesInv /\ OrderInv /\ FirstInv
    BY <2>1, <2>3 DEF ValidInv, UsesOf, WrittenInv, WrittenOutOnce, ReferencesFollow, UsesInv,
                      OrderInv, FirstInv
  <2>5. ProgressInv
    <3>1. \A i \in Declarations : i \in Nat /\ i >= 1
      BY <2>1, FileTypes
    <3> QED
      BY <2>1, <3>1 DEF ProgressInv
  <2> QED
    BY <2>2, <2>4, <2>5 DEF Inv
<1>2. Inv /\ [Next]_vars => Inv'
  <2> SUFFICES ASSUME Inv, [Next]_vars PROVE Inv'
    OBVIOUS
  <2>1. CASE Accept \/ Reject
    BY <2>1, StepValidate
  <2>2. CASE ResolvePrimitive
    BY <2>2, StepPrimitive
  <2>3. CASE Inline
    BY <2>3, StepInline
  <2>4. CASE Refer
    BY <2>4, StepRefer
  <2>5. CASE Return
    BY <2>5, StepReturn
  <2>6. CASE WriteOutTop
    BY <2>6, StepTop
  <2>7. CASE SkipReached
    BY <2>7, StepSkip
  <2>8. CASE Finish
    BY <2>8, StepFinish
  <2>9. CASE UNCHANGED vars
    BY <2>9, StepStutter
  <2> QED
    BY <2>1, <2>2, <2>3, <2>4, <2>5, <2>6, <2>7, <2>8, <2>9 DEF Next, Resolve
<1> QED
  BY <1>1, <1>2, PTL DEF Spec

\* The state keeps its shape.
THEOREM TypeCorrect == Spec => []TypeOK
<1>1. Inv => TypeOK
  BY DEF Inv
<1> QED
  BY <1>1, InvAlways, PTL

\* resolveSchema finds every name of a file validateSchema accepted, though
\* each builds a symbol table of its own.
THEOREM AcceptedFilesResolve == Spec => []AcceptedResolves
<1>1. Inv => AcceptedResolves
  BY DEF Inv, ValidInv, AcceptedResolves
<1> QED
  BY <1>1, InvAlways, PTL

\* The descriptor writes a type out at one place only.
THEOREM TypesAreWrittenOnce == Spec => []WrittenOutOnce
<1>1. Inv => WrittenOutOnce
  BY DEF Inv
<1> QED
  BY <1>1, InvAlways, PTL

\* A reference in the descriptor follows what it refers to.
THEOREM ReferencesComeLater == Spec => []ReferencesFollow
<1>1. Inv => ReferencesFollow
  BY DEF Inv
<1> QED
  BY <1>1, InvAlways, PTL

\* The descriptor defines what the file declares, no more and no less.
THEOREM DeclarationsAreDefined == Spec => []DefinesTheDeclared
<1>1. Inv => DefinesTheDeclared
  BY InvDefines
<1> QED
  BY <1>1, InvAlways, PTL

\* A default validateDefaults accepted fits the type resolveIdent gives its field,
\* unless declarations of that simple name differ in kind.
THEOREM AcceptedDefaultsFit == Spec => []DefaultsFit
<1>1. Inv => DefaultsFit
  BY InvDefaultsFit
<1> QED
  BY <1>1, InvAlways, PTL

\* What avroc-gen-json and avroc-gen-pcf publish refers to nothing outside it.
THEOREM PublishedSchemaIsClosed == Spec => []PublishedIsClosed
<1>1. Inv => PublishedIsClosed
  BY InvPublished
<1> QED
  BY <1>1, InvAlways, PTL

\* The Go file of an array of a named type declares the type its stream reads.
THEOREM StreamItemIsDeclared == Spec => []StreamItemDeclared
<1>1. Inv => StreamItemDeclared
  BY InvStream
<1> QED
  BY <1>1, InvAlways, PTL


-----------------------------------------------------------------------------
(***************************************************************************)
(* The namespaces around the names of a file that has none itself.         *)
(***************************************************************************)
SealedUse(use, scope) ==
    IsPrimitive(use.ref) \/ ~IsBare(use.ref) \/ Qualify(scope, use.ref) \in Indexed

\* A record with a namespace holds no bare name that means a type without one.
SealedFrame(frame) ==
    frame.scope # NoSpace => \A k \in DOMAIN frame.rest : SealedUse(frame.rest[k], frame.scope)

SealedStack(frames) == \A k \in DOMAIN frames : SealedFrame(frames[k])

\* A name is bare only where there is no namespace around it.
KeepsName(token) ==
    token.kind # "primitive" /\ token.at.scope # NoSpace => ~IsBare(token.name)

KeepNames(tokens) == \A i \in DOMAIN tokens : KeepsName(tokens[i])

SpacelessFile == schema.space = NoSpace /\ OneReading

ScopeInv == SpacelessFile => SealedStack(stack) /\ KeepNames(out)

LEMMA AppendedName ==
    ASSUME Inv, KeepNames(out), NEW token \in Token, out' = Append(out, token), KeepsName(token)
    PROVE  KeepNames(out')
<1>1. out \in Seq(Token)
  BY DEF Inv, TypeOK
<1>2. /\ out' \in Seq(Token) /\ Len(out') = Len(out) + 1
      /\ \A i \in 1..Len(out) : out'[i] = out[i]
      /\ out'[Len(out) + 1] = token
  BY <1>1, AppendProperties
<1>3. DOMAIN out' = 1..(Len(out) + 1) /\ DOMAIN out = 1..Len(out) /\ Len(out) \in Nat
  BY <1>1, <1>2, LenProperties
<1>4. ASSUME NEW i \in DOMAIN out' PROVE KeepsName(out'[i])
  <2>1. CASE i \in DOMAIN out
    <3>1. out'[i] = out[i] /\ KeepsName(out[i])
      BY <2>1, <1>2, <1>3 DEF KeepNames
    <3> QED
      BY <3>1
  <2>2. CASE i = Len(out) + 1
    BY <2>2, <1>2
  <2> QED
    BY <2>1, <2>2, <1>3
<1> QED
  BY <1>4 DEF KeepNames

LEMMA AppendedFrame ==
    ASSUME NEW frames \in Seq(Frame), SealedStack(frames), NEW frame \in Frame, SealedFrame(frame)
    PROVE  SealedStack(Append(frames, frame))
<1> DEFINE longer == Append(frames, frame)
<1>1. /\ longer \in Seq(Frame) /\ Len(longer) = Len(frames) + 1
      /\ \A i \in 1..Len(frames) : longer[i] = frames[i]
      /\ longer[Len(frames) + 1] = frame
  BY AppendProperties
<1> HIDE DEF longer
<1>2. DOMAIN longer = 1..(Len(frames) + 1) /\ DOMAIN frames = 1..Len(frames) /\ Len(frames) \in Nat
  BY <1>1, LenProperties
<1>3. ASSUME NEW k \in DOMAIN longer PROVE SealedFrame(longer[k])
  <2>1. CASE k \in DOMAIN frames
    <3>1. longer[k] = frames[k] /\ SealedFrame(frames[k])
      BY <2>1, <1>1, <1>2 DEF SealedStack
    <3> QED
      BY <3>1
  <2>2. CASE k = Len(frames) + 1
    BY <2>2, <1>1
  <2> QED
    BY <2>1, <2>2, <1>2
<1> QED
  BY <1>3 DEF SealedStack, longer

\* What is left of a sealed stack is sealed, and the current use was.
LEMMA RestSealed ==
    ASSUME Inv, Resolving, SealedStack(stack)
    PROVE  /\ SealedStack(Rest)
           /\ Place(Current, Top).scope = Top.scope
           /\ Top.scope # NoSpace => SealedUse(Current, Top.scope)
<1>1. stack \in Seq(Frame) /\ stack # <<>> /\ Top.rest # <<>>
  BY DEF Inv, TypeOK, Resolving
<1>2. /\ Top \in Frame /\ Below \in Seq(Frame)
      /\ \A k \in DOMAIN Below : k \in DOMAIN stack /\ Below[k] = stack[k]
      /\ Len(stack) \in DOMAIN stack
  BY <1>1, Popped, LenProperties
<1>3. SealedFrame(Top)
  BY <1>2 DEF SealedStack, Top
<1>4. SealedStack(Below)
  <2>1. ASSUME NEW k \in DOMAIN Below PROVE SealedFrame(Below[k])
    <3>1. Below[k] = stack[k] /\ SealedFrame(stack[k])
      BY <1>2 DEF SealedStack
    <3> QED
      BY <3>1
  <2> QED
    BY <2>1 DEF SealedStack
<1>5. Top.rest \in Seq(Use)
  BY <1>2 DEF Frame
<1>6. /\ Tail(Top.rest) \in Seq(Use) /\ Len(Tail(Top.rest)) = Len(Top.rest) - 1
      /\ \A i \in 1..Len(Tail(Top.rest)) : Tail(Top.rest)[i] = Top.rest[i + 1]
  BY <1>1, <1>5, HeadTailProperties
<1>7. /\ Len(Top.rest) \in Nat \ {0} /\ DOMAIN Top.rest = 1..Len(Top.rest)
      /\ DOMAIN Tail(Top.rest) = 1..Len(Tail(Top.rest))
  BY <1>1, <1>5, <1>6, EmptySeq, LenProperties
<1>8. Top.scope # NoSpace => SealedUse(Current, Top.scope)
  <2>1. Current = Top.rest[1]
    BY <1>1, <1>5 DEF Current
  <2> QED
    BY <2>1, <1>3, <1>7 DEF SealedFrame
<1> DEFINE frame == [Top EXCEPT !.rest = Tail(Top.rest)]
<1>9. frame \in Frame /\ frame.scope = Top.scope /\ frame.rest = Tail(Top.rest)
  BY <1>2, <1>6 DEF Frame
<1>10. Rest = Append(Below, frame)
  BY DEF Rest
<1> HIDE DEF frame
<1>11. SealedFrame(frame)
  <2> SUFFICES ASSUME frame.scope # NoSpace, NEW k \in DOMAIN frame.rest
               PROVE  SealedUse(frame.rest[k], frame.scope)
    BY DEF SealedFrame
  <2>1. k + 1 \in DOMAIN Top.rest /\ frame.rest[k] = Top.rest[k + 1]
    BY <1>6, <1>7, <1>9
  <2>2. SealedUse(Top.rest[k + 1], Top.scope)
    BY <2>1, <1>3, <1>9 DEF SealedFrame
  <2> QED
    BY <2>1, <2>2, <1>9
<1> QED
  BY <1>2, <1>4, <1>8, <1>9, <1>10, <1>11, AppendedFrame DEF Place

\* A sealed use is looked up as a name with a namespace.
LEMMA SealedLookup ==
    ASSUME NEW use \in Use, NEW scope \in Space, scope # NoSpace, ~IsPrimitive(use.ref),
           SealedUse(use, scope), Hits(use.ref, scope) # {}
    PROVE  ~IsBare(Lookup(use.ref, scope))
<1>1. Hits(use.ref, scope) \in SUBSET Nat
  BY DEF Hits, Candidates
<1>2. First(Hits(use.ref, scope)) \in Hits(use.ref, scope)
  BY <1>1, FirstOf
<1>3. CASE ~IsBare(use.ref)
  BY <1>2, <1>3 DEF Hits, Lookup, Candidates
<1>4. CASE IsBare(use.ref)
  <2>1. Candidates(use.ref, scope)[1] = <<scope, use.ref[2]>> /\ 1 \in DOMAIN Candidates(use.ref, scope)
    BY <1>4 DEF Candidates, Qualify
  <2>2. 1 \in Hits(use.ref, scope)
    BY <2>1, <1>4 DEF SealedUse, Hits, Qualify
  <2>3. Hits(use.ref, scope) \subseteq 1..3
    BY DEF Hits, Candidates
  <2>4. PICK k \in Hits(use.ref, scope) : \A j \in Hits(use.ref, scope) : k <= j
    BY <1>1, <2>2, LeastExists
  <2>5. \A j \in Hits(use.ref, scope) : First(Hits(use.ref, scope)) <= j
    BY <2>4 DEF First
  <2>6. First(Hits(use.ref, scope)) = 1
    BY <1>2, <2>2, <2>3, <2>5
  <2> QED
    BY <2>1, <2>6 DEF Lookup, IsBare
<1> QED
  BY <1>3, <1>4

\* A declaration is written out in its own namespace, in which it is sealed.
LEMMA PushedSealed ==
    ASSUME Inv, SpacelessFile, KeepNames(out), NEW d \in Declarations, NEW frames \in Seq(Frame),
           UsesOf(frames), SealedStack(frames), NEW place \in At,
           place.scope # NoSpace => ~IsBare(FullName(Types[d])),
           WriteOut(Types[d], frames, place)
    PROVE  SealedStack(stack') /\ KeepNames(out')
<1>1. schema \in File
  BY DEF Inv, TypeOK
<1>2. PICK token \in Token, frame \in Frame :
         /\ token = [kind |-> Types[d].kind, name |-> FullName(Types[d]), at |-> place]
         /\ token.kind \in {"record", "enum"}
         /\ out' = Append(out, token)
         /\ defined' = defined \cup {token.name}
         /\ stack' = Append(frames, frame)
         /\ frame.path = place.path
         /\ stack' \in Seq(Frame) /\ UsesOf(stack')
  BY <1>1, Pushed
<1>3. KeepsName(token)
  BY <1>2 DEF KeepsName
<1>4. KeepNames(out')
  BY <1>2, <1>3, AppendedName
<1> DEFINE space == SpaceOf(Types[d])
           own == [rest |-> Types[d].uses, scope |-> space, path |-> place.path]
<1>5. stack' = Append(frames, own)
  BY DEF WriteOut, SpaceIn, SpaceOf
<1>6. own \in Frame
  <2>1. d \in DOMAIN Types /\ Types[d] \in Item /\ space \in Space
    BY <1>1, FileTypes
  <2> QED
    BY <2>1 DEF Frame, Item, At
<1>7. SealedFrame(own)
  BY DEF SpacelessFile, OneReading, Sealed, SealedFrame, SealedUse
<1> HIDE DEF own
<1>8. SealedStack(stack')
  BY <1>5, <1>6, <1>7, AppendedFrame
<1> QED
  BY <1>4, <1>8

LEMMA ScopeStep ==
    ASSUME Inv, ScopeInv, [Next]_vars
    PROVE  ScopeInv'
<1>1. schema' = schema
  BY DEF Next, Resolve, Accept, Reject, ResolvePrimitive, Inline, Refer, Return, WriteOutTop,
         SkipReached, Finish, vars
<1>2. /\ SpacelessFile' = SpacelessFile
      /\ \A frames : SealedStack(frames)' = SealedStack(frames)
  <2>1. Types' = Types /\ Declarations' = Declarations /\ Indexed' = Indexed
    BY <1>1, SameFile
  <2>2. \A t : SpaceOf(t)' = SpaceOf(t)
    BY <1>1 DEF SpaceOf
  <2>3. \A t : Sealed(t)' = Sealed(t)
    BY <2>1, <2>2 DEF Sealed
  <2>4. SpacelessFile' = SpacelessFile
    BY <1>1, <2>1, <2>2, <2>3 DEF SpacelessFile, OneReading
  <2>5. \A use, scope : SealedUse(use, scope)' = SealedUse(use, scope)
    BY <2>1 DEF SealedUse
  <2>6. \A frames : SealedStack(frames)' = SealedStack(frames)
    BY <2>5 DEF SealedStack, SealedFrame
  <2> QED
    BY <2>4, <2>6
<1> SUFFICES ASSUME SpacelessFile
             PROVE  SealedStack(stack') /\ KeepNames(out')
  BY <1>2 DEF ScopeInv, KeepNames, SealedStack, SealedFrame, SealedUse
<1>3. SealedStack(stack) /\ KeepNames(out)
  BY DEF ScopeInv
<1>4. schema \in File /\ stack \in Seq(Frame)
  BY DEF Inv, TypeOK
<1>5. CASE stack' = stack /\ out' = out
  BY <1>3, <1>5
<1>6. CASE ResolvePrimitive
  <2> DEFINE token == [kind |-> "primitive", name |-> Current.ref, at |-> Place(Current, Top)]
  <2>1. Resolving /\ out' = Append(out, token) /\ stack' = Rest
    BY <1>6 DEF ResolvePrimitive, Emit
  <2>2. token \in Token /\ KeepsName(token) /\ SealedStack(Rest)
    BY <2>1, <1>3, PlaceOfCurrent, RestSealed DEF Token, KeepsName
  <2> HIDE DEF token
  <2> QED
    BY <1>3, <2>1, <2>2, AppendedName
<1>7. CASE Inline
  <2> DEFINE full == Lookup(Current.ref, Top.scope)
  <2>1. Resolving /\ ~IsPrimitive(Current.ref)
    BY <1>7 DEF Inline
  <2>2. /\ Place(Current, Top) \in At /\ Place(Current, Top).scope = Top.scope
        /\ Rest \in Seq(Frame) /\ UsesOf(Rest) /\ SealedStack(Rest) /\ Current.ref \in Spelling
    BY <1>3, <2>1, PlaceOfCurrent, RestSealed
  <2>3. CASE Hits(Current.ref, Top.scope) = {}
    <3>1. stack' = stack /\ out' = out
      BY <1>7, <2>3 DEF Inline
    <3> QED
      BY <3>1, <1>5
  <2>4. CASE Hits(Current.ref, Top.scope) # {}
    <3>1. full \in Indexed /\ WriteOut(Declaration(full), Rest, Place(Current, Top))
      BY <1>7, <2>2, <2>4, LookupFinds DEF Inline
    <3>2. Top.scope # NoSpace => ~IsBare(full)
      <4>1. Current \in Use /\ Top.scope \in Space
        BY <1>4, <2>1, Taken, Popped DEF Frame, Resolving, Inv, ValidInv
      <4> QED
        BY <4>1, <1>3, <2>1, <2>4, RestSealed, SealedLookup
    <3> HIDE DEF full
    <3>3. PICK d \in Declarations : Declaration(full) = Types[d] /\ FullName(Types[d]) = full
      BY <1>4, <3>1, DeclarationOf
    <3>4. WriteOut(Types[d], Rest, Place(Current, Top))
      BY <3>1, <3>3
    <3>5. Place(Current, Top).scope # NoSpace => ~IsBare(FullName(Types[d]))
      BY <2>2, <3>2, <3>3
    <3> QED
      BY <1>3, <2>2, <3>4, <3>5, PushedSealed
  <2> QED
    BY <2>3, <2>4
<1>8. CASE Refer
  <2> DEFINE token == [kind |-> "named", name |-> Lookup(Current.ref, Top.scope),
                       at |-> Place(Current, Top)]
  <2>1. /\ Resolving /\ out' = Append(out, token) /\ stack' = Rest /\ ~IsPrimitive(Current.ref)
        /\ Hits(Current.ref, Top.scope) # {} /\ Lookup(Current.ref, Top.scope) \in defined
    BY <1>8 DEF Refer, Emit, Done
  <2>2. token \in Token /\ SealedStack(Rest)
    BY <2>1, <1>3, PlaceOfCurrent, RestSealed DEF Token, Inv, TypeOK
  <2>3. KeepsName(token)
    <3>1. Current \in Use /\ Top.scope \in Space
      BY <1>4, <2>1, Taken, Popped DEF Frame, Resolving, Inv, ValidInv
    <3>2. Top.scope # NoSpace => ~IsBare(Lookup(Current.ref, Top.scope))
      BY <3>1, <1>3, <2>1, RestSealed, SealedLookup
    <3>3. token.at.scope = Top.scope
      BY <2>1, <1>3, RestSealed
    <3> QED
      BY <3>2, <3>3 DEF KeepsName
  <2> HIDE DEF token
  <2> QED
    BY <1>3, <2>1, <2>2, <2>3, AppendedName
<1>9. CASE Return
  <2>1. stack # <<>> /\ stack' = Below /\ out' = out
    BY <1>9 DEF Return
  <2>2. \A k \in DOMAIN Below : k \in DOMAIN stack /\ Below[k] = stack[k]
    BY <1>4, <2>1, Popped
  <2>3. ASSUME NEW k \in DOMAIN Below PROVE SealedFrame(Below[k])
    <3>1. Below[k] = stack[k] /\ SealedFrame(stack[k])
      BY <1>3, <2>2 DEF SealedStack
    <3> QED
      BY <3>1
  <2> QED
    BY <1>3, <2>1, <2>3 DEF SealedStack
<1>10. CASE WriteOutTop
  <2>1. next \in DOMAIN Types /\ Here(<<>>) \in At /\ Here(<<>>).scope = NoSpace
    <3>1. next <= Len(Types) /\ next \in Nat \ {0} /\ schema.space \in Space
      BY <1>10, <1>4, FileTypes DEF WriteOutTop, AtTop, Inv, TypeOK
    <3>2. <<>> \in Seq(Via)
      BY EmptySeq
    <3> QED
      BY <3>1, <3>2, <1>4, FileTypes DEF Here, At, Via, Value, SpacelessFile
  <2>2. CASE IsNamed(Types[next])
    <3> DEFINE empty == <<>>
    <3>1. next \in Declarations /\ WriteOut(Types[next], empty, Here(<<>>))
      BY <1>10, <2>1, <2>2 DEF WriteOutTop, Declarations
    <3>2. empty \in Seq(Frame) /\ UsesOf(empty) /\ SealedStack(empty)
      BY EmptySeq DEF UsesOf, SealedStack
    <3> HIDE DEF empty
    <3> QED
      BY <1>3, <2>1, <3>1, <3>2, PushedSealed
  <2>3. CASE ~IsNamed(Types[next])
    <3> DEFINE frame == [rest |-> Types[next].uses, scope |-> schema.space, path |-> <<>>]
    <3>1. stack' = <<frame>> /\ out' = out /\ frame.scope = NoSpace
      BY <1>10, <2>3 DEF WriteOutTop, SpacelessFile
    <3> HIDE DEF frame
    <3>2. SealedFrame(frame)
      BY <3>1 DEF SealedFrame
    <3>3. \A k \in DOMAIN <<frame>> : <<frame>>[k] = frame
      OBVIOUS
    <3> QED
      BY <1>3, <3>1, <3>2, <3>3 DEF SealedStack
  <2> QED
    BY <2>2, <2>3
<1> QED
  BY <1>5, <1>6, <1>7, <1>8, <1>9, <1>10
  DEF Next, Resolve, Accept, Reject, SkipReached, Finish, vars

\* A name of a file with a namespace has one; in the others a name that has none
\* has none around it.
LEMMA ReadsBack ==
    ASSUME Inv, ScopeInv
    PROVE  PublishedReadsBack
<1> SUFFICES ASSUME OneReading, NEW i \in DOMAIN out, out[i].kind # "primitive"
             PROVE  ReadName(out[i]) = out[i].name
  BY DEF PublishedReadsBack, Published
<1>1. schema \in File /\ out[i] \in Token /\ defined \subseteq Indexed
  <2>1. defined = {out[k].name : k \in Definitions}
    BY DEF Inv, WrittenInv
  <2>2. defined \subseteq Indexed
    BY <2>1 DEF Inv, WrittenInv, Indexed
  <2> QED
    BY <2>2, LenProperties, ElementOfSeq DEF Inv, TypeOK
<1>2. out[i].name \in Indexed
  <2>1. CASE i \in Definitions
    BY <2>1, <1>1 DEF Inv, WrittenInv
  <2>2. CASE i \in Named
    BY <2>2, <1>1 DEF Inv, WrittenInv, ReferencesFollow
  <2> QED
    BY <2>1, <2>2 DEF Definitions, Named
<1>3. PICK d \in Declarations : FullName(Types[d]) = out[i].name
  BY <1>2 DEF Indexed
<1>4. CASE schema.space # NoSpace
  <2>1. ~IsBare(out[i].name)
    BY <1>3, <1>4 DEF FullName, SpaceOf, IsBare
  <2> QED
    BY <2>1 DEF ReadName, Qualify
<1>5. CASE schema.space = NoSpace
  <2>1. out[i].at.scope # NoSpace => ~IsBare(out[i].name)
    BY <1>5 DEF ScopeInv, SpacelessFile, KeepNames, KeepsName
  <2>2. out[i].name = <<out[i].name[1], out[i].name[2]>>
    BY <1>1 DEF Token, Spelling
  <2> QED
    BY <2>1, <2>2 DEF ReadName, Qualify, IsBare
<1> QED
  BY <1>4, <1>5

\* A reader of what avroc-gen-json writes finds the names the descriptor has: in every
\* file with a namespace, and in one without where no declaration that has a namespace
\* uses, by its bare name, one that has none.
THEOREM PublishedSchemaReadsBack == Spec => []PublishedReadsBack
<1>1. Init => ScopeInv
  BY DEF Init, ScopeInv, SealedStack, KeepNames
<1>2. Inv /\ ScopeInv /\ [Next]_vars => ScopeInv'
  BY ScopeStep
<1>3. Inv /\ ScopeInv => PublishedReadsBack
  BY ReadsBack
<1> QED
  BY <1>1, <1>2, <1>3, InvAlways, PTL DEF Spec

-----------------------------------------------------------------------------
(***************************************************************************)
(* Where the walk of avroc-gen-go does reach every definition.             *)
(***************************************************************************)

\* The file puts no type of its own in a map or a union.
NoBranches == \A use \in Uses : use.via \in {"plain", "array"} \/ IsPrimitive(use.ref)

WalkedFrames(frames) == \A k \in DOMAIN frames : Walked(frames[k].path)

WalkedTokens(tokens) == \A i \in DOMAIN tokens : tokens[i].kind # "primitive" => Walked(tokens[i].at.path)

WalkInv == NoBranches => WalkedFrames(stack) /\ WalkedTokens(out)

LEMMA LongerWalk ==
    ASSUME NEW path \in Seq(Via), Walked(path), NEW via \in {"plain", "array"}
    PROVE  Walked(Append(path, via))
<1> DEFINE longer == Append(path, via)
<1>1. via \in Via
  BY DEF Via
<1>2. /\ longer \in Seq(Via) /\ Len(longer) = Len(path) + 1
      /\ \A k \in 1..Len(path) : longer[k] = path[k]
      /\ longer[Len(path) + 1] = via
  BY <1>1, AppendProperties
<1> HIDE DEF longer
<1>3. DOMAIN longer = 1..(Len(path) + 1) /\ DOMAIN path = 1..Len(path) /\ Len(path) \in Nat
  BY <1>2, LenProperties
<1>4. \A k \in DOMAIN longer : longer[k] \in {"plain", "array"}
  BY <1>2, <1>3 DEF Walked
<1> QED
  BY <1>4 DEF Walked, longer

LEMMA AppendedWalk ==
    ASSUME NEW frames \in Seq(Frame), WalkedFrames(frames), NEW frame \in Frame, Walked(frame.path)
    PROVE  WalkedFrames(Append(frames, frame))
<1> DEFINE longer == Append(frames, frame)
<1>1. /\ longer \in Seq(Frame) /\ Len(longer) = Len(frames) + 1
      /\ \A i \in 1..Len(frames) : longer[i] = frames[i]
      /\ longer[Len(frames) + 1] = frame
  BY AppendProperties
<1> HIDE DEF longer
<1>2. DOMAIN longer = 1..(Len(frames) + 1) /\ DOMAIN frames = 1..Len(frames) /\ Len(frames) \in Nat
  BY <1>1, LenProperties
<1>3. \A k \in DOMAIN longer : Walked(longer[k].path)
  BY <1>1, <1>2 DEF WalkedFrames
<1> QED
  BY <1>3 DEF WalkedFrames, longer

\* A token at a walked place, or a primitive anywhere, keeps the descriptor so.
LEMMA TokenWalk ==
    ASSUME Inv, NEW token \in Token, out' = Append(out, token), WalkedTokens(out),
           token.kind = "primitive" \/ Walked(token.at.path)
    PROVE  WalkedTokens(out')
<1>1. out \in Seq(Token)
  BY DEF Inv, TypeOK
<1>2. /\ out' \in Seq(Token) /\ Len(out') = Len(out) + 1
      /\ \A i \in 1..Len(out) : out'[i] = out[i]
      /\ out'[Len(out) + 1] = token
  BY <1>1, AppendProperties
<1>3. DOMAIN out' = 1..(Len(out) + 1) /\ DOMAIN out = 1..Len(out) /\ Len(out) \in Nat
  BY <1>1, <1>2, LenProperties
<1> QED
  BY <1>2, <1>3 DEF WalkedTokens

\* What is left of the stack is walked, and so is the place of a type the file
\* declares.
LEMMA RestWalked ==
    ASSUME Inv, Resolving, NoBranches, WalkedFrames(stack)
    PROVE  /\ WalkedFrames(Rest)
           /\ ~IsPrimitive(Current.ref) => Walked(Place(Current, Top).path)
<1>1. /\ stack \in Seq(Frame) /\ schema \in File /\ UsesOf(stack)
      /\ stack # <<>> /\ Top.rest # <<>>
  BY DEF Inv, TypeOK, ValidInv, Resolving
<1>2. /\ Top \in Frame /\ Below \in Seq(Frame)
      /\ \A k \in DOMAIN Below : k \in DOMAIN stack /\ Below[k] = stack[k]
      /\ Len(stack) \in DOMAIN stack
  BY <1>1, Popped, LenProperties
<1>3. Walked(Top.path) /\ WalkedFrames(Below)
  BY <1>2 DEF WalkedFrames, Top
<1> DEFINE frame == [Top EXCEPT !.rest = Tail(Top.rest)]
<1>4. frame \in Frame /\ frame.path = Top.path
  <2>1. Tail(Top.rest) \in Seq(Use)
    <3>1. Top.rest \in Seq(Use)
      BY <1>2 DEF Frame
    <3> QED
      BY <1>1, <3>1, HeadTailProperties
  <2> QED
    BY <1>2, <2>1 DEF Frame
<1>5. Rest = Append(Below, frame)
  BY DEF Rest
<1> HIDE DEF frame
<1>6. WalkedFrames(Rest)
  BY <1>2, <1>3, <1>4, <1>5, AppendedWalk
<1>7. ASSUME ~IsPrimitive(Current.ref) PROVE Walked(Place(Current, Top).path)
  <2>1. Current.via \in {"plain", "array"} /\ Place(Current, Top).path = Append(Top.path, Current.via)
    BY <1>1, <1>7, Taken DEF NoBranches
  <2>2. Top.path \in Seq(Via)
    BY <1>2 DEF Frame
  <2> QED
    BY <1>3, <2>1, <2>2, LongerWalk
<1> QED
  BY <1>6, <1>7

LEMMA PushedWalked ==
    ASSUME Inv, NEW d \in Declarations, NEW frames \in Seq(Frame), UsesOf(frames),
           WalkedFrames(frames), NEW place \in At, Walked(place.path), WalkedTokens(out),
           WriteOut(Types[d], frames, place)
    PROVE  WalkedFrames(stack') /\ WalkedTokens(out')
<1>1. schema \in File
  BY DEF Inv, TypeOK
<1>2. PICK token \in Token, frame \in Frame :
         /\ token = [kind |-> Types[d].kind, name |-> FullName(Types[d]), at |-> place]
         /\ token.kind \in {"record", "enum"}
         /\ out' = Append(out, token)
         /\ defined' = defined \cup {token.name}
         /\ stack' = Append(frames, frame)
         /\ frame.path = place.path
         /\ stack' \in Seq(Frame) /\ UsesOf(stack')
  BY <1>1, Pushed
<1>3. Walked(token.at.path)
  BY <1>2
<1>4. WalkedTokens(out')
  BY <1>2, <1>3, TokenWalk
<1>5. WalkedFrames(stack')
  BY <1>2, AppendedWalk
<1> QED
  BY <1>4, <1>5

\* In such a file every definition, and every reference, stands where the walk
\* comes by: each step writes at most one name, one constructor further in.
LEMMA WalkStep ==
    ASSUME Inv, WalkInv, [Next]_vars
    PROVE  WalkInv'
<1>1. schema' = schema
  BY DEF Next, Resolve, Accept, Reject, ResolvePrimitive, Inline, Refer, Return, WriteOutTop,
         SkipReached, Finish, vars
<1>2. NoBranches' = NoBranches
  BY <1>1 DEF NoBranches, Uses, Types, IsPrimitive, IsBare
<1> SUFFICES ASSUME NoBranches
             PROVE  WalkedFrames(stack') /\ WalkedTokens(out')
  BY <1>2 DEF WalkInv, WalkedFrames, WalkedTokens, Walked
<1>3. WalkedFrames(stack) /\ WalkedTokens(out)
  BY DEF WalkInv
<1>4. schema \in File /\ stack \in Seq(Frame)
  BY DEF Inv, TypeOK
<1>5. CASE stack' = stack /\ out' = out
  BY <1>3, <1>5
<1>6. CASE ResolvePrimitive
  <2> DEFINE token == [kind |-> "primitive", name |-> Current.ref, at |-> Place(Current, Top)]
  <2>1. Resolving /\ out' = Append(out, token) /\ stack' = Rest
    BY <1>6 DEF ResolvePrimitive, Emit
  <2>2. token \in Token /\ token.kind = "primitive" /\ WalkedFrames(Rest)
    BY <2>1, <1>3, PlaceOfCurrent, RestWalked DEF Token
  <2> HIDE DEF token
  <2> QED
    BY <1>3, <2>1, <2>2, TokenWalk
<1>7. CASE Inline
  <2> DEFINE full == Lookup(Current.ref, Top.scope)
  <2>1. Resolving /\ ~IsPrimitive(Current.ref)
    BY <1>7 DEF Inline
  <2>2. /\ Place(Current, Top) \in At /\ Walked(Place(Current, Top).path)
        /\ Rest \in Seq(Frame) /\ UsesOf(Rest) /\ WalkedFrames(Rest) /\ Current.ref \in Spelling
    BY <1>3, <2>1, PlaceOfCurrent, RestWalked
  <2>3. CASE Hits(Current.ref, Top.scope) = {}
    <3>1. stack' = stack /\ out' = out
      BY <1>7, <2>3 DEF Inline
    <3> QED
      BY <3>1, <1>5
  <2>4. CASE Hits(Current.ref, Top.scope) # {}
    <3>1. full \in Indexed /\ WriteOut(Declaration(full), Rest, Place(Current, Top))
      BY <1>7, <2>2, <2>4, LookupFinds DEF Inline
    <3> HIDE DEF full
    <3>2. PICK d \in Declarations : Declaration(full) = Types[d]
      BY <1>4, <3>1, DeclarationOf
    <3>3. WriteOut(Types[d], Rest, Place(Current, Top))
      BY <3>1, <3>2
    <3> QED
      BY <1>3, <2>2, <3>3, PushedWalked
  <2> QED
    BY <2>3, <2>4
<1>8. CASE Refer
  <2> DEFINE token == [kind |-> "named", name |-> Lookup(Current.ref, Top.scope),
                       at |-> Place(Current, Top)]
  <2>1. /\ Resolving /\ ~IsPrimitive(Current.ref) /\ out' = Append(out, token) /\ stack' = Rest
        /\ Lookup(Current.ref, Top.scope) \in defined
    BY <1>8 DEF Refer, Emit, Done
  <2>2. token \in Token /\ Walked(token.at.path) /\ WalkedFrames(Rest)
    BY <2>1, <1>3, PlaceOfCurrent, RestWalked DEF Token, Inv, TypeOK
  <2> HIDE DEF token
  <2> QED
    BY <1>3, <2>1, <2>2, TokenWalk
<1>9. CASE Return
  <2>1. stack # <<>> /\ stack' = Below /\ out' = out
    BY <1>9 DEF Return
  <2>2. \A k \in DOMAIN Below : k \in DOMAIN stack /\ Below[k] = stack[k]
    BY <1>4, <2>1, Popped
  <2> QED
    BY <1>3, <2>1, <2>2 DEF WalkedFrames
<1>10. CASE WriteOutTop
  <2>1. next \in DOMAIN Types /\ Here(<<>>) \in At /\ Walked(Here(<<>>).path)
    <3>1. next <= Len(Types) /\ next \in Nat \ {0} /\ schema.space \in Space
      BY <1>10, <1>4, FileTypes DEF WriteOutTop, AtTop, Inv, TypeOK
    <3>2. <<>> \in Seq(Via)
      BY EmptySeq
    <3> QED
      BY <3>1, <3>2, <1>4, FileTypes DEF Here, At, Via, Value, Walked
  <2>2. CASE IsNamed(Types[next])
    <3> DEFINE empty == <<>>
    <3>1. next \in Declarations /\ WriteOut(Types[next], empty, Here(<<>>))
      BY <1>10, <2>1, <2>2 DEF WriteOutTop, Declarations
    <3>2. empty \in Seq(Frame) /\ UsesOf(empty) /\ WalkedFrames(empty)
      BY EmptySeq DEF UsesOf, WalkedFrames
    <3> HIDE DEF empty
    <3> QED
      BY <1>3, <2>1, <3>1, <3>2, PushedWalked
  <2>3. CASE ~IsNamed(Types[next])
    <3> DEFINE frame == [rest |-> Types[next].uses, scope |-> schema.space, path |-> <<>>]
    <3>1. stack' = <<frame>> /\ out' = out /\ Walked(frame.path)
      BY <1>10, <2>3 DEF WriteOutTop, Walked
    <3> HIDE DEF frame
    <3> QED
      BY <1>3, <3>1 DEF WalkedFrames
  <2> QED
    BY <2>2, <2>3
<1> QED
  BY <1>5, <1>6, <1>7, <1>8, <1>9, <1>10
  DEF Next, Resolve, Accept, Reject, SkipReached, Finish, vars

\* Whatever is named is a definition, or refers to one before it.
LEMMA WalkReachesAll ==
    ASSUME Inv, WalkInv, NoBranches
    PROVE  GoTypesDeclared
<1> SUFFICES ASSUME NEW i \in GoUses
             PROVE  GoName(out[i].name) \in Declared
  BY DEF GoTypesDeclared
<1>1. i \in DOMAIN out /\ out[i].kind # "primitive"
  BY DEF GoUses
<1>2. PICK k \in Definitions : out[k].name = out[i].name
  BY <1>1 DEF Inv, ReferencesFollow, Named, Definitions
<1>3. Walked(out[k].at.path)
  BY <1>2 DEF WalkInv, WalkedTokens, Definitions
<1> QED
  BY <1>2, <1>3 DEF Declared

\* A file that puts none of its own types in a map or a union gets all the Go
\* types its code names: what a first use in a map or a union does to the file
\* (schema_go_types) needs one.
THEOREM GoTypesDeclaredUnbranched == Spec => [](NoBranches => GoTypesDeclared)
<1>1. Init => WalkInv
  BY DEF Init, WalkInv, WalkedFrames, WalkedTokens
<1>2. Inv /\ WalkInv /\ [Next]_vars => WalkInv'
  BY WalkStep
<1>3. Inv /\ WalkInv => (NoBranches => GoTypesDeclared)
  BY WalkReachesAll
<1> QED
  BY <1>1, <1>2, <1>3, InvAlways, PTL DEF Spec

-----------------------------------------------------------------------------
(***************************************************************************)
(* Why resolution ends: every step descends.                               *)
(***************************************************************************)
Rank == CASE phase = "validate" -> 2 [] phase = "resolve" -> 1 [] OTHER -> 0
Unwritten == Indexed \ defined
TopsLeft == 2 * (Len(Types) + 1 - next) + (IF stack = <<>> THEN 1 ELSE 0)
NamesLeft == IF stack = <<>> THEN 0 ELSE Len(Top.rest)

\* The loop over the top-level types stops one past the last of them.
NextInv == next <= Len(Types) + 1

LEMMA IndexedFinite ==
    ASSUME schema \in File
    PROVE  IsFiniteSet(Indexed)
<1>1. Declarations \subseteq 1..Len(Types) /\ Len(Types) \in Nat
  BY FileTypes
<1>2. IsFiniteSet(Declarations)
  <2>1. IsFiniteSet(1..Len(Types)) /\ Declarations \in SUBSET (1..Len(Types))
    BY <1>1, FS_Interval
  <2> QED
    BY <2>1, FS_Subset
<1>3. IsFiniteSet({FullName(Types[i]) : i \in Declarations})
  <2> DEFINE f == [i \in Declarations |-> FullName(Types[i])]
             T == {FullName(Types[i]) : i \in Declarations}
  <2>1. f \in Surjection(Declarations, T)
    BY DEF Surjection
  <2> QED
    BY <1>2, <2>1, FS_Surjection
<1> QED
  BY <1>3 DEF Indexed

LEMMA MeasureIsNatural ==
    ASSUME Inv, NextInv
    PROVE  /\ Rank \in Nat /\ Cardinality(Unwritten) \in Nat /\ TopsLeft \in Nat
           /\ Len(stack) \in Nat /\ NamesLeft \in Nat
           /\ Measure \in [1..5 -> Nat]
<1>1. schema \in File /\ next \in Nat /\ stack \in Seq(Frame)
  BY DEF Inv, TypeOK
<1>2. Rank \in Nat
  BY DEF Rank
<1>3. Cardinality(Unwritten) \in Nat
  BY <1>1, IndexedFinite, FS_Difference, FS_CardinalityType DEF Unwritten
<1>4. Len(Types) \in Nat
  BY <1>1, FileTypes
<1>5. TopsLeft \in Nat
  BY <1>1, <1>4 DEF NextInv, TopsLeft
<1>6. Len(stack) \in Nat
  BY <1>1, LenProperties
<1>7. NamesLeft \in Nat
  <2>1. CASE stack = <<>>
    BY <2>1 DEF NamesLeft
  <2>2. CASE stack # <<>>
    <3>1. Top.rest \in Seq(Use)
      BY <1>1, <2>2, Popped DEF Frame
    <3> QED
      BY <2>2, <3>1, LenProperties DEF NamesLeft
  <2> QED
    BY <2>1, <2>2
<1>8. Measure = <<Rank, Cardinality(Unwritten), TopsLeft, Len(stack), NamesLeft>>
  BY DEF Measure, Rank, Unwritten, TopsLeft, NamesLeft
<1>9. Measure \in [1..5 -> Nat]
  BY <1>2, <1>3, <1>5, <1>6, <1>7, <1>8
<1> QED
  BY <1>2, <1>3, <1>5, <1>6, <1>7, <1>9

\* At which of its five places a step descends.
LEMMA DescendsAt ==
    ASSUME \/ Rank' < Rank
           \/ Rank' = Rank /\ Cardinality(Unwritten)' < Cardinality(Unwritten)
           \/ /\ Rank' = Rank /\ Cardinality(Unwritten)' = Cardinality(Unwritten)
              /\ TopsLeft' < TopsLeft
           \/ /\ Rank' = Rank /\ Cardinality(Unwritten)' = Cardinality(Unwritten)
              /\ TopsLeft' = TopsLeft /\ Len(stack)' < Len(stack)
           \/ /\ Rank' = Rank /\ Cardinality(Unwritten)' = Cardinality(Unwritten)
              /\ TopsLeft' = TopsLeft /\ Len(stack)' = Len(stack)
              /\ NamesLeft' < NamesLeft
    PROVE  Descends(Measure', Measure)
<1>1. /\ Measure[1] = Rank /\ Measure[2] = Cardinality(Unwritten) /\ Measure[3] = TopsLeft
      /\ Measure[4] = Len(stack) /\ Measure[5] = NamesLeft /\ DOMAIN Measure = 1..5
  BY DEF Measure, Rank, Unwritten, TopsLeft, NamesLeft
<1>2. /\ Measure'[1] = Rank' /\ Measure'[2] = Cardinality(Unwritten)'
      /\ Measure'[3] = TopsLeft' /\ Measure'[4] = Len(stack)' /\ Measure'[5] = NamesLeft'
  BY DEF Measure, Rank, Unwritten, TopsLeft, NamesLeft
<1> DEFINE new == Measure'
           old == Measure
<1> HIDE DEF new, old
<1>3. \E k \in 1..5 : new[k] < old[k] /\ \A j \in 1..(k - 1) : new[j] = old[j]
  <2>1. CASE new[1] < old[1]
    BY <2>1
  <2>2. CASE new[1] = old[1] /\ new[2] < old[2]
    <3>1. \A j \in 1..(2 - 1) : new[j] = old[j]
      BY <2>2
    <3> QED
      BY <2>2, <3>1
  <2>3. CASE new[1] = old[1] /\ new[2] = old[2] /\ new[3] < old[3]
    <3>1. \A j \in 1..(3 - 1) : new[j] = old[j]
      BY <2>3
    <3> QED
      BY <2>3, <3>1
  <2>4. CASE new[1] = old[1] /\ new[2] = old[2] /\ new[3] = old[3] /\ new[4] < old[4]
    <3>1. \A j \in 1..(4 - 1) : new[j] = old[j]
      BY <2>4
    <3> QED
      BY <2>4, <3>1
  <2>5. CASE /\ new[1] = old[1] /\ new[2] = old[2] /\ new[3] = old[3] /\ new[4] = old[4]
             /\ new[5] < old[5]
    <3>1. \A j \in 1..(5 - 1) : new[j] = old[j]
      BY <2>5
    <3> QED
      BY <2>5, <3>1
  <2> QED
    BY <1>1, <1>2, <2>1, <2>2, <2>3, <2>4, <2>5 DEF new, old
<1> QED
  BY <1>1, <1>3 DEF Descends, new, old

\* Writing out a declaration that was not written takes its name off the list.
LEMMA Written ==
    ASSUME schema \in File, schema' = schema, NEW full \in Indexed, full \notin defined,
           defined' = defined \cup {full}
    PROVE  Cardinality(Unwritten)' < Cardinality(Unwritten)
<1>1. Unwritten' = Unwritten \ {full} /\ full \in Unwritten
  BY SameFile DEF Unwritten
<1>2. IsFiniteSet(Unwritten)
  BY IndexedFinite, FS_Difference DEF Unwritten
<1>3. Cardinality(Unwritten \ {full}) = Cardinality(Unwritten) - 1
  BY <1>1, <1>2, FS_RemoveElement
<1>4. Cardinality(Unwritten) \in Nat
  BY <1>2, FS_CardinalityType
<1>5. Cardinality(Unwritten)' = Cardinality(Unwritten')
  OBVIOUS
<1> QED
  BY <1>1, <1>3, <1>4, <1>5

\* Dealing with the current name leaves the frames, and one name fewer.
LEMMA NameTaken ==
    ASSUME Inv, Resolving, schema' = schema, phase' = phase, next' = next,
           defined' = defined, stack' = Rest
    PROVE  Descends(Measure', Measure)
<1>1. stack \in Seq(Frame) /\ stack # <<>> /\ Top.rest # <<>>
  BY DEF Inv, TypeOK, Resolving
<1>2. Below \in Seq(Frame) /\ Len(Below) = Len(stack) - 1 /\ Len(stack) \in Nat \ {0} /\ Top \in Frame
  BY <1>1, Popped
<1>3. /\ Top.rest \in Seq(Use) /\ Len(Top.rest) \in Nat
      /\ Tail(Top.rest) \in Seq(Use) /\ Len(Tail(Top.rest)) = Len(Top.rest) - 1
  BY <1>1, <1>2, HeadTailProperties, LenProperties DEF Frame
<1> DEFINE frame == [Top EXCEPT !.rest = Tail(Top.rest)]
<1>4. frame \in Frame /\ frame.rest = Tail(Top.rest)
  BY <1>2, <1>3 DEF Frame
<1>5. Rest = Append(Below, frame)
  BY DEF Rest
<1> HIDE DEF frame
<1>6. /\ Rest \in Seq(Frame) /\ Rest # <<>> /\ Len(Rest) = Len(Below) + 1
      /\ Rest[Len(Below) + 1] = frame
  BY <1>2, <1>4, <1>5, AppendProperties
<1>7. Len(stack)' = Len(stack) /\ stack' # <<>> /\ Top' = frame
  BY <1>2, <1>6 DEF Top
<1>8. NamesLeft' < NamesLeft
  <2>1. NamesLeft' = Len(Top.rest)'
    BY <1>7 DEF NamesLeft
  <2>2. Len(Top.rest)' = Len(Tail(Top.rest))
    BY <1>4, <1>7
  <2>3. NamesLeft = Len(Top.rest)
    BY <1>1 DEF NamesLeft
  <2> QED
    BY <1>3, <2>1, <2>2, <2>3
<1>9. /\ Rank' = Rank /\ TopsLeft' = TopsLeft
      /\ Cardinality(Unwritten)' = Cardinality(Unwritten)
  BY <1>1, <1>7, SameFile DEF Rank, TopsLeft, Unwritten
<1> QED
  BY <1>7, <1>8, <1>9, DescendsAt

LEMMA InlineDescends ==
    ASSUME Inv, Inline
    PROVE  Descends(Measure', Measure) /\ next' = next
<1> DEFINE full == Lookup(Current.ref, Top.scope)
<1>1. /\ Resolving /\ ~IsPrimitive(Current.ref) /\ ~Done(Current.ref, Top.scope)
      /\ schema' = schema /\ next' = next
  BY DEF Inline
<1>2. /\ Place(Current, Top) \in At /\ Current \in Uses /\ Current.ref \in Spelling
      /\ Rest \in Seq(Frame) /\ UsesOf(Rest) /\ Valid
  BY <1>1, PlaceOfCurrent
<1>3. schema \in File
  BY DEF Inv, TypeOK
<1>4. Hits(Current.ref, Top.scope) # {}
  BY <1>1, <1>2, <1>3, DefinedIsFound DEF Valid, NamesDefined
<1>5. full \in Indexed /\ full \notin defined
  BY <1>1, <1>2, <1>4, LookupFinds DEF Done
<1>6. PICK d \in Declarations : Declaration(full) = Types[d] /\ FullName(Types[d]) = full
  BY <1>3, <1>5, DeclarationOf
<1>7. phase' = phase /\ WriteOut(Types[d], Rest, Place(Current, Top))
  BY <1>4, <1>6 DEF Inline
<1>8. defined' = defined \cup {full}
  <2>1. SpaceIn(Types[d], schema.space) = SpaceOf(Types[d])
    BY DEF SpaceIn, SpaceOf
  <2> QED
    BY <1>6, <1>7, <2>1 DEF WriteOut, FullName
<1>9. Cardinality(Unwritten)' < Cardinality(Unwritten)
  BY <1>1, <1>3, <1>5, <1>8, Written
<1> QED
  BY <1>1, <1>7, <1>9, DescendsAt DEF Rank

LEMMA ReturnDescends ==
    ASSUME Inv, NextInv, Return
    PROVE  Descends(Measure', Measure) /\ NextInv'
<1>1. /\ phase = "resolve" /\ stack # <<>> /\ stack' = Below
      /\ next' = IF Len(stack) = 1 THEN next + 1 ELSE next
      /\ schema' = schema /\ phase' = phase /\ defined' = defined
  BY DEF Return
<1>2. stack \in Seq(Frame) /\ next \in Nat /\ schema \in File /\ next <= Len(Types)
  BY <1>1 DEF Inv, TypeOK, ProgressInv
<1>3. Below \in Seq(Frame) /\ Len(Below) = Len(stack) - 1 /\ Len(stack) \in Nat \ {0}
  BY <1>1, <1>2, Popped
<1>4. Types' = Types /\ Len(Types) \in Nat
  BY <1>1, <1>2, SameFile, FileTypes
<1>5. Rank' = Rank /\ Cardinality(Unwritten)' = Cardinality(Unwritten)
  BY <1>1, SameFile DEF Rank, Unwritten
<1>6. CASE Len(stack) = 1
  <2>1. stack' = <<>> /\ next' = next + 1
    BY <1>1, <1>3, <1>6, EmptySeq
  <2>2. TopsLeft' < TopsLeft
    BY <1>1, <1>2, <1>4, <2>1 DEF TopsLeft
  <2> QED
    BY <1>2, <1>4, <1>5, <2>1, <2>2, DescendsAt DEF NextInv
<1>7. CASE Len(stack) # 1
  <2>1. stack' # <<>> /\ next' = next /\ Len(stack)' < Len(stack)
    BY <1>1, <1>3, <1>7, EmptySeq
  <2>2. TopsLeft' = TopsLeft
    BY <1>1, <1>4, <2>1 DEF TopsLeft
  <2> QED
    BY <1>2, <1>4, <1>5, <2>1, <2>2, DescendsAt DEF NextInv
<1> QED
  BY <1>6, <1>7

LEMMA TopDescends ==
    ASSUME Inv, NextInv, WriteOutTop \/ SkipReached \/ Finish
    PROVE  Descends(Measure', Measure) /\ NextInv'
<1>1. phase = "resolve" /\ stack = <<>> /\ schema' = schema
  BY DEF WriteOutTop, SkipReached, Finish, AtTop
<1>2. schema \in File /\ next \in Nat \ {0}
  BY DEF Inv, TypeOK
<1>3. Types' = Types /\ Len(Types) \in Nat /\ DOMAIN Types = 1..Len(Types)
  BY <1>1, <1>2, SameFile, FileTypes
<1>4. CASE WriteOutTop
  <2>1. next <= Len(Types) /\ ~Reached /\ phase' = phase /\ next' = next
    BY <1>4 DEF WriteOutTop, AtTop
  <2>2. CASE IsNamed(Types[next])
    <3>1. next \in Declarations /\ FullName(Types[next]) \in Indexed
      BY <1>2, <1>3, <2>1, <2>2, FileTypes DEF Declarations
    <3>2. FullName(Types[next]) \notin defined
      BY <2>1, <2>2 DEF Reached
    <3>3. defined' = defined \cup {FullName(Types[next])}
      <4>1. SpaceIn(Types[next], schema.space) = SpaceOf(Types[next])
        BY DEF SpaceIn, SpaceOf
      <4> QED
        BY <1>4, <2>2, <4>1 DEF WriteOutTop, WriteOut, FullName
    <3>4. Cardinality(Unwritten)' < Cardinality(Unwritten)
      BY <1>1, <1>2, <3>1, <3>2, <3>3, Written
    <3> QED
      BY <1>3, <2>1, <3>4, DescendsAt DEF Rank, NextInv
  <2>3. CASE ~IsNamed(Types[next])
    <3>1. stack' # <<>> /\ defined' = defined
      BY <1>4, <2>3 DEF WriteOutTop
    <3>2. Rank' = Rank /\ Cardinality(Unwritten)' = Cardinality(Unwritten)
      BY <1>1, <2>1, <3>1, SameFile DEF Rank, Unwritten
    <3>3. TopsLeft' < TopsLeft
      BY <1>1, <1>2, <1>3, <2>1, <3>1 DEF TopsLeft
    <3> QED
      BY <1>3, <2>1, <3>2, <3>3, DescendsAt DEF NextInv
  <2> QED
    BY <2>2, <2>3
<1>5. CASE SkipReached
  <2>1. next <= Len(Types) /\ next' = next + 1 /\ phase' = phase /\ stack' = stack /\ defined' = defined
    BY <1>5 DEF SkipReached, AtTop
  <2>2. Rank' = Rank /\ Cardinality(Unwritten)' = Cardinality(Unwritten)
    BY <1>1, <2>1, SameFile DEF Rank, Unwritten
  <2>3. TopsLeft' < TopsLeft
    BY <1>1, <1>2, <1>3, <2>1 DEF TopsLeft
  <2> QED
    BY <1>2, <1>3, <2>1, <2>2, <2>3, DescendsAt DEF NextInv
<1>6. CASE Finish
  <2>1. phase' = "done" /\ next' = next
    BY <1>6 DEF Finish
  <2>2. Rank' < Rank
    BY <1>1, <2>1 DEF Rank
  <2> QED
    BY <1>3, <2>1, <2>2, DescendsAt DEF NextInv
<1> QED
  BY <1>4, <1>5, <1>6

LEMMA EveryStepDescends ==
    ASSUME Inv, NextInv, Next
    PROVE  Descends(Measure', Measure) /\ NextInv'
<1>1. schema' = schema
  BY DEF Next, Accept, Reject, Resolve, ResolvePrimitive, Inline, Refer, Return,
         WriteOutTop, SkipReached, Finish
<1>2. Types' = Types
  BY <1>1, SameFile
<1>3. CASE Accept \/ Reject
  <2>1. phase = "validate" /\ phase' \in {"resolve", "rejected"} /\ next' = next
    BY <1>3 DEF Accept, Reject
  <2>2. Rank' < Rank
    BY <2>1 DEF Rank
  <2> QED
    BY <1>2, <2>1, <2>2, DescendsAt DEF NextInv
<1>4. CASE ResolvePrimitive
  BY <1>2, <1>4, NameTaken DEF ResolvePrimitive, NextInv
<1>5. CASE Inline
  BY <1>2, <1>5, InlineDescends DEF NextInv
<1>6. CASE Refer
  BY <1>2, <1>6, NameTaken DEF Refer, NextInv
<1>7. CASE Return
  BY <1>7, ReturnDescends
<1>8. CASE WriteOutTop \/ SkipReached \/ Finish
  BY <1>8, TopDescends
<1> QED
  BY <1>3, <1>4, <1>5, <1>6, <1>7, <1>8 DEF Next, Resolve

\* Every step of resolveInput leaves a smaller tuple of natural numbers, on a
\* file whose types refer to themselves or to each other in a circle as well:
\* with Descent_proofs, it takes finitely many steps.
THEOREM ResolutionDescends == Spec => StepsDescend /\ [](Measure \in [1..5 -> Nat])
<1>1. Init => NextInv
  <2> SUFFICES ASSUME Init PROVE NextInv
    OBVIOUS
  <2>1. schema \in File /\ next = 1
    BY SchemaAssumption DEF Init
  <2> QED
    BY <2>1, FileTypes DEF NextInv
<1>2. Inv /\ NextInv /\ [Next]_vars => [Descends(Measure', Measure)]_vars /\ NextInv'
  <2>1. CASE Next
    BY <2>1, EveryStepDescends
  <2>2. CASE UNCHANGED vars
    BY <2>2 DEF vars, NextInv, Types
  <2> QED
    BY <2>1, <2>2
<1>3. Inv /\ NextInv => Measure \in [1..5 -> Nat]
  BY MeasureIsNatural
<1> QED
  BY <1>1, <1>2, <1>3, InvAlways, PTL DEF Spec, StepsDescend

=============================================================================
