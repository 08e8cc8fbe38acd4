---------------------------- MODULE Descent_proofs ----------------------------
(***************************************************************************)
(* Why a computation whose steps descend takes finitely many of them.      *)
(***************************************************************************)
EXTENDS Descent, WellFoundedInduction, TLAPS

Less == {p \in Nat \X Nat : p[1] < p[2]}

\* The order of Descent, on n-tuples, as a relation.
Descending(n) == {p \in [1..n -> Nat] \X [1..n -> Nat] : Descends(p[1], p[2])}

LEMMA DescendingWellFounded ==
    ASSUME NEW n \in Nat
    PROVE  IsWellFoundedOn(Descending(n), [1..n -> Nat])
<1> DEFINE S == [1..n -> Nat]
<1>1. IsWellFoundedOn(LexProductOrdering(Less, Nat, n), S)
  <2>1. IsWellFoundedOn(Less, Nat)
    BY NatLessThanWellFounded DEF OpToRel, Less
  <2> QED
    BY <2>1, WFLexProductOrdering
<1>2. ASSUME NEW p \in S \X S, Descends(p[1], p[2])
      PROVE  p \in LexProductOrdering(Less, Nat, n)
  <2>1. DOMAIN p[2] = 1..n
    BY <1>2
  <2>2. PICK k \in 1..n : p[1][k] < p[2][k] /\ \A j \in 1..(k - 1) : p[1][j] = p[2][j]
    BY <1>2, <2>1 DEF Descends
  <2>3. p[1][k] \in Nat /\ p[2][k] \in Nat
    BY <1>2
  <2>4. <<p[1][k], p[2][k]>> \in Less
    BY <2>2, <2>3 DEF Less
  <2> QED
    BY <1>2, <2>2, <2>4 DEF LexProductOrdering
<1>3. Descending(n) \cap (S \X S) \subseteq LexProductOrdering(Less, Nat, n)
  BY <1>2 DEF Descending
<1> QED
  BY <1>1, <1>3, IsWellFoundedOnSubrelation

\* No sequence of tuples of natural numbers descends for ever, whatever their
\* length: a computation whose every step descends takes finitely many steps,
\* with no bound known in advance.
LEMMA NoInfiniteDescent ==
    ASSUME NEW n \in Nat, NEW f \in [Nat -> [1..n -> Nat]]
    PROVE  \E i \in Nat : ~Descends(f[i + 1], f[i])
<1> SUFFICES ASSUME \A i \in Nat : Descends(f[i + 1], f[i]) PROVE FALSE
  OBVIOUS
<1>1. ASSUME NEW i \in Nat
      PROVE  /\ f[i] \in [1..n -> Nat] /\ f[i + 1] \in [1..n -> Nat]
             /\ <<f[i + 1], f[i]>> \in Descending(n)
  <2>1. i + 1 \in Nat /\ f[i] \in [1..n -> Nat] /\ f[i + 1] \in [1..n -> Nat]
    OBVIOUS
  <2> QED
    BY <2>1 DEF Descending
<1> DEFINE T == {f[i] : i \in Nat}
<1>2. T \subseteq [1..n -> Nat] /\ T # {}
  <2>1. f[0] \in T
    OBVIOUS
  <2> QED
    BY <2>1, <1>1
<1>3. PICK x \in T : \A y \in T : <<y, x>> \notin Descending(n)
  BY <1>2, DescendingWellFounded, WFMin
<1>4. PICK i \in Nat : x = f[i]
  BY <1>3
<1>5. f[i + 1] \in T
  OBVIOUS
<1> QED
  BY <1>1, <1>3, <1>4, <1>5

=============================================================================
