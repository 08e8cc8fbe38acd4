------------------------------- MODULE Descent -------------------------------
(***************************************************************************)
(* The order in which a computation that ends can be seen to get smaller:  *)
(* tuples of natural numbers, compared at the first place they differ in.  *)
(* The modules whose steps all descend in it state their measure beside    *)
(* the liveness property it is the reason for.                             *)
(***************************************************************************)
EXTENDS Integers, Sequences

\* From old to new one entry goes down, and those before it stay.
Descends(new, old) ==
    \E k \in DOMAIN old :
        /\ new[k] < old[k]
        /\ \A j \in 1..(k - 1) : new[j] = old[j]

=============================================================================
