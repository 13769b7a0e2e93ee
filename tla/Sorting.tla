------------------------------ MODULE Sorting ------------------------------
(***************************************************************************)
(* The lists that the code obtains by sorting.                             *)
(***************************************************************************)
EXTENDS Integers, FiniteSets

\* The sequence of a finite set, given what comes before each element: the
\* position of an element is how many do.
Ranked(before) ==
    [i \in 1 .. Cardinality(DOMAIN before) |->
        CHOOSE t \in DOMAIN before : Cardinality(before[t]) = i - 1]
=============================================================================
