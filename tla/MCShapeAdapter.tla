-------------------------- MODULE MCShapeAdapter ---------------------------
(***************************************************************************)
(* Adapters of twelve and six bytes: widening, narrowing and neither, by   *)
(* factors from one to twelve, with one beat in or out and with many.      *)
(***************************************************************************)
EXTENDS RoutedAdapter

Divisors(n) == {d \in 1 .. n : n % d = 0}
AllShapes == UNION {{n} \X Divisors(n) \X Divisors(n) : n \in {6, 12}}

\* One width divides the other.
EvenShapes == {s \in AllShapes : s[2] % s[3] = 0 \/ s[3] % s[2] = 0}
=============================================================================
