----------------------------- MODULE MCSettings -----------------------------
(***************************************************************************)
(* A small instance of Settings for TLC: two names, three times of day,    *)
(* and requests that name one column or several.                           *)
(***************************************************************************)
EXTENDS Settings, TLC

CONSTANTS n1, n2

Nothing == [name |-> Keep, start |-> Keep, end |-> Keep, logo |-> Keep]

Requests ==
  {[Nothing EXCEPT !.start = 2],
   [Nothing EXCEPT !.end = 2],
   [Nothing EXCEPT !.start = 1, !.end = 3, !.name = n2],
   [Nothing EXCEPT !.logo = NewLogo, !.name = n1],
   [Nothing EXCEPT !.logo = NoLogo, !.start = 1]}

Symmetry == Permutations(Worker)
=============================================================================
