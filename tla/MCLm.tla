------------------------------- MODULE MCLm --------------------------------
(***************************************************************************)
(* Problems for Lm on the points -1 .. 2: residual norms (-1 where it is   *)
(* not a number) with a root, with a minimum that is no root, flat in      *)
(* part or all over, rising off the seed, or undefined beyond it; the seed *)
(* at 0, where no radius is small enough, and on either side.              *)
(***************************************************************************)
EXTENDS Lm

MCCoordinates == -1 .. 2

Shapes == {<<2, 1, 0, 1>>, <<1, 1, 1, 1>>, <<3, 2, 1, 2>>, <<1, 2, 2, 1>>,
           <<-1, 2, 1, -1>>, <<2, 1, -1, 1>>, <<0, -1, 2, 1>>}

MCProblems ==
  {[seed |-> s, norm |-> [y \in MCCoordinates |-> shape[y + 2]], rows |-> m] :
     s \in {-1, 0, 2}, m \in {1, 2}, shape \in Shapes}
=============================================================================
