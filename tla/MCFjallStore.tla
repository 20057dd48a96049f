--------------------------- MODULE MCFjallStore ---------------------------
(* Instances of FjallStore for TLC. *)
EXTENDS FjallStore, TLC

CONSTANTS k1, k2, t1, t2

\* Two keys on two stripes.
Apart == (k1 :> 0) @@ (k2 :> 1)

\* One key only.
Alone == k1 :> 0

\* Blocking tasks are interchangeable.
ThreadSymmetry == Permutations(Threads)
===========================================================================
