--------------------------------- MODULE MCVfs ---------------------------------
(* Instances of Vfs for TLC. *)
EXTENDS Vfs, TLC

CONSTANTS p1, p2, p3, console, program

ThreeProcs == {p1, p2, p3}

\* All but the first process are alike; no liveness is checked.
Sym == Permutations({p2, p3})

Device == {console}
Archive == {program}

=============================================================================
