--------------------------------- MODULE MCPmm ---------------------------------
(* Instances of Pmm for TLC. *)
EXTENDS Pmm

CONSTANTS a, b, c   \* callers

TwoCallers   == {a, b}
ThreeCallers == {a, b, c}

\* Five frames, of which the boot loader reports three as usable.
SomeUsable == {1, 2, 4}

=============================================================================
