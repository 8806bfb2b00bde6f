------------------------------ MODULE MCScheduler ------------------------------
(***************************************************************************)
(* Instances of Scheduler for TLC: where in the kernel the timer lands.    *)
(***************************************************************************)
EXTENDS Scheduler

\* As the code allows it.
Everywhere == KernelPoints

\* Not inside yield(): QuietYield.
OutsideYield == KernelPoints \ {"elect", "switch"}

\* Only between yield()'s assignment to current_process and its switch, and
\* where a thread waits for its next chance to yield.
BeforeSwitch == {"switch", "yield"}

=============================================================================
