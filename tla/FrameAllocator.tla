---------------------------- MODULE FrameAllocator ----------------------------
(***************************************************************************)
(* What a physical memory manager promises: a frame has at most one holder,*)
(* a frame that is handed out was free, and the machine is declared out of *)
(* memory only when no frame is free.  Pmm implements it when its callers  *)
(* do not preempt one another (see Pmm).                                   *)
(***************************************************************************)
CONSTANTS
    Threads,   \* callers
    Usable     \* frames of usable memory

VARIABLES
    free,      \* frames nobody holds
    held,      \* frames each caller holds
    failed     \* out of memory has been declared

Init ==
    /\ free = Usable
    /\ held = [t \in Threads |-> {}]
    /\ failed = FALSE

\* Caller t gets frame f.
Take(t, f) ==
    /\ ~failed
    /\ f \in free
    /\ free' = free \ {f}
    /\ held' = [held EXCEPT ![t] = @ \cup {f}]
    /\ UNCHANGED failed

\* Frame f, which t holds, is given up by its holder.
GiveUp(t, f) ==
    /\ ~failed
    /\ f \in held[t]
    /\ held' = [held EXCEPT ![t] = @ \ {f}]
    /\ UNCHANGED <<free, failed>>

\* A frame that nobody holds any more becomes free.
Release(f) ==
    /\ ~failed
    /\ f \in Usable \ free
    /\ \A t \in Threads : f \notin held[t]
    /\ free' = free \cup {f}
    /\ UNCHANGED <<held, failed>>

\* Only when no frame is free.
Fail ==
    /\ free = {}
    /\ failed' = TRUE
    /\ UNCHANGED <<free, held>>

Next ==
    \/ \E t \in Threads, f \in Usable : Take(t, f) \/ GiveUp(t, f)
    \/ \E f \in Usable : Release(f)
    \/ Fail

Spec == Init /\ [][Next]_<<free, held, failed>>

=============================================================================
