--------------------------------- MODULE Arena ---------------------------------
(***************************************************************************)
(* What a heap promises its callers: the areas in use do not overlap, lie  *)
(* in mapped memory for as long as they are in use, and are never moved    *)
(* nor resized.  HeapAllocator implements it.                              *)
(***************************************************************************)
EXTENDS Integers

CONSTANT Align    \* every area starts at a multiple of Align

VARIABLES
    area,     \* the areas in use: a function from their addresses to sizes
    mapped    \* memory below this address is mapped

Init ==
    /\ area = [p \in {} |-> 0]
    /\ mapped \in Nat

\* An area of n bytes at p does not meet the one at q.
Apart(p, n, q) == p + n <= q \/ q + area[q] <= p

\* An area of n bytes at p is given to a caller.
Take(p, n) ==
    /\ p % Align = 0
    /\ p + n <= mapped
    /\ \A q \in DOMAIN area : p # q /\ Apart(p, n, q)
    /\ area' = [q \in DOMAIN area \cup {p} |-> IF q = p THEN n ELSE area[q]]
    /\ UNCHANGED mapped

\* The area at p is given back.
GiveBack(p) ==
    /\ area' = [q \in DOMAIN area \ {p} |-> area[q]]
    /\ UNCHANGED mapped

\* Pages are mapped, or unmapped where no area lies.
Map(m) ==
    /\ \A q \in DOMAIN area : q + area[q] <= m
    /\ mapped' = m
    /\ UNCHANGED area

Next ==
    \/ \E p \in DOMAIN area' : Take(p, area'[p])
    \/ \E p \in DOMAIN area : GiveBack(p)
    \/ Map(mapped')

Spec == Init /\ [][Next]_<<area, mapped>>

=============================================================================
