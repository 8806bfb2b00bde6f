------------------------------ MODULE Pmm_proofs ------------------------------
(***************************************************************************)
(* Theorems about Pmm, for every size of the bitmap, memory map and set of *)
(* callers that do not preempt one another (~Preempt).                     *)
(***************************************************************************)
EXTENDS Pmm, TLAPS

-----------------------------------------------------------------------------
(* The parts of the inductive invariant.                                   *)

\* One caller at a time is in the allocator.
OneInside == \A t, u \in Threads : t = u \/ pc[t] = "idle" \/ pc[u] = "idle"

\* Between the increment and the wrap last_allocated may be Size, and only
\* there; the increment never leaves it 0.
Position ==
    \A t \in Threads :
        IF pc[t] = "wrap" THEN last_allocated \in 1 .. Size
                          ELSE pc[t] # "idle" => last_allocated \in Frames

\* At rest the position is a frame.
PositionAtRest ==
    (\A t \in Threads : pc[t] # "wrap") => last_allocated \in Frames

\* The frames from s up to, and not including, l, round the end of memory;
\* none if s = l.
Between(s, l) ==
    {f \in Frames : IF s <= l THEN s <= f /\ f < l ELSE s <= f \/ f < l}

\* The same after at least one frame: all of them if s = l.
Passed(s, l) ==
    {f \in Frames : IF s < l THEN s <= f /\ f < l ELSE s <= f \/ f < l}

\* The frames a scan has passed are taken.
Scan ==
    \A t \in Threads :
        /\ pc[t] = "test" => Between(start[t], last_allocated) \subseteq bitmap
        /\ pc[t] = "advance" =>
              /\ Between(start[t], last_allocated) \subseteq bitmap
              /\ last_allocated \in bitmap
        /\ pc[t] \in {"wrap", "loop"} =>
              Passed(start[t], last_allocated) \subseteq bitmap

\* The frame that caller t is handing out or giving back, if it is f.
Carries(t, f) ==
    \/ pc[t] = "return" /\ f = last_allocated
    \/ pc[t] \in {"check", "clear"} /\ f = arg[t]

\* A frame that is carried has no holder.
CarriedIsNotHeld ==
    \A t, u \in Threads : \A f \in held[u] : ~Carries(t, f)

\* A frame is taken if it is not usable, or held, or carried.
Accounted ==
    \A f \in Frames :
        f \in bitmap <=> \/ f \notin Usable
                         \/ \E t \in Threads : f \in held[t] \/ Carries(t, f)

\* What is carried is usable memory.
CarriedIsUsable ==
    \A t \in Threads, f \in Frames : Carries(t, f) => f \in Usable

\* The frame about to be taken is free.
FoundIsFree ==
    \A t \in Threads : pc[t] = "set" => last_allocated \notin bitmap

NoFalsePanic ==
    /\ panic # "double free"
    /\ panic = "out of memory" => bitmap = Frames

\* The inductive invariant.
Inv ==
    /\ TypeOK
    /\ OneInside
    /\ Position
    /\ PositionAtRest
    /\ Scan
    /\ OneHolder
    /\ OnlyUsable
    /\ CarriedIsNotHeld
    /\ CarriedIsUsable
    /\ Accounted
    /\ FoundIsFree
    /\ NoFalsePanic

-----------------------------------------------------------------------------
(* The initial state, and one lemma per action. *)

\* init() takes the unusable frames and nobody is inside.
LEMMA InitInv == Init => Inv
  BY PmmAssumption
  DEF Init, Inv, TypeOK, Points, OneInside, Position, PositionAtRest, Scan,
      OneHolder, OnlyUsable, CarriedIsNotHeld, CarriedIsUsable, Carries,
      Accounted, FoundIsFree, NoFalsePanic, Frames

\* A caller enters; its scan starts at the frame of the last allocation.
LEMMA AllocateStartsInv ==
    ASSUME Inv, ~Preempt, NEW t \in Threads, AllocateStarts(t)
    PROVE  Inv'
<1> USE PmmAssumption
<1>0. \A u \in Threads : u # t => pc[u] = "idle"
  BY DEF AllocateStarts, At
<1>1. TypeOK'
  BY <1>0 DEF AllocateStarts, At, Goto, Inv, TypeOK, Points, Position,
      PositionAtRest, Frames
<1>2. OneInside'
  BY <1>0 DEF AllocateStarts, At, Goto, Inv, TypeOK, Points, OneInside
<1>3. Position'
  BY <1>0 DEF AllocateStarts, At, Goto, Inv, TypeOK, Points, OneInside,
      Position, PositionAtRest, Frames
<1>4. PositionAtRest'
  BY <1>0 DEF AllocateStarts, At, Goto, Inv, TypeOK, Points, OneInside,
      Position, PositionAtRest, Frames
<1>5. Scan'
  BY <1>0 DEF AllocateStarts, At, Goto, Inv, TypeOK, Points, OneInside,
      Position, PositionAtRest, Scan, Between, Passed, Frames
<1>6. OneHolder'
  BY <1>0 DEF AllocateStarts, At, Goto, Inv, TypeOK, Points, OneInside,
      Position, OneHolder, CarriedIsNotHeld, Carries
<1>7. OnlyUsable'
  BY <1>0 DEF AllocateStarts, At, Goto, Inv, TypeOK, Points, OneInside,
      Position, OnlyUsable, CarriedIsUsable, Carries, Frames
<1>8. CarriedIsNotHeld'
  BY <1>0 DEF AllocateStarts, At, Goto, Inv, TypeOK, Points, OneInside,
      Position, OneHolder, OnlyUsable, CarriedIsNotHeld, Accounted,
      FoundIsFree, Carries, Frames
<1>9. CarriedIsUsable'
  BY <1>0 DEF AllocateStarts, At, Goto, Inv, TypeOK, Points, OneInside,
      Position, OnlyUsable, CarriedIsUsable, Accounted, FoundIsFree, Carries,
      Frames
<1>10. Accounted'
  BY <1>0 DEF AllocateStarts, At, Goto, Inv, TypeOK, Points, OneInside,
      Position, OneHolder, CarriedIsNotHeld, CarriedIsUsable, Accounted,
      Carries, Frames
<1>11. FoundIsFree'
  BY <1>0 DEF AllocateStarts, At, Goto, Inv, TypeOK, Points, OneInside,
      FoundIsFree
<1>12. NoFalsePanic'
  BY <1>0 DEF AllocateStarts, At, Goto, Inv, TypeOK, Points, Scan, Passed,
      Accounted, Carries, NoFalsePanic, Frames
<1> QED
  BY <1>1, <1>2, <1>3, <1>4, <1>5, <1>6, <1>7, <1>8, <1>9, <1>10, <1>11,
      <1>12 DEF Inv

\* A frame that is free ends the scan; behind one that is taken it goes on.
LEMMA AllocateTestsInv ==
    ASSUME Inv, ~Preempt, NEW t \in Threads, AllocateTests(t)
    PROVE  Inv'
<1> USE PmmAssumption
<1>0. \A u \in Threads : u # t => pc[u] = "idle"
  BY DEF AllocateTests, At
<1>1. TypeOK'
  BY <1>0 DEF AllocateTests, At, Goto, Test, Inv, TypeOK, Points, Position,
      PositionAtRest, Frames
<1>2. OneInside'
  BY <1>0 DEF AllocateTests, At, Goto, Test, Inv, TypeOK, Points, OneInside
<1>3. Position'
  BY <1>0 DEF AllocateTests, At, Goto, Test, Inv, TypeOK, Points, OneInside,
      Position, PositionAtRest, Frames
<1>4. PositionAtRest'
  BY <1>0 DEF AllocateTests, At, Goto, Test, Inv, TypeOK, Points, OneInside,
      Position, PositionAtRest, Frames
<1>5. Scan'
  BY <1>0 DEF AllocateTests, At, Goto, Test, Inv, TypeOK, Points, OneInside,
      Position, PositionAtRest, Scan, Between, Passed, Frames
<1>6. OneHolder'
  BY <1>0 DEF AllocateTests, At, Goto, Test, Inv, TypeOK, Points, OneInside,
      Position, OneHolder, CarriedIsNotHeld, Carries
<1>7. OnlyUsable'
  BY <1>0 DEF AllocateTests, At, Goto, Test, Inv, TypeOK, Points, OneInside,
      Position, OnlyUsable, CarriedIsUsable, Carries, Frames
<1>8. CarriedIsNotHeld'
  BY <1>0 DEF AllocateTests, At, Goto, Test, Inv, TypeOK, Points, OneInside,
      Position, OneHolder, OnlyUsable, CarriedIsNotHeld, Accounted,
      FoundIsFree, Carries, Frames
<1>9. CarriedIsUsable'
  BY <1>0 DEF AllocateTests, At, Goto, Test, Inv, TypeOK, Points, OneInside,
      Position, OnlyUsable, CarriedIsUsable, Accounted, FoundIsFree,
      Carries, Frames
<1>10. Accounted'
  BY <1>0 DEF AllocateTests, At, Goto, Test, Inv, TypeOK, Points, OneInside,
      Position, OneHolder, CarriedIsNotHeld, CarriedIsUsable, Accounted,
      Carries, Frames
<1>11. FoundIsFree'
  BY <1>0 DEF AllocateTests, At, Goto, Test, Inv, TypeOK, Points, OneInside,
      FoundIsFree
<1>12. NoFalsePanic'
  BY <1>0 DEF AllocateTests, At, Goto, Test, Inv, TypeOK, Points, Scan, Passed,
      Accounted, Carries, NoFalsePanic, Frames
<1> QED
  BY <1>1, <1>2, <1>3, <1>4, <1>5, <1>6, <1>7, <1>8, <1>9, <1>10, <1>11,
      <1>12 DEF Inv

\* The scan goes to the next frame, or to the end of the bitmap.
LEMMA AllocateAdvancesInv ==
    ASSUME Inv, ~Preempt, NEW t \in Threads, AllocateAdvances(t)
    PROVE  Inv'
<1> USE PmmAssumption
<1>0. \A u \in Threads : u # t => pc[u] = "idle"
  BY DEF AllocateAdvances, At
<1>1. TypeOK'
  BY <1>0 DEF AllocateAdvances, At, Goto, Inv, TypeOK, Points, Position,
      PositionAtRest, Frames
<1>2. OneInside'
  BY <1>0 DEF AllocateAdvances, At, Goto, Inv, TypeOK, Points, OneInside
<1>3. Position'
  BY <1>0 DEF AllocateAdvances, At, Goto, Inv, TypeOK, Points, OneInside,
      Position, PositionAtRest, Frames
<1>4. PositionAtRest'
  BY <1>0 DEF AllocateAdvances, At, Goto, Inv, TypeOK, Points, OneInside,
      Position, PositionAtRest, Frames
<1>5. Scan'
  BY <1>0 DEF AllocateAdvances, At, Goto, Inv, TypeOK, Points, OneInside,
      Position, PositionAtRest, Scan, Between, Passed, Frames
<1>6. OneHolder'
  BY <1>0 DEF AllocateAdvances, At, Goto, Inv, TypeOK, Points, OneInside,
      Position, OneHolder, CarriedIsNotHeld, Carries
<1>7. OnlyUsable'
  BY <1>0 DEF AllocateAdvances, At, Goto, Inv, TypeOK, Points, OneInside,
      Position, OnlyUsable, CarriedIsUsable, Carries, Frames
<1>8. CarriedIsNotHeld'
  BY <1>0 DEF AllocateAdvances, At, Goto, Inv, TypeOK, Points, OneInside,
      Position, OneHolder, OnlyUsable, CarriedIsNotHeld, Accounted,
      FoundIsFree, Carries, Frames
<1>9. CarriedIsUsable'
  BY <1>0 DEF AllocateAdvances, At, Goto, Inv, TypeOK, Points, OneInside,
      Position, OnlyUsable, CarriedIsUsable, Accounted, FoundIsFree, Carries,
      Frames
<1>10. Accounted'
  BY <1>0 DEF AllocateAdvances, At, Goto, Inv, TypeOK, Points, OneInside,
      Position, OneHolder, CarriedIsNotHeld, CarriedIsUsable, Accounted,
      Carries, Frames
<1>11. FoundIsFree'
  BY <1>0 DEF AllocateAdvances, At, Goto, Inv, TypeOK, Points, OneInside,
      FoundIsFree
<1>12. NoFalsePanic'
  BY <1>0 DEF AllocateAdvances, At, Goto, Inv, TypeOK, Points, Scan, Passed,
      Accounted, Carries, NoFalsePanic, Frames
<1> QED
  BY <1>1, <1>2, <1>3, <1>4, <1>5, <1>6, <1>7, <1>8, <1>9, <1>10, <1>11,
      <1>12 DEF Inv

\* At the end of the bitmap the scan goes on with the first frame.
LEMMA AllocateWrapsInv ==
    ASSUME Inv, ~Preempt, NEW t \in Threads, AllocateWraps(t)
    PROVE  Inv'
<1> USE PmmAssumption
<1>0. \A u \in Threads : u # t => pc[u] = "idle"
  BY DEF AllocateWraps, At
<1>1. TypeOK'
  BY <1>0 DEF AllocateWraps, At, Goto, Inv, TypeOK, Points, Position,
      PositionAtRest, Frames
<1>2. OneInside'
  BY <1>0 DEF AllocateWraps, At, Goto, Inv, TypeOK, Points, OneInside
<1>3. Position'
  BY <1>0 DEF AllocateWraps, At, Goto, Inv, TypeOK, Points, OneInside,
      Position, PositionAtRest, Frames
<1>4. PositionAtRest'
  BY <1>0 DEF AllocateWraps, At, Goto, Inv, TypeOK, Points, OneInside,
      Position, PositionAtRest, Frames
<1>5. Scan'
  BY <1>0 DEF AllocateWraps, At, Goto, Inv, TypeOK, Points, OneInside,
      Position, PositionAtRest, Scan, Between, Passed, Frames
<1>6. OneHolder'
  BY <1>0 DEF AllocateWraps, At, Goto, Inv, TypeOK, Points, OneInside,
      Position, OneHolder, CarriedIsNotHeld, Carries
<1>7. OnlyUsable'
  BY <1>0 DEF AllocateWraps, At, Goto, Inv, TypeOK, Points, OneInside,
      Position, OnlyUsable, CarriedIsUsable, Carries, Frames
<1>8. CarriedIsNotHeld'
  BY <1>0 DEF AllocateWraps, At, Goto, Inv, TypeOK, Points, OneInside,
      Position, OneHolder, OnlyUsable, CarriedIsNotHeld, Accounted,
      FoundIsFree, Carries, Frames
<1>9. CarriedIsUsable'
  BY <1>0 DEF AllocateWraps, At, Goto, Inv, TypeOK, Points, OneInside,
      Position, OnlyUsable, CarriedIsUsable, Accounted, FoundIsFree, Carries,
      Frames
<1>10. Accounted'
  BY <1>0 DEF AllocateWraps, At, Goto, Inv, TypeOK, Points, OneInside,
      Position, OneHolder, CarriedIsNotHeld, CarriedIsUsable, Accounted,
      Carries, Frames
<1>11. FoundIsFree'
  BY <1>0 DEF AllocateWraps, At, Goto, Inv, TypeOK, Points, OneInside,
      FoundIsFree
<1>12. NoFalsePanic'
  BY <1>0 DEF AllocateWraps, At, Goto, Inv, TypeOK, Points, Scan, Passed,
      Accounted, Carries, NoFalsePanic, Frames
<1> QED
  BY <1>1, <1>2, <1>3, <1>4, <1>5, <1>6, <1>7, <1>8, <1>9, <1>10, <1>11,
      <1>12 DEF Inv

\* Back at its start the scan has passed every frame.
LEMMA AllocateLoopsInv ==
    ASSUME Inv, ~Preempt, NEW t \in Threads, AllocateLoops(t)
    PROVE  Inv'
<1> USE PmmAssumption
<1>0. \A u \in Threads : u # t => pc[u] = "idle"
  BY DEF AllocateLoops, At
<1>a. /\ pc[t] = "loop" /\ last_allocated \in Frames /\ start[t] \in Frames
      /\ Passed(start[t], last_allocated) \subseteq bitmap
      /\ UNCHANGED <<bitmap, last_allocated, start, arg, held>>
  BY DEF AllocateLoops, At, Inv, TypeOK, Points, Position, Scan
<1>b. \/ pc' = [pc EXCEPT ![t] = "test"] /\ last_allocated # start[t] /\ panic' = panic
      \/ pc' = pc /\ last_allocated = start[t] /\ panic' = "out of memory"
  BY DEF AllocateLoops, At, Goto
<1>c. pc' \in [Threads -> Points] /\ pc \in [Threads -> Points]
  BY <1>b DEF Inv, TypeOK, Points
<1>d. \A u \in Threads, f \in Frames : Carries(u, f)' <=> Carries(u, f)
  BY <1>a, <1>b, <1>c DEF Carries
<1>1. TypeOK'
  BY <1>0 DEF AllocateLoops, At, Goto, Inv, TypeOK, Points, Position,
      PositionAtRest, Frames
<1>2. OneInside'
  BY <1>0 DEF AllocateLoops, At, Goto, Inv, TypeOK, Points, OneInside
<1>3. Position'
  BY <1>0 DEF AllocateLoops, At, Goto, Inv, TypeOK, Points, OneInside,
      Position, PositionAtRest, Frames
<1>4. PositionAtRest'
  BY <1>0 DEF AllocateLoops, At, Goto, Inv, TypeOK, Points, OneInside,
      Position, PositionAtRest, Frames
<1>5. Scan'
  <2>1. last_allocated # start[t] =>
            Between(start[t], last_allocated) \subseteq bitmap
    BY <1>a DEF Between, Passed, Frames
  <2> QED
    BY <1>0, <1>a, <1>b, <1>c, <2>1 DEF Scan, Between, Passed
<1>6. OneHolder'
  BY <1>0 DEF AllocateLoops, At, Goto, Inv, TypeOK, Points, OneInside,
      Position, OneHolder, CarriedIsNotHeld, Carries
<1>7. OnlyUsable'
  BY <1>0 DEF AllocateLoops, At, Goto, Inv, TypeOK, Points, OneInside,
      Position, OnlyUsable, CarriedIsUsable, Carries, Frames
<1>8. CarriedIsNotHeld'
  BY <1>a, <1>d DEF Inv, CarriedIsNotHeld, OnlyUsable
<1>9. CarriedIsUsable'
  BY <1>a, <1>d DEF Inv, CarriedIsUsable
<1>10. Accounted'
  BY <1>a, <1>d DEF Inv, Accounted
<1>11. FoundIsFree'
  BY <1>0 DEF AllocateLoops, At, Goto, Inv, TypeOK, Points, OneInside,
      FoundIsFree
<1>12. NoFalsePanic'
  <2>1. last_allocated = start[t] => Frames \subseteq bitmap
    BY <1>a DEF Passed, Frames
  <2> QED
    BY <1>a, <1>b, <2>1 DEF Inv, TypeOK, Points, NoFalsePanic
<1> QED
  BY <1>1, <1>2, <1>3, <1>4, <1>5, <1>6, <1>7, <1>8, <1>9, <1>10, <1>11,
      <1>12 DEF Inv

\* The bit of the frame found is set: it is carried from now on.
LEMMA AllocateSetsInv ==
    ASSUME Inv, ~Preempt, NEW t \in Threads, AllocateSets(t)
    PROVE  Inv'
<1> USE PmmAssumption
<1>0. \A u \in Threads : u # t => pc[u] = "idle"
  BY DEF AllocateSets, At
<1>1. TypeOK'
  BY <1>0 DEF AllocateSets, At, Goto, Set, Inv, TypeOK, Points, Position,
      PositionAtRest, Frames
<1>2. OneInside'
  BY <1>0 DEF AllocateSets, At, Goto, Set, Inv, TypeOK, Points, OneInside
<1>3. Position'
  BY <1>0 DEF AllocateSets, At, Goto, Set, Inv, TypeOK, Points, OneInside,
      Position, PositionAtRest, Frames
<1>4. PositionAtRest'
  BY <1>0 DEF AllocateSets, At, Goto, Set, Inv, TypeOK, Points, OneInside,
      Position, PositionAtRest, Frames
<1>5. Scan'
  BY <1>0 DEF AllocateSets, At, Goto, Set, Inv, TypeOK, Points, OneInside,
      Position, PositionAtRest, Scan, Between, Passed, Frames
<1>6. OneHolder'
  BY <1>0 DEF AllocateSets, At, Goto, Set, Inv, TypeOK, Points, OneInside,
      Position, OneHolder, CarriedIsNotHeld, Carries
<1>7. OnlyUsable'
  BY <1>0 DEF AllocateSets, At, Goto, Set, Inv, TypeOK, Points, OneInside,
      Position, OnlyUsable, CarriedIsUsable, Carries, Frames
<1>8. CarriedIsNotHeld'
  BY <1>0 DEF AllocateSets, At, Goto, Set, Inv, TypeOK, Points, OneInside,
      Position, OneHolder, OnlyUsable, CarriedIsNotHeld, Accounted,
      FoundIsFree, Carries, Frames
<1>9. CarriedIsUsable'
  BY <1>0 DEF AllocateSets, At, Goto, Set, Inv, TypeOK, Points, OneInside,
      Position, OnlyUsable, CarriedIsUsable, Accounted, FoundIsFree, Carries,
      Frames
<1>10. Accounted'
  BY <1>0 DEF AllocateSets, At, Goto, Set, Inv, TypeOK, Points, OneInside,
      Position, OneHolder, CarriedIsNotHeld, CarriedIsUsable, Accounted,
      Carries, Frames
<1>11. FoundIsFree'
  BY <1>0 DEF AllocateSets, At, Goto, Set, Inv, TypeOK, Points, OneInside,
      FoundIsFree
<1>12. NoFalsePanic'
  BY <1>0 DEF AllocateSets, At, Goto, Set, Inv, TypeOK, Points, Scan, Passed,
      Accounted, Carries, NoFalsePanic, Frames
<1> QED
  BY <1>1, <1>2, <1>3, <1>4, <1>5, <1>6, <1>7, <1>8, <1>9, <1>10, <1>11,
      <1>12 DEF Inv

\* The frame carried is handed to the caller.
LEMMA AllocateReturnsInv ==
    ASSUME Inv, ~Preempt, NEW t \in Threads, AllocateReturns(t)
    PROVE  Inv'
<1> USE PmmAssumption
<1>0. \A u \in Threads : u # t => pc[u] = "idle"
  BY DEF AllocateReturns, At
<1>1. TypeOK'
  BY <1>0 DEF AllocateReturns, At, Goto, Inv, TypeOK, Points, Position,
      PositionAtRest, Frames
<1>2. OneInside'
  BY <1>0 DEF AllocateReturns, At, Goto, Inv, TypeOK, Points, OneInside
<1>3. Position'
  BY <1>0 DEF AllocateReturns, At, Goto, Inv, TypeOK, Points, OneInside,
      Position, PositionAtRest, Frames
<1>4. PositionAtRest'
  BY <1>0 DEF AllocateReturns, At, Goto, Inv, TypeOK, Points, OneInside,
      Position, PositionAtRest, Frames
<1>5. Scan'
  BY <1>0 DEF AllocateReturns, At, Goto, Inv, TypeOK, Points, OneInside,
      Position, PositionAtRest, Scan, Between, Passed, Frames
<1>6. OneHolder'
  BY <1>0 DEF AllocateReturns, At, Goto, Inv, TypeOK, Points, OneInside,
      Position, OneHolder, CarriedIsNotHeld, Carries
<1>7. OnlyUsable'
  BY <1>0 DEF AllocateReturns, At, Goto, Inv, TypeOK, Points, OneInside,
      Position, OnlyUsable, CarriedIsUsable, Carries, Frames
<1>8. CarriedIsNotHeld'
  BY <1>0 DEF AllocateReturns, At, Goto, Inv, TypeOK, Points, OneInside,
      Position, OneHolder, OnlyUsable, CarriedIsNotHeld, Accounted,
      FoundIsFree, Carries, Frames
<1>9. CarriedIsUsable'
  BY <1>0 DEF AllocateReturns, At, Goto, Inv, TypeOK, Points, OneInside,
      Position, OnlyUsable, CarriedIsUsable, Accounted, FoundIsFree, Carries,
      Frames
<1>10. Accounted'
  BY <1>0 DEF AllocateReturns, At, Goto, Inv, TypeOK, Points, OneInside,
      Position, OneHolder, CarriedIsNotHeld, CarriedIsUsable, Accounted,
      Carries, Frames
<1>11. FoundIsFree'
  BY <1>0 DEF AllocateReturns, At, Goto, Inv, TypeOK, Points, OneInside,
      FoundIsFree
<1>12. NoFalsePanic'
  BY <1>0 DEF AllocateReturns, At, Goto, Inv, TypeOK, Points, Scan, Passed,
      Accounted, Carries, NoFalsePanic, Frames
<1> QED
  BY <1>1, <1>2, <1>3, <1>4, <1>5, <1>6, <1>7, <1>8, <1>9, <1>10, <1>11,
      <1>12 DEF Inv

\* A caller gives up a frame that somebody holds.
LEMMA FreeStartsInv ==
    ASSUME Inv, ~Preempt, NEW t \in Threads, FreeStarts(t)
    PROVE  Inv'
<1> USE PmmAssumption
<1>0. \A u \in Threads : u # t => pc[u] = "idle"
  BY DEF FreeStarts, At
<1>1. TypeOK'
  BY <1>0 DEF FreeStarts, At, Goto, Inv, TypeOK, Points, Position,
      PositionAtRest, Frames
<1>2. OneInside'
  BY <1>0 DEF FreeStarts, At, Goto, Inv, TypeOK, Points, OneInside
<1>3. Position'
  BY <1>0 DEF FreeStarts, At, Goto, Inv, TypeOK, Points, OneInside, Position,
      PositionAtRest, Frames
<1>4. PositionAtRest'
  BY <1>0 DEF FreeStarts, At, Goto, Inv, TypeOK, Points, OneInside, Position,
      PositionAtRest, Frames
<1>5. Scan'
  BY <1>0 DEF FreeStarts, At, Goto, Inv, TypeOK, Points, OneInside, Position,
      PositionAtRest, Scan, Between, Passed, Frames
<1>6. OneHolder'
  BY <1>0 DEF FreeStarts, At, Goto, Inv, TypeOK, Points, OneInside, Position,
      OneHolder, CarriedIsNotHeld, Carries
<1>7. OnlyUsable'
  BY <1>0 DEF FreeStarts, At, Goto, Inv, TypeOK, Points, OneInside, Position,
      OnlyUsable, CarriedIsUsable, Carries, Frames
<1>8. CarriedIsNotHeld'
  BY <1>0 DEF FreeStarts, At, Goto, Inv, TypeOK, Points, OneInside, Position,
      OneHolder, OnlyUsable, CarriedIsNotHeld, Accounted, FoundIsFree,
      Carries, Frames
<1>9. CarriedIsUsable'
  BY <1>0 DEF FreeStarts, At, Goto, Inv, TypeOK, Points, OneInside, Position,
      OnlyUsable, CarriedIsUsable, Accounted, FoundIsFree, Carries, Frames
<1>10. Accounted'
  BY <1>0 DEF FreeStarts, At, Goto, Inv, TypeOK, Points, OneInside, Position,
      OneHolder, CarriedIsNotHeld, CarriedIsUsable, Accounted, Carries,
      Frames
<1>11. FoundIsFree'
  BY <1>0 DEF FreeStarts, At, Goto, Inv, TypeOK, Points, OneInside, FoundIsFree
<1>12. NoFalsePanic'
  BY <1>0 DEF FreeStarts, At, Goto, Inv, TypeOK, Points, Scan, Passed,
      Accounted, Carries, NoFalsePanic, Frames
<1> QED
  BY <1>1, <1>2, <1>3, <1>4, <1>5, <1>6, <1>7, <1>8, <1>9, <1>10, <1>11,
      <1>12 DEF Inv

\* Its bit is set, so that there is no panic.
LEMMA FreeChecksInv ==
    ASSUME Inv, ~Preempt, NEW t \in Threads, FreeChecks(t)
    PROVE  Inv'
<1> USE PmmAssumption
<1>0. \A u \in Threads : u # t => pc[u] = "idle"
  BY DEF FreeChecks, At
<1>a. /\ pc[t] = "check" /\ arg[t] \in Frames
      /\ UNCHANGED <<bitmap, last_allocated, start, arg, held>>
  BY DEF FreeChecks, At, Inv, TypeOK, Points
<1>b. arg[t] \in bitmap
  BY <1>a DEF Inv, Accounted, Carries
<1>c. pc' = [pc EXCEPT ![t] = "clear"] /\ panic' = panic
  BY <1>b DEF FreeChecks, Test, Goto
<1>d. \A u \in Threads, f \in Frames : Carries(u, f)' <=> Carries(u, f)
  BY <1>a, <1>c DEF Inv, TypeOK, Points, Carries
<1>1. TypeOK'
  BY <1>0 DEF FreeChecks, At, Goto, Test, Inv, TypeOK, Points, Position,
      PositionAtRest, Frames
<1>2. OneInside'
  BY <1>0 DEF FreeChecks, At, Goto, Test, Inv, TypeOK, Points, OneInside
<1>3. Position'
  BY <1>0 DEF FreeChecks, At, Goto, Test, Inv, TypeOK, Points, OneInside,
      Position, PositionAtRest, Frames
<1>4. PositionAtRest'
  BY <1>0 DEF FreeChecks, At, Goto, Test, Inv, TypeOK, Points, OneInside,
      Position, PositionAtRest, Frames
<1>5. Scan'
  BY <1>0 DEF FreeChecks, At, Goto, Test, Inv, TypeOK, Points, OneInside,
      Position, PositionAtRest, Scan, Between, Passed, Frames
<1>6. OneHolder'
  BY <1>0 DEF FreeChecks, At, Goto, Test, Inv, TypeOK, Points, OneInside,
      Position, OneHolder, CarriedIsNotHeld, Carries
<1>7. OnlyUsable'
  BY <1>0 DEF FreeChecks, At, Goto, Test, Inv, TypeOK, Points, OneInside,
      Position, OnlyUsable, CarriedIsUsable, Carries, Frames
<1>8. CarriedIsNotHeld'
  BY <1>a, <1>d DEF Inv, CarriedIsNotHeld, OnlyUsable
<1>9. CarriedIsUsable'
  BY <1>a, <1>d DEF Inv, CarriedIsUsable
<1>10. Accounted'
  BY <1>a, <1>d DEF Inv, Accounted
<1>11. FoundIsFree'
  BY <1>0 DEF FreeChecks, At, Goto, Test, Inv, TypeOK, Points, OneInside,
      FoundIsFree
<1>12. NoFalsePanic'
  BY <1>0 DEF FreeChecks, At, Goto, Test, Inv, TypeOK, Points, Scan, Passed,
      Accounted, Carries, NoFalsePanic, Frames
<1> QED
  BY <1>1, <1>2, <1>3, <1>4, <1>5, <1>6, <1>7, <1>8, <1>9, <1>10, <1>11,
      <1>12 DEF Inv

\* The bit is cleared and nobody carries the frame any more.
LEMMA FreeClearsInv ==
    ASSUME Inv, ~Preempt, NEW t \in Threads, FreeClears(t)
    PROVE  Inv'
<1> USE PmmAssumption
<1>0. \A u \in Threads : u # t => pc[u] = "idle"
  BY DEF FreeClears, At
<1>1. TypeOK'
  <2>1. 0 \in Frames
    BY DEF Frames
  <2> QED
    BY <2>1 DEF FreeClears, At, Goto, Clear, Inv, TypeOK, Points
<1>2. OneInside'
  BY <1>0 DEF FreeClears, At, Goto, Clear, Inv, TypeOK, Points, OneInside
<1>3. Position'
  BY <1>0 DEF FreeClears, At, Goto, Clear, Inv, TypeOK, Points, OneInside,
      Position, PositionAtRest, Frames
<1>4. PositionAtRest'
  BY <1>0 DEF FreeClears, At, Goto, Clear, Inv, TypeOK, Points, OneInside,
      Position, PositionAtRest, Frames
<1>5. Scan'
  BY <1>0 DEF FreeClears, At, Goto, Clear, Inv, TypeOK, Points, OneInside,
      Position, PositionAtRest, Scan, Between, Passed, Frames
<1>6. OneHolder'
  BY <1>0 DEF FreeClears, At, Goto, Clear, Inv, TypeOK, Points, OneInside,
      Position, OneHolder, CarriedIsNotHeld, Carries
<1>7. OnlyUsable'
  BY <1>0 DEF FreeClears, At, Goto, Clear, Inv, TypeOK, Points, OneInside,
      Position, OnlyUsable, CarriedIsUsable, Carries, Frames
<1>8. CarriedIsNotHeld'
  BY <1>0 DEF FreeClears, At, Goto, Clear, Inv, TypeOK, Points, OneInside,
      Position, OneHolder, OnlyUsable, CarriedIsNotHeld, Accounted,
      FoundIsFree, Carries, Frames
<1>9. CarriedIsUsable'
  BY <1>0 DEF FreeClears, At, Goto, Clear, Inv, TypeOK, Points, OneInside,
      Position, OnlyUsable, CarriedIsUsable, Accounted, FoundIsFree, Carries,
      Frames
<1>10. Accounted'
  BY <1>0 DEF FreeClears, At, Goto, Clear, Inv, TypeOK, Points, OneInside,
      Position, OneHolder, CarriedIsNotHeld, CarriedIsUsable, Accounted,
      Carries, Frames
<1>11. FoundIsFree'
  BY <1>0 DEF FreeClears, At, Goto, Clear, Inv, TypeOK, Points, OneInside,
      FoundIsFree
<1>12. NoFalsePanic'
  BY <1>0 DEF FreeClears, At, Goto, Clear, Inv, TypeOK, Points, Scan, Passed,
      Accounted, Carries, NoFalsePanic, Frames
<1> QED
  BY <1>1, <1>2, <1>3, <1>4, <1>5, <1>6, <1>7, <1>8, <1>9, <1>10, <1>11,
      <1>12 DEF Inv

-----------------------------------------------------------------------------
(* The theorems. *)

\* The invariant is inductive for callers one at a time.
LEMMA NextInv ==
    ASSUME Inv, ~Preempt, [Next]_vars
    PROVE  Inv'
<1>1. CASE UNCHANGED vars
  <2>1. (/\ OneHolder /\ OnlyUsable /\ CarriedIsNotHeld /\ CarriedIsUsable
         /\ Accounted /\ FoundIsFree /\ NoFalsePanic)'
    BY <1>1
    DEF vars, Inv, OneHolder, OnlyUsable, CarriedIsNotHeld, CarriedIsUsable,
        Carries, Accounted, FoundIsFree, NoFalsePanic
  <2>2. (TypeOK /\ OneInside /\ Position /\ PositionAtRest /\ Scan)'
    BY <1>1
    DEF vars, Inv, TypeOK, Points, OneInside, Position, PositionAtRest, Scan
  <2> QED
    BY <2>1, <2>2 DEF Inv
<1>2. CASE Next
  <2>1. PICK t \in Threads : Allocate(t) \/ Free(t)
    BY <1>2 DEF Next
  <2>2. CASE Allocate(t)
    BY <2>2, AllocateStartsInv, AllocateTestsInv, AllocateAdvancesInv,
       AllocateWrapsInv, AllocateLoopsInv, AllocateSetsInv, AllocateReturnsInv
    DEF Allocate
  <2>3. CASE Free(t)
    BY <2>3, FreeStartsInv, FreeChecksInv, FreeClearsInv DEF Free
  <2> QED
    BY <2>1, <2>2, <2>3
<1> QED
  BY <1>1, <1>2

\* The invariant holds when callers run one at a time.
THEOREM Invariance == ASSUME ~Preempt PROVE Spec => []Inv
<1>1. Init => Inv
  BY InitInv
<1>2. Inv /\ [Next]_vars => Inv'
  BY NextInv
<1> QED
  BY <1>1, <1>2, PTL DEF Spec

\* Every variable stays in its range.
THEOREM TypeCorrect == ASSUME ~Preempt PROVE Spec => []TypeOK
<1>1. Inv => TypeOK
  BY DEF Inv
<1> QED
  BY <1>1, Invariance, PTL

\* allocateFrame and freeFrame: no frame ever has two holders.
THEOREM FrameHasOneHolder == ASSUME ~Preempt PROVE Spec => []OneHolder
<1>1. Inv => OneHolder
  BY DEF Inv
<1> QED
  BY <1>1, Invariance, PTL

\* allocateFrame hands out usable memory that the bitmap covers, only.
THEOREM FramesAreUsable == ASSUME ~Preempt PROVE Spec => []OnlyUsable
<1>1. Inv => OnlyUsable
  BY DEF Inv
<1> QED
  BY <1>1, Invariance, PTL

\* The bits that are set are those of unusable memory, of the frames held and
\* of the frame on its way: none leaks.
THEOREM NoFrameIsLost == ASSUME ~Preempt PROVE Spec => []NoFrameLost
<1>1. Inv => NoFrameLost
  <2>1. ASSUME Inv, NEW f, f \in bitmap
        PROVE  f \in (Frames \ Usable)
                   \cup ((UNION {held[t] : t \in Threads}) \cup InTransit)
    <3>1. f \in Frames
      BY <2>1 DEF Inv, TypeOK
    <3>2. CASE f \notin Usable
      BY <3>1, <3>2
    <3>3. CASE \E t \in Threads : f \in held[t]
      BY <3>3
    <3>4. CASE \E t \in Threads : Carries(t, f)
      <4>1. f \in InTransit
        BY <3>1, <3>4, Zenon DEF InTransit, Carries
      <4> QED
        BY <4>1
    <3> QED
      BY <2>1, <3>1, <3>2, <3>3, <3>4 DEF Inv, Accounted
  <2>2. ASSUME Inv, NEW f, f \in UNION {held[t] : t \in Threads}
        PROVE  f \in bitmap
    BY <2>2 DEF Inv, TypeOK, Points, Accounted
  <2>3. ASSUME Inv, NEW f, f \in InTransit
        PROVE  f \in bitmap
    <3>1. PICK t \in Threads : Carries(t, f)
      BY <2>3 DEF InTransit, Carries
    <3>2. f \in Frames
      BY <2>3, <3>1 DEF Inv, TypeOK, Points, Position, Carries
    <3> QED
      BY <2>3, <3>1, <3>2 DEF Inv, Accounted
  <2>4. ASSUME Inv, NEW f \in Frames \ Usable
        PROVE  f \in bitmap
    BY <2>4 DEF Inv, Accounted
  <2>5. SUFFICES ASSUME Inv PROVE NoFrameLost
    OBVIOUS
  <2> DEFINE Taken == (Frames \ Usable)
                          \cup ((UNION {held[t] : t \in Threads}) \cup InTransit)
  <2>6. \A f : f \in bitmap <=> f \in Taken
    <3>1. ASSUME NEW f, f \in Taken PROVE f \in bitmap
      <4>1. \/ f \in Frames \ Usable
            \/ f \in UNION {held[t] : t \in Threads}
            \/ f \in InTransit
        BY <3>1
      <4> QED
        BY <2>2, <2>3, <2>4, <2>5, <4>1
    <3>2. ASSUME NEW f, f \in bitmap PROVE f \in Taken
      BY <2>1, <2>5, <3>2
    <3> QED
      BY <3>1, <3>2
  <2>7. bitmap = Taken
    BY <2>6
  <2> QED
    BY <2>7 DEF NoFrameLost
<1> QED
  BY <1>1, Invariance, PTL

\* static_bitmap.hpp, free(): the panic "double free" is not reached by
\* callers that free what they hold.
THEOREM DoubleFreeIsNotReached == ASSUME ~Preempt PROVE Spec => []NoDoubleFree
<1>1. Inv => NoDoubleFree
  BY DEF Inv, NoFalsePanic, NoDoubleFree
<1> QED
  BY <1>1, Invariance, PTL

\* static_bitmap.hpp, allocate(): the panic "out of memory" is reached only
\* with every bit set, wherever the cyclic scan has started.
THEOREM OutOfMemoryMeansFull == ASSUME ~Preempt PROVE Spec => []OutOfMemoryIsReal
<1>1. Inv => OutOfMemoryIsReal
  BY DEF Inv, NoFalsePanic, OutOfMemoryIsReal
<1> QED
  BY <1>1, Invariance, PTL

-----------------------------------------------------------------------------
(* Pmm implements FrameAllocator. *)

\* The frames FrameAllocator says each caller holds.
Holding == [t \in Threads |->
               held[t] \cup (IF pc[t] = "return" THEN {last_allocated} ELSE {})]

\* The refinement mapping of FrameAllocator's variables.
Mapped == <<Frames \ bitmap, Holding, panic = "out of memory">>

\* The step of FrameAllocator, at each step of Pmm.
LEMMA MemoryStep ==
    ASSUME Inv, ~Preempt, NEW t \in Threads, Allocate(t) \/ Free(t)
    PROVE  [Memory!Next]_Mapped
<1>0. /\ \A u \in Threads : u # t => pc[u] = "idle"
      /\ panic = "none"
  BY DEF Allocate, AllocateStarts, AllocateTests, AllocateAdvances,
         AllocateWraps, AllocateLoops, AllocateSets, AllocateReturns, Free,
         FreeStarts, FreeChecks, FreeClears, At
<1>a. ASSUME held' = held, bitmap' = bitmap,
             (panic' = "out of memory") <=> (panic = "out of memory"),
             \A u \in Threads : pc[u] # "return" /\ pc'[u] # "return"
      PROVE  UNCHANGED Mapped
  BY <1>a DEF Mapped, Holding
<1>1. CASE \/ AllocateStarts(t) \/ AllocateTests(t) \/ AllocateAdvances(t)
           \/ AllocateWraps(t)
  <2>1. /\ bitmap' = bitmap /\ held' = held /\ panic' = panic
        /\ \A u \in Threads : pc[u] # "return" /\ pc'[u] # "return"
    BY <1>0, <1>1
    DEF Inv, TypeOK, AllocateStarts, AllocateTests, AllocateAdvances,
        AllocateWraps, At, Goto
  <2> QED
    BY <1>a, <2>1
<1>2. CASE AllocateLoops(t)
  <2>1. /\ bitmap' = bitmap /\ held' = held
        /\ \A u \in Threads : pc[u] # "return" /\ pc'[u] # "return"
    BY <1>0, <1>2 DEF Inv, TypeOK, AllocateLoops, At, Goto
  <2>2. CASE panic' = panic
    BY <1>a, <2>1, <2>2
  <2>3. CASE panic' = "out of memory"
    <3>1. Inv'
      BY <1>2, AllocateLoopsInv
    <3>2. Frames \ bitmap = {}
      BY <2>1, <2>3, <3>1 DEF Inv, NoFalsePanic
    <3>3. Holding' = Holding
      BY <2>1 DEF Holding
    <3>4. Memory!Fail
      BY <2>1, <2>3, <3>2, <3>3 DEF Memory!Fail, Holding
    <3> QED
      BY <3>4 DEF Memory!Next
  <2> QED
    BY <1>2, <2>2, <2>3 DEF AllocateLoops
<1>3. CASE AllocateSets(t)
  <2>1. /\ pc[t] = "set" /\ pc' = [pc EXCEPT ![t] = "return"]
        /\ last_allocated' = last_allocated /\ held' = held /\ panic' = panic
    BY <1>3 DEF AllocateSets, At, Goto
  <2>2. last_allocated \in (Frames \cap Usable) \ bitmap
    BY <2>1 DEF Inv, TypeOK, Position, FoundIsFree, Accounted
  <2>3. bitmap' = bitmap \cup {last_allocated}
    BY <1>3, <2>2, PmmAssumption DEF AllocateSets, Set, Frames
  <2>4. Frames \ bitmap' = (Frames \ bitmap) \ {last_allocated}
    BY <2>3
  <2>5. Holding' = [Holding EXCEPT ![t] = @ \cup {last_allocated}]
    <3>1. ASSUME NEW u \in Threads
          PROVE  Holding'[u] = [Holding EXCEPT ![t] = @ \cup {last_allocated}][u]
      BY <1>0, <2>1 DEF Holding, Inv, TypeOK
    <3> QED
      BY <3>1 DEF Holding
  <2>6. PICK f : f = last_allocated
    OBVIOUS
  <2>7. Memory!Take(t, f)
    BY <1>0, <2>1, <2>2, <2>4, <2>5, <2>6 DEF Memory!Take, Holding
  <2> QED
    BY <2>2, <2>6, <2>7 DEF Memory!Next
<1>4. CASE AllocateReturns(t)
  <2>1. /\ pc[t] = "return" /\ pc' = [pc EXCEPT ![t] = "idle"]
        /\ held' = [held EXCEPT ![t] = @ \cup {last_allocated}]
        /\ UNCHANGED <<bitmap, last_allocated, panic>>
    BY <1>4 DEF AllocateReturns, At, Goto
  <2>2. ASSUME NEW u \in Threads PROVE Holding'[u] = Holding[u]
    BY <1>0, <2>1 DEF Holding, Inv, TypeOK
  <2>3. Holding' = Holding
    BY <2>2 DEF Holding
  <2> QED
    BY <2>1, <2>3 DEF Mapped
<1>5. CASE FreeStarts(t)
  <2>a. PICK u \in Threads : \E f \in held[u] :
            held' = [held EXCEPT ![u] = @ \ {f}]
    BY <1>5 DEF FreeStarts
  <2>1. PICK f \in held[u] : held' = [held EXCEPT ![u] = @ \ {f}]
    BY <2>a
  <2>2. /\ pc[t] = "idle" /\ pc' = [pc EXCEPT ![t] = "check"]
        /\ UNCHANGED <<bitmap, last_allocated, panic>>
    BY <1>5 DEF FreeStarts, At, Goto
  <2>3. \A v \in Threads : pc[v] # "return" /\ pc'[v] # "return"
    BY <1>0, <2>2 DEF Inv, TypeOK
  <2>4. Holding = held /\ Holding' = held'
    BY <2>1, <2>3 DEF Holding, Inv, TypeOK
  <2>5. f \in Frames \cap Usable
    BY DEF Inv, OnlyUsable
  <2>6. Memory!GiveUp(u, f)
    BY <1>0, <2>1, <2>2, <2>4 DEF Memory!GiveUp, Holding
  <2> QED
    BY <2>5, <2>6 DEF Memory!Next
<1>6. CASE FreeChecks(t)
  <2>1. bitmap' = bitmap /\ held' = held /\ (panic' # "out of memory")
    BY <1>0, <1>6 DEF FreeChecks
  <2>2. \A u \in Threads : pc[u] # "return" /\ pc'[u] # "return"
    BY <1>0, <1>6 DEF FreeChecks, At, Goto, Inv, TypeOK
  <2> QED
    BY <1>0, <1>a, <2>1, <2>2
<1>7. CASE FreeClears(t)
  <2> DEFINE f == arg[t]
  <2>1. /\ pc[t] = "clear" /\ pc' = [pc EXCEPT ![t] = "idle"]
        /\ bitmap' = bitmap \ {f}
        /\ UNCHANGED <<held, last_allocated, panic>>
    BY <1>7 DEF FreeClears, At, Goto, Clear
  <2>2. f \in Frames /\ Carries(t, f)
    BY <2>1 DEF Inv, TypeOK, Carries
  <2>3. f \in Usable /\ f \in bitmap /\ \A u \in Threads : f \notin held[u]
    BY <2>2 DEF Inv, CarriedIsUsable, CarriedIsNotHeld, Accounted
  <2>4. \A u \in Threads : pc[u] # "return" /\ pc'[u] # "return"
    BY <1>0, <2>1 DEF Inv, TypeOK
  <2>5. Holding = held /\ Holding' = held'
    BY <2>1, <2>4 DEF Holding, Inv, TypeOK
  <2>6. Frames \ bitmap' = (Frames \ bitmap) \cup {f}
    BY <2>1, <2>2
  <2> HIDE DEF f
  <2>7. Memory!Release(f)
    BY <1>0, <2>1, <2>2, <2>3, <2>5, <2>6 DEF Memory!Release, Holding
  <2> QED
    BY <2>2, <2>3, <2>7 DEF Memory!Next
<1> QED
  BY <1>1, <1>2, <1>3, <1>4, <1>5, <1>6, <1>7 DEF Allocate, Free

\* allocateFrame and freeFrame implement FrameAllocator: a frame handed out
\* was free, one freed had a holder who gave it up, and failure is honest.
THEOREM PmmImplementsFrameAllocator ==
    ASSUME ~Preempt PROVE Spec => ImplementsFrameAllocator
<1>1. Init => Memory!Init
  <2>1. SUFFICES ASSUME Init PROVE Memory!Init
    OBVIOUS
  <2>2. Frames \ bitmap = Frames \cap Usable
    BY <2>1 DEF Init
  <2> QED
    BY <2>1, <2>2 DEF Init, Memory!Init
<1>2. Inv /\ [Next]_vars => [Memory!Next]_Mapped
  <2>1. SUFFICES ASSUME Inv, [Next]_vars PROVE [Memory!Next]_Mapped
    OBVIOUS
  <2>2. CASE UNCHANGED vars
    BY <2>2 DEF vars, Mapped, Holding
  <2>3. CASE Next
    BY <2>1, <2>3, MemoryStep DEF Next
  <2> QED
    BY <2>1, <2>2, <2>3
<1> QED
  BY <1>1, <1>2, Invariance, PTL
  DEF Spec, ImplementsFrameAllocator, Memory!Spec, Mapped, Holding

=============================================================================
