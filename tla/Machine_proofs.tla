----------------------------- MODULE Machine_proofs -----------------------------
(***************************************************************************)
(* Theorems about Machine: the keyboard, the screen and the address spaces *)
(* keep what they promise, whatever the constants.  Each rests on the      *)
(* invariant of its part, which the other parts do not touch.              *)
(***************************************************************************)
EXTENDS Machine, Devices_proofs, AddressSpaces_proofs

\* The screen's invariant holds in every state of the machine.
THEOREM ScreenInvariant == Spec => []ConsoleInv
<1>1. Init => ConsoleInv
  BY ConsoleInitInv DEF Init
<1>2. ConsoleInv /\ [Next]_machineVars => ConsoleInv'
  <2>1. [Next]_machineVars => [ConsoleNext]_consoleVars
    BY DEF Next, UsesKeyboard, UsesScreen, UsesSpaces, machineVars
  <2> QED
    BY <2>1, ConsoleNextInv
<1> QED
  BY <1>1, <1>2, PTL DEF Spec

\* No character is drawn outside the frame buffer (framebuffer.cpp), at any size of
\* the screen and of the glyphs.
THEOREM PixelsStayInside == Spec => []PixelsInside
  BY ScreenInvariant, ConsoleInvShows, PTL

\* What is written is what is shown: an escape sequence changes the colour of what
\* follows and no character of it is drawn (print.cpp).
THEOREM TextIsShown == Spec => []TextShown
  BY ScreenInvariant, ConsoleInvShows, PTL

\* The keyboard's invariant holds in every state of the machine.
THEOREM KeyboardInvariant == Spec => []KeyboardInv
<1>1. Init => KeyboardInv
  BY KeyboardInitInv DEF Init
<1>2. KeyboardInv /\ [Next]_machineVars => KeyboardInv'
  <2>1. [Next]_machineVars => [KeyboardNext]_keyboardVars
    BY DEF Next, UsesKeyboard, UsesScreen, UsesSpaces, machineVars
  <2> QED
    BY <2>1, KeyboardNextInv
<1> QED
  BY <1>1, <1>2, PTL DEF Spec

\* A start that reports success left the keyboard in scancode set 2, without
\* translation and with no answer under way, and only a key typed meanwhile can make
\* it fail (ps2kbd.cpp).
THEOREM KeyboardIsReady == Spec => []KeyboardReady
  BY KeyboardInvariant, KeyboardInvShows, PTL

\* Keys arrive at a reader in order, each once and with the shift of its time, wherever
\* the interrupt falls in dequeue (queue.hpp), for every size of the ring.
THEOREM KeysStayInOrder == Spec => []KeysArriveInOrder
  BY KeyboardInvariant, KeyboardInvShows, PTL

\* The invariant of the address spaces holds in every state of the machine.
THEOREM SpacesInvariant == Spec => []SpacesInv
<1>1. Init => SpacesInv
  BY SpacesInitInv DEF Init
<1>2. SpacesInv /\ [Next]_machineVars => SpacesInv'
  <2>1. [Next]_machineVars => [SpacesNext]_spacesVars
    BY DEF Next, UsesKeyboard, UsesScreen, UsesSpaces, machineVars
  <2> QED
    BY <2>1, SpacesNextInv
<1> QED
  BY <1>1, <1>2, PTL DEF Spec

\* Whatever fork, exec, lastpg and the undertaker do in turn, every process has the
\* pages of its image, heap and stack, the tables that lead to them and no others, and
\* no frame is free while it is used or used twice (pml4t.cpp, page.cpp, procheap.cpp).
THEOREM SpacesStayWhole == Spec => []SpacesWhole
  BY SpacesInvariant, SpacesInvShows, PTL

\* The root of the tables the CPU uses is free only inside exec, between switchPml4t and
\* loadPml4t (exec.cpp).
THEOREM LoadedTablesStay == Spec => []LoadedTablesStand
  BY SpacesInvariant, SpacesInvShows, PTL

\* Frames are lost by lastpg, one for each page it takes back, by an exec that fails,
\* which loses its root, and by a burial, which loses the space; never otherwise
\* (procheap.cpp, exec.cpp, scheduler.cpp).
THEOREM FramesAreLostOnlyWhen == Spec => FramesLostOnlyWhen
<1>1. SpacesInv /\ SpacesInv' /\ [Next]_machineVars => [LostOnlyWhen]_spacesVars
  <2>1. [Next]_machineVars => [SpacesNext]_spacesVars
    BY DEF Next, UsesKeyboard, UsesScreen, UsesSpaces, machineVars
  <2> QED
    BY <2>1, SpacesNextLoses
<1>2. FramesLostOnlyWhen <=> [][LostOnlyWhen]_spacesVars
  BY DEF FramesLostOnlyWhen, LostOnlyWhen
<1> QED
  BY <1>1, <1>2, SpacesInvariant, PTL DEF Spec

=============================================================================
