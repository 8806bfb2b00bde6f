---- MODULE Machine ----
(***************************************************************************)
(* Three parts of the kernel around its processes, side by side: a run     *)
(* chooses one, and the others rest.  They share no state: the characters  *)
(* that the keyboard echoes to the screen are any, at any time.            *)
(***************************************************************************)
EXTENDS Keyboard, Console, AddressSpaces

VARIABLE chosen

machineVars == <<chosen, keyboardVars, consoleVars, spacesVars>>

Init == /\ chosen \in {"keyboard", "screen", "spaces"}
        /\ KeyboardInit /\ ConsoleInit /\ SpacesInit
        /\ chosen = "spaces" \/ image[1] = Least(Images)

UsesKeyboard ==
  chosen = "keyboard" /\ KeyboardNext /\ UNCHANGED <<chosen, consoleVars, spacesVars>>
UsesScreen ==
  chosen = "screen" /\ ConsoleNext /\ UNCHANGED <<chosen, keyboardVars, spacesVars>>
UsesSpaces ==
  chosen = "spaces" /\ SpacesNext /\ UNCHANGED <<chosen, keyboardVars, consoleVars>>

Next == UsesKeyboard \/ UsesScreen \/ UsesSpaces
Spec == Init /\ [][Next]_machineVars
====
