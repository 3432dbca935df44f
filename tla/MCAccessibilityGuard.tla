------------------------ MODULE MCAccessibilityGuard ------------------------
(***************************************************************************)
(* TLC instance of AccessibilityGuard.  No state bound is needed: every    *)
(* variable ranges over a finite set once Values does.  Three values let   *)
(* a stale snapshot differ both from the live setting and from Off, which  *)
(* the user may have chosen as well.                                       *)
(***************************************************************************)
EXTENDS AccessibilityGuard, TLC

CONSTANTS on, confirm, hotkeyOff

MCValues == {on, confirm, hotkeyOff}

(* on and confirm are interchangeable; Off is told apart by the code. *)
Symmetry == Permutations({on, confirm})
=============================================================================
