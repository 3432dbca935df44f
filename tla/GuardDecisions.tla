--------------------------- MODULE GuardDecisions ---------------------------
(***************************************************************************)
(* What the hooks of the native guards decide about one event, as pure     *)
(* functions of the event: the pointer of mouse_guard.rs, the shortcuts of *)
(* input_guard.rs, the foreground window of focus_guard.rs and the owner   *)
(* of the clipboard of clipboard_guard.rs.                                 *)
(***************************************************************************)
EXTENDS Integers

MaxI32 == 2147483647
MinI32 == -2147483647 - 1

Saturated(n) == IF n > MaxI32 THEN MaxI32 ELSE IF n < MinI32 THEN MinI32 ELSE n

I32 == MinI32..MaxI32
Point == [x : I32, y : I32]
Bounds == [left : I32, top : I32, right : I32, bottom : I32]

ClipBounds(monitor) ==
    [left |-> monitor.x, top |-> monitor.y,
     right |-> Saturated(monitor.x + monitor.width),
     bottom |-> Saturated(monitor.y + monitor.height)]

Empty(b) == b.right =< b.left \/ b.bottom =< b.top

Within(p, b) == p.x \in b.left .. b.right - 1 /\ p.y \in b.top .. b.bottom - 1

Clamped(n, low, high) == IF n < low THEN low ELSE IF n > high THEN high ELSE n

(* Mutant: the right and bottom edges count as inside *)
ClampPointInclusive(p, b) ==
    IF Empty(b) THEN p
    ELSE [x |-> Clamped(p.x, b.left, b.right), y |-> Clamped(p.y, b.top, b.bottom)]

(* Where the pointer ends up: bounds without area let it pass *)
ClampPoint(p, b) ==
    IF Empty(b) THEN p
    ELSE [x |-> Clamped(p.x, b.left, b.right - 1),
          y |-> Clamped(p.y, b.top, b.bottom - 1)]

(* Each key that is kept from Windows, with the modifiers that must be held *)
Shortcuts ==
    [key : {"PrintScreen", "LWin", "RWin", "Apps"}, held : {{}}]
        \cup [key : {"C", "V", "X", "Insert"}, held : {{"ctrl"}}]
        \cup [key : {"Tab"}, held : {{"alt"}, {"win"}}]
        \cup [key : {"Escape"}, held : {{"alt"}, {"ctrl"}}]
        \cup [key : {"F4"}, held : {{"alt"}}]
        \cup [key : {"D"}, held : {{"win"}}]
        \cup [key : {"S"}, held : {{"win", "shift"}}]
        \cup [key : {"Insert"}, held : {{"shift"}}]
        \cup [key : {"F12"}, held : {{"ctrl", "shift"}}]

(* A developer's escape exempts Ctrl+Shift+F12 *)
BlocksShortcut(stroke, devEscape) ==
    \E s \in Shortcuts :
        /\ s.key = stroke.key
        /\ s.held \subseteq stroke.held
        /\ ~ (devEscape /\ s.key = "F12")

ShouldRestoreFocus(active, target, foreground, valid, none) ==
    active /\ valid /\ target # none /\ foreground # target

ShouldClearFor(owner, allowed) == owner \notin allowed

ThreadHealthy(present, active, finished) == present /\ active /\ ~ finished
=============================================================================
