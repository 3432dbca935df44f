-------------------------- MODULE NativeGuardProofs --------------------------
(***************************************************************************)
(* The guards of the native layer, each a component of its own: first one  *)
(* guard with a hook thread (HookGuards), then the accessibility guard     *)
(* (AccessibilityGuard).  They share no state and no fact.                 *)
(*                                                                         *)
(* Of a hook guard, for every number of threads, windows, monitors, points *)
(* and strokes: one that says it is active has one hook in force, one that *)
(* says it is off has left nothing, and what the hook is for is kept from  *)
(* happening.  The invariant, IInv, follows the one thread that may be     *)
(* alive, current, through the call that spawned it and the calls after.   *)
(*                                                                         *)
(* Of the accessibility guard, for every set of setting values: no crash,  *)
(* failed call or failed cleanup loses the user's settings.  What makes    *)
(* UserChoiceRecoverable inductive (AccessibilityIInv): a pending backup   *)
(* holds the user's choices (BackupIsUsers), the snapshot being applied is *)
(* the one in the file (WorkIsBackedUp), and apply_snapshot has already    *)
(* put back every setting it is past (ProgressMade), so that the file is   *)
(* removed only when nothing depends on it.                                *)
(***************************************************************************)
EXTENDS HookGuards, AccessibilityGuard, TLAPS

Rest == {"idle", "storing", "checking"}
Hooked == {"hooked", "loop", "waiting", "clearing", "leaving"}
Looping == {"loop", "waiting", "clearing"}

\* Only the thread spawned last may be alive, and only while it is accounted for.
OneThread ==
    /\ \A t \in Threads : thread[t].at # "ended" => t = current
    /\ handle # NoThread => handle = current /\ call \in Rest
    /\ call \in Rest /\ handle = NoThread => \A t \in Threads : thread[t].at = "ended"
    /\ call \notin Rest => current \in Threads

\* Hooks, flag and window are those of a thread that is alive.
Signals ==
    /\ hooks = {t \in Threads : thread[t].at \in Hooked}
    /\ active => \E t \in Threads : thread[t].at \in Hooked \cup {"unhooked"}
    /\ target # Desktop => kind = "focus" /\ \E t \in Threads : thread[t].at \in Hooked
    /\ call \in Rest \cup {"starting"} =>
          \A t \in Threads : thread[t].at \in Looping =>
             active /\ (kind = "focus" => target = wanted)

\* What the last call answered is remembered with the thread.
Answered ==
    /\ call = "idle" /\ told \in {"off", "failed", "fallback"} => handle = NoThread
    /\ call = "idle" /\ told = "hook" => handle # NoThread

\* The window is in front, or the last event on its way will bring it there.
FocusKept ==
    kind = "focus" /\ call \in Rest \cup {"starting"} =>
       \A t \in Threads : thread[t].at \in Looping =>
          \/ foreground = target \/ target \notin windows \/ denied
          \/ raised # <<>> /\ raised[Len(raised)] # target

\* Foreign content is known, or its update is on its way.
ClipboardKept ==
    kind = "clipboard" /\ content = "other" /\ ~ overlooked =>
       \A t \in Threads :
          /\ thread[t].at # "born"
          /\ thread[t].at \in {"hooked", "loop", "waiting"} => update

\* The type invariant, by what proves it: threads, flags and the other values.
ThreadTypes == thread \in [Threads -> ThreadState]

FlagTypes ==
    /\ active \in BOOLEAN /\ clip \in BOOLEAN /\ clipped \in BOOLEAN
    /\ denied \in BOOLEAN /\ update \in BOOLEAN /\ overlooked \in BOOLEAN

ValueTypes ==
    /\ kind \in Kinds
    /\ call \in {"idle", "storing", "checking", "stopping", "starting",
                 "late", "failing", "removing"}
    /\ told \in {"hook", "fallback", "failed", "skipped", "off"}
    /\ handle \in Threads \cup {NoThread}
    /\ current \in Threads \cup {NoThread}
    /\ ready \in {"none", "ok", "err"}
    /\ wanted \in Windows \cup {Desktop}
    /\ hooks \subseteq Threads
    /\ target \in Windows \cup {Desktop}
    /\ bounds \in Bounds
    /\ windows \subseteq Windows
    /\ foreground \in Windows \cup {Desktop}
    /\ raised \in Seq(Windows \cup {Desktop})
    /\ content \in {"none", "exam", "other"}
    /\ pointer \in Point
    /\ delivered \in Strokes \cup {NoStroke}

IInv == TypeOK /\ OneThread /\ Signals /\ Answered /\ FocusKept /\ ClipboardKept

-----------------------------------------------------------------------------
\* A sequence whose last element differs from its first keeps it in its tail.
LEMMA LastOfTail ==
    ASSUME NEW S, NEW s \in Seq(S), s # <<>>, s[Len(s)] # Head(s)
    PROVE  Len(s) > 1 /\ Tail(s) # <<>> /\ Tail(s)[Len(Tail(s))] = s[Len(s)]
<1>1. Len(s) \in Nat /\ Len(s) # 0 /\ Head(s) = s[1]
  OBVIOUS
<1>2. Len(s) > 1
  BY <1>1
<1>3. Tail(s) \in Seq(S) /\ Len(Tail(s)) = Len(s) - 1
  BY <1>1
<1>4. \A i \in 1 .. Len(s) - 1 : Tail(s)[i] = s[i + 1]
  BY <1>1
<1>5. Tail(s)[Len(s) - 1] = s[Len(s)]
  BY <1>1, <1>2, <1>4
<1>6. Tail(s) # <<>>
  <2>1. Len(<<>>) = 0
    OBVIOUS
  <2>2. Len(Tail(s)) # 0
    BY <1>1, <1>2, <1>3
  <2> QED
    BY <2>1, <2>2, Zenon
<1> QED
  BY <1>2, <1>3, <1>5, <1>6

LEMMA I32Limits == MinI32 \in Int /\ MaxI32 \in Int /\ MinI32 =< 0 /\ 0 =< MaxI32
BY SMT DEF MaxI32, MinI32

LEMMA I32IsInt ==
    /\ I32 \subseteq Int /\ 0 \in I32
    /\ \A n \in Int, x \in I32, y \in I32 : x =< n /\ n =< y => n \in I32
    /\ \A n \in Int : Saturated(n) \in I32
BY I32Limits DEF I32, Saturated

\* The edges of a monitor are 32-bit, whatever it reports.
LEMMA ClipBoundsAreBounds ==
    ASSUME NEW m \in Monitors
    PROVE  ClipBounds(m) \in Bounds
<1>1. m.x \in I32 /\ m.y \in I32 /\ m.width \in I32 /\ m.height \in I32
  BY MonitorsAssumption
<1>2. m.x \in Int /\ m.y \in Int /\ m.width \in Int /\ m.height \in Int
  BY <1>1, I32IsInt
<1>3. m.x + m.width \in Int /\ m.y + m.height \in Int
  BY <1>2
<1> QED
  BY <1>1, <1>3, I32IsInt DEF ClipBounds, Bounds

\* A clamped pointer is a point, and is inside bounds that have an inside.
LEMMA ClampedInside ==
    ASSUME NEW p \in Point, NEW b \in Bounds
    PROVE  /\ ClampPoint(p, b) \in Point
           /\ Empty(b) \/ Within(ClampPoint(p, b), b)
<1>1. b.left \in Int /\ b.right \in Int /\ b.top \in Int /\ b.bottom \in Int
  BY I32IsInt DEF Bounds
<1>2. p.x \in Int /\ p.y \in Int
  BY I32IsInt DEF Point
<1>3. CASE Empty(b)
  BY <1>3 DEF ClampPoint
<1>4. CASE ~ Empty(b)
  <2>1. Clamped(p.x, b.left, b.right - 1) \in I32 \cap (b.left .. b.right - 1)
    BY <1>1, <1>2, <1>4, I32IsInt DEF Clamped, Empty, Bounds, Point
  <2>2. Clamped(p.y, b.top, b.bottom - 1) \in I32 \cap (b.top .. b.bottom - 1)
    BY <1>1, <1>2, <1>4, I32IsInt DEF Clamped, Empty, Bounds, Point
  <2> QED
    BY <2>1, <2>2, <1>4 DEF ClampPoint, Within, Point
<1> QED
  BY <1>3, <1>4

LEMMA TypeParts == TypeOK <=> ThreadTypes /\ FlagTypes /\ ValueTypes
BY DEF TypeOK, ThreadTypes, FlagTypes, ValueTypes

\* A step of a thread, a stop and a start leave the state of a thread.
LEMMA ThreadUpdates ==
    ASSUME NEW f \in [Threads -> ThreadState], NEW t
    PROVE  /\ \A a \in Places : [f EXCEPT ![t].at = a] \in [Threads -> ThreadState]
           /\ [f EXCEPT ![t].stop = TRUE] \in [Threads -> ThreadState]
           /\ [f EXCEPT ![t].stop = TRUE, ![t].quit = TRUE] \in [Threads -> ThreadState]
           /\ [f EXCEPT ![t] = [Unborn EXCEPT !.at = "born"]] \in [Threads -> ThreadState]
BY DEF ThreadState, Places, Unborn

LEMMA InitInvariant == Init => IInv
<1> SUFFICES ASSUME Init PROVE IInv
  OBVIOUS
<1>1. ThreadTypes
  BY DEF Init, ThreadTypes, ThreadState, Places, Unborn
<1>2. FlagTypes
  BY DEF Init, FlagTypes
<1>3. ValueTypes
  BY PointsAssumption, I32IsInt DEF Init, ValueTypes, NoBounds, Bounds
<1>4. \A t \in Threads : thread[t].at = "ended"
  BY DEF Init, Unborn
<1>5. OneThread /\ Signals /\ Answered /\ FocusKept /\ ClipboardKept
  BY <1>4 DEF Init, OneThread, Signals, Answered, FocusKept, ClipboardKept, Rest, Hooked,
              Looping
<1> QED
  BY <1>1, <1>2, <1>3, <1>5, TypeParts DEF IInv

\* Every step keeps the threads' states.
LEMMA ThreadTypesPreserved ==
    ASSUME ThreadTypes, [Next]_vars
    PROVE  ThreadTypes'
<1> USE ThreadsAssumption, WindowsAssumption DEF ThreadTypes, Places
<1>1. ASSUME Skip PROVE ThreadTypes'
  BY <1>1, ThreadUpdates DEF Skip, Answer, mouse, focus, clipboard, input
<1>2. ASSUME StaleJoined PROVE ThreadTypes'
  <2>1. PICK t \in Threads : thread' = [thread EXCEPT ![t] = [Unborn EXCEPT !.at = "born"]]
    BY <1>2 DEF StaleJoined, Spawn
  <2> QED
    BY <2>1, ThreadUpdates
<1>3. ASSUME Started PROVE ThreadTypes'
  BY <1>3, ThreadUpdates DEF Started, Answer, mouse, focus, clipboard, input
<1>4. ASSUME StartFails PROVE ThreadTypes'
  BY <1>4, ThreadUpdates DEF StartFails, mouse, focus, clipboard, input
<1>5. ASSUME TimesOut PROVE ThreadTypes'
  BY <1>5, ThreadUpdates DEF TimesOut, mouse, focus, clipboard, input
<1>6. ASSUME GiveUp PROVE ThreadTypes'
  BY <1>6, ThreadUpdates DEF GiveUp, mouse, focus, clipboard, input
<1>7. ASSUME FailureJoined PROVE ThreadTypes'
  BY <1>7, ThreadUpdates DEF FailureJoined, Answer, Ended, mouse, focus, clipboard, input
<1>8. ASSUME Deactivate PROVE ThreadTypes'
  BY <1>8, ThreadUpdates DEF Deactivate, Stop, Told, mouse, focus, clipboard, input
<1>9. ASSUME DeactivateIdle PROVE ThreadTypes'
  BY <1>9, ThreadUpdates DEF DeactivateIdle, Answer, focus, clipboard, input
<1>10. ASSUME RemovalJoined PROVE ThreadTypes'
  BY <1>10, ThreadUpdates DEF RemovalJoined, Answer, Ended, focus, clipboard, input
<1>11. ASSUME NEW w \in Windows \cup {Desktop}, AlreadyActive(w) PROVE ThreadTypes'
  BY <1>11, ThreadUpdates
     DEF AlreadyActive, Requested, Healthy, ThreadHealthy, Answer, mouse, focus, clipboard,
         input
<1>12. ASSUME NEW w \in Windows \cup {Desktop}, ReplaceStale(w) PROVE ThreadTypes'
  BY <1>12, ThreadUpdates
     DEF ReplaceStale, Requested, Healthy, ThreadHealthy, Stop, Told, mouse, focus, clipboard,
         input
<1>13. ASSUME NEW w \in Windows \cup {Desktop}, StartFresh(w) PROVE ThreadTypes'
  <2>1. PICK t \in Threads : thread' = [thread EXCEPT ![t] = [Unborn EXCEPT !.at = "born"]]
    BY <1>13 DEF StartFresh, Spawn
  <2> QED
    BY <2>1, ThreadUpdates
<1>14. ASSUME NEW m \in Monitors, StoreBounds(ClipBounds(m)) PROVE ThreadTypes'
  BY <1>14 DEF StoreBounds, focus, clipboard, input
<1>15. ASSUME NEW m \in Monitors, ClipPointer(ClipBounds(m)) PROVE ThreadTypes'
  BY <1>15 DEF ClipPointer, focus, clipboard, input
<1>16. ASSUME NEW t \in Threads, Install(t) PROVE ThreadTypes'
  BY <1>16, ThreadUpdates DEF Install, control, mouse, focus, clipboard, input
<1>17. ASSUME NEW t \in Threads, InstallFails(t) PROVE ThreadTypes'
  BY <1>17, ThreadUpdates DEF InstallFails, mouse, focus, clipboard, input
<1>18. ASSUME NEW t \in Threads, Announce(t) PROVE ThreadTypes'
  BY <1>18, ThreadUpdates DEF Announce, Restored, ShouldRestoreFocus, mouse, clipboard, input
<1>19. ASSUME NEW t \in Threads, Look(t) PROVE ThreadTypes'
  BY <1>19, ThreadUpdates DEF Look, control, mouse, focus, clipboard, input
<1>20. ASSUME NEW t \in Threads, Quit(t) PROVE ThreadTypes'
  BY <1>20, ThreadUpdates DEF Quit, control, mouse, focus, clipboard, input
<1>21. ASSUME NEW t \in Threads, Breaks(t) PROVE ThreadTypes'
  BY <1>21, ThreadUpdates DEF Breaks, control, mouse, focus, clipboard, input
<1>22. ASSUME NEW t \in Threads, Unhook(t) PROVE ThreadTypes'
  BY <1>22, ThreadUpdates DEF Unhook, control, mouse, input
<1>23. ASSUME NEW t \in Threads, Finish(t) PROVE ThreadTypes'
  BY <1>23, ThreadUpdates DEF Finish, control, mouse, focus, clipboard, input
<1>24. ASSUME NEW t \in Threads, ForegroundEvent(t) PROVE ThreadTypes'
  BY <1>24, ThreadUpdates
     DEF ForegroundEvent, Restored, ShouldRestoreFocus, control, mouse, clipboard, input
<1>25. ASSUME NEW t \in Threads, ReadOwner(t) PROVE ThreadTypes'
  BY <1>25, ThreadUpdates DEF ReadOwner, ShouldClearFor, control, mouse, focus, input
<1>26. ASSUME NEW t \in Threads, EmptyClipboard(t) PROVE ThreadTypes'
  BY <1>26, ThreadUpdates DEF EmptyClipboard, control, mouse, focus, input
<1>27. ASSUME NEW s \in Strokes, Types(s) PROVE ThreadTypes'
  BY <1>27 DEF Types, control, mouse, focus, clipboard
<1>28. ASSUME NEW p \in Points, MovesPointer(p) PROVE ThreadTypes'
  BY <1>28 DEF MovesPointer, control, mouse, focus, clipboard
<1>29. ASSUME NEW w \in Windows \cup {Desktop}, SwitchesTo(w) PROVE ThreadTypes'
  BY <1>29 DEF SwitchesTo, Raise, control, mouse, clipboard, input
<1>30. ASSUME NEW w \in Windows \cup {Desktop}, ClosesWindow(w) PROVE ThreadTypes'
  BY <1>30 DEF ClosesWindow, Raise, control, mouse, clipboard, input
<1>31. ASSUME NEW o \in {"exam", "other"}, Copies(o) PROVE ThreadTypes'
  BY <1>31 DEF Copies, control, mouse, focus, input
<1>32. ASSUME ClipLost PROVE ThreadTypes'
  BY <1>32 DEF ClipLost, control, focus, clipboard, input
<1>33. CASE UNCHANGED vars
  BY <1>33 DEF vars, control, mouse, focus, clipboard, input
<1> QED
  BY <1>1, <1>2, <1>3, <1>4, <1>5, <1>6, <1>7, <1>8, <1>9, <1>10, <1>11, <1>12, <1>13, <1>14,
     <1>15, <1>16, <1>17, <1>18, <1>19, <1>20, <1>21, <1>22, <1>23, <1>24, <1>25, <1>26, <1>27,
     <1>28, <1>29, <1>30, <1>31, <1>32, <1>33
  DEF Next, CommandLoop, GuardThread, Surroundings

\* Every step keeps the flags Boolean.
LEMMA FlagTypesPreserved ==
    ASSUME FlagTypes, [Next]_vars
    PROVE  FlagTypes'
<1> USE ThreadsAssumption, WindowsAssumption DEF FlagTypes
<1>1. ASSUME Skip PROVE FlagTypes'
  BY <1>1 DEF Skip, Answer, mouse, focus, clipboard, input
<1>2. ASSUME StaleJoined PROVE FlagTypes'
  BY <1>2 DEF StaleJoined, Spawn, ClearFirst, Ended, Unborn, mouse, focus, clipboard, input
<1>3. ASSUME Started PROVE FlagTypes'
  BY <1>3 DEF Started, Answer, mouse, focus, clipboard, input
<1>4. ASSUME StartFails PROVE FlagTypes'
  BY <1>4 DEF StartFails, mouse, focus, clipboard, input
<1>5. ASSUME TimesOut PROVE FlagTypes'
  BY <1>5 DEF TimesOut, mouse, focus, clipboard, input
<1>6. ASSUME GiveUp PROVE FlagTypes'
  BY <1>6 DEF GiveUp, mouse, focus, clipboard, input
<1>7. ASSUME FailureJoined PROVE FlagTypes'
  BY <1>7 DEF FailureJoined, Answer, Ended, mouse, focus, clipboard, input
<1>8. ASSUME Deactivate PROVE FlagTypes'
  BY <1>8 DEF Deactivate, Stop, Told, mouse, focus, clipboard, input
<1>9. ASSUME DeactivateIdle PROVE FlagTypes'
  BY <1>9 DEF DeactivateIdle, Answer, focus, clipboard, input
<1>10. ASSUME RemovalJoined PROVE FlagTypes'
  BY <1>10 DEF RemovalJoined, Answer, Ended, focus, clipboard, input
<1>11. ASSUME NEW w \in Windows \cup {Desktop}, AlreadyActive(w) PROVE FlagTypes'
  BY <1>11
     DEF AlreadyActive, Requested, Healthy, ThreadHealthy, Answer, mouse, focus, clipboard,
         input
<1>12. ASSUME NEW w \in Windows \cup {Desktop}, ReplaceStale(w) PROVE FlagTypes'
  BY <1>12
     DEF ReplaceStale, Requested, Healthy, ThreadHealthy, Stop, Told, mouse, focus, clipboard,
         input
<1>13. ASSUME NEW w \in Windows \cup {Desktop}, StartFresh(w) PROVE FlagTypes'
  BY <1>13 DEF StartFresh, Requested, Spawn, ClearFirst, Unborn, mouse, focus, clipboard, input
<1>14. ASSUME NEW m \in Monitors, StoreBounds(ClipBounds(m)) PROVE FlagTypes'
  BY <1>14 DEF StoreBounds, focus, clipboard, input
<1>15. ASSUME NEW m \in Monitors, ClipPointer(ClipBounds(m)) PROVE FlagTypes'
  BY <1>15 DEF ClipPointer, focus, clipboard, input
<1>16. ASSUME NEW t \in Threads, Install(t) PROVE FlagTypes'
  BY <1>16 DEF Install, control, mouse, focus, clipboard, input
<1>17. ASSUME NEW t \in Threads, InstallFails(t) PROVE FlagTypes'
  BY <1>17 DEF InstallFails, mouse, focus, clipboard, input
<1>18. ASSUME NEW t \in Threads, Announce(t) PROVE FlagTypes'
  BY <1>18 DEF Announce, Restored, ShouldRestoreFocus, mouse, clipboard, input
<1>19. ASSUME NEW t \in Threads, Look(t) PROVE FlagTypes'
  BY <1>19 DEF Look, control, mouse, focus, clipboard, input
<1>20. ASSUME NEW t \in Threads, Quit(t) PROVE FlagTypes'
  BY <1>20 DEF Quit, control, mouse, focus, clipboard, input
<1>21. ASSUME NEW t \in Threads, Breaks(t) PROVE FlagTypes'
  BY <1>21 DEF Breaks, control, mouse, focus, clipboard, input
<1>22. ASSUME NEW t \in Threads, Unhook(t) PROVE FlagTypes'
  BY <1>22 DEF Unhook, control, mouse, input
<1>23. ASSUME NEW t \in Threads, Finish(t) PROVE FlagTypes'
  BY <1>23 DEF Finish, control, mouse, focus, clipboard, input
<1>24. ASSUME NEW t \in Threads, ForegroundEvent(t) PROVE FlagTypes'
  BY <1>24 DEF ForegroundEvent, Restored, ShouldRestoreFocus, control, mouse, clipboard, input
<1>25. ASSUME NEW t \in Threads, ReadOwner(t) PROVE FlagTypes'
  BY <1>25 DEF ReadOwner, ShouldClearFor, control, mouse, focus, input
<1>26. ASSUME NEW t \in Threads, EmptyClipboard(t) PROVE FlagTypes'
  BY <1>26 DEF EmptyClipboard, control, mouse, focus, input
<1>27. ASSUME NEW s \in Strokes, Types(s) PROVE FlagTypes'
  BY <1>27 DEF Types, control, mouse, focus, clipboard
<1>28. ASSUME NEW p \in Points, MovesPointer(p) PROVE FlagTypes'
  BY <1>28 DEF MovesPointer, control, mouse, focus, clipboard
<1>29. ASSUME NEW w \in Windows \cup {Desktop}, SwitchesTo(w) PROVE FlagTypes'
  BY <1>29 DEF SwitchesTo, Raise, control, mouse, clipboard, input
<1>30. ASSUME NEW w \in Windows \cup {Desktop}, ClosesWindow(w) PROVE FlagTypes'
  BY <1>30 DEF ClosesWindow, Raise, control, mouse, clipboard, input
<1>31. ASSUME NEW o \in {"exam", "other"}, Copies(o) PROVE FlagTypes'
  BY <1>31 DEF Copies, control, mouse, focus, input
<1>32. ASSUME ClipLost PROVE FlagTypes'
  BY <1>32 DEF ClipLost, control, focus, clipboard, input
<1>33. CASE UNCHANGED vars
  BY <1>33 DEF vars, control, mouse, focus, clipboard, input
<1> QED
  BY <1>1, <1>2, <1>3, <1>4, <1>5, <1>6, <1>7, <1>8, <1>9, <1>10, <1>11, <1>12, <1>13, <1>14,
     <1>15, <1>16, <1>17, <1>18, <1>19, <1>20, <1>21, <1>22, <1>23, <1>24, <1>25, <1>26, <1>27,
     <1>28, <1>29, <1>30, <1>31, <1>32, <1>33
  DEF Next, CommandLoop, GuardThread, Surroundings

\* Every step keeps the other values.
LEMMA ValueTypesPreserved ==
    ASSUME ValueTypes, [Next]_vars
    PROVE  ValueTypes'
<1> USE ThreadsAssumption, WindowsAssumption DEF ValueTypes
<1>1. ASSUME Skip PROVE ValueTypes'
  BY <1>1 DEF Skip, Answer, mouse, focus, clipboard, input
<1>2. ASSUME StaleJoined PROVE ValueTypes'
  BY <1>2 DEF StaleJoined, Spawn, ClearFirst, Ended, Unborn, mouse, focus, clipboard, input
<1>3. ASSUME Started PROVE ValueTypes'
  BY <1>3 DEF Started, Answer, mouse, focus, clipboard, input
<1>4. ASSUME StartFails PROVE ValueTypes'
  BY <1>4 DEF StartFails, mouse, focus, clipboard, input
<1>5. ASSUME TimesOut PROVE ValueTypes'
  BY <1>5 DEF TimesOut, mouse, focus, clipboard, input
<1>6. ASSUME GiveUp PROVE ValueTypes'
  BY <1>6 DEF GiveUp, mouse, focus, clipboard, input
<1>7. ASSUME FailureJoined PROVE ValueTypes'
  BY <1>7 DEF FailureJoined, Answer, Ended, mouse, focus, clipboard, input
<1>8. ASSUME Deactivate PROVE ValueTypes'
  BY <1>8 DEF Deactivate, Stop, Told, mouse, focus, clipboard, input
<1>9. ASSUME DeactivateIdle PROVE ValueTypes'
  BY <1>9 DEF DeactivateIdle, Answer, focus, clipboard, input
<1>10. ASSUME RemovalJoined PROVE ValueTypes'
  BY <1>10 DEF RemovalJoined, Answer, Ended, focus, clipboard, input
<1>11. ASSUME NEW w \in Windows \cup {Desktop}, AlreadyActive(w) PROVE ValueTypes'
  BY <1>11
     DEF AlreadyActive, Requested, Healthy, ThreadHealthy, Answer, mouse, focus, clipboard,
         input
<1>12. ASSUME NEW w \in Windows \cup {Desktop}, ReplaceStale(w) PROVE ValueTypes'
  BY <1>12
     DEF ReplaceStale, Requested, Healthy, ThreadHealthy, Stop, Told, mouse, focus, clipboard,
         input
<1>13. ASSUME NEW w \in Windows \cup {Desktop}, StartFresh(w) PROVE ValueTypes'
  BY <1>13 DEF StartFresh, Requested, Spawn, ClearFirst, Unborn, mouse, focus, clipboard, input
<1>14. ASSUME NEW m \in Monitors, StoreBounds(ClipBounds(m)) PROVE ValueTypes'
  <2>1. ClipBounds(m) \in Bounds
    BY ClipBoundsAreBounds
  <2>2. [ClipBounds(m) EXCEPT !.right = bounds.right, !.bottom = bounds.bottom] \in Bounds
    BY <2>1 DEF Bounds
  <2> QED
    BY <1>14, <2>2 DEF StoreBounds, control, mouse, focus, clipboard, input
<1>15. ASSUME NEW m \in Monitors, ClipPointer(ClipBounds(m)) PROVE ValueTypes'
  BY <1>15, ClipBoundsAreBounds DEF ClipPointer, focus, clipboard, input
<1>16. ASSUME NEW t \in Threads, Install(t) PROVE ValueTypes'
  BY <1>16 DEF Install, control, mouse, focus, clipboard, input
<1>17. ASSUME NEW t \in Threads, InstallFails(t) PROVE ValueTypes'
  BY <1>17 DEF InstallFails, mouse, focus, clipboard, input
<1>18. ASSUME NEW t \in Threads, Announce(t) PROVE ValueTypes'
  BY <1>18 DEF Announce, Restored, ShouldRestoreFocus, mouse, clipboard, input
<1>19. ASSUME NEW t \in Threads, Look(t) PROVE ValueTypes'
  BY <1>19 DEF Look, control, mouse, focus, clipboard, input
<1>20. ASSUME NEW t \in Threads, Quit(t) PROVE ValueTypes'
  BY <1>20 DEF Quit, control, mouse, focus, clipboard, input
<1>21. ASSUME NEW t \in Threads, Breaks(t) PROVE ValueTypes'
  BY <1>21 DEF Breaks, control, mouse, focus, clipboard, input
<1>22. ASSUME NEW t \in Threads, Unhook(t) PROVE ValueTypes'
  BY <1>22 DEF Unhook, control, mouse, input
<1>23. ASSUME NEW t \in Threads, Finish(t) PROVE ValueTypes'
  BY <1>23 DEF Finish, control, mouse, focus, clipboard, input
<1>24. ASSUME NEW t \in Threads, ForegroundEvent(t) PROVE ValueTypes'
  BY <1>24 DEF ForegroundEvent, Restored, ShouldRestoreFocus, control, mouse, clipboard, input
<1>25. ASSUME NEW t \in Threads, ReadOwner(t) PROVE ValueTypes'
  BY <1>25 DEF ReadOwner, ShouldClearFor, control, mouse, focus, input
<1>26. ASSUME NEW t \in Threads, EmptyClipboard(t) PROVE ValueTypes'
  BY <1>26 DEF EmptyClipboard, control, mouse, focus, input
<1>27. ASSUME NEW s \in Strokes, Types(s) PROVE ValueTypes'
  BY <1>27 DEF Types, control, mouse, focus, clipboard
<1>28. ASSUME NEW p \in Points, MovesPointer(p) PROVE ValueTypes'
  BY <1>28, ClampedInside, PointsAssumption DEF MovesPointer, control, mouse, focus, clipboard
<1>29. ASSUME NEW w \in Windows \cup {Desktop}, SwitchesTo(w) PROVE ValueTypes'
  BY <1>29 DEF SwitchesTo, Raise, control, mouse, clipboard, input
<1>30. ASSUME NEW w \in Windows \cup {Desktop}, ClosesWindow(w) PROVE ValueTypes'
  BY <1>30 DEF ClosesWindow, Raise, control, mouse, clipboard, input
<1>31. ASSUME NEW o \in {"exam", "other"}, Copies(o) PROVE ValueTypes'
  BY <1>31 DEF Copies, control, mouse, focus, input
<1>32. ASSUME ClipLost PROVE ValueTypes'
  BY <1>32 DEF ClipLost, control, focus, clipboard, input
<1>33. CASE UNCHANGED vars
  BY <1>33 DEF vars, control, mouse, focus, clipboard, input
<1> QED
  BY <1>1, <1>2, <1>3, <1>4, <1>5, <1>6, <1>7, <1>8, <1>9, <1>10, <1>11, <1>12, <1>13, <1>14,
     <1>15, <1>16, <1>17, <1>18, <1>19, <1>20, <1>21, <1>22, <1>23, <1>24, <1>25, <1>26, <1>27,
     <1>28, <1>29, <1>30, <1>31, <1>32, <1>33
  DEF Next, CommandLoop, GuardThread, Surroundings

LEMMA TypesPreserved == TypeOK /\ [Next]_vars => TypeOK'
BY TypeParts, ThreadTypesPreserved, FlagTypesPreserved, ValueTypesPreserved
   DEF TypeOK, ThreadTypes, FlagTypes, ValueTypes

\* Every step accounts for the one thread.
LEMMA OneThreadPreserved ==
    ASSUME TypeOK, OneThread, [Next]_vars
    PROVE  OneThread'
<1> USE ThreadsAssumption, WindowsAssumption DEF TypeOK, ThreadState, OneThread, Rest
<1>1. ASSUME Skip PROVE OneThread'
  BY <1>1 DEF Skip, Answer, mouse, focus, clipboard, input
<1>2. ASSUME StaleJoined PROVE OneThread'
  BY <1>2 DEF StaleJoined, Spawn, ClearFirst, Ended, Unborn, mouse, focus, clipboard, input
<1>3. ASSUME Started PROVE OneThread'
  BY <1>3 DEF Started, Answer, mouse, focus, clipboard, input
<1>4. ASSUME StartFails PROVE OneThread'
  BY <1>4 DEF StartFails, mouse, focus, clipboard, input
<1>5. ASSUME TimesOut PROVE OneThread'
  BY <1>5 DEF TimesOut, mouse, focus, clipboard, input
<1>6. ASSUME GiveUp PROVE OneThread'
  BY <1>6 DEF GiveUp, mouse, focus, clipboard, input
<1>7. ASSUME FailureJoined PROVE OneThread'
  BY <1>7 DEF FailureJoined, Answer, Ended, mouse, focus, clipboard, input
<1>8. ASSUME Deactivate PROVE OneThread'
  BY <1>8 DEF Deactivate, Stop, Told, mouse, focus, clipboard, input
<1>9. ASSUME DeactivateIdle PROVE OneThread'
  BY <1>9 DEF DeactivateIdle, Answer, focus, clipboard, input
<1>10. ASSUME RemovalJoined PROVE OneThread'
  BY <1>10 DEF RemovalJoined, Answer, Ended, focus, clipboard, input
<1>11. ASSUME NEW w \in Windows \cup {Desktop}, AlreadyActive(w) PROVE OneThread'
  BY <1>11
     DEF AlreadyActive, Requested, Healthy, ThreadHealthy, Answer, mouse, focus, clipboard,
         input
<1>12. ASSUME NEW w \in Windows \cup {Desktop}, ReplaceStale(w) PROVE OneThread'
  BY <1>12
     DEF ReplaceStale, Requested, Healthy, ThreadHealthy, Stop, Told, mouse, focus, clipboard,
         input
<1>13. ASSUME NEW w \in Windows \cup {Desktop}, StartFresh(w) PROVE OneThread'
  BY <1>13 DEF StartFresh, Requested, Spawn, ClearFirst, Unborn, mouse, focus, clipboard, input
<1>14. ASSUME NEW m \in Monitors, StoreBounds(ClipBounds(m)) PROVE OneThread'
  BY <1>14 DEF StoreBounds, focus, clipboard, input
<1>15. ASSUME NEW m \in Monitors, ClipPointer(ClipBounds(m)) PROVE OneThread'
  BY <1>15 DEF ClipPointer, focus, clipboard, input
<1>16. ASSUME NEW t \in Threads, Install(t) PROVE OneThread'
  BY <1>16 DEF Install, control, mouse, focus, clipboard, input
<1>17. ASSUME NEW t \in Threads, InstallFails(t) PROVE OneThread'
  BY <1>17 DEF InstallFails, mouse, focus, clipboard, input
<1>18. ASSUME NEW t \in Threads, Announce(t) PROVE OneThread'
  BY <1>18 DEF Announce, Restored, ShouldRestoreFocus, mouse, clipboard, input
<1>19. ASSUME NEW t \in Threads, Look(t) PROVE OneThread'
  BY <1>19 DEF Look, control, mouse, focus, clipboard, input
<1>20. ASSUME NEW t \in Threads, Quit(t) PROVE OneThread'
  BY <1>20 DEF Quit, control, mouse, focus, clipboard, input
<1>21. ASSUME NEW t \in Threads, Breaks(t) PROVE OneThread'
  BY <1>21 DEF Breaks, control, mouse, focus, clipboard, input
<1>22. ASSUME NEW t \in Threads, Unhook(t) PROVE OneThread'
  BY <1>22 DEF Unhook, control, mouse, input
<1>23. ASSUME NEW t \in Threads, Finish(t) PROVE OneThread'
  BY <1>23 DEF Finish, control, mouse, focus, clipboard, input
<1>24. ASSUME NEW t \in Threads, ForegroundEvent(t) PROVE OneThread'
  BY <1>24 DEF ForegroundEvent, Restored, ShouldRestoreFocus, control, mouse, clipboard, input
<1>25. ASSUME NEW t \in Threads, ReadOwner(t) PROVE OneThread'
  BY <1>25 DEF ReadOwner, ShouldClearFor, control, mouse, focus, input
<1>26. ASSUME NEW t \in Threads, EmptyClipboard(t) PROVE OneThread'
  BY <1>26 DEF EmptyClipboard, control, mouse, focus, input
<1>27. ASSUME NEW s \in Strokes, Types(s) PROVE OneThread'
  BY <1>27 DEF Types, control, mouse, focus, clipboard
<1>28. ASSUME NEW p \in Points, MovesPointer(p) PROVE OneThread'
  BY <1>28 DEF MovesPointer, control, mouse, focus, clipboard
<1>29. ASSUME NEW w \in Windows \cup {Desktop}, SwitchesTo(w) PROVE OneThread'
  BY <1>29 DEF SwitchesTo, Raise, control, mouse, clipboard, input
<1>30. ASSUME NEW w \in Windows \cup {Desktop}, ClosesWindow(w) PROVE OneThread'
  BY <1>30 DEF ClosesWindow, Raise, control, mouse, clipboard, input
<1>31. ASSUME NEW o \in {"exam", "other"}, Copies(o) PROVE OneThread'
  BY <1>31 DEF Copies, control, mouse, focus, input
<1>32. ASSUME ClipLost PROVE OneThread'
  BY <1>32 DEF ClipLost, control, focus, clipboard, input
<1>33. CASE UNCHANGED vars
  BY <1>33 DEF vars, control, mouse, focus, clipboard, input
<1> QED
  BY <1>1, <1>2, <1>3, <1>4, <1>5, <1>6, <1>7, <1>8, <1>9, <1>10, <1>11, <1>12, <1>13, <1>14,
     <1>15, <1>16, <1>17, <1>18, <1>19, <1>20, <1>21, <1>22, <1>23, <1>24, <1>25, <1>26, <1>27,
     <1>28, <1>29, <1>30, <1>31, <1>32, <1>33
  DEF Next, CommandLoop, GuardThread, Surroundings

\* Every step keeps hooks, flag and window with that thread.
LEMMA SignalsPreserved ==
    ASSUME TypeOK, OneThread, Signals, [Next]_vars
    PROVE  Signals'
<1> USE ThreadsAssumption, WindowsAssumption
   DEF TypeOK, ThreadState, OneThread, Signals, Rest, Hooked, Looping
<1>1. ASSUME Skip PROVE Signals'
  BY <1>1 DEF Skip, Answer, mouse, focus, clipboard, input
<1>2. ASSUME StaleJoined PROVE Signals'
  BY <1>2 DEF StaleJoined, Spawn, ClearFirst, Ended, Unborn, mouse, focus, clipboard, input
<1>3. ASSUME Started PROVE Signals'
  BY <1>3 DEF Started, Answer, mouse, focus, clipboard, input
<1>4. ASSUME StartFails PROVE Signals'
  BY <1>4 DEF StartFails, mouse, focus, clipboard, input
<1>5. ASSUME TimesOut PROVE Signals'
  BY <1>5 DEF TimesOut, mouse, focus, clipboard, input
<1>6. ASSUME GiveUp PROVE Signals'
  BY <1>6 DEF GiveUp, mouse, focus, clipboard, input
<1>7. ASSUME FailureJoined PROVE Signals'
  BY <1>7 DEF FailureJoined, Answer, Ended, mouse, focus, clipboard, input
<1>8. ASSUME Deactivate PROVE Signals'
  BY <1>8 DEF Deactivate, Stop, Told, mouse, focus, clipboard, input
<1>9. ASSUME DeactivateIdle PROVE Signals'
  BY <1>9 DEF DeactivateIdle, Answer, focus, clipboard, input
<1>10. ASSUME RemovalJoined PROVE Signals'
  BY <1>10 DEF RemovalJoined, Answer, Ended, focus, clipboard, input
<1>11. ASSUME NEW w \in Windows \cup {Desktop}, AlreadyActive(w) PROVE Signals'
  BY <1>11
     DEF AlreadyActive, Requested, Healthy, ThreadHealthy, Answer, mouse, focus, clipboard,
         input
<1>12. ASSUME NEW w \in Windows \cup {Desktop}, ReplaceStale(w) PROVE Signals'
  BY <1>12
     DEF ReplaceStale, Requested, Healthy, ThreadHealthy, Stop, Told, mouse, focus, clipboard,
         input
<1>13. ASSUME NEW w \in Windows \cup {Desktop}, StartFresh(w) PROVE Signals'
  BY <1>13 DEF StartFresh, Requested, Spawn, ClearFirst, Unborn, mouse, focus, clipboard, input
<1>14. ASSUME NEW m \in Monitors, StoreBounds(ClipBounds(m)) PROVE Signals'
  BY <1>14 DEF StoreBounds, focus, clipboard, input
<1>15. ASSUME NEW m \in Monitors, ClipPointer(ClipBounds(m)) PROVE Signals'
  BY <1>15 DEF ClipPointer, focus, clipboard, input
<1>16. ASSUME NEW t \in Threads, Install(t) PROVE Signals'
  BY <1>16 DEF Install, control, mouse, focus, clipboard, input
<1>17. ASSUME NEW t \in Threads, InstallFails(t) PROVE Signals'
  BY <1>17 DEF InstallFails, mouse, focus, clipboard, input
<1>18. ASSUME NEW t \in Threads, Announce(t) PROVE Signals'
  BY <1>18 DEF Announce, Restored, ShouldRestoreFocus, mouse, clipboard, input
<1>19. ASSUME NEW t \in Threads, Look(t) PROVE Signals'
  BY <1>19 DEF Look, control, mouse, focus, clipboard, input
<1>20. ASSUME NEW t \in Threads, Quit(t) PROVE Signals'
  BY <1>20 DEF Quit, control, mouse, focus, clipboard, input
<1>21. ASSUME NEW t \in Threads, Breaks(t) PROVE Signals'
  BY <1>21 DEF Breaks, control, mouse, focus, clipboard, input
<1>22. ASSUME NEW t \in Threads, Unhook(t) PROVE Signals'
  BY <1>22 DEF Unhook, control, mouse, input
<1>23. ASSUME NEW t \in Threads, Finish(t) PROVE Signals'
  BY <1>23 DEF Finish, control, mouse, focus, clipboard, input
<1>24. ASSUME NEW t \in Threads, ForegroundEvent(t) PROVE Signals'
  BY <1>24 DEF ForegroundEvent, Restored, ShouldRestoreFocus, control, mouse, clipboard, input
<1>25. ASSUME NEW t \in Threads, ReadOwner(t) PROVE Signals'
  BY <1>25 DEF ReadOwner, ShouldClearFor, control, mouse, focus, input
<1>26. ASSUME NEW t \in Threads, EmptyClipboard(t) PROVE Signals'
  BY <1>26 DEF EmptyClipboard, control, mouse, focus, input
<1>27. ASSUME NEW s \in Strokes, Types(s) PROVE Signals'
  BY <1>27 DEF Types, control, mouse, focus, clipboard
<1>28. ASSUME NEW p \in Points, MovesPointer(p) PROVE Signals'
  BY <1>28 DEF MovesPointer, control, mouse, focus, clipboard
<1>29. ASSUME NEW w \in Windows \cup {Desktop}, SwitchesTo(w) PROVE Signals'
  BY <1>29 DEF SwitchesTo, Raise, control, mouse, clipboard, input
<1>30. ASSUME NEW w \in Windows \cup {Desktop}, ClosesWindow(w) PROVE Signals'
  BY <1>30 DEF ClosesWindow, Raise, control, mouse, clipboard, input
<1>31. ASSUME NEW o \in {"exam", "other"}, Copies(o) PROVE Signals'
  BY <1>31 DEF Copies, control, mouse, focus, input
<1>32. ASSUME ClipLost PROVE Signals'
  BY <1>32 DEF ClipLost, control, focus, clipboard, input
<1>33. CASE UNCHANGED vars
  BY <1>33 DEF vars, control, mouse, focus, clipboard, input
<1> QED
  BY <1>1, <1>2, <1>3, <1>4, <1>5, <1>6, <1>7, <1>8, <1>9, <1>10, <1>11, <1>12, <1>13, <1>14,
     <1>15, <1>16, <1>17, <1>18, <1>19, <1>20, <1>21, <1>22, <1>23, <1>24, <1>25, <1>26, <1>27,
     <1>28, <1>29, <1>30, <1>31, <1>32, <1>33
  DEF Next, CommandLoop, GuardThread, Surroundings

\* Every step keeps the answer true.
LEMMA AnsweredPreserved ==
    ASSUME TypeOK, OneThread, Answered, [Next]_vars
    PROVE  Answered'
<1> USE ThreadsAssumption, WindowsAssumption DEF TypeOK, ThreadState, OneThread, Answered, Rest
<1>1. ASSUME Skip PROVE Answered'
  BY <1>1 DEF Skip, Answer, mouse, focus, clipboard, input
<1>2. ASSUME StaleJoined PROVE Answered'
  BY <1>2 DEF StaleJoined, Spawn, ClearFirst, Ended, Unborn, mouse, focus, clipboard, input
<1>3. ASSUME Started PROVE Answered'
  BY <1>3 DEF Started, Answer, mouse, focus, clipboard, input
<1>4. ASSUME StartFails PROVE Answered'
  BY <1>4 DEF StartFails, mouse, focus, clipboard, input
<1>5. ASSUME TimesOut PROVE Answered'
  BY <1>5 DEF TimesOut, mouse, focus, clipboard, input
<1>6. ASSUME GiveUp PROVE Answered'
  BY <1>6 DEF GiveUp, mouse, focus, clipboard, input
<1>7. ASSUME FailureJoined PROVE Answered'
  BY <1>7 DEF FailureJoined, Answer, Ended, mouse, focus, clipboard, input
<1>8. ASSUME Deactivate PROVE Answered'
  BY <1>8 DEF Deactivate, Stop, Told, mouse, focus, clipboard, input
<1>9. ASSUME DeactivateIdle PROVE Answered'
  BY <1>9 DEF DeactivateIdle, Answer, focus, clipboard, input
<1>10. ASSUME RemovalJoined PROVE Answered'
  BY <1>10 DEF RemovalJoined, Answer, Ended, focus, clipboard, input
<1>11. ASSUME NEW w \in Windows \cup {Desktop}, AlreadyActive(w) PROVE Answered'
  BY <1>11
     DEF AlreadyActive, Requested, Healthy, ThreadHealthy, Answer, mouse, focus, clipboard,
         input
<1>12. ASSUME NEW w \in Windows \cup {Desktop}, ReplaceStale(w) PROVE Answered'
  BY <1>12
     DEF ReplaceStale, Requested, Healthy, ThreadHealthy, Stop, Told, mouse, focus, clipboard,
         input
<1>13. ASSUME NEW w \in Windows \cup {Desktop}, StartFresh(w) PROVE Answered'
  BY <1>13 DEF StartFresh, Requested, Spawn, ClearFirst, Unborn, mouse, focus, clipboard, input
<1>14. ASSUME NEW m \in Monitors, StoreBounds(ClipBounds(m)) PROVE Answered'
  BY <1>14 DEF StoreBounds, focus, clipboard, input
<1>15. ASSUME NEW m \in Monitors, ClipPointer(ClipBounds(m)) PROVE Answered'
  BY <1>15 DEF ClipPointer, focus, clipboard, input
<1>16. ASSUME NEW t \in Threads, Install(t) PROVE Answered'
  BY <1>16 DEF Install, control, mouse, focus, clipboard, input
<1>17. ASSUME NEW t \in Threads, InstallFails(t) PROVE Answered'
  BY <1>17 DEF InstallFails, mouse, focus, clipboard, input
<1>18. ASSUME NEW t \in Threads, Announce(t) PROVE Answered'
  BY <1>18 DEF Announce, Restored, ShouldRestoreFocus, mouse, clipboard, input
<1>19. ASSUME NEW t \in Threads, Look(t) PROVE Answered'
  BY <1>19 DEF Look, control, mouse, focus, clipboard, input
<1>20. ASSUME NEW t \in Threads, Quit(t) PROVE Answered'
  BY <1>20 DEF Quit, control, mouse, focus, clipboard, input
<1>21. ASSUME NEW t \in Threads, Breaks(t) PROVE Answered'
  BY <1>21 DEF Breaks, control, mouse, focus, clipboard, input
<1>22. ASSUME NEW t \in Threads, Unhook(t) PROVE Answered'
  BY <1>22 DEF Unhook, control, mouse, input
<1>23. ASSUME NEW t \in Threads, Finish(t) PROVE Answered'
  BY <1>23 DEF Finish, control, mouse, focus, clipboard, input
<1>24. ASSUME NEW t \in Threads, ForegroundEvent(t) PROVE Answered'
  BY <1>24 DEF ForegroundEvent, Restored, ShouldRestoreFocus, control, mouse, clipboard, input
<1>25. ASSUME NEW t \in Threads, ReadOwner(t) PROVE Answered'
  BY <1>25 DEF ReadOwner, ShouldClearFor, control, mouse, focus, input
<1>26. ASSUME NEW t \in Threads, EmptyClipboard(t) PROVE Answered'
  BY <1>26 DEF EmptyClipboard, control, mouse, focus, input
<1>27. ASSUME NEW s \in Strokes, Types(s) PROVE Answered'
  BY <1>27 DEF Types, control, mouse, focus, clipboard
<1>28. ASSUME NEW p \in Points, MovesPointer(p) PROVE Answered'
  BY <1>28 DEF MovesPointer, control, mouse, focus, clipboard
<1>29. ASSUME NEW w \in Windows \cup {Desktop}, SwitchesTo(w) PROVE Answered'
  BY <1>29 DEF SwitchesTo, Raise, control, mouse, clipboard, input
<1>30. ASSUME NEW w \in Windows \cup {Desktop}, ClosesWindow(w) PROVE Answered'
  BY <1>30 DEF ClosesWindow, Raise, control, mouse, clipboard, input
<1>31. ASSUME NEW o \in {"exam", "other"}, Copies(o) PROVE Answered'
  BY <1>31 DEF Copies, control, mouse, focus, input
<1>32. ASSUME ClipLost PROVE Answered'
  BY <1>32 DEF ClipLost, control, focus, clipboard, input
<1>33. CASE UNCHANGED vars
  BY <1>33 DEF vars, control, mouse, focus, clipboard, input
<1> QED
  BY <1>1, <1>2, <1>3, <1>4, <1>5, <1>6, <1>7, <1>8, <1>9, <1>10, <1>11, <1>12, <1>13, <1>14,
     <1>15, <1>16, <1>17, <1>18, <1>19, <1>20, <1>21, <1>22, <1>23, <1>24, <1>25, <1>26, <1>27,
     <1>28, <1>29, <1>30, <1>31, <1>32, <1>33
  DEF Next, CommandLoop, GuardThread, Surroundings

\* Every step keeps the window in front, or an event on its way.
LEMMA FocusPreserved ==
    ASSUME TypeOK, OneThread, Signals, FocusKept, [Next]_vars
    PROVE  FocusKept'
<1> USE ThreadsAssumption, WindowsAssumption
   DEF TypeOK, OneThread, Signals, FocusKept, ThreadState, Rest, Hooked, Looping
<1>1. ASSUME Skip PROVE FocusKept'
  BY <1>1 DEF Skip, Answer, mouse, focus, clipboard, input
<1>2. ASSUME StaleJoined PROVE FocusKept'
  BY <1>2 DEF StaleJoined, Spawn, ClearFirst, Ended, Unborn, mouse, focus, clipboard, input
<1>3. ASSUME Started PROVE FocusKept'
  BY <1>3 DEF Started, Answer, mouse, focus, clipboard, input
<1>4. ASSUME StartFails PROVE FocusKept'
  BY <1>4 DEF StartFails, mouse, focus, clipboard, input
<1>5. ASSUME TimesOut PROVE FocusKept'
  BY <1>5 DEF TimesOut, mouse, focus, clipboard, input
<1>6. ASSUME GiveUp PROVE FocusKept'
  BY <1>6 DEF GiveUp, mouse, focus, clipboard, input
<1>7. ASSUME FailureJoined PROVE FocusKept'
  BY <1>7 DEF FailureJoined, Answer, Ended, mouse, focus, clipboard, input
<1>8. ASSUME Deactivate PROVE FocusKept'
  BY <1>8 DEF Deactivate, Stop, Told, mouse, focus, clipboard, input
<1>9. ASSUME DeactivateIdle PROVE FocusKept'
  BY <1>9 DEF DeactivateIdle, Answer, focus, clipboard, input
<1>10. ASSUME RemovalJoined PROVE FocusKept'
  BY <1>10 DEF RemovalJoined, Answer, Ended, focus, clipboard, input
<1>11. ASSUME NEW w \in Windows \cup {Desktop}, AlreadyActive(w) PROVE FocusKept'
  BY <1>11
     DEF AlreadyActive, Requested, Healthy, ThreadHealthy, Answer, mouse, focus, clipboard,
         input
<1>12. ASSUME NEW w \in Windows \cup {Desktop}, ReplaceStale(w) PROVE FocusKept'
  BY <1>12
     DEF ReplaceStale, Requested, Healthy, ThreadHealthy, Stop, Told, mouse, focus, clipboard,
         input
<1>13. ASSUME NEW w \in Windows \cup {Desktop}, StartFresh(w) PROVE FocusKept'
  BY <1>13 DEF StartFresh, Requested, Spawn, ClearFirst, Unborn, mouse, focus, clipboard, input
<1>14. ASSUME NEW m \in Monitors, StoreBounds(ClipBounds(m)) PROVE FocusKept'
  BY <1>14 DEF StoreBounds, focus, clipboard, input
<1>15. ASSUME NEW m \in Monitors, ClipPointer(ClipBounds(m)) PROVE FocusKept'
  BY <1>15 DEF ClipPointer, focus, clipboard, input
<1>16. ASSUME NEW t \in Threads, Install(t) PROVE FocusKept'
  BY <1>16 DEF Install, control, mouse, focus, clipboard, input
<1>17. ASSUME NEW t \in Threads, InstallFails(t) PROVE FocusKept'
  BY <1>17 DEF InstallFails, mouse, focus, clipboard, input
<1>18. ASSUME NEW t \in Threads, Announce(t) PROVE FocusKept'
  BY <1>18 DEF Announce, Restored, ShouldRestoreFocus, mouse, clipboard, input
<1>19. ASSUME NEW t \in Threads, Look(t) PROVE FocusKept'
  BY <1>19 DEF Look, control, mouse, focus, clipboard, input
<1>20. ASSUME NEW t \in Threads, Quit(t) PROVE FocusKept'
  BY <1>20 DEF Quit, control, mouse, focus, clipboard, input
<1>21. ASSUME NEW t \in Threads, Breaks(t) PROVE FocusKept'
  BY <1>21 DEF Breaks, control, mouse, focus, clipboard, input
<1>22. ASSUME NEW t \in Threads, Unhook(t) PROVE FocusKept'
  BY <1>22 DEF Unhook, control, mouse, input
<1>23. ASSUME NEW t \in Threads, Finish(t) PROVE FocusKept'
  BY <1>23 DEF Finish, control, mouse, focus, clipboard, input
<1>24. ASSUME NEW t \in Threads, ForegroundEvent(t) PROVE FocusKept'
  <2>1. UNCHANGED <<kind, call, thread, target, windows, active>>
    BY <1>24 DEF ForegroundEvent, control
  <2> SUFFICES ASSUME kind = "focus", call \in Rest \cup {"starting"},
                      NEW u \in Threads, thread[u].at \in Looping
               PROVE  \/ foreground' = target \/ target \notin windows \/ denied'
                      \/ raised' # <<>> /\ raised'[Len(raised')] # target
    BY <2>1 DEF FocusKept
  <2>2. active /\ target = wanted
    OBVIOUS
  <2>3. raised \in Seq(Windows \cup {Desktop}) /\ raised # <<>> /\ raised' = Tail(raised)
    BY <1>24 DEF ForegroundEvent
  <2>4. CASE ShouldRestoreFocus(active, target, Head(raised), target \in windows, Desktop)
    BY <1>24, <2>4 DEF ForegroundEvent, Restored
  <2>5. CASE ~ ShouldRestoreFocus(active, target, Head(raised), target \in windows, Desktop)
    <3>1. UNCHANGED <<foreground, denied>>
      BY <1>24, <2>5 DEF ForegroundEvent
    <3>2. CASE foreground = target \/ target \notin windows \/ denied
      BY <3>1, <3>2
    <3>3. CASE ~ (foreground = target \/ target \notin windows \/ denied)
      <4>1. raised[Len(raised)] # target
        BY <3>3
      <4>2. Head(raised) = target
        BY <2>2, <2>5, <3>3 DEF ShouldRestoreFocus
      <4>3. Len(raised) > 1 /\ Tail(raised) # <<>>
            /\ Tail(raised)[Len(Tail(raised))] = raised[Len(raised)]
        BY <2>3, <4>1, <4>2, LastOfTail
      <4> QED
        BY <2>3, <4>1, <4>3
    <3> QED
      BY <3>2, <3>3
  <2> QED
    BY <2>4, <2>5
<1>25. ASSUME NEW t \in Threads, ReadOwner(t) PROVE FocusKept'
  BY <1>25 DEF ReadOwner, ShouldClearFor, control, mouse, focus, input
<1>26. ASSUME NEW t \in Threads, EmptyClipboard(t) PROVE FocusKept'
  BY <1>26 DEF EmptyClipboard, control, mouse, focus, input
<1>27. ASSUME NEW s \in Strokes, Types(s) PROVE FocusKept'
  BY <1>27 DEF Types, control, mouse, focus, clipboard
<1>28. ASSUME NEW p \in Points, MovesPointer(p) PROVE FocusKept'
  BY <1>28 DEF MovesPointer, control, mouse, focus, clipboard
<1>29. ASSUME NEW w \in Windows \cup {Desktop}, SwitchesTo(w) PROVE FocusKept'
  BY <1>29 DEF SwitchesTo, Raise, control, mouse, clipboard, input
<1>30. ASSUME NEW w \in Windows \cup {Desktop}, ClosesWindow(w) PROVE FocusKept'
  BY <1>30 DEF ClosesWindow, Raise, control, mouse, clipboard, input
<1>31. ASSUME NEW o \in {"exam", "other"}, Copies(o) PROVE FocusKept'
  BY <1>31 DEF Copies, control, mouse, focus, input
<1>32. ASSUME ClipLost PROVE FocusKept'
  BY <1>32 DEF ClipLost, control, focus, clipboard, input
<1>33. CASE UNCHANGED vars
  BY <1>33 DEF vars, control, mouse, focus, clipboard, input
<1> QED
  BY <1>1, <1>2, <1>3, <1>4, <1>5, <1>6, <1>7, <1>8, <1>9, <1>10, <1>11, <1>12, <1>13, <1>14,
     <1>15, <1>16, <1>17, <1>18, <1>19, <1>20, <1>21, <1>22, <1>23, <1>24, <1>25, <1>26, <1>27,
     <1>28, <1>29, <1>30, <1>31, <1>32, <1>33
  DEF Next, CommandLoop, GuardThread, Surroundings

\* Every step keeps foreign content known or announced.
LEMMA ClipboardPreserved ==
    ASSUME TypeOK, OneThread, Signals, ClipboardKept, [Next]_vars
    PROVE  ClipboardKept'
<1> USE ThreadsAssumption, WindowsAssumption
   DEF TypeOK, OneThread, Signals, ClipboardKept, ThreadState, Rest, Hooked
<1>1. ASSUME Skip PROVE ClipboardKept'
  BY <1>1 DEF Skip, Answer, mouse, focus, clipboard, input
<1>2. ASSUME StaleJoined PROVE ClipboardKept'
  BY <1>2 DEF StaleJoined, Spawn, ClearFirst, Ended, Unborn, mouse, focus, clipboard, input
<1>3. ASSUME Started PROVE ClipboardKept'
  BY <1>3 DEF Started, Answer, mouse, focus, clipboard, input
<1>4. ASSUME StartFails PROVE ClipboardKept'
  BY <1>4 DEF StartFails, mouse, focus, clipboard, input
<1>5. ASSUME TimesOut PROVE ClipboardKept'
  BY <1>5 DEF TimesOut, mouse, focus, clipboard, input
<1>6. ASSUME GiveUp PROVE ClipboardKept'
  BY <1>6 DEF GiveUp, mouse, focus, clipboard, input
<1>7. ASSUME FailureJoined PROVE ClipboardKept'
  BY <1>7 DEF FailureJoined, Answer, Ended, mouse, focus, clipboard, input
<1>8. ASSUME Deactivate PROVE ClipboardKept'
  BY <1>8 DEF Deactivate, Stop, Told, mouse, focus, clipboard, input
<1>9. ASSUME DeactivateIdle PROVE ClipboardKept'
  BY <1>9 DEF DeactivateIdle, Answer, focus, clipboard, input
<1>10. ASSUME RemovalJoined PROVE ClipboardKept'
  BY <1>10 DEF RemovalJoined, Answer, Ended, focus, clipboard, input
<1>11. ASSUME NEW w \in Windows \cup {Desktop}, AlreadyActive(w) PROVE ClipboardKept'
  BY <1>11
     DEF AlreadyActive, Requested, Healthy, ThreadHealthy, Answer, mouse, focus, clipboard,
         input
<1>12. ASSUME NEW w \in Windows \cup {Desktop}, ReplaceStale(w) PROVE ClipboardKept'
  BY <1>12
     DEF ReplaceStale, Requested, Healthy, ThreadHealthy, Stop, Told, mouse, focus, clipboard,
         input
<1>13. ASSUME NEW w \in Windows \cup {Desktop}, StartFresh(w) PROVE ClipboardKept'
  BY <1>13 DEF StartFresh, Requested, Spawn, ClearFirst, Unborn, mouse, focus, clipboard, input
<1>14. ASSUME NEW m \in Monitors, StoreBounds(ClipBounds(m)) PROVE ClipboardKept'
  BY <1>14 DEF StoreBounds, focus, clipboard, input
<1>15. ASSUME NEW m \in Monitors, ClipPointer(ClipBounds(m)) PROVE ClipboardKept'
  BY <1>15 DEF ClipPointer, focus, clipboard, input
<1>16. ASSUME NEW t \in Threads, Install(t) PROVE ClipboardKept'
  BY <1>16 DEF Install, control, mouse, focus, clipboard, input
<1>17. ASSUME NEW t \in Threads, InstallFails(t) PROVE ClipboardKept'
  BY <1>17 DEF InstallFails, mouse, focus, clipboard, input
<1>18. ASSUME NEW t \in Threads, Announce(t) PROVE ClipboardKept'
  BY <1>18 DEF Announce, Restored, ShouldRestoreFocus, mouse, clipboard, input
<1>19. ASSUME NEW t \in Threads, Look(t) PROVE ClipboardKept'
  BY <1>19 DEF Look, control, mouse, focus, clipboard, input
<1>20. ASSUME NEW t \in Threads, Quit(t) PROVE ClipboardKept'
  BY <1>20 DEF Quit, control, mouse, focus, clipboard, input
<1>21. ASSUME NEW t \in Threads, Breaks(t) PROVE ClipboardKept'
  BY <1>21 DEF Breaks, control, mouse, focus, clipboard, input
<1>22. ASSUME NEW t \in Threads, Unhook(t) PROVE ClipboardKept'
  BY <1>22 DEF Unhook, control, mouse, input
<1>23. ASSUME NEW t \in Threads, Finish(t) PROVE ClipboardKept'
  BY <1>23 DEF Finish, control, mouse, focus, clipboard, input
<1>24. ASSUME NEW t \in Threads, ForegroundEvent(t) PROVE ClipboardKept'
  BY <1>24 DEF ForegroundEvent, Restored, ShouldRestoreFocus, control, mouse, clipboard, input
<1>25. ASSUME NEW t \in Threads, ReadOwner(t) PROVE ClipboardKept'
  BY <1>25 DEF ReadOwner, ShouldClearFor, control, mouse, focus, input
<1>26. ASSUME NEW t \in Threads, EmptyClipboard(t) PROVE ClipboardKept'
  BY <1>26 DEF EmptyClipboard, control, mouse, focus, input
<1>27. ASSUME NEW s \in Strokes, Types(s) PROVE ClipboardKept'
  BY <1>27 DEF Types, control, mouse, focus, clipboard
<1>28. ASSUME NEW p \in Points, MovesPointer(p) PROVE ClipboardKept'
  BY <1>28 DEF MovesPointer, control, mouse, focus, clipboard
<1>29. ASSUME NEW w \in Windows \cup {Desktop}, SwitchesTo(w) PROVE ClipboardKept'
  BY <1>29 DEF SwitchesTo, Raise, control, mouse, clipboard, input
<1>30. ASSUME NEW w \in Windows \cup {Desktop}, ClosesWindow(w) PROVE ClipboardKept'
  BY <1>30 DEF ClosesWindow, Raise, control, mouse, clipboard, input
<1>31. ASSUME NEW o \in {"exam", "other"}, Copies(o) PROVE ClipboardKept'
  BY <1>31 DEF Copies, control, mouse, focus, input
<1>32. ASSUME ClipLost PROVE ClipboardKept'
  BY <1>32 DEF ClipLost, control, focus, clipboard, input
<1>33. CASE UNCHANGED vars
  BY <1>33 DEF vars, control, mouse, focus, clipboard, input
<1> QED
  BY <1>1, <1>2, <1>3, <1>4, <1>5, <1>6, <1>7, <1>8, <1>9, <1>10, <1>11, <1>12, <1>13, <1>14,
     <1>15, <1>16, <1>17, <1>18, <1>19, <1>20, <1>21, <1>22, <1>23, <1>24, <1>25, <1>26, <1>27,
     <1>28, <1>29, <1>30, <1>31, <1>32, <1>33
  DEF Next, CommandLoop, GuardThread, Surroundings

LEMMA InvariantPreserved == IInv /\ [Next]_vars => IInv'
BY TypesPreserved, OneThreadPreserved, SignalsPreserved, AnsweredPreserved, FocusPreserved,
   ClipboardPreserved DEF IInv

LEMMA Invariance == Spec => []IInv
BY InitInvariant, InvariantPreserved, PTL DEF Spec

-----------------------------------------------------------------------------
(* The properties *)

\* Every guard keeps its types, whatever is typed, clicked and copied.
THEOREM TypeCorrect == Spec => []TypeOK
<1>1. IInv => TypeOK
  BY DEF IInv
<1> QED
  BY Invariance, <1>1, PTL

\* A call that answers that the hook is active has left one in force, with its
\* flag up and its window: no thread of an earlier call can lower the flag.
THEOREM ToldHookIsLiveHolds == Spec => []ToldHookIsLive
<1>1. IInv => ToldHookIsLive
  BY ThreadsAssumption
  DEF IInv, TypeOK, OneThread, Signals, Answered, ToldHookIsLive, Rest, Hooked, Looping
<1> QED
  BY Invariance, <1>1, PTL

\* A call that removed the guard, or failed to start it, leaves nothing behind.
THEOREM OffIsQuietHolds == Spec => []OffIsQuiet
<1>1. IInv => OffIsQuiet
  BY DEF IInv, TypeOK, OneThread, Signals, Answered, OffIsQuiet, Rest, Hooked
<1> QED
  BY Invariance, <1>1, PTL

\* The focus guard holds its window once the events on their way are taken.
THEOREM FocusHeldHolds == Spec => []FocusHeld
<1>1. IInv => FocusHeld
  BY ThreadsAssumption DEF IInv, TypeOK, FocusKept, FocusHeld, OnGuard, Rest, Looping
<1> QED
  BY Invariance, <1>1, PTL

\* The clipboard guard leaves no foreign content it could have heard of.
THEOREM ForeignClearedHolds == Spec => []ForeignCleared
<1>1. IInv => ForeignCleared
  BY ThreadsAssumption DEF IInv, TypeOK, ClipboardKept, ForeignCleared, OnGuard
<1> QED
  BY Invariance, <1>1, PTL

\* While a guard is on, no blocked shortcut is delivered and the pointer stays.
THEOREM EventsStoppedHolds == Spec => EventsStopped
<1> DEFINE Step == OnGuard =>
         /\ delivered' = delivered \/ ~ BlocksShortcut(delivered', DevEscape)
         /\ pointer' = pointer \/ Empty(bounds) \/ Within(pointer', bounds)
<1>1. ASSUME IInv, [Next]_vars, OnGuard PROVE Step
  <2>1. hooks # {} /\ active
    BY <1>1, ThreadsAssumption
    DEF IInv, TypeOK, OneThread, Signals, Answered, OnGuard, Rest, Hooked, Looping
  <2>2. ASSUME NEW s \in Strokes, Types(s) PROVE Step
    BY <2>1, <2>2 DEF Types, Intercepts
  <2>3. ASSUME NEW p \in Points, MovesPointer(p) PROVE Step
    <3>1. Empty(bounds) \/ Within(ClampPoint(p, bounds), bounds)
      BY <1>1, ClampedInside, PointsAssumption DEF IInv, TypeOK
    <3> QED
      BY <2>1, <2>3, <3>1 DEF MovesPointer, Intercepts
  <2>4. CASE UNCHANGED input
    BY <2>4 DEF input
  <2>5. CommandLoop => UNCHANGED input
    BY DEF CommandLoop, AlreadyActive, ReplaceStale, StartFresh, StoreBounds, ClipPointer, Skip,
           StaleJoined, Started, StartFails, TimesOut, GiveUp, FailureJoined, Deactivate,
           DeactivateIdle, RemovalJoined
  <2>6. \A t \in Threads : GuardThread(t) => UNCHANGED input
    BY DEF GuardThread, Install, InstallFails, Announce, Look, Quit, Breaks, Unhook, Finish,
           ForegroundEvent, ReadOwner, EmptyClipboard
  <2>7. Surroundings =>
           \/ \E s \in Strokes : Types(s)
           \/ \E p \in Points : MovesPointer(p)
           \/ UNCHANGED input
    BY DEF Surroundings, SwitchesTo, ClosesWindow, Copies, ClipLost
  <2> QED
    BY <1>1, <2>2, <2>3, <2>4, <2>5, <2>6, <2>7 DEF Next, vars, input
<1>2. IInv /\ [Next]_vars => [Step]_vars
  BY <1>1
<1>3. [][Step]_vars => EventsStopped
  BY PTL DEF EventsStopped
<1> QED
  BY Invariance, <1>2, <1>3, PTL DEF Spec

-----------------------------------------------------------------------------
(* The accessibility guard. *)

BackupIsUsers ==
    backup # NoSnapshot => \A s \in Settings \ edited : backup[s] = user[s]

WorkIsBackedUp ==
    /\ pc \in Applying => work \in Snapshots /\ backup = work
    /\ pc \in {"recovering", "disabling", "undoing", "down"} => held = NoSnapshot
    /\ pc = "deactivating" => held = work

ProgressMade ==
    pc \in Applying \ {"disabling"} =>
        \A s \in Settings : s <= done => settings[s] = work[s]

AccessibilityIInv ==
    /\ AccessibilityTypeOK
    /\ UserChoiceRecoverable
    /\ HeldIsBackedUp
    /\ BackupIsUsers
    /\ WorkIsBackedUp
    /\ ProgressMade

-----------------------------------------------------------------------------
LEMMA InitIInv == AccessibilityInit => AccessibilityIInv
<1> SUFFICES ASSUME AccessibilityInit PROVE AccessibilityIInv
  OBVIOUS
<1>0. done \in 0 .. 3
  BY DEF AccessibilityInit
<1>1. AccessibilityTypeOK
  BY <1>0, Zenon DEF AccessibilityInit, AccessibilityTypeOK
<1>2. UserChoiceRecoverable /\ HeldIsBackedUp /\ BackupIsUsers
  BY DEF AccessibilityInit, UserChoiceRecoverable, HeldIsBackedUp, BackupIsUsers
<1>3. WorkIsBackedUp /\ ProgressMade
  BY DEF AccessibilityInit, WorkIsBackedUp, ProgressMade, Applying
<1> QED BY <1>1, <1>2, <1>3 DEF AccessibilityIInv

(* A process starts: the only work it can begin is applying the backup.      *)
LEMMA StartKeepsIInv ==
    ASSUME AccessibilityIInv, NEW h \in BOOLEAN, NEW r \in BOOLEAN, NEW d \in BOOLEAN,
           StartProcess(h, r, d)
    PROVE  AccessibilityIInv'
<1> USE DEF AccessibilityIInv, AccessibilityTypeOK, userVars
<1>1. CASE /\ FinishApply(AfterRecovery(h))
           /\ UNCHANGED <<settings, backup, ownerTicks, held, userVars>>
           /\ pc = "down" /\ helper' = h
  BY <1>1 DEF FinishApply, AfterRecovery, Applying, UserChoiceRecoverable, HeldIsBackedUp,
              BackupIsUsers, WorkIsBackedUp, ProgressMade
<1>2. CASE /\ backup # NoSnapshot
           /\ BeginApply("recovering", backup)
           /\ UNCHANGED <<settings, backup, ownerTicks, held, userVars>>
           /\ pc = "down" /\ helper' = h
  BY <1>2 DEF BeginApply, Applying, UserChoiceRecoverable, HeldIsBackedUp,
              BackupIsUsers, WorkIsBackedUp, ProgressMade, Settings
<1> QED BY <1>1, <1>2 DEF StartProcess

(* The snapshot is taken when no backup is pending: it is the user's.        *)
LEMMA ActivateKeepsIInv ==
    ASSUME AccessibilityIInv, NEW ticks \in BOOLEAN, Activate(ticks)
    PROVE  AccessibilityIInv'
<1> USE ValuesAssumption
        DEF AccessibilityIInv, AccessibilityTypeOK, Activate, PersistBackup, BeginApply, userVars
<1>1. AccessibilityTypeOK'
  BY DEF Applying
<1>2. BackupIsUsers' /\ UserChoiceRecoverable'
  BY DEF BackupIsUsers, UserChoiceRecoverable, Snapshots, Settings
<1>3. HeldIsBackedUp' /\ WorkIsBackedUp' /\ ProgressMade'
  BY DEF HeldIsBackedUp, WorkIsBackedUp, ProgressMade, Applying, Snapshots, Settings
<1> QED BY <1>1, <1>2, <1>3

LEMMA DeactivateKeepsIInv ==
    ASSUME AccessibilityIInv, DeactivateAccessibility
    PROVE  AccessibilityIInv'
BY DEF AccessibilityIInv, AccessibilityTypeOK, DeactivateAccessibility, BeginApply, userVars,
       Applying, UserChoiceRecoverable, HeldIsBackedUp, BackupIsUsers, WorkIsBackedUp, ProgressMade, Settings

(* One more setting is written, from the snapshot the file also has.         *)
LEMMA ApplyNextKeepsIInv ==
    ASSUME AccessibilityIInv, ApplyNext
    PROVE  AccessibilityIInv'
<1> USE DEF AccessibilityIInv, ApplyNext, userVars
<1>0. done + 1 \in Settings /\ done + 1 \in 0 .. 3
  BY DEF AccessibilityTypeOK, Settings
<1>1. Target(done + 1) \in Values
  BY <1>0, ValuesAssumption DEF Target, AccessibilityTypeOK, WorkIsBackedUp, Snapshots
<1>2. AccessibilityTypeOK'
  BY <1>0, <1>1 DEF AccessibilityTypeOK, Snapshots, Settings
<1>3. UserChoiceRecoverable'
  <2>1. backup # NoSnapshot
    BY ValuesAssumption DEF AccessibilityTypeOK, WorkIsBackedUp, Snapshots, Settings
  <2> QED BY <2>1 DEF UserChoiceRecoverable, BackupIsUsers
<1>4. ProgressMade'
  <2> SUFFICES ASSUME pc \in Applying \ {"disabling"},
                      NEW s \in Settings, s <= done + 1
               PROVE  settings'[s] = work[s]
    BY DEF ProgressMade
  <2>1. CASE s = done + 1
    BY <2>1, <1>0 DEF Target, AccessibilityTypeOK, Snapshots
  <2>2. CASE s # done + 1
    <3>1. s <= done
      BY <2>2 DEF AccessibilityTypeOK, Settings
    <3> QED BY <3>1, <2>2 DEF ProgressMade, AccessibilityTypeOK, Snapshots
  <2> QED BY <2>1, <2>2
<1>5. HeldIsBackedUp' /\ BackupIsUsers' /\ WorkIsBackedUp'
  BY DEF HeldIsBackedUp, BackupIsUsers, WorkIsBackedUp
<1> QED BY <1>2, <1>3, <1>4, <1>5

(* A failed call changes no setting and keeps the file.                      *)
LEMMA ApplyFailsKeepsIInv ==
    ASSUME AccessibilityIInv, ApplyFails
    PROVE  AccessibilityIInv'
<1> USE DEF AccessibilityIInv, AccessibilityTypeOK, ApplyFails, userVars
<1>1. CASE pc = "disabling"
  BY <1>1 DEF BeginApply, Applying, UserChoiceRecoverable, HeldIsBackedUp,
              BackupIsUsers, WorkIsBackedUp, ProgressMade, Settings
<1>2. CASE pc = "recovering"
  BY <1>2 DEF FinishApply, AfterRecovery, Applying, UserChoiceRecoverable, HeldIsBackedUp,
              BackupIsUsers, WorkIsBackedUp, ProgressMade
<1>3. CASE pc \in {"undoing", "deactivating"}
  BY <1>3 DEF FinishApply, Applying, UserChoiceRecoverable, HeldIsBackedUp,
              BackupIsUsers, WorkIsBackedUp, ProgressMade
<1> QED BY <1>1, <1>2, <1>3 DEF Applying

LEMMA ProtectedKeepsIInv ==
    ASSUME AccessibilityIInv, Protected
    PROVE  AccessibilityIInv'
BY DEF AccessibilityIInv, AccessibilityTypeOK, Protected, FinishApply, userVars, Applying,
       UserChoiceRecoverable, HeldIsBackedUp, BackupIsUsers, WorkIsBackedUp, ProgressMade

(* The file goes only after every setting is back to what it holds.          *)
LEMMA RemoveBackupKeepsIInv ==
    ASSUME AccessibilityIInv, NEW removed \in BOOLEAN, RemoveBackup(removed)
    PROVE  AccessibilityIInv'
<1> USE DEF AccessibilityIInv, AccessibilityTypeOK, RemoveBackup, FinishApply, AfterRecovery,
            userVars
<1>1. \A s \in Settings : settings[s] = work[s]
  BY DEF ProgressMade, Settings
<1>2. backup = work /\ backup # NoSnapshot
  BY ValuesAssumption DEF WorkIsBackedUp, Snapshots, Settings
<1>3. \A s \in Settings \ edited : settings[s] = user[s]
  BY <1>1, <1>2 DEF BackupIsUsers
<1>4. AccessibilityTypeOK'
  BY DEF Applying
<1>5. UserChoiceRecoverable' /\ BackupIsUsers'
  BY <1>2, <1>3 DEF UserChoiceRecoverable, BackupIsUsers
<1>6. HeldIsBackedUp' /\ WorkIsBackedUp' /\ ProgressMade'
  BY DEF HeldIsBackedUp, WorkIsBackedUp, ProgressMade, Applying
<1> QED BY <1>4, <1>5, <1>6

LEMMA KilledKeepsIInv ==
    ASSUME AccessibilityIInv, Killed
    PROVE  AccessibilityIInv'
BY DEF AccessibilityIInv, AccessibilityTypeOK, Killed, userVars, Applying,
       UserChoiceRecoverable, HeldIsBackedUp, BackupIsUsers, WorkIsBackedUp, ProgressMade

(* An edit under a pending backup is exempt; any other makes user = settings. *)
LEMMA UserEditsKeepsIInv ==
    ASSUME AccessibilityIInv, NEW t \in Settings, NEW v \in Values, UserEdits(t, v)
    PROVE  AccessibilityIInv'
<1> USE DEF AccessibilityIInv, UserEdits, procVars
<1>1. AccessibilityTypeOK'
  BY DEF AccessibilityTypeOK, Snapshots
<1>2. UserChoiceRecoverable' /\ BackupIsUsers'
  BY DEF AccessibilityTypeOK, Snapshots, UserChoiceRecoverable, BackupIsUsers
<1>3. HeldIsBackedUp' /\ WorkIsBackedUp' /\ ProgressMade'
  BY DEF HeldIsBackedUp, WorkIsBackedUp, ProgressMade, Applying
<1> QED BY <1>1, <1>2, <1>3

LEMMA NextKeepsIInv ==
    AccessibilityIInv /\ [AccessibilityNext]_accessibilityVars => AccessibilityIInv'
<1> SUFFICES ASSUME AccessibilityIInv, [AccessibilityNext]_accessibilityVars PROVE AccessibilityIInv'
  OBVIOUS
<1>1. ASSUME NEW h \in BOOLEAN, NEW r \in BOOLEAN, NEW d \in BOOLEAN, StartProcess(h, r, d)
      PROVE  AccessibilityIInv'
  BY <1>1, StartKeepsIInv
<1>2. ASSUME NEW ticks \in BOOLEAN, Activate(ticks) PROVE AccessibilityIInv'
  BY <1>2, ActivateKeepsIInv
<1>3. CASE DeactivateAccessibility
  BY <1>3, DeactivateKeepsIInv
<1>4. CASE ApplyNext
  BY <1>4, ApplyNextKeepsIInv
<1>5. CASE ApplyFails
  BY <1>5, ApplyFailsKeepsIInv
<1>6. CASE Protected
  BY <1>6, ProtectedKeepsIInv
<1>7. ASSUME NEW removed \in BOOLEAN, RemoveBackup(removed) PROVE AccessibilityIInv'
  BY <1>7, RemoveBackupKeepsIInv
<1>8. CASE Killed
  BY <1>8, KilledKeepsIInv
<1>9. ASSUME NEW t \in Settings, NEW v \in Values, UserEdits(t, v) PROVE AccessibilityIInv'
  BY <1>9, UserEditsKeepsIInv
<1>10. CASE UNCHANGED accessibilityVars
  BY <1>10 DEF accessibilityVars, AccessibilityIInv, AccessibilityTypeOK, UserChoiceRecoverable,
               HeldIsBackedUp, BackupIsUsers,
               WorkIsBackedUp, ProgressMade
<1> QED
  BY <1>1, <1>2, <1>3, <1>4, <1>5, <1>6, <1>7, <1>8, <1>9, <1>10 DEF AccessibilityNext

(* The strengthening, for every set of values.                               *)
THEOREM AccessibilityInvariant == AccessibilitySpec => []AccessibilityIInv
BY InitIInv, NextKeepsIInv, PTL DEF AccessibilitySpec

(* activate/deactivate/restore keep every variable in its type.              *)
THEOREM AccessibilityTypes == AccessibilitySpec => []AccessibilityTypeOK
<1>1. AccessibilityIInv => AccessibilityTypeOK
  BY DEF AccessibilityIInv
<1> QED BY <1>1, AccessibilityInvariant, PTL

(* Whatever the crash point, what the user had chosen is live or on disk.    *)
THEOREM UserChoiceNeverLost == AccessibilitySpec => []UserChoiceRecoverable
<1>1. AccessibilityIInv => UserChoiceRecoverable
  BY DEF AccessibilityIInv
<1> QED BY <1>1, AccessibilityInvariant, PTL

(* The in-memory snapshot always has its copy in the crash-recovery file.    *)
THEOREM HeldSnapshotBackedUp == AccessibilitySpec => []HeldIsBackedUp
<1>1. AccessibilityIInv => HeldIsBackedUp
  BY DEF AccessibilityIInv
<1> QED BY <1>1, AccessibilityInvariant, PTL
=============================================================================
