----------------------------- MODULE HookGuards -----------------------------
(***************************************************************************)
(* One native guard with a thread of its own: the keyboard, mouse, focus   *)
(* or clipboard guard.  All four follow one protocol.  The command loop,   *)
(* holding the guard's mutex, looks whether the remembered thread is       *)
(* healthy, stops and joins a stale one, spawns a new one and waits three  *)
(* seconds for it to report; the thread installs its hook, raises the      *)
(* guard's flag, reports, and sits in GetMessageW until it is told to      *)
(* quit.  Around them the user types, moves the pointer, changes windows   *)
(* and copies.                                                             *)
(***************************************************************************)
EXTENDS GuardDecisions, Sequences, FiniteSets

CONSTANTS
    Kinds,              \* a subset of {"keyboard", "mouse", "focus", "clipboard"}
    Threads, NoThread,
    Windows, Desktop,   \* windows the shell names as the exam's, and the rest
    Monitors,           \* primary monitors that may be reported
    Points, Strokes,    \* where the pointer goes, what is typed
    DevEscape,          \* EDULEARN_EXAM_GUARD_DEV_ESCAPE
    MaxRaised           \* bound: foreground events on their way

ASSUME KindsAssumption == Kinds \subseteq {"keyboard", "mouse", "focus", "clipboard"}
ASSUME ThreadsAssumption == NoThread \notin Threads
ASSUME PointsAssumption == Points \subseteq Point
ASSUME MonitorsAssumption ==
    \A m \in Monitors : m.x \in I32 /\ m.y \in I32 /\ m.width \in I32 /\ m.height \in I32
ASSUME WindowsAssumption == Desktop \notin Windows

VARIABLES
    kind,
    call,           \* where the command loop is in a call to the guard
    told,           \* what the last finished call answered
    handle,         \* the thread in the guard's state
    current,        \* the thread that was spawned last
    ready,          \* what current has sent
    wanted,         \* the window a focus guard is asked to hold
    thread, hooks,  \* the guard's threads; those with a hook in Windows
    active,         \* the ACTIVE flag; for the clipboard, IsWindow of its window
    target,         \* FOCUS_TARGET_WINDOW
    bounds, clip, clipped,  \* the mouse bounds; ClipCursor in force; clip_result
    windows, foreground, raised, denied,
    content, update, overlooked,
    pointer, delivered

control == <<kind, call, told, handle, current, ready, wanted>>
mouse == <<bounds, clip, clipped>>
focus == <<windows, foreground, raised, denied>>
clipboard == <<content, update, overlooked>>
input == <<pointer, delivered>>
vars == <<control, thread, hooks, active, target, mouse, focus, clipboard, input>>

NoBounds == [left |-> 0, top |-> 0, right |-> 0, bottom |-> 0]
NoStroke == [key |-> "none", held |-> {}]
Unborn == [at |-> "ended", stop |-> FALSE, quit |-> FALSE]

Places == {"born", "hooked", "loop", "waiting", "clearing", "leaving", "unhooked",
           "ended"}
ThreadState == [at : Places, stop : BOOLEAN, quit : BOOLEAN]

TypeOK ==
    /\ kind \in Kinds
    /\ call \in {"idle", "storing", "checking", "stopping", "starting",
                 "late", "failing", "removing"}
    /\ told \in {"hook", "fallback", "failed", "skipped", "off"}
    /\ handle \in Threads \cup {NoThread}
    /\ current \in Threads \cup {NoThread}
    /\ ready \in {"none", "ok", "err"}
    /\ wanted \in Windows \cup {Desktop}
    /\ thread \in [Threads -> ThreadState]
    /\ hooks \subseteq Threads
    /\ active \in BOOLEAN
    /\ target \in Windows \cup {Desktop}
    /\ bounds \in Bounds /\ clip \in BOOLEAN /\ clipped \in BOOLEAN
    /\ windows \subseteq Windows
    /\ foreground \in Windows \cup {Desktop}
    /\ raised \in Seq(Windows \cup {Desktop})
    /\ denied \in BOOLEAN
    /\ content \in {"none", "exam", "other"}
    /\ update \in BOOLEAN /\ overlooked \in BOOLEAN
    /\ pointer \in Point
    /\ delivered \in Strokes \cup {NoStroke}

Init ==
    /\ kind \in Kinds
    /\ call = "idle" /\ told = "off"
    /\ handle = NoThread /\ current = NoThread /\ ready = "none"
    /\ wanted = Desktop
    /\ thread = [t \in Threads |-> Unborn]
    /\ hooks = {} /\ active = FALSE /\ target = Desktop
    /\ bounds = NoBounds /\ clip = FALSE /\ clipped = FALSE
    /\ windows = Windows /\ foreground = Desktop /\ raised = <<>> /\ denied = FALSE
    /\ content \in {"none", "other"} /\ update = FALSE
    /\ overlooked = (content = "other")
    /\ pointer \in Points /\ delivered = NoStroke

----------------------------------------------------------------------------
(* The command loop *)

(* Mutant: no WM_QUIT is posted *)
ToldByFlagOnly(t) == [thread EXCEPT ![t].stop = TRUE]

(* GetMessageW of t returns on WM_QUIT; the flag is read between messages *)
Told(t) == [thread EXCEPT ![t].stop = TRUE, ![t].quit = TRUE]

(* stop_*_guard up to its join: the clipboard has no flag to lower *)
Stop(t) ==
    /\ thread' = Told(t)
    /\ handle' = NoThread
    /\ active' = (active /\ kind = "clipboard")
    /\ target' = Desktop

(* The clipboard is emptied before its listener exists; five tries may fail *)
ClearFirst ==
    \/ /\ kind = "clipboard" /\ content' = "none" /\ overlooked' = FALSE
       /\ UNCHANGED update
    \/ /\ kind = "clipboard" /\ overlooked' = (content = "other")
       /\ UNCHANGED <<content, update>>
    \/ kind # "clipboard" /\ UNCHANGED clipboard

Spawn ==
    /\ \E t \in Threads :
         /\ thread[t].at = "ended"
         /\ thread' = [thread EXCEPT ![t] = [Unborn EXCEPT !.at = "born"]]
         /\ current' = t
    /\ ready' = "none"
    /\ ClearFirst
    /\ call' = "starting"

Answer(a) == call' = "idle" /\ told' = a

(* Four stores, two before a hook may read and two after *)
StoreBounds(b) ==
    /\ kind = "mouse" /\ call = "idle"
    /\ bounds' = [b EXCEPT !.right = bounds.right, !.bottom = bounds.bottom]
    /\ call' = "storing"
    /\ UNCHANGED <<kind, told, handle, current, ready, wanted, thread, hooks,
                   active, target, clip, clipped, focus, clipboard, input>>

ClipPointer(b) ==
    /\ call = "storing"
    /\ b.left = bounds.left /\ b.top = bounds.top
    /\ bounds' = b
    /\ clipped' \in BOOLEAN
    /\ clip' = (clip \/ clipped')
    /\ call' = "checking"
    /\ UNCHANGED <<kind, told, handle, current, ready, wanted, thread, hooks,
                   active, target, focus, clipboard, input>>

(* An activation has come to the guard's mutex, for window w if it is focus *)
Requested(w) ==
    \/ kind \in {"keyboard", "clipboard"} /\ call = "idle" /\ w = Desktop
    \/ kind = "mouse" /\ call = "checking" /\ w = Desktop
    \/ kind = "focus" /\ call = "idle" /\ w \in windows

Healthy(w) ==
    /\ handle # NoThread
    /\ ThreadHealthy(TRUE, active, thread[handle].at = "ended")
    /\ kind = "focus" => wanted = w

(* A focus guard without a window that exists is left as it is *)
Skip ==
    /\ kind = "focus" /\ call = "idle"
    /\ Answer("skipped")
    /\ UNCHANGED <<kind, handle, current, ready, wanted, thread, hooks, active,
                   target, mouse, focus, clipboard, input>>

AlreadyActive(w) ==
    /\ Requested(w) /\ Healthy(w)
    /\ Answer("hook")
    /\ UNCHANGED <<kind, handle, current, ready, wanted, thread, hooks, active,
                   target, mouse, focus, clipboard, input>>

ReplaceStale(w) ==
    /\ Requested(w) /\ ~ Healthy(w) /\ handle # NoThread
    /\ Stop(handle)
    /\ wanted' = w
    /\ call' = "stopping"
    /\ UNCHANGED <<kind, told, current, ready, hooks, mouse, focus, clipboard, input>>

StartFresh(w) ==
    /\ Requested(w) /\ handle = NoThread
    /\ Spawn
    /\ wanted' = w
    /\ UNCHANGED <<kind, told, handle, hooks, active, target, mouse, focus, input>>

Ended(t) == t = NoThread \/ thread[t].at = "ended"

(* Mutant: the stale thread is left to end by itself *)
StaleDetached ==
    /\ call = "stopping"
    /\ Spawn
    /\ UNCHANGED <<kind, told, handle, wanted, hooks, active, target, mouse, focus, input>>

StaleJoined ==
    /\ call = "stopping" /\ Ended(current)
    /\ Spawn
    /\ UNCHANGED <<kind, told, handle, wanted, hooks, active, target, mouse, focus, input>>

Started ==
    /\ call = "starting" /\ ready = "ok"
    /\ handle' = current
    /\ Answer("hook")
    /\ UNCHANGED <<kind, current, ready, wanted, thread, hooks, active, target,
                   mouse, focus, clipboard, input>>

StartFails ==
    /\ call = "starting" /\ ready = "err"
    /\ thread' = [thread EXCEPT ![current].stop = TRUE]
    /\ call' = "failing"
    /\ UNCHANGED <<kind, told, handle, current, ready, wanted, hooks, active, target,
                   mouse, focus, clipboard, input>>

(* recv_timeout gives up; the stop flag is raised by the next statement *)
TimesOut ==
    /\ call = "starting" /\ ready = "none"
    /\ call' = "late"
    /\ UNCHANGED <<kind, told, handle, current, ready, wanted, thread, hooks, active,
                   target, mouse, focus, clipboard, input>>

(* Mutant: the late thread is told to stop, and not joined *)
GiveUpDetached ==
    /\ call = "late"
    /\ thread' = [thread EXCEPT ![current].stop = TRUE]
    /\ Answer("failed")
    /\ UNCHANGED <<kind, handle, current, ready, wanted, hooks, active, target,
                   mouse, focus, clipboard, input>>

(* No thread id was received, so no WM_QUIT can be posted *)
GiveUp ==
    /\ call = "late"
    /\ thread' = [thread EXCEPT ![current].stop = TRUE]
    /\ call' = "failing"
    /\ UNCHANGED <<kind, told, handle, current, ready, wanted, hooks, active, target,
                   mouse, focus, clipboard, input>>

FailureJoined ==
    /\ call = "failing" /\ Ended(current)
    /\ Answer(IF kind = "mouse" /\ clipped THEN "fallback" ELSE "failed")
    /\ UNCHANGED <<kind, handle, current, ready, wanted, thread, hooks, active, target,
                   mouse, focus, clipboard, input>>

(* Also the activation of a mouse guard without a primary monitor *)
Deactivate ==
    /\ call = "idle" /\ handle # NoThread
    /\ Stop(handle)
    /\ call' = "removing"
    /\ UNCHANGED <<kind, told, current, ready, wanted, hooks, mouse, focus, clipboard,
                   input>>

DeactivateIdle ==
    /\ call = "idle" /\ handle = NoThread
    /\ active' = (active /\ kind # "mouse")
    /\ clip' \in {clip, clip /\ kind # "mouse"}
    /\ Answer("off")
    /\ UNCHANGED <<kind, handle, current, ready, wanted, thread, hooks, target, bounds,
                   clipped, focus, clipboard, input>>

RemovalJoined ==
    /\ call = "removing" /\ Ended(current)
    /\ clip' \in {clip, clip /\ kind # "mouse"}
    /\ Answer("off")
    /\ UNCHANGED <<kind, handle, current, ready, wanted, thread, hooks, active, target,
                   bounds, clipped, focus, clipboard, input>>

CommandLoop ==
    \/ \E m \in Monitors : StoreBounds(ClipBounds(m)) \/ ClipPointer(ClipBounds(m))
    \/ \E w \in Windows \cup {Desktop} :
          AlreadyActive(w) \/ ReplaceStale(w) \/ StartFresh(w)
    \/ Skip
    \/ StaleJoined \/ Started \/ StartFails \/ TimesOut \/ GiveUp \/ FailureJoined
    \/ Deactivate \/ DeactivateIdle \/ RemovalJoined

----------------------------------------------------------------------------
(* The guard's thread *)

Restored(w) ==
    \/ foreground' = w /\ denied' = FALSE
    \/ foreground' = foreground /\ denied' = TRUE

Install(t) ==
    /\ thread[t].at = "born"
    /\ thread' = [thread EXCEPT ![t].at = "hooked"]
    /\ hooks' = hooks \cup {t}
    /\ active' = (active \/ kind = "clipboard")
    /\ UNCHANGED <<control, target, mouse, focus, clipboard, input>>

InstallFails(t) ==
    /\ thread[t].at = "born"
    /\ thread' = [thread EXCEPT ![t].at = "ended"]
    /\ ready' = "err"
    /\ UNCHANGED <<kind, call, told, handle, current, wanted, hooks, active, target,
                   mouse, focus, clipboard, input>>

(* Mutant: the window that is in the foreground already is left there *)
AnnounceOnly(t) ==
    /\ thread[t].at = "hooked"
    /\ thread' = [thread EXCEPT ![t].at = "loop"]
    /\ active' = TRUE
    /\ ready' = "ok"
    /\ target' = IF kind = "focus" THEN wanted ELSE target
    /\ UNCHANGED <<kind, call, told, handle, current, wanted, hooks, mouse, focus,
                   clipboard, input>>

(* A focus guard first takes the foreground back, as the hook hears only of *)
(* later changes                                                            *)
Announce(t) ==
    /\ thread[t].at = "hooked"
    /\ thread' = [thread EXCEPT ![t].at = "loop"]
    /\ active' = TRUE
    /\ ready' = "ok"
    /\ target' = IF kind = "focus" THEN wanted ELSE target
    /\ IF kind = "focus" /\ ShouldRestoreFocus(TRUE, wanted, foreground,
                                               wanted \in windows, Desktop)
         THEN Restored(wanted) ELSE UNCHANGED <<foreground, denied>>
    /\ UNCHANGED <<kind, call, told, handle, current, wanted, hooks, mouse, windows,
                   raised, clipboard, input>>

(* The stop flag is read, then GetMessageW blocks *)
Look(t) ==
    /\ thread[t].at = "loop"
    /\ thread' = [thread EXCEPT ![t].at =
                    IF thread[t].stop THEN "leaving" ELSE "waiting"]
    /\ UNCHANGED <<control, hooks, active, target, mouse, focus, clipboard, input>>

Quit(t) ==
    /\ thread[t].at = "waiting" /\ thread[t].quit
    /\ thread' = [thread EXCEPT ![t].at = "leaving"]
    /\ UNCHANGED <<control, hooks, active, target, mouse, focus, clipboard, input>>

(* GetMessageW fails, and nobody is told *)
Breaks(t) ==
    /\ thread[t].at = "waiting" /\ ~ thread[t].quit
    /\ thread' = [thread EXCEPT ![t].at = "leaving"]
    /\ UNCHANGED <<control, hooks, active, target, mouse, focus, clipboard, input>>

(* The focus guard lowers its flag first, the others take the hook out first *)
Unhook(t) ==
    /\ thread[t].at = "leaving"
    /\ thread' = [thread EXCEPT ![t].at = "unhooked"]
    /\ hooks' = hooks \ {t}
    /\ active' = (active /\ kind # "focus")
    /\ target' = IF kind = "focus" THEN Desktop ELSE target
    /\ raised' = <<>>
    /\ update' = FALSE
    /\ UNCHANGED <<control, mouse, windows, foreground, denied, content, overlooked,
                   input>>

Finish(t) ==
    /\ thread[t].at = "unhooked"
    /\ thread' = [thread EXCEPT ![t].at = "ended"]
    /\ active' = FALSE
    /\ UNCHANGED <<control, hooks, target, mouse, focus, clipboard, input>>

(* foreground_event_callback, which runs inside GetMessageW *)
ForegroundEvent(t) ==
    /\ thread[t].at = "waiting" /\ raised # <<>>
    /\ IF ShouldRestoreFocus(active, target, Head(raised), target \in windows, Desktop)
         THEN Restored(target) ELSE UNCHANGED <<foreground, denied>>
    /\ raised' = Tail(raised)
    /\ UNCHANGED <<control, thread, hooks, active, target, mouse, windows, clipboard,
                   input>>

(* WM_CLIPBOARDUPDATE: the owner is read first, the clipboard emptied after *)
ReadOwner(t) ==
    /\ thread[t].at = "waiting" /\ update
    /\ update' = FALSE
    /\ thread' = [thread EXCEPT ![t].at =
                    IF content # "none" /\ ShouldClearFor(content, {"exam"})
                      THEN "clearing" ELSE "loop"]
    /\ UNCHANGED <<control, hooks, active, target, mouse, focus, content, overlooked,
                   input>>

(* Mutant: an update that arrives while the clipboard is emptied is ignored *)
EmptyClipboardDeaf(t) ==
    /\ thread[t].at = "clearing"
    /\ thread' = [thread EXCEPT ![t].at = "loop"]
    /\ update' = FALSE
    /\ \/ content' = "none" /\ overlooked' = FALSE
       \/ UNCHANGED <<content, overlooked>>
    /\ UNCHANGED <<control, hooks, active, target, mouse, focus, input>>

EmptyClipboard(t) ==
    /\ thread[t].at = "clearing"
    /\ thread' = [thread EXCEPT ![t].at = "loop"]
    /\ \/ content' = "none" /\ overlooked' = FALSE
       \/ content' = content /\ overlooked' = (content = "other")
    /\ UNCHANGED <<control, hooks, active, target, mouse, focus, update, input>>

GuardThread(t) ==
    \/ Install(t) \/ InstallFails(t) \/ Announce(t)
    \/ Look(t) \/ Quit(t) \/ Breaks(t) \/ Unhook(t) \/ Finish(t)
    \/ ForegroundEvent(t) \/ ReadOwner(t) \/ EmptyClipboard(t)

----------------------------------------------------------------------------
(* The user and the desktop: input waits while a hook's thread is not in   *)
(* GetMessageW, and a hook whose flag is down passes it on                  *)

Passes == \A t \in hooks : thread[t].at = "waiting"

Intercepts == hooks # {} /\ active

Types(s) ==
    /\ kind = "keyboard" /\ Passes
    /\ delivered' = IF Intercepts /\ BlocksShortcut(s, DevEscape) THEN delivered ELSE s
    /\ UNCHANGED <<control, thread, hooks, active, target, mouse, focus, clipboard,
                   pointer>>

(* Windows keeps the pointer in the clip rectangle while one is in force *)
MovesPointer(p) ==
    /\ kind = "mouse" /\ Passes
    /\ pointer' = IF clip \/ Intercepts THEN ClampPoint(p, bounds) ELSE p
    /\ UNCHANGED <<control, thread, hooks, active, target, mouse, focus, clipboard,
                   delivered>>

(* Any program may release the clip rectangle *)
ClipLost ==
    /\ clip
    /\ clip' = FALSE
    /\ UNCHANGED <<control, thread, hooks, active, target, bounds, clipped, focus,
                   clipboard, input>>

Raise(w) ==
    /\ foreground' = w /\ denied' = FALSE
    /\ raised' = IF hooks = {} THEN raised ELSE Append(raised, w)

SwitchesTo(w) ==
    /\ kind = "focus" /\ w \in windows \cup {Desktop} /\ w # foreground
    /\ Len(raised) < MaxRaised
    /\ Raise(w)
    /\ UNCHANGED <<control, thread, hooks, active, target, mouse, windows, clipboard,
                   input>>

ClosesWindow(w) ==
    /\ kind = "focus" /\ w \in windows
    /\ windows' = windows \ {w}
    /\ IF foreground = w
         THEN Len(raised) < MaxRaised /\ Raise(Desktop)
         ELSE UNCHANGED <<foreground, raised, denied>>
    /\ UNCHANGED <<control, thread, hooks, active, target, mouse, clipboard, input>>

Copies(owner) ==
    /\ kind = "clipboard"
    /\ content' = owner
    /\ update' = (update \/ hooks # {})
    /\ overlooked' = (owner = "other" /\ hooks = {})
    /\ UNCHANGED <<control, thread, hooks, active, target, mouse, focus, input>>

Surroundings ==
    \/ \E s \in Strokes : Types(s)
    \/ \E p \in Points : MovesPointer(p)
    \/ \E w \in Windows \cup {Desktop} : SwitchesTo(w) \/ ClosesWindow(w)
    \/ \E o \in {"exam", "other"} : Copies(o)
    \/ ClipLost

Next ==
    \/ CommandLoop
    \/ \E t \in Threads : GuardThread(t)
    \/ Surroundings

Spec == Init /\ [][Next]_vars

(* The steps of a call, and of a thread Windows schedules.  What Windows    *)
(* refuses or breaks, and what the user does, is not promised.              *)
CallSteps ==
    \/ \E m \in Monitors : ClipPointer(ClipBounds(m))
    \/ \E w \in Windows \cup {Desktop} :
          call # "idle" /\ (AlreadyActive(w) \/ ReplaceStale(w) \/ StartFresh(w))
    \/ StaleJoined \/ Started \/ StartFails \/ TimesOut \/ GiveUp \/ FailureJoined
    \/ RemovalJoined

ThreadSteps(t) ==
    \/ Install(t) \/ InstallFails(t) \/ Announce(t) \/ Look(t) \/ Quit(t)
    \/ Unhook(t) \/ Finish(t) \/ EmptyClipboard(t)

FairSpec ==
    /\ Spec
    /\ WF_vars(CallSteps)
    /\ \A t \in Threads : WF_vars(ThreadSteps(t))

----------------------------------------------------------------------------
(* Properties *)

(* The thread in the guard's state has not left its message loop *)
OnGuard ==
    /\ call = "idle" /\ told = "hook" /\ handle # NoThread
    /\ thread[handle].at \in {"loop", "waiting", "clearing"}

(* A call that has answered that the hook is active leaves one installed, with
   its flag up and, for the focus guard, the window that was asked for; only a
   thread that has left its loop by itself is excepted.  A thread that is late
   with its own end must not lower the flag of its successor.                *)
ToldHookIsLive ==
    call = "idle" /\ told = "hook" =>
        /\ handle # NoThread
        /\ thread[handle].at \in {"loop", "waiting", "clearing"} =>
              hooks = {handle} /\ active /\ (kind = "focus" => target = wanted)

(* A call that has removed the guard, or failed to start it, leaves no thread,
   no hook, no flag and no window to hold: also when the thread reported only
   after the three seconds were over.                                       *)
OffIsQuiet ==
    call = "idle" /\ told \in {"off", "failed", "fallback"} =>
        /\ \A t \in Threads : thread[t].at = "ended"
        /\ hooks = {} /\ ~ active /\ target = Desktop

(* While the guard is on, no blocked shortcut reaches Windows, and the pointer
   does not move out of the monitor, whoever released the clip rectangle.    *)
EventsStopped ==
    [][OnGuard =>
         /\ delivered' = delivered \/ ~ BlocksShortcut(delivered', DevEscape)
         /\ pointer' = pointer \/ Empty(bounds) \/ Within(pointer', bounds)]_vars

(* Once the events on their way are taken, the exam's window is in the
   foreground, unless it is gone or Windows refused to raise it.            *)
FocusHeld ==
    OnGuard /\ kind = "focus" /\ thread[handle].at = "waiting" /\ raised = <<>> =>
        foreground = target \/ target \notin windows \/ denied

(* Once its updates are taken, the clipboard holds nothing of another program,
   except what was put there before the listener heard, or could not be
   emptied in five tries.                                                    *)
ForeignCleared ==
    OnGuard /\ kind = "clipboard" /\ thread[handle].at = "waiting" /\ ~ update =>
        content # "other" \/ overlooked

(* The failed start is waited for while its thread sleeps in GetMessageW *)
Unwakeable ==
    /\ call = "failing" /\ current # NoThread
    /\ thread[current].at = "waiting" /\ ~ thread[current].quit

(* A call to the guard returns, whenever its thread reports, fails or breaks,
   except when the report comes between the end of the three seconds and the
   raising of the stop flag: then nothing wakes the thread that is joined.   *)
CallReturns == call # "idle" ~> call = "idle" \/ Unwakeable

(* "Timed out while starting WH_MOUSE_LL; ClipCursor fallback remains.": an
   activation that has timed out answers.                                    *)
TimedOutAnswers == call = "late" ~> call = "idle"
=============================================================================
