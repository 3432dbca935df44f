------------------------- MODULE AccessibilityGuard -------------------------
(***************************************************************************)
(* rust-core/src/accessibility_guard.rs: the guard that turns the Windows  *)
(* accessibility hotkeys (Sticky, Filter and Toggle Keys) off during an    *)
(* exam, and the backup file that lets a later process undo it when the    *)
(* core dies first.                                                        *)
(*                                                                         *)
(* The three settings belong to the user's Windows profile: they survive   *)
(* every process of this program.  Each SystemParametersInfoW call, and    *)
(* each file operation, is a step of its own, so that the process can be   *)
(* killed between any two of them.                                         *)
(*                                                                         *)
(* At most one process of the program touches the settings at a time: the  *)
(* core, or the `--emergency-restore` helper the bootstrapper runs after   *)
(* it has terminated the job the core lived in.                            *)
(***************************************************************************)
EXTENDS Naturals

CONSTANTS
    Values,     \* what one setting can be
    Off,        \* a setting with its activation hotkey disabled
    NoSnapshot  \* Option::None

ASSUME ValuesAssumption ==
    /\ Off \in Values
    /\ NoSnapshot \notin [1 .. 3 -> Values]

(* The order in which apply_snapshot writes: 1 sticky, 2 filter, 3 toggle. *)
Settings == 1 .. 3
Snapshots == [Settings -> Values]

VARIABLES
    settings,   \* the live settings of the profile
    backup,     \* the snapshot in accessibility-backup-v1.json, or NoSnapshot
    ownerTicks, \* TRUE when the file records its owner's start time
    held,       \* ACCESSIBILITY_GUARD_STATE: the snapshot the core holds
    pc,         \* what the running process is doing
    work,       \* the snapshot handed to apply_snapshot
    done,       \* how many settings apply_snapshot has written
    helper,     \* TRUE when the running process is the emergency helper
    user,       \* history: what the user last chose for each setting
    edited      \* history: settings the user chose while a backup was pending

accessibilityVars ==
    <<settings, backup, ownerTicks, held, pc, work, done, helper, user, edited>>
procVars == <<held, pc, work, done, helper>>
userVars == <<user, edited>>

Applying == {"recovering", "disabling", "undoing", "deactivating"}

AccessibilityTypeOK ==
    /\ settings \in Snapshots
    /\ backup \in Snapshots \cup {NoSnapshot}
    /\ ownerTicks \in BOOLEAN
    /\ held \in Snapshots \cup {NoSnapshot}
    /\ pc \in Applying \cup {"down", "serving"}
    /\ work \in Snapshots \cup {NoSnapshot}
    /\ done \in 0 .. 3
    /\ helper \in BOOLEAN
    /\ user \in Snapshots
    /\ edited \subseteq Settings

AccessibilityInit ==
    /\ settings \in Snapshots
    /\ user = settings
    /\ backup = NoSnapshot
    /\ ownerTicks = TRUE
    /\ held = NoSnapshot
    /\ pc = "down"
    /\ work = NoSnapshot
    /\ done = 0
    /\ helper = FALSE
    /\ edited = {}

-----------------------------------------------------------------------------
(* The helper exits when it is done, the core goes on to serve commands. *)
AfterRecovery(h) == IF h THEN "down" ELSE "serving"

FinishApply(next) ==
    /\ pc' = next
    /\ work' = NoSnapshot
    /\ done' = 0

BeginApply(step, snapshot) ==
    /\ pc' = step
    /\ work' = snapshot
    /\ done' = 0

(***************************************************************************)
(* same_process_identity on a backup whose owner is dead: a recycled pid   *)
(* passes for the owner only when the file has no start time.              *)
(***************************************************************************)
OwnerSeemsAlive(pidReused) == pidReused /\ ~ownerTicks

(***************************************************************************)
(* restore_accessibility_after_unclean_shutdown, called first by main()    *)
(* and by run_emergency_restore.  The file may be unreadable.              *)
(***************************************************************************)
StartProcess(h, pidReused, readable) ==
    /\ pc = "down"
    /\ helper' = h
    /\ IF backup = NoSnapshot \/ ~readable \/ OwnerSeemsAlive(pidReused)
         THEN FinishApply(AfterRecovery(h))
         ELSE BeginApply("recovering", backup)
    /\ UNCHANGED <<settings, backup, ownerTicks, held, userVars>>

(* Mutant: the `path.exists()` check is dropped. *)
PersistBackupBlindly(ticks) ==
    /\ backup' = settings
    /\ ownerTicks' = ticks

(* persist_backup: an existing file is never replaced. *)
PersistBackup(ticks) ==
    /\ backup = NoSnapshot
    /\ backup' = settings
    /\ ownerTicks' = ticks

(* activate_accessibility_guard up to apply_snapshot(protected). *)
Activate(ticks) ==
    /\ pc = "serving"
    /\ held = NoSnapshot
    /\ PersistBackup(ticks)
    /\ BeginApply("disabling", settings)
    /\ UNCHANGED <<settings, held, helper, userVars>>

(* deactivate_accessibility_guard up to apply_snapshot(snapshot). *)
DeactivateAccessibility ==
    /\ pc = "serving"
    /\ held # NoSnapshot
    /\ BeginApply("deactivating", held)
    /\ UNCHANGED <<settings, backup, ownerTicks, held, helper, userVars>>

-----------------------------------------------------------------------------
(* What apply_snapshot is writing: the protected copy, or the snapshot. *)
Target(s) == IF pc = "disabling" THEN Off ELSE work[s]

ApplyNext ==
    /\ pc \in Applying
    /\ done < 3
    /\ settings' = [settings EXCEPT ![done + 1] = Target(done + 1)]
    /\ done' = done + 1
    /\ UNCHANGED <<backup, ownerTicks, held, pc, work, helper, userVars>>

(* update_setting failed: `?` leaves the settings written so far in place. *)
ApplyFails ==
    /\ pc \in Applying
    /\ done < 3
    /\ CASE pc = "disabling"    -> BeginApply("undoing", work)
         [] pc = "recovering"   -> FinishApply(AfterRecovery(helper))
         [] OTHER               -> FinishApply("serving")
    /\ UNCHANGED <<settings, backup, ownerTicks, held, helper, userVars>>

Protected ==
    /\ pc = "disabling"
    /\ done = 3
    /\ held' = work
    /\ FinishApply("serving")
    /\ UNCHANGED <<settings, backup, ownerTicks, helper, userVars>>

(* remove_backup after a complete apply; the removal itself may fail. *)
RemoveBackup(removed) ==
    /\ pc \in Applying \ {"disabling"}
    /\ done = 3
    /\ held' = NoSnapshot
    /\ backup' = IF removed THEN NoSnapshot ELSE backup
    /\ FinishApply(IF pc = "recovering" THEN AfterRecovery(helper) ELSE "serving")
    /\ UNCHANGED <<settings, ownerTicks, helper, userVars>>

-----------------------------------------------------------------------------
(* The process is killed (TerminateJobObject), or exits. *)
Killed ==
    /\ pc # "down"
    /\ pc' = "down"
    /\ held' = NoSnapshot
    /\ work' = NoSnapshot
    /\ done' = 0
    /\ UNCHANGED <<settings, backup, ownerTicks, helper, userVars>>

(* The user opens Windows Settings; the kiosk makes that impossible. *)
UserEdits(s, v) ==
    /\ pc \in {"down", "serving"}
    /\ held = NoSnapshot
    /\ settings' = [settings EXCEPT ![s] = v]
    /\ user' = [user EXCEPT ![s] = v]
    /\ edited' = IF backup = NoSnapshot THEN edited \ {s} ELSE edited \cup {s}
    /\ UNCHANGED <<backup, ownerTicks, procVars>>

AccessibilityNext ==
    \/ \E h, pidReused, readable \in BOOLEAN : StartProcess(h, pidReused, readable)
    \/ \E ticks \in BOOLEAN : Activate(ticks)
    \/ DeactivateAccessibility
    \/ ApplyNext
    \/ ApplyFails
    \/ Protected
    \/ \E removed \in BOOLEAN : RemoveBackup(removed)
    \/ Killed
    \/ \E s \in Settings, v \in Values : UserEdits(s, v)

AccessibilitySpec == AccessibilityInit /\ [][AccessibilityNext]_accessibilityVars

-----------------------------------------------------------------------------
(***************************************************************************)
(* No crash, failed call or failed cleanup loses what the user had chosen: *)
(* a setting that is not the user's choice is in a backup that has it.     *)
(* The exception the code has is spelled out: a choice the user makes      *)
(* while a stale backup is still on disk is overwritten by the recovery.   *)
(***************************************************************************)
UserChoiceRecoverable ==
    \A s \in Settings \ edited :
        settings[s] # user[s] => backup # NoSnapshot /\ backup[s] = user[s]

(***************************************************************************)
(* While the core believes the hotkeys are off, killing it at this instant *)
(* leaves on disk exactly the snapshot it would have restored itself.      *)
(***************************************************************************)
HeldIsBackedUp == held # NoSnapshot => backup = held
=============================================================================
