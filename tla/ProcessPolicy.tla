---------------------------- MODULE ProcessPolicy ----------------------------
(***************************************************************************)
(* What a policy says of a process: process_policy.rs, the parts of        *)
(* policy_model.rs it reads, and the lists the elevated service reads of   *)
(* the same policy in authorization.rs.  Names are compared as the code    *)
(* compares them, after trimming and lowering, and are members of a set.   *)
(*                                                                         *)
(* An image is what the collector knows of an executable: its file name,   *)
(* the OriginalFilename of its version resource, whether its CompanyName   *)
(* and whether its folder are those of a known remote-control or capture   *)
(* vendor.                                                                 *)
(***************************************************************************)
EXTENDS Naturals

CONSTANTS Names, NoName, Images, Policies

Actions == {"hardBlock", "attemptTerminateThenBlock",
            "attemptTerminateThenContinue", "isolateAndProtect",
            "continueAndAudit", "warnOnly", "ignore"}
Decisions == Actions \cup {"none"}

\* ProcessPolicyAction::blocks_exam_start and the attempt_terminate of a rule
Blocks(action) == action \in {"hardBlock", "attemptTerminateThenBlock"}
Terminates(action) ==
    action \in {"attemptTerminateThenBlock", "attemptTerminateThenContinue"}

Lists == {"allowed", "blocked", "remote", "capture", "vm", "debug"}

Image == [name : Names, original : Names \cup {NoName},
          vendor : BOOLEAN, folder : BOOLEAN]

\* What validate_for leaves: lists that do not contradict each other, at most
\* one rule for a name, and a rule whose flags are those of its action.
Valid(policy) ==
    /\ \A l \in Lists : policy.lists[l] \subseteq Names
    /\ policy.lists["allowed"] \cap policy.lists["blocked"] = {}
    /\ policy.rules \in [Names -> Decisions]
    /\ policy.allowVm \in BOOLEAN /\ policy.instantKill \in BOOLEAN
    /\ policy.mode \in {"continueAndAudit", "recoveryRequired"}

ASSUME PolicyAssumption ==
    /\ NoName \notin Names
    /\ Images \subseteq Image
    /\ \A policy \in Policies : Valid(policy)

-----------------------------------------------------------------------------
(* The decision of the core *)

\* action_priority
Priority(action) ==
    CASE action = "hardBlock"                    -> 7
      [] action = "attemptTerminateThenBlock"    -> 6
      [] action = "attemptTerminateThenContinue" -> 5
      [] action = "isolateAndProtect"            -> 4
      [] action = "continueAndAudit"             -> 3
      [] action = "warnOnly"                     -> 2
      [] action = "ignore"                       -> 1
      [] OTHER                                   -> 0

ExplicitlyAllowed(policy, name) == name \in policy.lists["allowed"]

IsTool(policy, name) == name \in policy.lists["remote"] \cup policy.lists["capture"]

HardBlocked(policy, name) ==
    \/ name \in policy.lists["debug"]
    \/ ~policy.allowVm /\ name \in policy.lists["vm"]

\* The built-in lists, for a name with no entry of its own
ByCategory(policy, name) ==
    CASE HardBlocked(policy, name) -> "hardBlock"
      [] ~HardBlocked(policy, name) /\ IsTool(policy, name) -> "isolateAndProtect"
      [] OTHER -> "none"

\* resolve_process_policy_name: the block list, the rule, the allow list, the
\* built-in lists, in this order.  A tool in the block list is isolated.
ByName(policy, name) ==
    CASE name \in policy.lists["blocked"] ->
            IF IsTool(policy, name) THEN "isolateAndProtect" ELSE "hardBlock"
      [] name \notin policy.lists["blocked"] /\ policy.rules[name] # "none" ->
            policy.rules[name]
      [] OTHER ->
            IF ExplicitlyAllowed(policy, name) THEN "none" ELSE ByCategory(policy, name)

Candidates(image) == {image.name, image.original} \ {NoName}

Opinions(image, policy) ==
    {ByName(policy, name) : name \in Candidates(image)}
        \cup (IF image.vendor THEN {"isolateAndProtect"} ELSE {})

Severest(actions) ==
    CHOOSE a \in actions : \A b \in actions : Priority(b) =< Priority(a)

\* resolve_process_policy_identity
ByIdentity(image, policy) ==
    IF ExplicitlyAllowed(policy, image.name) THEN "none"
    ELSE Severest(Opinions(image, policy))

\* resolve_process_policy: the folder decides when nothing else does.
Resolve(image, policy) ==
    IF /\ ByIdentity(image, policy) = "none"
       /\ ~ExplicitlyAllowed(policy, image.name)
       /\ image.folder
    THEN "isolateAndProtect"
    ELSE ByIdentity(image, policy)

-----------------------------------------------------------------------------
(* The decision of the service, of the executable's file name alone *)

\* The end of authorize_termination.  The service knows of no rules.
ServiceLists(image, policy) ==
    /\ ~ExplicitlyAllowed(policy, image.name)
    /\ \/ image.name \in policy.lists["blocked"]
       \/ IsTool(policy, image.name)
       \/ HardBlocked(policy, image.name)
=============================================================================
