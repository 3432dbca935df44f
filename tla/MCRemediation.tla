---------------------------- MODULE MCRemediation ----------------------------
(* An agent that a Windows service keeps running and an ordinary tool; a     *)
(* policy that lists both and has a rule for the agent, one that has a rule  *)
(* for the tool but does not list it, and one that only watches.             *)
EXTENDS Remediation

McNames == {"agent", "tool"}

Plain(name) == [name |-> name, original |-> name, vendor |-> FALSE, folder |-> FALSE]

McImages == {Plain(name) : name \in McNames}
McBacked == {Plain("agent")}

NoLists == [l \in Lists |-> {}]
NoRules == [name \in McNames |-> "none"]

Listed == [lists |-> [NoLists EXCEPT !["remote"] = {"agent", "tool"}],
           rules |-> [NoRules EXCEPT !["agent"] = "attemptTerminateThenBlock"],
           allowVm |-> FALSE, instantKill |-> TRUE, mode |-> "recoveryRequired"]

RuleOnly == [lists |-> [NoLists EXCEPT !["remote"] = {"agent"}],
             rules |-> [NoRules EXCEPT !["tool"] = "attemptTerminateThenBlock"],
             allowVm |-> FALSE, instantKill |-> FALSE, mode |-> "continueAndAudit"]

Lenient == [lists |-> [NoLists EXCEPT !["blocked"] = {"tool"}],
            rules |-> [NoRules EXCEPT !["agent"] = "attemptTerminateThenContinue"],
            allowVm |-> TRUE, instantKill |-> TRUE, mode |-> "recoveryRequired"]

McListed == {Listed}
McLivePolicies == {Listed, Lenient}
McPolicies == {Listed, RuleOnly}
=============================================================================
