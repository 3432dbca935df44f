---------------------------- MODULE MCCoreRuntime ----------------------------
(* Two sessions, two signed policies of which one enables the widget, two   *)
(* hooks.                                                                   *)
EXTENDS CoreRuntime, TLC

CONSTANTS s1, s2, strict, relaxed, keyboard, mouse

MCSessions == {s1, s2}
MCSignedPolicies == {strict, relaxed}
MCWidgetPolicies == {relaxed}
MCHooks == {keyboard, mouse}

Symmetry == Permutations(MCSessions)
=============================================================================
