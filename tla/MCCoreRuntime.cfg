SPECIFICATION Spec
CONSTANTS
    s1 = s1
    s2 = s2
    strict = strict
    relaxed = relaxed
    keyboard = keyboard
    mouse = mouse
    Sessions <- MCSessions
    SignedPolicies <- MCSignedPolicies
    WidgetPolicies <- MCWidgetPolicies
    Hooks <- MCHooks
    Builtin = Builtin
    InputHook = keyboard
    RequireSigned = TRUE
    Isolated = TRUE
    PanicThreshold = 2
    None = None
SYMMETRY Symmetry
INVARIANTS
    TaskbarAccounted
    HooksOnlyInSession
    SignedSessionAuthorized
PROPERTIES
    SessionEndsRestored
CHECK_DEADLOCK TRUE
