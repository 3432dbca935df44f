CONSTANTS
    on = on
    confirm = confirm
    hotkeyOff = hotkeyOff
    Values <- MCValues
    Off = hotkeyOff
    NoSnapshot = noSnapshot
SPECIFICATION AccessibilitySpec
SYMMETRY Symmetry
INVARIANTS
    UserChoiceRecoverable
