SPECIFICATION Spec
CONSTANTS
    NumCols <- LayoutCols
    NumRows <- LayoutRows
    Rollover = 6
    KEY_NONE = 0
    Modifiers <- KEY_MODIFIERS
    Layout <- MCLayout
    KeyCodes <- MCKeyCodes
    Pressable <- MCPressable
INVARIANT ModifiersAlwaysReported
