\* Three buttons, in the four situations of MCButtons.
SPECIFICATION BoundedSpec
CONSTANTS
    Button <- MCBoard
    SceneButton <- MCScene
    Momentary <- MCRelay
    MayLock <- MCSwitch
    LateReads = TRUE
    MaxPress = 2
INVARIANTS ButtonsTypeOK MomentaryOpens GestureIsSilent
PROPERTIES ArmedIsReleased ResetNeedsHold
