\* One button of either kind, whose contacts may change between any two reads.
SPECIFICATION DimmingSpec
CONSTANTS
    Button <- MCButton
    LateReads = TRUE
    MaxPress = 2
INVARIANTS DimmingTypeOK HeldIsReleased PressIsReleased FadingStops PressActsOnce FadeIsNotPress
