\* Three relays, two scene buttons; what comes from outside is bounded.
SPECIFICATION FairConfigSpec
CONSTANTS
    NUMBER_RL = 3
    ELE_RELAY_OFFSET = 2
    MaxEvents = 3
INVARIANTS ConfigTypeOK GatewayKnows
PROPERTIES RestartKeepsConfig AnnouncementHeals JoinIsAnnounced
