\* Two switches; how often something comes from outside is bounded.
SPECIFICATION FairSpec
CONSTANTS
    Node = {"a", "b"}
    Element <- TwoAndOne
    NUMBER_RL = 2
    MaxCauses = 2
INVARIANTS ToldIsState Agreement
PROPERTIES NoEcho DiesOut
