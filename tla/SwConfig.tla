------------------------------- MODULE SwConfig -------------------------------
(***************************************************************************)
(* The settings of the relay channels (sw_config.c): what the gateway's    *)
(* messages change, what of it is stored, what the gateway is told, and    *)
(* the announcement of all settings one message after the other.           *)
(*                                                                         *)
(* Each setting has two of its values and one that is out of its range.    *)
(* An answer is sent within the handler; mesh_tx_cmd_rsp's result is       *)
(* ignored, and a lost answer is not seen here: said is what was sent.     *)
(* What a change of the mode does to the relay is in Relay.                *)
(***************************************************************************)
EXTENDS Integers

CONSTANTS
    NUMBER_RL,
    ELE_RELAY_OFFSET,   \* elements before the first relay's
    MaxEvents           \* bound on what comes from outside

ASSUME SwConfigAssumption ==
    /\ NUMBER_RL \in Nat \ {0}
    /\ ELE_RELAY_OFFSET \in Nat
    /\ MaxEvents \in Nat

Channel == 0..(NUMBER_RL - 1)
BtnId  == 0..(NUMBER_RL + ELE_RELAY_OFFSET + 1)    \* btn_id of a message
Setting == {"mode", "type", "link", "group", "up"}
Value   == {0, 1}
UNKNOWN == 2
UNSAID  == 3

TOGGLE  == 0            \* of the mode
DEFAULT == 0            \* of the toggle type

\* opcode_msg_auto_send, MAP_INPUT_OUTPUT_EN being 0.
Announced ==
    <<"mode", "up", "link", "group", "lock", "energy", "on_time">>
LastOp == 6

VARIABLES
    cfg,        \* sw_config_st
    saved,      \* the newest block in flash
    said,       \* what the gateway was sent of it since the device joined
    en, op_index, btn_idx, en_delay,    \* of sw_cfg_auto_st
    events,
    owed        \* history: joined while it announced nothing, and not restarted

auto == <<en, op_index, btn_idx>>
configVars == <<cfg, saved, said, auto, en_delay, events, owed>>

ConfigTypeOK ==
    /\ cfg \in [Channel -> [Setting -> Value \cup {UNKNOWN}]]
    /\ saved \in [Channel -> [Setting -> Value \cup {UNKNOWN}]]
    /\ \A c \in Channel, s \in Setting \ {"type"} :
          UNKNOWN \notin {cfg[c][s], saved[c][s]}
    /\ said \in [Channel -> [Setting -> Value \cup {UNKNOWN, UNSAID}]]
    /\ en \in BOOLEAN
    /\ op_index \in 0..(LastOp + 1)
    /\ btn_idx \in 0..(NUMBER_RL + ELE_RELAY_OFFSET)
    /\ en_delay \in BOOLEAN
    /\ events \in 0..MaxEvents
    /\ owed \in BOOLEAN

\* sw_check_valid_params of an erased block.
FirstStart ==
    [s \in Setting |-> CASE s = "type" -> UNKNOWN
                         [] s \in {"link", "group", "up"} -> 1
                         [] OTHER -> TOGGLE]

Nothing == [c \in Channel |-> [s \in Setting |-> UNSAID]]

ConfigInit ==
    /\ cfg = [c \in Channel |-> FirstStart]
    /\ saved = cfg
    /\ said = Nothing
    /\ en = FALSE /\ op_index = 0 /\ btn_idx = 0 /\ en_delay = FALSE
    /\ events = 0
    /\ owed = FALSE

-----------------------------------------------------------------------------
\* The configuration with some settings of a channel changed.
With(c, s, v) == [cfg EXCEPT ![c][s] = v]

Store == saved' = cfg'

\* Telling settings of channels, as they are after the change.
Say(C, S) ==
    said' = [c \in Channel |-> [s \in Setting |->
                IF c \in C /\ s \in S THEN cfg'[c][s] ELSE said[c][s]]]

\* sw_config_response_switch_mode_by_bit_mask: the toggle type of a toggling
\* channel goes with its mode; a bit of no channel says nothing.
SayMode(c) ==
    IF c \notin Channel THEN UNCHANGED said
    ELSE Say({c}, IF cfg'[c]["mode"] = TOGGLE THEN {"mode", "type"}
                  ELSE {"mode"})

Message   == events < MaxEvents /\ events' = events + 1
Listening == Message /\ UNCHANGED <<auto, en_delay, owed>>

\* VD_CONFIG_SW_SET_MAP_UNMAP_INPUT, to the element of a channel.
SetLink(c, v) ==
    /\ Listening
    /\ v \in Value
    /\ cfg' = With(c, "link", v)
    /\ Say({c}, {"link"})
    /\ UNCHANGED saved

\* VD_CONFIG_SWITCH_MODE_OPT with a toggle type.  The auto on/off time is
\* taken to be in its range.
SetModeAndType(b, v, t) ==
    LET id == b - 1 - ELE_RELAY_OFFSET IN
    /\ Listening
    /\ id \in Channel
    /\ IF v \in Value
       THEN /\ cfg' = [cfg EXCEPT ![id]["mode"] = v,
                                  ![id]["type"] =
                          IF v = TOGGLE /\ t \in Value THEN t ELSE @]
            /\ Store
       ELSE UNCHANGED <<cfg, saved>>
    /\ SayMode(id)

\* VD_CONFIG_SWITCH_MODE_OPT without: the type that goes back to the default
\* is not that of the channel with the mode.
SetMode(b, v) ==
    LET id    == b - 1 - ELE_RELAY_OFFSET
        other == b - 1
    IN
    /\ Listening
    /\ id \in Channel
    /\ IF v \in Value
       THEN /\ cfg' = [c \in Channel |-> [s \in Setting |->
                 CASE c = id /\ s = "mode" -> v
                   [] c = other /\ s = "type" /\ v = TOGGLE -> DEFAULT
                   [] OTHER -> cfg[c][s]]]
            /\ Store
       ELSE UNCHANGED <<cfg, saved>>
    /\ SayMode(id)

\* Mutant: a state out of range is kept.
SetPowerUpUnchecked(b, v) ==
    LET id == b - 1 IN
    /\ Listening
    /\ id \in Channel
    /\ cfg' = With(id, "up", v)
    /\ Store
    /\ Say({id}, {"up"})

\* VD_CONFIG_ON_POWER_UP_STATE: the button id without the offset.
SetPowerUp(b, v) ==
    LET id == b - 1 IN
    /\ Listening
    /\ id \in Channel
    /\ IF v \in Value THEN cfg' = With(id, "up", v) /\ Store
                      ELSE UNCHANGED <<cfg, saved>>
    /\ Say({id}, {"up"})

\* user_cmd_sig_g_on_powerup_set, to the element of a channel.
SetOnPowerUp(c, v) ==
    /\ Listening
    /\ IF v \in Value THEN cfg' = With(c, "up", v) /\ Store
                      ELSE UNCHANGED <<cfg, saved>>
    /\ Say({c}, {"up"})

\* VD_LINK_UNLINK_V2_OPT: a list of channels, of which the valid ones count;
\* all channels are told.
SetLinks(C, l) ==
    LET valid == {c \in C : l[c] \in Value} IN
    /\ Listening
    /\ valid # {}
    /\ cfg' = [c \in Channel |-> IF c \in valid
                                 THEN [cfg[c] EXCEPT !["link"] = l[c]]
                                 ELSE cfg[c]]
    /\ Store
    /\ Say(Channel, {"link"})

\* Mutant: the answer is sent and the change is not stored.
SetGroupUnstored(c, v) ==
    /\ Listening
    /\ IF v \in Value THEN cfg' = With(c, "group", v) ELSE UNCHANGED cfg
    /\ Say({c}, {"group"})
    /\ UNCHANGED saved

\* VD_EN_ON_OFF_GROUP_DEFAULT, to the element of a channel.
SetGroup(c, v) ==
    /\ Listening
    /\ IF v \in Value /\ v # cfg[c]["group"]
       THEN cfg' = With(c, "group", v) /\ Store
       ELSE UNCHANGED <<cfg, saved>>
    /\ Say({c}, {"group"})

-----------------------------------------------------------------------------
\* sw_cfg_handle_get_message of a mode: a button id is looked up as an
\* element, and the channel told of is again another one.
SayModeOf(par) ==
    IF par - ELE_RELAY_OFFSET \in Channel THEN SayMode(par - 1)
    ELSE UNCHANGED said

Get ==
    /\ Listening
    /\ UNCHANGED <<cfg, saved>>
    /\ \/ \E c \in Channel : Say({c}, {"link"}) \/ Say({c}, {"group"})
       \/ \E b \in BtnId : SayModeOf(b)
       \/ Say(Channel, {"up"})
       \/ Say(Channel, {"link"})

\* Mutant: the next announcement begins where the last one ended.
EnableWhereItWas == en' = TRUE /\ UNCHANGED <<op_index, btn_idx>>

\* sw_config_enable_auto_send: one that is on its way goes on.
Enable ==
    IF en THEN UNCHANGED auto
    ELSE en' = TRUE /\ op_index' = 0 /\ btn_idx' = 0

\* VD_CONFIG_ALL_SWITCH_OPT, or the first button pressed ten times.
GetAll ==
    /\ Enable
    /\ UNCHANGED <<cfg, saved, said, en_delay, events, owed>>

\* sw_setup_enable_send_config_delay, as the device joins a network, whose
\* gateway knows nothing of it.
Join ==
    /\ Message
    /\ en_delay' = TRUE
    /\ said' = Nothing
    /\ owed' = ~en
    /\ UNCHANGED <<cfg, saved, auto>>

DelayOver ==
    /\ en_delay
    /\ en_delay' = FALSE
    /\ Enable
    /\ UNCHANGED <<cfg, saved, said, events, owed>>

\* sw_config_next_op_index once the buttons of an item are through.
NextIndex(btn, count) ==
    IF btn >= count THEN op_index' = op_index + 1 /\ btn_idx' = 0
                    ELSE btn_idx' = btn /\ UNCHANGED op_index

\* Mutant: the links are left out.
AnnounceModesOnly ==
    CASE Announced[op_index + 1] \in {"mode", "group"} ->
            /\ SayModeOf(btn_idx + ELE_RELAY_OFFSET)
            /\ NextIndex(btn_idx + 1, NUMBER_RL)
      [] Announced[op_index + 1] = "up" ->
            Say(Channel, {"up"}) /\ NextIndex(0, 0)
      [] OTHER -> UNCHANGED said /\ NextIndex(0, 0)

\* One item: a message on a mode, the states after power-up or the links, of
\* all channels each, or one of another module for each button.  Instead of
\* the group defaults the modes are told again, of every other channel.
Announce ==
    LET op == Announced[op_index + 1] IN
    CASE op = "mode" ->
            /\ SayModeOf(btn_idx + ELE_RELAY_OFFSET)
            /\ NextIndex(btn_idx + 1, NUMBER_RL)
      [] op \in {"up", "link"} -> Say(Channel, {op}) /\ NextIndex(0, 0)
      [] op = "group" ->
            /\ SayModeOf(btn_idx + ELE_RELAY_OFFSET)
            /\ NextIndex(btn_idx + 2, NUMBER_RL)
      [] op = "lock" ->
            UNCHANGED said
            /\ NextIndex(btn_idx + 1, NUMBER_RL + ELE_RELAY_OFFSET)
      [] OTHER -> UNCHANGED said /\ NextIndex(btn_idx + 1, NUMBER_RL)

\* sw_config_auto_send_task, a second or more after the last one.
AutoSend ==
    /\ en
    /\ UNCHANGED <<cfg, saved, en_delay, events, owed>>
    /\ IF op_index > LastOp
       THEN en' = FALSE /\ UNCHANGED <<op_index, btn_idx, said>>
       ELSE Announce /\ UNCHANGED en

\* Power failure, start-up and sw_config_init.
ConfigRestart ==
    /\ Message
    /\ cfg' = saved
    /\ en' = FALSE /\ op_index' = 0 /\ btn_idx' = 0 /\ en_delay' = FALSE
    /\ owed' = FALSE
    /\ UNCHANGED <<saved, said>>

Set ==
    \/ \E c \in Channel, v \in Value \cup {UNKNOWN} :
          SetLink(c, v) \/ SetOnPowerUp(c, v) \/ SetGroup(c, v)
    \/ \E b \in BtnId, v \in Value \cup {UNKNOWN} :
          \/ SetMode(b, v) \/ SetPowerUp(b, v)
          \/ \E t \in Value \cup {UNKNOWN} : SetModeAndType(b, v, t)
    \/ \E C \in SUBSET Channel : \E l \in [C -> Value \cup {UNKNOWN}] :
          SetLinks(C, l)

ConfigNext == Set \/ Get \/ GetAll \/ Join \/ DelayOver \/ AutoSend \/ ConfigRestart

ConfigSpec == ConfigInit /\ [][ConfigNext]_configVars

\* The main loop calls sw_config_auto_send_task, which both wait for.
FairConfigSpec == ConfigSpec /\ WF_configVars(AutoSend) /\ WF_configVars(DelayOver)

-----------------------------------------------------------------------------
\* What the gateway was told of a mode, of a group default and of the state
\* after power-up is what the channel does, through every message, restart
\* and announcement.  (Not so: the toggle type, line 719, and the link, line
\* 672.)
GatewayKnows ==
    \A c \in Channel, s \in {"mode", "group", "up"} :
        said[c][s] \in {UNSAID, cfg[c][s]}

\* A power failure takes back nothing but links.
RestartKeepsConfig ==
    [][ConfigRestart => \A c \in Channel, s \in Setting \ {"link"} :
                      cfg'[c][s] = cfg[c][s]]_configVars

\* The end of an announcement leaves no false belief in links and states
\* after power-up, those that a restart has taken back included, whatever
\* was set, asked for or begun while it went on.
AnnouncementHeals ==
    [][AutoSend /\ ~en' =>
           \A c \in Channel, s \in {"link", "up"} :
               said[c][s] \in {UNSAID, cfg[c][s]}]_configVars

\* A device that joins while it announces nothing will have told its states
\* after power-up and its links, unless the power fails before: an
\* announcement begun meanwhile, which swallows the one of the join, tells as
\* much.
JoinIsAnnounced ==
    owed ~> (~owed \/ \A c \in Channel : UNSAID \notin {said[c]["up"],
                                                       said[c]["link"]})

=============================================================================
