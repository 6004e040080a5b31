----------------------------- MODULE GroupBinding -----------------------------
(***************************************************************************)
(* Switches bound to one group (net_message.c, sw_binding.c): a channel    *)
(* that changes for a cause of its own tells the group, and the channels   *)
(* of the other switches, and the other bound channels of its own, follow  *)
(* without telling it again.  Messages may be lost or late; from one       *)
(* switch to another they stay in order, as older ones are taken for       *)
(* repeated.                                                               *)
(*                                                                         *)
(* All channels toggle (sw_config.c), and all of them hear the group.      *)
(***************************************************************************)
EXTENDS Naturals, Sequences

CONSTANTS
    Node,
    Element,        \* the channels of the nodes, as <<node, channel>>
    NUMBER_RL,      \* channels are numbered below it
    MaxCauses       \* bound on what happens to the channels from outside

ASSUME GroupBindingAssumption ==
    /\ NUMBER_RL \in Nat \ {0}
    /\ Element \subseteq Node \X (0..(NUMBER_RL - 1))
    /\ MaxCauses \in Nat

G_OFF       == 0
G_ON        == 1
SUB_UNKNOWN == 2
OnOff       == {G_OFF, G_ON}
Other(st)   == 1 - st

\* Where the message that controlled a channel last was sent to: the group it is
\* bound to, an address of ADR_ALL_PROXY or above, or below that any other.
Dst == {"own", "group", "all"}

On(n)       == {e \in Element : e[1] = n}
Link        == {l \in Node \X Node : l[1] # l[2]}

VARIABLES
    set,            \* RLS_SET
    target,         \* RLS_TARGET
    dst,            \* nwk_control_msg_para[].dst
    told,           \* state_of_group_binding
    bound,          \* binding_para_st[].en: get_group_binding_adr finds the group
    map,            \* the channel relay_map_set_and_target_status is at
    net,            \* on/off messages to the group on their way, per link
    caused,
    own_cause,      \* history: channels controlled by something but the group
    rebound,        \* history: channels bound since the last restart
    undisturbed     \* history: since the last cause nothing came between

group == <<told, bound>>
vars  == <<set, target, dst, group, map, net, caused, own_cause, rebound,
           undisturbed>>

TypeOK ==
    /\ set \in [Element -> OnOff]
    /\ target \in [Element -> OnOff]
    /\ dst \in [Element -> Dst]
    /\ told \in [Element -> OnOff \cup {SUB_UNKNOWN}]
    /\ bound \in [Element -> BOOLEAN]
    /\ map \in [Node -> 0..NUMBER_RL]
    /\ net \in [Link -> Seq(OnOff)]
    /\ caused \in 0..MaxCauses
    /\ own_cause \subseteq Element
    /\ rebound \subseteq Element
    /\ undisturbed \in BOOLEAN

\* Start-up with any stored states and bindings.
Init ==
    /\ target \in [Element -> OnOff]
    /\ set = target
    /\ dst = [e \in Element |-> "own"]
    /\ told = [e \in Element |-> SUB_UNKNOWN]
    /\ bound \in [Element -> BOOLEAN]
    /\ map = [n \in Node |-> NUMBER_RL]
    /\ net = [l \in Link |-> <<>>]
    /\ caused = 0
    /\ own_cause = {}
    /\ rebound = {}
    /\ undisturbed = FALSE

Pending(e) == set[e] # target[e]
Idle(n)    == map[n] = NUMBER_RL
Quiet      == /\ \A e \in Element : ~Pending(e)
              /\ \A l \in Link : net[l] = <<>>

-----------------------------------------------------------------------------
(* relay_map_set_and_target_status takes one channel after the other and   *)
(* hands each change to net_message_handle_state_change.                   *)

StartMap(n) ==
    /\ Idle(n)
    /\ \E e \in On(n) : Pending(e)
    /\ map' = [map EXCEPT ![n] = 0]
    /\ UNCHANGED <<set, target, dst, group, net, caused, own_cause, rebound,
                   undisturbed>>

\* Mutant: a channel not known to the group yet is taken to have told it.
KnownAsIs(e) == IF told[e] = SUB_UNKNOWN THEN set[e] ELSE told[e]

\* What the group knows of a channel that is about to change.
Known(e) == IF told[e] = SUB_UNKNOWN THEN Other(set[e]) ELSE told[e]

\* Mutant: a change is told to the group wherever it comes from.
TellsAnything(e) == bound[e] /\ Known(e) # set[e]

Tells(e) == bound[e] /\ Known(e) # set[e] /\ dst[e] = "own"

\* The channels of the same switch that follow.
Followers(e) ==
    {f \in On(e[1]) \ {e} : Tells(e) /\ bound[f]}

\* Mutant: the group's own messages do not change what it is known to know.
ToldByTelling(e) ==
    [f \in Element |-> IF f = e THEN IF Tells(e) THEN set[e] ELSE Known(e)
                       ELSE IF f \in Followers(e) THEN set[e] ELSE told[f]]

ToldAfter(e) ==
    [f \in Element |-> IF f = e THEN IF bound[e] THEN set[e] ELSE Known(e)
                       ELSE IF f \in Followers(e) THEN set[e] ELSE told[f]]

\* send_on_off_control_to_ble_group, then the destination is the channel's own.
MapChannel(e) ==
    /\ map[e[1]] = e[2]
    /\ Pending(e)
    /\ target' = [target EXCEPT ![e] = set[e]]
    /\ set' = [f \in Element |->
                  IF f \in Followers(e) /\ target[f] # set[e] THEN set[e]
                  ELSE set[f]]
    /\ told' = ToldAfter(e)
    /\ dst' = [f \in Element |-> IF f = e THEN "own"
                                 ELSE IF f \in Followers(e) THEN "group"
                                 ELSE dst[f]]
    /\ net' = [l \in Link |-> IF l[1] = e[1] /\ Tells(e)
                              THEN Append(net[l], set[e]) ELSE net[l]]
    /\ own_cause' = own_cause \ {e}
    /\ map' = [map EXCEPT ![e[1]] = map[e[1]] + 1]
    /\ UNCHANGED <<bound, caused, rebound, undisturbed>>

\* Nothing to map at this number.
SkipChannel(n) ==
    /\ ~Idle(n)
    /\ \A e \in On(n) : e[2] = map[n] => ~Pending(e)
    /\ map' = [map EXCEPT ![n] = map[n] + 1]
    /\ UNCHANGED <<set, target, dst, group, net, caused, own_cause, rebound,
                   undisturbed>>

-----------------------------------------------------------------------------
(* What controls a channel.                                                *)

\* The cause of a change comes into a quiet system, and the channel will tell
\* the group.
Clear(e, to) ==
    Quiet /\ to = "own" /\ bound[e] /\ told[e] \in {SUB_UNKNOWN, target[e]}

\* relay_toggle_state by a button: the relays are mapped in the same pass of the
\* main loop.
Press(e) ==
    /\ Idle(e[1])
    /\ caused < MaxCauses
    /\ set' = [set EXCEPT ![e] = Other(target[e])]
    /\ dst' = [dst EXCEPT ![e] = "own"]
    /\ map' = [map EXCEPT ![e[1]] = 0]
    /\ caused' = caused + 1
    /\ own_cause' = own_cause \cup {e}
    /\ undisturbed' = Clear(e, "own")
    /\ UNCHANGED <<target, group, net, rebound>>

\* send_control_dev_manual_to_mcu: a channel whose target is already st keeps
\* what it has been set to.
Control(channels, st) ==
    set' = [e \in Element |->
               IF e \in channels /\ target[e] # st THEN st ELSE set[e]]

\* my_handle_mesh_cmd_sig_g_on_off_set, sent to one channel.
Command(e, st) ==
    /\ Idle(e[1])
    /\ caused < MaxCauses
    /\ dst' = [dst EXCEPT ![e] = "own"]
    /\ Control({e}, st)
    /\ caused' = caused + 1
    /\ own_cause' = own_cause \cup {e}
    /\ undisturbed' = (Clear(e, "own") /\ target[e] # st)
    /\ UNCHANGED <<target, group, map, net, rebound>>

\* The same, sent by the gateway to the group or to all.
Broadcast(n, to, st) ==
    /\ Idle(n)
    /\ caused < MaxCauses
    /\ dst' = [e \in Element |-> IF e \in On(n) THEN to ELSE dst[e]]
    /\ Control(On(n), st)
    /\ caused' = caused + 1
    /\ own_cause' = own_cause \ On(n)
    /\ undisturbed' = FALSE
    /\ UNCHANGED <<target, group, map, net, rebound>>

\* auto_loop_task: the destination stays that of the last message.
AutoControl(e, st) ==
    /\ Idle(e[1])
    /\ caused < MaxCauses
    /\ target[e] # st
    /\ Control({e}, st)
    /\ caused' = caused + 1
    /\ own_cause' = IF dst[e] = "own" THEN own_cause \cup {e} ELSE own_cause
    /\ undisturbed' = Clear(e, dst[e])
    /\ UNCHANGED <<target, dst, group, map, net, rebound>>

\* Mutant: a message is carried out as a command to the channel.
DeliverAsOwn(l) ==
    /\ Idle(l[2])
    /\ net[l] # <<>>
    /\ Control(On(l[2]), Head(net[l]))
    /\ net' = [net EXCEPT ![l] = Tail(net[l])]
    /\ dst' = [e \in Element |-> IF e \in On(l[2]) THEN "own" ELSE dst[e]]
    /\ own_cause' = own_cause \ On(l[2])
    /\ UNCHANGED <<target, group, map, caused, rebound, undisturbed>>

\* The message of another switch to the group.
Deliver(l) ==
    /\ Idle(l[2])
    /\ net[l] # <<>>
    /\ dst' = [e \in Element |-> IF e \in On(l[2]) THEN "group" ELSE dst[e]]
    /\ Control(On(l[2]), Head(net[l]))
    /\ net' = [net EXCEPT ![l] = Tail(net[l])]
    /\ own_cause' = own_cause \ On(l[2])
    /\ UNCHANGED <<target, group, map, caused, rebound, undisturbed>>

Lose(l) ==
    /\ net[l] # <<>>
    /\ net' = [net EXCEPT ![l] = Tail(net[l])]
    /\ undisturbed' = FALSE
    /\ UNCHANGED <<set, target, dst, group, map, caused, own_cause, rebound>>

-----------------------------------------------------------------------------
(* The binding and a restart.                                              *)

binding_enable(e) ==
    /\ Idle(e[1])
    /\ caused < MaxCauses
    /\ bound' = [bound EXCEPT ![e] = TRUE]
    /\ caused' = caused + 1
    /\ rebound' = rebound \cup {e}
    /\ undisturbed' = FALSE
    /\ UNCHANGED <<set, target, dst, told, map, net, own_cause>>

binding_disable(e) ==
    /\ Idle(e[1])
    /\ bound[e]
    /\ bound' = [bound EXCEPT ![e] = FALSE]
    /\ undisturbed' = FALSE
    /\ UNCHANGED <<set, target, dst, told, map, net, caused, own_cause,
                   rebound>>

\* Which states come back is a matter of configuration.
Restart(n) ==
    /\ \E restored \in [On(n) -> OnOff] :
          target' = [e \in Element |-> IF e \in On(n) THEN restored[e]
                                       ELSE target[e]]
    /\ set' = [e \in Element |-> IF e \in On(n) THEN target'[e] ELSE set[e]]
    /\ dst' = [e \in Element |-> IF e \in On(n) THEN "own" ELSE dst[e]]
    /\ told' = [e \in Element |-> IF e \in On(n) THEN SUB_UNKNOWN ELSE told[e]]
    /\ map' = [map EXCEPT ![n] = NUMBER_RL]
    /\ own_cause' = own_cause \ On(n)
    /\ rebound' = rebound \ On(n)
    /\ undisturbed' = FALSE
    /\ UNCHANGED <<bound, net, caused>>

-----------------------------------------------------------------------------
Next ==
    \/ \E n \in Node : StartMap(n) \/ SkipChannel(n) \/ Restart(n)
    \/ \E n \in Node, to \in Dst \ {"own"}, st \in OnOff : Broadcast(n, to, st)
    \/ \E e \in Element : \/ MapChannel(e) \/ Press(e)
                          \/ binding_enable(e) \/ binding_disable(e)
    \/ \E e \in Element, st \in OnOff : Command(e, st) \/ AutoControl(e, st)
    \/ \E l \in Link : Deliver(l) \/ Lose(l)

Spec == Init /\ [][Next]_vars

\* The main loop goes on and messages arrive, if they are not lost.
FairSpec ==
    /\ Spec
    /\ \A n \in Node : WF_vars(StartMap(n)) /\ WF_vars(SkipChannel(n))
    /\ \A e \in Element : WF_vars(MapChannel(e))
    /\ \A l \in Link : WF_vars(Deliver(l))

-----------------------------------------------------------------------------
\* A switch tells the group only what something other than the group has done
\* to one of its channels, and tells it once: no message is an echo.
NoEcho ==
    [][\A l \in Link : Len(net'[l]) > Len(net[l]) =>
          \E e \in own_cause \ own_cause' : e[1] = l[1] /\ Tells(e)]_vars

\* A channel bound since the restart has told the group, or been told by it,
\* the state it has, so that its next change will be told.
ToldIsState ==
    \A e \in Element :
        bound[e] /\ ~Pending(e) /\ e \notin rebound
            => told[e] \in {SUB_UNKNOWN, target[e]}

\* When a change that came alone has been told and nothing was lost, all bound
\* channels of all switches have the same state.
Agreement ==
    Quiet /\ undisturbed =>
        \A e, f \in Element : bound[e] /\ bound[f] => target[e] = target[f]

\* However many switches change at once, the messages die out.
DiesOut == <>[]Quiet
=============================================================================
