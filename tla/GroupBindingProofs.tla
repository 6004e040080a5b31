-------------------------- MODULE GroupBindingProofs --------------------------
(***************************************************************************)
(* Proofs about GroupBinding for any switches with any channels and any    *)
(* number of causes: no message is an echo, a bound channel has told the   *)
(* group what it is, and a change that comes alone reaches every channel.  *)
(***************************************************************************)
EXTENDS GroupBinding, SequenceTheorems, TLAPS

LEMMA ElementParts ==
    ASSUME NEW e \in Element
    PROVE  /\ e[1] \in Node /\ e[2] \in 0..(NUMBER_RL - 1)
           /\ \A n \in Node : e \in On(n) <=> e[1] = n
BY GroupBindingAssumption DEF On

LEMMA ControlType ==
    ASSUME TypeOK, NEW channels, NEW st \in OnOff, Control(channels, st)
    PROVE  set' \in [Element -> OnOff]
BY DEF Control, TypeOK

LEMMA GroupInit == Init => TypeOK
<1> SUFFICES ASSUME Init PROVE TypeOK
  OBVIOUS
<1> USE GroupBindingAssumption DEF Init
<1>1. net \in [Link -> Seq(OnOff)]
  OBVIOUS
<1>2. /\ dst \in [Element -> Dst]
      /\ told \in [Element -> OnOff \cup {SUB_UNKNOWN}]
  BY DEF Dst
<1>3. map \in [Node -> 0..NUMBER_RL] /\ caused \in 0..MaxCauses
  OBVIOUS
<1> QED
  BY <1>1, <1>2, <1>3 DEF TypeOK

LEMMA MapType ==
    ASSUME TypeOK, NEW e \in Element, MapChannel(e)
    PROVE  TypeOK'
<1> USE DEF TypeOK
<1>1. set[e] \in OnOff /\ Other(set[e]) \in OnOff
  BY DEF OnOff, Other, G_ON, G_OFF
<1>2. set' \in [Element -> OnOff] /\ target' \in [Element -> OnOff]
  BY <1>1 DEF MapChannel
<1>3. told' \in [Element -> OnOff \cup {SUB_UNKNOWN}]
  <2>1. Known(e) \in OnOff \cup {SUB_UNKNOWN}
    BY <1>1 DEF Known
  <2> QED
    BY <1>1, <2>1 DEF MapChannel, ToldAfter
<1>4. dst' \in [Element -> Dst]
  BY DEF MapChannel, Dst
<1>5. net' \in [Link -> Seq(OnOff)]
  <2>1. \A l \in Link : Append(net[l], set[e]) \in Seq(OnOff)
    BY <1>1, AppendProperties
  <2> QED
    BY <2>1 DEF MapChannel
<1>6. map' \in [Node -> 0..NUMBER_RL]
  <2>1. map[e[1]] + 1 \in 0..NUMBER_RL /\ e[1] \in Node
    BY ElementParts, GroupBindingAssumption DEF MapChannel
  <2> QED
    BY <2>1 DEF MapChannel
<1>7. own_cause' \subseteq Element
      /\ UNCHANGED <<bound, caused, rebound, undisturbed>>
  BY DEF MapChannel
<1> QED
  BY <1>2, <1>3, <1>4, <1>5, <1>6, <1>7

LEMMA DeliverType ==
    ASSUME TypeOK, NEW l \in Link, Deliver(l)
    PROVE  TypeOK'
<1> USE DEF TypeOK
<1>1. net[l] \in Seq(OnOff) /\ net[l] # <<>>
  BY DEF Deliver
<1>2. Head(net[l]) \in OnOff /\ Tail(net[l]) \in Seq(OnOff)
  BY <1>1, HeadTailProperties
<1>3. set' \in [Element -> OnOff]
  BY <1>2, ControlType DEF Deliver
<1>4. dst' \in [Element -> Dst] /\ net' \in [Link -> Seq(OnOff)]
  BY <1>2 DEF Deliver, Dst
<1> QED
  BY <1>3, <1>4 DEF Deliver, group

LEMMA LoseType ==
    ASSUME TypeOK, NEW l \in Link, Lose(l)
    PROVE  TypeOK'
<1>1. net[l] \in Seq(OnOff) /\ net[l] # <<>>
  BY DEF Lose, TypeOK
<1>2. Tail(net[l]) \in Seq(OnOff)
  BY <1>1, HeadTailProperties
<1>3. net' \in [Link -> Seq(OnOff)]
  BY <1>2 DEF Lose, TypeOK
<1> QED
  BY <1>3 DEF Lose, TypeOK, group

LEMMA CauseType ==
    ASSUME TypeOK, caused < MaxCauses, caused' = caused + 1
    PROVE  caused' \in 0..MaxCauses
BY GroupBindingAssumption DEF TypeOK

\* A press, a command or the automatic switching of a channel.
LEMMA ControlStepType ==
    ASSUME TypeOK, NEW e \in Element, NEW st \in OnOff,
           Press(e) \/ Command(e, st) \/ AutoControl(e, st)
    PROVE  TypeOK'
<1> USE DEF TypeOK
<1>1. caused' \in 0..MaxCauses
  BY CauseType DEF Press, Command, AutoControl
<1>2. CASE Press(e)
  <2>1. Other(target[e]) \in OnOff
    BY DEF OnOff, Other, G_ON, G_OFF
  <2>2. set' \in [Element -> OnOff] /\ dst' \in [Element -> Dst]
    BY <1>2, <2>1 DEF Press, Dst
  <2>3. map' \in [Node -> 0..NUMBER_RL]
    BY <1>2, GroupBindingAssumption DEF Press
  <2>4. undisturbed' \in BOOLEAN /\ own_cause' \subseteq Element
        /\ UNCHANGED <<target, told, bound, net, rebound>>
    BY <1>2 DEF Press, Clear, group
  <2> QED
    BY <1>1, <2>2, <2>3, <2>4
<1>3. CASE Command(e, st)
  <2>1. set' \in [Element -> OnOff] /\ dst' \in [Element -> Dst]
    BY <1>3, ControlType DEF Command, Dst
  <2>2. undisturbed' \in BOOLEAN /\ own_cause' \subseteq Element
        /\ UNCHANGED <<target, told, bound, map, net, rebound>>
    BY <1>3 DEF Command, Clear, group
  <2> QED
    BY <1>1, <2>1, <2>2
<1>4. CASE AutoControl(e, st)
  <2>1. set' \in [Element -> OnOff]
    BY <1>4, ControlType DEF AutoControl
  <2>2. undisturbed' \in BOOLEAN /\ own_cause' \subseteq Element
        /\ UNCHANGED <<target, dst, told, bound, map, net, rebound>>
    BY <1>4 DEF AutoControl, Clear, group
  <2> QED
    BY <1>1, <2>1, <2>2
<1> QED
  BY <1>2, <1>3, <1>4

LEMMA BroadcastType ==
    ASSUME TypeOK, NEW n \in Node, NEW to \in Dst, NEW st \in OnOff,
           Broadcast(n, to, st)
    PROVE  TypeOK'
<1> USE DEF TypeOK
<1>1. caused' \in 0..MaxCauses
  BY CauseType DEF Broadcast
<1>2. set' \in [Element -> OnOff] /\ dst' \in [Element -> Dst]
  BY ControlType DEF Broadcast
<1> QED
  BY <1>1, <1>2 DEF Broadcast, group

LEMMA RestartType ==
    ASSUME TypeOK, NEW n \in Node, Restart(n)
    PROVE  TypeOK'
<1> USE DEF TypeOK
<1>1. target' \in [Element -> OnOff]
  <2>1. PICK restored \in [On(n) -> OnOff] :
          target' = [e \in Element |-> IF e \in On(n) THEN restored[e]
                                       ELSE target[e]]
    BY DEF Restart
  <2> QED
    BY <2>1
<1>2. set' \in [Element -> OnOff]
  BY <1>1 DEF Restart
<1>3. /\ dst' \in [Element -> Dst]
      /\ told' \in [Element -> OnOff \cup {SUB_UNKNOWN}]
  BY DEF Restart, Dst
<1>4. map' \in [Node -> 0..NUMBER_RL]
  BY GroupBindingAssumption DEF Restart
<1>5. /\ own_cause' \subseteq Element /\ rebound' \subseteq Element
      /\ undisturbed' = FALSE
      /\ UNCHANGED <<bound, net, caused>>
  BY DEF Restart
<1> QED
  BY <1>1, <1>2, <1>3, <1>4, <1>5

LEMMA GroupStepType == TypeOK /\ [Next]_vars => TypeOK'
<1> SUFFICES ASSUME TypeOK, [Next]_vars PROVE TypeOK'
  OBVIOUS
<1>1. ASSUME NEW n \in Node, StartMap(n) PROVE TypeOK'
  BY <1>1, GroupBindingAssumption DEF StartMap, TypeOK, group
<1>2. ASSUME NEW n \in Node, SkipChannel(n) PROVE TypeOK'
  <2>1. map[n] \in 0..NUMBER_RL /\ map[n] # NUMBER_RL
    BY <1>2 DEF SkipChannel, Idle, TypeOK
  <2>2. map[n] + 1 \in 0..NUMBER_RL
    BY <2>1, GroupBindingAssumption
  <2> QED
    BY <1>2, <2>2 DEF SkipChannel, TypeOK, group
<1>3. ASSUME NEW e \in Element, binding_enable(e) PROVE TypeOK'
  BY <1>3, CauseType DEF binding_enable, TypeOK
<1>4. ASSUME NEW e \in Element, binding_disable(e) PROVE TypeOK'
  BY <1>4 DEF binding_disable, TypeOK
<1>5. CASE UNCHANGED vars
  BY <1>5 DEF vars, group, TypeOK
<1>6. G_OFF \in OnOff
  BY DEF OnOff
<1> QED
  BY <1>1, <1>2, <1>3, <1>4, <1>5, <1>6, MapType, DeliverType, LoseType,
     ControlStepType, BroadcastType, RestartType DEF Next

\* Every variable keeps its type; in particular the loop over the channels never
\* leaves them.
THEOREM GroupTypeCorrect == Spec => []TypeOK
<1> QED
  BY GroupInit, GroupStepType, PTL DEF Spec

-----------------------------------------------------------------------------
(* Echoes.                                                                 *)

\* What a channel is about to do for itself has a cause of its own.
OwnHasCause ==
    \A e \in Element : Pending(e) /\ dst[e] = "own" => e \in own_cause

EchoInv == TypeOK /\ OwnHasCause

LEMMA CauseStep == EchoInv /\ [Next]_vars => OwnHasCause'
<1> SUFFICES ASSUME EchoInv, [Next]_vars, NEW f \in Element,
                    Pending(f)', dst'[f] = "own"
             PROVE  f \in own_cause'
  BY DEF OwnHasCause
<1> USE DEF EchoInv, OwnHasCause, Pending
<1>1. CASE UNCHANGED <<set, target, dst, own_cause>>
  BY <1>1
<1>2. ASSUME NEW n \in Node, StartMap(n) \/ SkipChannel(n)
      PROVE  f \in own_cause'
  BY <1>1, <1>2 DEF StartMap, SkipChannel
<1>3. ASSUME NEW n \in Node, Restart(n) PROVE f \in own_cause'
  <2>1. CASE f \in On(n)
    BY <1>3, <2>1 DEF Restart
  <2>2. CASE f \notin On(n)
    BY <1>3, <2>2 DEF Restart
  <2> QED
    BY <2>1, <2>2
<1>4. ASSUME NEW n \in Node, NEW to \in Dst \ {"own"}, NEW st \in OnOff,
             Broadcast(n, to, st)
      PROVE  f \in own_cause'
  BY <1>4 DEF Broadcast, Control
<1>5. ASSUME NEW e \in Element, MapChannel(e) PROVE f \in own_cause'
  <2>1. f # e
    BY <1>5 DEF MapChannel, TypeOK
  <2>2. f \notin Followers(e)
    BY <1>5, <2>1 DEF MapChannel
  <2> QED
    BY <1>5, <2>1, <2>2 DEF MapChannel
<1>6. ASSUME NEW e \in Element, Press(e) PROVE f \in own_cause'
  BY <1>6 DEF Press, TypeOK
<1>7. ASSUME NEW e \in Element, binding_enable(e) \/ binding_disable(e)
      PROVE  f \in own_cause'
  BY <1>1, <1>7 DEF binding_enable, binding_disable
<1>8. ASSUME NEW e \in Element, NEW st \in OnOff,
             Command(e, st) \/ AutoControl(e, st)
      PROVE  f \in own_cause'
  BY <1>8 DEF Command, AutoControl, Control, TypeOK
<1>9. ASSUME NEW l \in Link, Deliver(l) PROVE f \in own_cause'
  BY <1>9 DEF Deliver, Control
<1>10. ASSUME NEW l \in Link, Lose(l) PROVE f \in own_cause'
  BY <1>1, <1>10 DEF Lose
<1>11. CASE UNCHANGED vars
  BY <1>1, <1>11 DEF vars
<1> QED
  BY <1>2, <1>3, <1>4, <1>5, <1>6, <1>7, <1>8, <1>9, <1>10, <1>11 DEF Next

\* Only mapping a channel that tells sends anything, on the links of its switch.
LEMMA OnlyTellingSends ==
    ASSUME TypeOK, [Next]_vars, NEW l \in Link, Len(net'[l]) > Len(net[l])
    PROVE  \E e \in Element : MapChannel(e) /\ e[1] = l[1] /\ Tells(e)
<1>1. Len(net[l]) \in Nat
  BY LenProperties DEF TypeOK
<1>2. net' # net
  BY <1>1
<1>3. ASSUME NEW k \in Link, net[k] # <<>>,
             net' = [net EXCEPT ![k] = Tail(net[k])]
      PROVE  FALSE
  <2>1. k = l
    BY <1>1, <1>3 DEF TypeOK
  <2>2. net'[l] = Tail(net[l])
    BY <1>3, <2>1 DEF TypeOK
  <2>3. Len(Tail(net[l])) < Len(net[l])
    BY <1>3, <2>1 DEF TypeOK
  <2> QED
    BY <1>1, <2>2, <2>3
<1>4. PICK e \in Element : MapChannel(e)
  BY <1>2, <1>3 DEF Next, vars, StartMap, SkipChannel, Restart, Broadcast,
     Press, Command, AutoControl, binding_enable, binding_disable, Deliver, Lose
<1>5. e[1] = l[1] /\ Tells(e)
  BY <1>1, <1>4 DEF MapChannel
<1> QED
  BY <1>4, <1>5

\* A switch sends to the group only what something other than the group did to
\* one of its channels, once, for any number of switches, channels and causes.
THEOREM NoMessageIsEcho == Spec => NoEcho
<1>1. Init => EchoInv
  BY GroupInit DEF Init, EchoInv, OwnHasCause, Pending
<1>2. EchoInv /\ [Next]_vars => EchoInv'
  BY GroupStepType, CauseStep DEF EchoInv
<1>3. EchoInv /\ [Next]_vars =>
        [\A l \in Link : Len(net'[l]) > Len(net[l]) =>
          \E e \in own_cause \ own_cause' : e[1] = l[1] /\ Tells(e)]_vars
  <2> SUFFICES ASSUME EchoInv, [Next]_vars, NEW l \in Link,
                      Len(net'[l]) > Len(net[l])
               PROVE  \E e \in own_cause \ own_cause' :
                         e[1] = l[1] /\ Tells(e)
    OBVIOUS
  <2>1. PICK e \in Element : MapChannel(e) /\ e[1] = l[1] /\ Tells(e)
    BY OnlyTellingSends DEF EchoInv
  <2>2. e \in own_cause /\ e \notin own_cause'
    BY <2>1 DEF EchoInv, OwnHasCause, MapChannel, Tells
  <2> QED
    BY <2>1, <2>2
<1> QED
  BY <1>1, <1>2, <1>3, PTL DEF Spec, NoEcho

-----------------------------------------------------------------------------
(* What the group knows.                                                   *)

LEMMA ToldStep == TypeOK /\ ToldIsState /\ [Next]_vars => ToldIsState'
<1> SUFFICES ASSUME TypeOK, ToldIsState, [Next]_vars, NEW f \in Element,
                    bound'[f], ~Pending(f)', f \notin rebound'
             PROVE  told'[f] \in {SUB_UNKNOWN, target'[f]}
  BY DEF ToldIsState
<1> DEFINE Same == told'[f] \in {SUB_UNKNOWN, target'[f]}
<1> USE DEF ToldIsState, Pending
<1>1. CASE /\ UNCHANGED <<target, group, rebound>>
           /\ set'[f] = set[f] \/ set'[f] # target[f]
  BY <1>1 DEF group
<1>2. ASSUME NEW n \in Node, StartMap(n) \/ SkipChannel(n)
      PROVE  Same
  BY <1>1, <1>2 DEF StartMap, SkipChannel
<1>3. ASSUME NEW n \in Node, Restart(n) PROVE Same
  <2>1. CASE f \in On(n)
    BY <1>3, <2>1 DEF Restart
  <2>2. CASE f \notin On(n)
    BY <1>3, <2>2 DEF Restart
  <2> QED
    BY <2>1, <2>2
<1>4. ASSUME NEW n \in Node, NEW to \in Dst \ {"own"}, NEW st \in OnOff,
             Broadcast(n, to, st)
      PROVE  Same
  BY <1>1, <1>4 DEF Broadcast, Control
<1>5. ASSUME NEW e \in Element, MapChannel(e) PROVE Same
  <2>1. UNCHANGED <<bound, rebound>>
    BY <1>5 DEF MapChannel
  <2>2. CASE f = e
    <3>1. told'[f] = set[e] /\ target'[f] = set[e]
      BY <1>5, <2>1, <2>2 DEF MapChannel, ToldAfter, TypeOK
    <3> QED
      BY <3>1
  <2>3. CASE f \in Followers(e)
    <3>1. f # e
      BY <2>3 DEF Followers
    <3>2. told'[f] = set[e] /\ target'[f] = target[f]
          /\ (target[f] # set[e] => set'[f] = set[e])
      BY <1>5, <2>3, <3>1 DEF MapChannel, ToldAfter, TypeOK
    <3> QED
      BY <3>2
  <2>4. CASE f # e /\ f \notin Followers(e)
    <3>1. told'[f] = told[f] /\ target'[f] = target[f] /\ set'[f] = set[f]
      BY <1>5, <2>4 DEF MapChannel, ToldAfter, TypeOK
    <3> QED
      BY <2>1, <3>1
  <2> QED
    BY <2>2, <2>3, <2>4
<1>6. ASSUME NEW e \in Element, Press(e) PROVE Same
  <2>1. UNCHANGED <<target, group, rebound>>
        /\ set' = [set EXCEPT ![e] = Other(target[e])]
    BY <1>6 DEF Press
  <2>2. Other(target[e]) # target[e]
    BY DEF TypeOK, OnOff, Other, G_ON, G_OFF
  <2> QED
    BY <1>1, <2>1, <2>2 DEF TypeOK
<1>7. ASSUME NEW e \in Element, binding_enable(e) PROVE Same
  <2>1. f # e
    BY <1>7 DEF binding_enable
  <2> QED
    BY <1>7, <2>1 DEF binding_enable, TypeOK
<1>8. ASSUME NEW e \in Element, binding_disable(e) PROVE Same
  <2>1. f # e
    BY <1>8 DEF binding_disable, TypeOK
  <2> QED
    BY <1>8, <2>1 DEF binding_disable, TypeOK
<1>9. ASSUME NEW e \in Element, NEW st \in OnOff,
             Command(e, st) \/ AutoControl(e, st)
      PROVE  Same
  BY <1>1, <1>9 DEF Command, AutoControl, Control
<1>10. ASSUME NEW l \in Link, Deliver(l) PROVE Same
  BY <1>1, <1>10 DEF Deliver, Control
<1>11. ASSUME NEW l \in Link, Lose(l) PROVE Same
  BY <1>1, <1>11 DEF Lose
<1>12. CASE UNCHANGED vars
  BY <1>1, <1>12 DEF vars
<1> QED
  BY <1>2, <1>3, <1>4, <1>5, <1>6, <1>7, <1>8, <1>9, <1>10, <1>11, <1>12
     DEF Next

\* A channel bound since the restart has told the group what it is, so that its
\* next change will be told, for any number of switches, channels and causes.
THEOREM GroupKnows == Spec => []ToldIsState
<1>1. Init => TypeOK /\ ToldIsState
  BY GroupInit DEF Init, ToldIsState
<1>2. TypeOK /\ ToldIsState /\ [Next]_vars => (TypeOK /\ ToldIsState)'
  BY GroupStepType, ToldStep
<1> QED
  BY <1>1, <1>2, PTL DEF Spec

-----------------------------------------------------------------------------
(* Agreement.  A change that comes alone is first a single pending channel *)
(* that will tell; once told, every channel either has been set to the     *)
(* told state or still has a message with it to come.                      *)

Alone(e) ==
    /\ Pending(e) /\ bound[e] /\ dst[e] = "own"
    /\ told[e] \in {SUB_UNKNOWN, target[e]}
    /\ \A f \in Element \ {e} : ~Pending(f)
    /\ \A l \in Link : net[l] = <<>>

Spreading(st) ==
    /\ \A l \in Link : \A i \in 1..Len(net[l]) : net[l][i] = st
    /\ \A f \in Element : bound[f] /\ Pending(f) => set[f] = st
    /\ \A f \in Element : bound[f] =>
          \/ set[f] = st
          \/ \E l \in Link : l[2] = f[1] /\ net[l] # <<>>

Spreads ==
    undisturbed => \/ \E e \in Element : Alone(e)
                   \/ \E st \in OnOff : Spreading(st)

\* A cause that leaves the change undisturbed makes its channel the only one.
LEMMA CauseIsAlone ==
    ASSUME TypeOK, NEW e \in Element, NEW st \in OnOff,
           Press(e) \/ Command(e, st) \/ AutoControl(e, st), undisturbed'
    PROVE  Alone(e)'
<1>1. Quiet /\ bound[e] /\ told[e] \in {SUB_UNKNOWN, target[e]}
      /\ dst'[e] = "own" /\ UNCHANGED <<target, told, bound, net>>
  BY DEF Press, Command, AutoControl, Clear, TypeOK, group
<1>2. Other(target[e]) # target[e]
  BY DEF TypeOK, OnOff, Other, G_ON, G_OFF
<1>3. set'[e] # target[e] /\ \A f \in Element \ {e} : set'[f] = set[f]
  <2>1. CASE Press(e)
    BY <1>2, <2>1 DEF Press, TypeOK
  <2>2. CASE Command(e, st) \/ AutoControl(e, st)
    BY <2>2 DEF Command, AutoControl, Control
  <2> QED
    BY <2>1, <2>2
<1> QED
  BY <1>1, <1>3 DEF Alone, Quiet, Pending

\* The only pending channel tells the group when it is mapped.
LEMMA AloneTells ==
    ASSUME TypeOK, NEW e \in Element, Alone(e), MapChannel(e),
           NEW st \in OnOff, st = set[e]
    PROVE  Spreading(st)'
<1>1. Tells(e)
  BY DEF Alone, Tells, Known, Pending, TypeOK, OnOff, Other, G_ON, G_OFF
<1>3. \A l \in Link : net'[l] = IF l[1] = e[1] THEN <<st>> ELSE <<>>
  <2>1. \A l \in Link : net[l] = <<>>
    BY DEF Alone
  <2>2. Append(<<>>, st) = <<st>>
    OBVIOUS
  <2> QED
    BY <1>1, <2>1, <2>2 DEF MapChannel
<1>4. \A l \in Link : \A i \in 1..Len(net'[l]) : net'[l][i] = st
  BY <1>3
<1>5. ASSUME NEW f \in Element, bound[f], f[1] = e[1]
      PROVE  set'[f] = st
  <2>1. CASE f = e
    BY <2>1 DEF MapChannel, Followers
  <2>2. CASE f # e
    <3>1. f \in Followers(e)
      BY <1>1, <1>5, <2>2 DEF Followers, On
    <3>2. set[f] = target[f]
      BY <2>2 DEF Alone, Pending
    <3> QED
      BY <3>1, <3>2 DEF MapChannel
  <2> QED
    BY <2>1, <2>2
<1>6. ASSUME NEW f \in Element, bound[f], f[1] # e[1]
      PROVE  /\ ~Pending(f)'
             /\ \E l \in Link : l[2] = f[1] /\ net'[l] # <<>>
  <2>1. f # e /\ f \notin Followers(e)
    BY <1>6 DEF Followers, On
  <2>2. ~Pending(f)'
    BY <2>1 DEF MapChannel, Alone, Pending, TypeOK
  <2>3. <<e[1], f[1]>> \in Link
    BY <1>6, ElementParts DEF Link
  <2> QED
    BY <1>3, <2>2, <2>3
<1>7. bound' = bound
  BY DEF MapChannel
<1> QED
  BY <1>4, <1>5, <1>6, <1>7 DEF Spreading

\* Channels mapped while a state spreads send that state or nothing.
LEMMA SpreadMapped ==
    ASSUME TypeOK, NEW st \in OnOff, Spreading(st),
           NEW e \in Element, MapChannel(e)
    PROVE  Spreading(st)'
<1>1. Tells(e) => bound[e] /\ set[e] = st
  BY DEF Tells, Spreading, MapChannel
<1>2. ASSUME NEW l \in Link PROVE /\ net[l] # <<>> => net'[l] # <<>>
                                  /\ \A i \in 1..Len(net'[l]) : net'[l][i] = st
  <2>1. net[l] \in Seq(OnOff) /\ \A i \in 1..Len(net[l]) : net[l][i] = st
    BY DEF TypeOK, Spreading
  <2>2. CASE net'[l] = net[l]
    BY <2>1, <2>2
  <2>3. CASE net'[l] # net[l]
    <3>1. net'[l] = Append(net[l], st)
      BY <1>1, <2>3 DEF MapChannel
    <3>2. /\ Len(net'[l]) = Len(net[l]) + 1
          /\ net'[l] # <<>>
          /\ \A i \in 1..Len(net[l]) : net'[l][i] = net[l][i]
          /\ net'[l][Len(net[l]) + 1] = st
      BY <2>1, <3>1, AppendProperties
    <3>3. ASSUME NEW i \in 1..Len(net'[l]) PROVE net'[l][i] = st
      <4>1. Len(net[l]) \in Nat
        BY <2>1, LenProperties
      <4>2. i \in 1..Len(net[l]) \/ i = Len(net[l]) + 1
        BY <3>2, <4>1
      <4> QED
        BY <2>1, <3>2, <4>2
    <3> QED
      BY <3>2, <3>3
  <2> QED
    BY <2>2, <2>3
<1>3. ASSUME NEW f \in Element, bound[f]
      PROVE  /\ Pending(f)' => set'[f] = st
             /\ set[f] = st => set'[f] = st
  <2>1. CASE f = e
    BY <2>1 DEF MapChannel, Followers, Pending, TypeOK
  <2>2. CASE f \in Followers(e) /\ target[f] # set[e]
    <3>1. Tells(e) /\ f # e
      BY <2>2 DEF Followers
    <3> QED
      BY <1>1, <2>2, <3>1 DEF MapChannel
  <2>3. CASE f # e /\ ~(f \in Followers(e) /\ target[f] # set[e])
    <3>1. set'[f] = set[f] /\ target'[f] = target[f]
      BY <2>3 DEF MapChannel, TypeOK
    <3> QED
      BY <1>3, <3>1 DEF Spreading, Pending
  <2> QED
    BY <2>1, <2>2, <2>3 DEF Followers
<1>4. bound' = bound
  BY DEF MapChannel
<1> QED
  BY <1>2, <1>3, <1>4 DEF Spreading

LEMMA SpreadDelivered ==
    ASSUME TypeOK, NEW st \in OnOff, Spreading(st), NEW l \in Link, Deliver(l)
    PROVE  Spreading(st)'
<1>1. /\ net[l] \in Seq(OnOff) /\ net[l] # <<>>
      /\ \A i \in 1..Len(net[l]) : net[l][i] = st
  BY DEF TypeOK, Deliver, Spreading
<1>2. Head(net[l]) = st
  <2>1. Len(net[l]) \in Nat /\ Len(net[l]) # 0 /\ Head(net[l]) = net[l][1]
    BY <1>1, EmptySeq, HeadTailProperties
  <2> QED
    BY <1>1, <2>1
<1>3. \A i \in 1..Len(Tail(net[l])) : Tail(net[l])[i] = st
  <2>1. /\ Len(Tail(net[l])) = Len(net[l]) - 1
        /\ \A i \in 1..Len(Tail(net[l])) : Tail(net[l])[i] = net[l][i+1]
    BY <1>1, HeadTailProperties
  <2>2. Len(net[l]) \in Nat
    BY <1>1
  <2> QED
    BY <1>1, <2>1, <2>2
<1>4. \A k \in Link : net'[k] = IF k = l THEN Tail(net[l]) ELSE net[k]
  BY DEF Deliver, TypeOK
<1>5. ASSUME NEW k \in Link PROVE \A i \in 1..Len(net'[k]) : net'[k][i] = st
  <2>1. CASE k = l
    BY <1>3, <1>4, <2>1
  <2>2. CASE k # l
    <3>1. net'[k] = net[k]
      BY <1>4, <2>2
    <3> QED
      BY <3>1 DEF Spreading
  <2> QED
    BY <2>1, <2>2
<1>6. UNCHANGED <<target, bound>>
  BY DEF Deliver, group
<1>7. ASSUME NEW f \in Element, bound[f]
      PROVE  /\ Pending(f)' => set'[f] = st
             /\ \/ set'[f] = st
                \/ \E k \in Link : k[2] = f[1] /\ net'[k] # <<>>
  <2>1. CASE f[1] = l[2]
    <3>1. f \in On(l[2])
      BY <2>1 DEF On
    <3>2. set'[f] = IF target[f] # st THEN st ELSE set[f]
      BY <1>2, <3>1 DEF Deliver, Control
    <3>3. set'[f] = st
      BY <1>7, <3>2 DEF Spreading, Pending
    <3> QED
      BY <3>3
  <2>2. CASE f[1] # l[2]
    <3>1. f \notin On(l[2])
      BY <2>2 DEF On
    <3>2. set'[f] = set[f]
      BY <3>1 DEF Deliver, Control, TypeOK
    <3>3. \A k \in Link : k[2] = f[1] => net'[k] = net[k]
      BY <1>4, <2>2
    <3> QED
      BY <1>6, <1>7, <3>2, <3>3 DEF Spreading, Pending
  <2> QED
    BY <2>1, <2>2
<1> QED
  BY <1>5, <1>6, <1>7 DEF Spreading

LEMMA SpreadStep == TypeOK /\ Spreads /\ [Next]_vars => Spreads'
<1> SUFFICES ASSUME TypeOK, Spreads, [Next]_vars, undisturbed'
             PROVE  \/ \E e \in Element : Alone(e)'
                    \/ \E st \in OnOff : Spreading(st)'
  BY DEF Spreads
<1> DEFINE Goal == \/ \E e \in Element : Alone(e)'
                   \/ \E st \in OnOff : Spreading(st)'
<1> USE DEF Spreads
<1>1. CASE UNCHANGED <<set, target, dst, told, bound, net, undisturbed>>
  BY <1>1 DEF Alone, Spreading, Pending
<1>2. ASSUME NEW n \in Node, StartMap(n) \/ SkipChannel(n) PROVE Goal
  BY <1>1, <1>2 DEF StartMap, SkipChannel, group
<1>3. ASSUME NEW e \in Element, NEW st \in OnOff,
             Press(e) \/ Command(e, st) \/ AutoControl(e, st)
      PROVE  Goal
  BY <1>3, CauseIsAlone
<1>4. ASSUME NEW e \in Element, MapChannel(e) PROVE Goal
  <2>1. undisturbed
    BY <1>4 DEF MapChannel
  <2>2. ASSUME NEW f \in Element, Alone(f) PROVE Goal
    <3>1. e = f
      BY <1>4, <2>2 DEF Alone, MapChannel
    <3>2. set[e] \in OnOff
      BY DEF TypeOK
    <3> QED
      BY <1>4, <2>2, <3>1, <3>2, AloneTells
  <2>3. ASSUME NEW st \in OnOff, Spreading(st) PROVE Goal
    BY <1>4, <2>3, SpreadMapped
  <2> QED
    BY <2>1, <2>2, <2>3
<1>5. ASSUME NEW l \in Link, Deliver(l) PROVE Goal
  <2>1. undisturbed /\ net[l] # <<>>
    BY <1>5 DEF Deliver
  <2>2. ASSUME NEW st \in OnOff, Spreading(st) PROVE Goal
    BY <1>5, <2>2, SpreadDelivered
  <2> QED
    BY <2>1, <2>2 DEF Alone
<1>6. CASE \/ \E n \in Node : Restart(n)
           \/ \E n \in Node, to \in Dst \ {"own"}, st \in OnOff :
                 Broadcast(n, to, st)
           \/ \E e \in Element : binding_enable(e) \/ binding_disable(e)
           \/ \E l \in Link : Lose(l)
  <2>1. undisturbed' = FALSE
    BY <1>6 DEF Restart, Broadcast, binding_enable, binding_disable, Lose
  <2> QED
    BY <2>1
<1>7. CASE UNCHANGED vars
  BY <1>1, <1>7 DEF vars, group
<1>8. G_OFF \in OnOff
  BY DEF OnOff
<1> QED
  BY <1>2, <1>3, <1>4, <1>5, <1>6, <1>7, <1>8 DEF Next

\* When a change that came alone has been told and nothing was lost, all bound
\* channels of all switches have the same state, for any number of them.
THEOREM ChangeReachesAll == Spec => []Agreement
<1>1. Init => TypeOK /\ Spreads
  BY GroupInit DEF Init, Spreads
<1>2. TypeOK /\ Spreads /\ [Next]_vars => (TypeOK /\ Spreads)'
  BY GroupStepType, SpreadStep
<1>3. TypeOK /\ Spreads => Agreement
  <2> SUFFICES ASSUME Spreads, Quiet, undisturbed, NEW e \in Element,
                      NEW f \in Element, bound[e], bound[f]
               PROVE  target[e] = target[f]
    BY DEF Agreement
  <2>1. PICK st \in OnOff : Spreading(st)
    BY DEF Spreads, Quiet, Alone
  <2> QED
    BY <2>1 DEF Spreading, Quiet, Pending
<1> QED
  BY <1>1, <1>2, <1>3, PTL DEF Spec
=============================================================================
