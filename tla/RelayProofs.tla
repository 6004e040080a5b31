---------------------------- MODULE RelayProofs ----------------------------
(***************************************************************************)
(* Safety of the relay driver for any number of channels, any requests and *)
(* any number of power failures.                                           *)
(***************************************************************************)
EXTENDS Relay, TLAPS

-----------------------------------------------------------------------------
\* Every variable of the driver keeps its range, in particular the channel in
\* flight is one of the board's or none.
THEOREM TypeCorrect == Spec => []TypeOK
<1>1. Init => TypeOK
  <2> SUFFICES ASSUME Init PROVE TypeOK
    OBVIOUS
  <2>1. RLS_TARGET \in [Channel -> BOOLEAN]
    BY DEF Init, Restore, Restored
  <2>2. RLS_PRESENT \in [Channel -> BOOLEAN]
    BY DEF Init, Complement
  <2>3. /\ RLS_ACTUAL \in [Channel -> BOOLEAN]
        /\ pin \in [Channel -> BOOLEAN]
        /\ onRelayFlag \in [Channel -> BOOLEAN]
        /\ src_control \in [Channel -> {"SRC_APP", "SRC_DEVICE"}]
    BY DEF Init
  <2>4. /\ requests \in 0..MaxRequests
        /\ losses \in 0..MaxPowerLosses
    BY RelayAssumption DEF Init
  <2>5. /\ done_flag \in BOOLEAN
        /\ control_when_timeout \in BOOLEAN
        /\ active_st \in BOOLEAN
        /\ timer1 \in BOOLEAN
        /\ pulse_young \in BOOLEAN
        /\ store_enable \in BOOLEAN
    BY DEF Init
  <2> QED
    BY <2>1, <2>2, <2>3, <2>4, <2>5 DEF Init, TypeOK
<1>2. TypeOK /\ [Next]_vars => TypeOK'
  <2> SUFFICES ASSUME TypeOK, [Next]_vars PROVE TypeOK'
    OBVIOUS
  <2> USE RelayAssumption DEF TypeOK, relayState, driveState, pulseState,
                              storeState, config, bounds
  <2>1. CASE MapSetAndTarget       BY <2>1 DEF MapSetAndTarget
  <2>2. CASE StoreTargetState      BY <2>2 DEF StoreTargetState
  <2>3. CASE StoreNotDue           BY <2>3 DEF StoreNotDue
  <2>4. ASSUME NEW expired \in SUBSET Channel, AutoOff(expired) PROVE TypeOK'
    BY <2>4 DEF AutoOff
  <2>5. CASE CompleteControl       BY <2>5 DEF CompleteControl, BookedPresent, BookedActual
  <2>6. CASE NothingToDrive        BY <2>6 DEF NothingToDrive
  <2>7. ASSUME NEW i \in Channel, SelectChannel(i) PROVE TypeOK'
    BY <2>7 DEF SelectChannel
  <2>8. CASE SetBusy               BY <2>8 DEF SetBusy
  <2>9. CASE UpdateCompare         BY <2>9 DEF UpdateCompare
  <2>10. CASE RearmZeroSync        BY <2>10 DEF RearmZeroSync
  <2>11. CASE KeepWaiting          BY <2>11 DEF KeepWaiting
  <2>12. CASE ZeroWaitExpires      BY <2>12 DEF ZeroWaitExpires
  <2>13. CASE GiveUpZeroSync       BY <2>13 DEF GiveUpZeroSync
  <2>14. CASE ForceTimer           BY <2>14 DEF ForceTimer
  <2>15. CASE ProcReturn           BY <2>15 DEF ProcReturn
  <2>16. CASE ZeroSync             BY <2>16 DEF ZeroSync
  <2>17. CASE TimerMatch           BY <2>17 DEF TimerMatch
  <2>18. CASE PowerLoss
    <3>1. RLS_TARGET' \in [Channel -> BOOLEAN]
      BY <2>18 DEF PowerLoss, Restore, Restored
    <3>2. RLS_PRESENT' \in [Channel -> BOOLEAN]
      BY <2>18 DEF PowerLoss, Complement
    <3>3. /\ RLS_ACTUAL' \in [Channel -> BOOLEAN]
          /\ pin' \in [Channel -> BOOLEAN]
          /\ onRelayFlag' \in [Channel -> BOOLEAN]
          /\ src_control' \in [Channel -> {"SRC_APP", "SRC_DEVICE"}]
      BY <2>18 DEF PowerLoss
    <3>4. /\ done_flag' \in BOOLEAN
          /\ control_when_timeout' \in BOOLEAN
          /\ active_st' \in BOOLEAN
          /\ timer1' \in BOOLEAN
          /\ pulse_young' \in BOOLEAN
          /\ store_enable' \in BOOLEAN
      BY <2>18 DEF PowerLoss
    <3>5. /\ RLS_SET' = RLS_TARGET'
          /\ relay_module_st' = "RELAY_IDLE"
          /\ active_chn' = NO_RL_CHN_ACTIVE
          /\ pc' = "loop"
          /\ losses' \in 0..MaxPowerLosses
          /\ UNCHANGED <<flash, config, requests>>
      BY <2>18 DEF PowerLoss
    <3> QED
      BY <3>1, <3>2, <3>3, <3>4, <3>5
  <2>19. ASSUME NEW i \in Channel, NEW st \in BOOLEAN, AppControl(i, st)
         PROVE  TypeOK'
    BY <2>19 DEF AppControl, Request, SetTargetState
  <2>21. ASSUME NEW i \in Channel, Toggle(i) PROVE TypeOK'
    BY <2>21 DEF Toggle, Request, SetTargetState
  <2>22. ASSUME NEW i \in Channel, MomentaryPress(i) PROVE TypeOK'
    BY <2>22 DEF MomentaryPress, Request, SetTargetState
  <2>23. ASSUME NEW i \in Channel, MomentaryRelease(i) PROVE TypeOK'
    BY <2>23 DEF MomentaryRelease, Request, SetTargetState
  <2>24. ASSUME NEW i \in Channel, NEW m \in Modes, ChangeMode(i, m)
         PROVE  TypeOK'
    <3>1. /\ requests' \in 0..MaxRequests
          /\ UNCHANGED <<driveState, pulseState, flash, power_on_state, pc,
                         losses>>
      BY <2>24 DEF ChangeMode, Request
    <3>2. /\ switch_mode' \in [Channel -> Modes]
          /\ RLS_TARGET' = RLS_TARGET
          /\ RLS_ACTUAL' = RLS_ACTUAL
      BY <2>24 DEF ChangeMode, ControlSameState
    <3>3. /\ RLS_SET' \in [Channel -> BOOLEAN]
          /\ RLS_PRESENT' \in [Channel -> BOOLEAN]
          /\ src_control' \in [Channel -> {"SRC_APP", "SRC_DEVICE"}]
          /\ store_enable' \in BOOLEAN
      <4>1. CASE m = "MOMENTARY" /\ RLS_TARGET[i]
        BY <2>24, <4>1 DEF ChangeMode
      <4>2. CASE ~(m = "MOMENTARY" /\ RLS_TARGET[i])
        BY <2>24, <4>2 DEF ChangeMode, ControlSameState
      <4> QED
        BY <4>1, <4>2
    <3> QED
      BY <3>1, <3>2, <3>3
  <2>25. CASE UNCHANGED vars       BY <2>25 DEF vars
  <2> HIDE DEF TypeOK
  <2> QED
    BY <2>1, <2>2, <2>3, <2>4, <2>5, <2>6, <2>7, <2>8, <2>9, <2>10, <2>11,
       <2>12, <2>13, <2>14, <2>15, <2>16, <2>17, <2>18, <2>19, <2>21,
       <2>22, <2>23, <2>24, <2>25
    DEF Next, RelayProc, Environment
<1> QED
  BY <1>1, <1>2, PTL DEF Spec

-----------------------------------------------------------------------------
(* The environment's actions, as far as the switching in flight goes.      *)

\* A request leaves the switching in flight alone.
LEMMA RequestsLeaveDrive ==
  ASSUME NEW i \in Channel,
         \/ \E st \in BOOLEAN : AppControl(i, st)
         \/ Toggle(i) \/ MomentaryPress(i) \/ MomentaryRelease(i)
         \/ \E m \in Modes : ChangeMode(i, m)
  PROVE  /\ pc = "loop"
         /\ UNCHANGED <<driveState, pulseState, flash, power_on_state, pc,
                        losses>>
BY DEF AppControl, Toggle, MomentaryPress, MomentaryRelease,
       ChangeMode, Request

\* A busy module that no longer listens for a zero crossing has its timer
\* running or about to be started: no switching can hang.
THEOREM NoLostWakeupHolds == Spec => []NoLostWakeup
<1>1. Init => NoLostWakeup
  BY DEF Init, NoLostWakeup
<1>2. TypeOK /\ NoLostWakeup /\ [Next]_vars => NoLostWakeup'
  <2> SUFFICES ASSUME TypeOK, NoLostWakeup, [Next]_vars PROVE NoLostWakeup'
    OBVIOUS
  <2> USE DEF NoLostWakeup, relayState, driveState, pulseState, storeState,
              config, bounds
  <2>1. CASE MapSetAndTarget
    BY <2>1 DEF MapSetAndTarget
  <2>2. CASE StoreTargetState
    BY <2>2 DEF StoreTargetState
  <2>3. CASE StoreNotDue
    BY <2>3 DEF StoreNotDue
  <2>4. CASE CompleteControl
    BY <2>4 DEF CompleteControl, BookedPresent, BookedActual
  <2>5. CASE NothingToDrive
    BY <2>5 DEF NothingToDrive
  <2>6. CASE SetBusy
    BY <2>6 DEF SetBusy
  <2>7. CASE UpdateCompare
    BY <2>7 DEF UpdateCompare
  <2>8. CASE RearmZeroSync
    BY <2>8 DEF RearmZeroSync
  <2>9. CASE KeepWaiting
    BY <2>9 DEF KeepWaiting
  <2>10. CASE ZeroWaitExpires
    BY <2>10 DEF ZeroWaitExpires
  <2>11. CASE GiveUpZeroSync
    BY <2>11 DEF GiveUpZeroSync
  <2>12. CASE ForceTimer
    BY <2>12 DEF ForceTimer
  <2>13. CASE ProcReturn
    BY <2>13 DEF ProcReturn
  <2>14. CASE ZeroSync
    BY <2>14 DEF ZeroSync
  <2>15. CASE TimerMatch
    BY <2>15 DEF TimerMatch
  <2>16. CASE PowerLoss
    BY <2>16 DEF PowerLoss
  <2>17. ASSUME NEW expired \in SUBSET Channel, AutoOff(expired)
         PROVE  NoLostWakeup'
    BY <2>17 DEF AutoOff
  <2>18. ASSUME NEW i \in Channel, SelectChannel(i) PROVE NoLostWakeup'
    BY <2>18 DEF SelectChannel
  <2>19. ASSUME NEW i \in Channel,
                \/ \E st \in BOOLEAN : AppControl(i, st)
                \/ Toggle(i) \/ MomentaryPress(i) \/ MomentaryRelease(i)
                \/ \E m \in Modes : ChangeMode(i, m)
         PROVE  NoLostWakeup'
    BY <2>19, RequestsLeaveDrive
  <2>20. CASE UNCHANGED vars
    BY <2>20 DEF vars
  <2> HIDE DEF NoLostWakeup
  <2> QED
    BY <2>1, <2>2, <2>3, <2>4, <2>5, <2>6, <2>7, <2>8, <2>9, <2>10, <2>11, <2>12, <2>13, <2>14, <2>15, <2>16, <2>17, <2>18, <2>19, <2>20
    DEF Next, RelayProc, Environment
<1> QED
  BY <1>1, <1>2, TypeCorrect, PTL DEF Spec

-----------------------------------------------------------------------------
(* Outputs at rest.                                                        *)

\* No mode message arrives between a timer match and its bookkeeping.
NoModeRace == "mode_completing" \notin Requests

\* The steps that touch neither the bookkeeping nor the outputs nor the stage
\* of the switching in flight keep the invariant.
LEMMA QuietStep ==
  ASSUME SettledInv,
         UNCHANGED <<RLS_TARGET, RLS_PRESENT, RLS_ACTUAL, relay_module_st,
                     done_flag, active_chn, active_st, pin, switch_mode>>,
         pc' \in {"select", "busy"} => pc' = pc,
         pc = "busy" => pc' = "busy"
  PROVE  SettledInv'
BY DEF SettledInv, FlightOrder, DrivenAsBooked, SettledPins, ActualIsPin,
       InFlight, Level

\* The bookkeeping, the choice of a channel, the timer match, the mapping of
\* the requests and the power failure keep it, each for its own reason.
LEMMA SettledStep ==
  ASSUME NoModeRace, TypeOK, SettledInv, [Next]_vars
  PROVE  SettledInv'
<1> USE DEF relayState, driveState, pulseState, storeState, config, bounds
<1>1. CASE StoreTargetState
  BY <1>1, QuietStep DEF StoreTargetState
<1>2. CASE StoreNotDue
  BY <1>2, QuietStep DEF StoreNotDue
<1>3. CASE NothingToDrive
  BY <1>3, QuietStep DEF NothingToDrive
<1>4. CASE UpdateCompare
  BY <1>4, QuietStep DEF UpdateCompare
<1>5. CASE RearmZeroSync
  BY <1>5, QuietStep DEF RearmZeroSync
<1>6. CASE KeepWaiting
  BY <1>6, QuietStep DEF KeepWaiting
<1>7. CASE ZeroWaitExpires
  BY <1>7, QuietStep DEF ZeroWaitExpires
<1>8. CASE GiveUpZeroSync
  BY <1>8, QuietStep DEF GiveUpZeroSync
<1>9. CASE ForceTimer
  BY <1>9, QuietStep DEF ForceTimer
<1>10. CASE ProcReturn
  BY <1>10, QuietStep DEF ProcReturn
<1>11. CASE ZeroSync
  BY <1>11, QuietStep DEF ZeroSync
<1>12. ASSUME NEW expired \in SUBSET Channel, AutoOff(expired)
      PROVE  SettledInv'
  BY <1>12, QuietStep DEF AutoOff
<1>13. CASE UNCHANGED vars
  BY <1>13, QuietStep DEF vars
<1>14. CASE MapSetAndTarget
  BY <1>14 DEF MapSetAndTarget, TypeOK, SettledInv, FlightOrder, DrivenAsBooked, SettledPins, ActualIsPin,
         InFlight, Level
<1>15. CASE SetBusy
  BY <1>15 DEF SetBusy, TypeOK, SettledInv, FlightOrder, DrivenAsBooked, SettledPins, ActualIsPin,
         InFlight, Level
<1>16. CASE CompleteControl
  <2>1. CASE done_flag /\ active_chn # NO_RL_CHN_ACTIVE
    BY <1>16, <2>1 DEF CompleteControl, BookedPresent, BookedActual, TypeOK, SettledInv, FlightOrder, DrivenAsBooked, SettledPins, ActualIsPin,
         InFlight, Level
  <2>2. CASE ~done_flag
    BY <1>16, <2>2 DEF CompleteControl, BookedPresent, BookedActual, TypeOK, SettledInv, FlightOrder, DrivenAsBooked, SettledPins, ActualIsPin,
         InFlight, Level
  <2>3. done_flag => active_chn # NO_RL_CHN_ACTIVE
    BY RelayAssumption DEF SettledInv, FlightOrder, Channel, NO_RL_CHN_ACTIVE
  <2> QED
    BY <2>1, <2>2, <2>3
<1>17. ASSUME NEW i \in Channel, SelectChannel(i) PROVE SettledInv'
  BY <1>17 DEF SelectChannel, TypeOK, SettledInv, FlightOrder, DrivenAsBooked, SettledPins, ActualIsPin,
         InFlight, Level
<1>18. CASE TimerMatch
  <2>1. CASE relay_module_st = "RELAY_BUSY"
    BY <1>18, <2>1 DEF TimerMatch, TypeOK, SettledInv, FlightOrder, DrivenAsBooked, SettledPins, ActualIsPin,
         InFlight, Level
  <2>2. CASE relay_module_st # "RELAY_BUSY"
    BY <1>18, <2>2, QuietStep DEF TimerMatch
  <2> QED
    BY <2>1, <2>2
<1>19. CASE PowerLoss
  <2>1. \A i \in Channel : RLS_PRESENT'[i] # RLS_TARGET'[i]
    BY <1>19 DEF PowerLoss, Complement, Restore, Restored
  <2> QED
    BY <1>19, <2>1 DEF PowerLoss, SettledInv, FlightOrder, DrivenAsBooked, SettledPins, ActualIsPin,
         InFlight, Level
<1>20. ASSUME NEW i \in Channel,
             \/ \E st \in BOOLEAN : AppControl(i, st)
             \/ Toggle(i) \/ MomentaryPress(i) \/ MomentaryRelease(i)
      PROVE  SettledInv'
  <2>1. UNCHANGED <<RLS_TARGET, RLS_PRESENT, RLS_ACTUAL, switch_mode>>
    BY <1>20 DEF AppControl, Toggle, MomentaryPress,
                MomentaryRelease, SetTargetState
  <2> QED
    BY <1>20, <2>1, RequestsLeaveDrive, QuietStep
<1>21. ASSUME NEW i \in Channel, NEW m \in Modes, ChangeMode(i, m)
      PROVE  SettledInv'
  <2>1. ~(done_flag /\ active_chn = i)
    BY <1>21 DEF ChangeMode, Request, NoModeRace
  <2>2. /\ pc = "loop"
        /\ UNCHANGED <<driveState, pc, RLS_TARGET, RLS_ACTUAL>>
        /\ switch_mode' = [switch_mode EXCEPT ![i] = m]
    BY <1>21, RequestsLeaveDrive DEF ChangeMode, ControlSameState
  <2>3. CASE m = "MOMENTARY" /\ RLS_TARGET[i]
    <3>1. RLS_PRESENT' = RLS_PRESENT
      BY <1>21, <2>3 DEF ChangeMode
    <3> QED
      BY <2>1, <2>2, <2>3, <3>1 DEF TypeOK, SettledInv, FlightOrder, DrivenAsBooked, SettledPins, ActualIsPin,
         InFlight, Level
  <2>4. CASE ~(m = "MOMENTARY" /\ RLS_TARGET[i])
    <3>1. RLS_PRESENT' = [RLS_PRESENT EXCEPT ![i] = ~RLS_TARGET[i]]
      BY <1>21, <2>4 DEF ChangeMode, ControlSameState
    <3> QED
      BY <2>1, <2>2, <3>1 DEF TypeOK, SettledInv, FlightOrder, DrivenAsBooked, SettledPins, ActualIsPin,
         InFlight, Level
  <2> QED
    BY <2>3, <2>4
<1> QED
  BY <1>1, <1>2, <1>3, <1>4, <1>5, <1>6, <1>7, <1>8, <1>9, <1>10, <1>11, <1>12, <1>13, <1>14, <1>15, <1>16, <1>17, <1>18, <1>19, <1>20, <1>21
  DEF Next, RelayProc, Environment

\* The invariant of the outputs holds in every reachable state.
LEMMA Settled ==
  ASSUME NoModeRace
  PROVE  Spec => []SettledInv
<1>1. Init => SettledInv
  <2> SUFFICES ASSUME Init PROVE SettledInv
    OBVIOUS
  <2>1. \A i \in Channel : RLS_PRESENT[i] # RLS_TARGET[i]
    BY DEF Init, Complement, Restore, Restored
  <2> QED
    BY <2>1 DEF Init, SettledInv, FlightOrder, DrivenAsBooked, SettledPins,
                ActualIsPin
<1>2. TypeOK /\ SettledInv /\ [Next]_vars => SettledInv'
  BY SettledStep, NoModeRace
<1> QED
  BY <1>1, <1>2, TypeCorrect, PTL DEF Spec

\* At rest every output is what the target and the mode ask for; mode messages
\* in the completion window excepted.
THEOREM OutputsAtRest ==
  ASSUME NoModeRace
  PROVE  Spec => []SettledPins
<1>1. SettledInv => SettledPins
  BY DEF SettledInv
<1> QED
  BY <1>1, Settled, PTL

\* The state of a channel at rest that the energy meter is told is what its pin
\* is driven to: CompleteControl books what the timer handler drove.
THEOREM EnergySeesPin ==
  ASSUME NoModeRace
  PROVE  Spec => []ActualIsPin
<1>1. SettledInv => ActualIsPin
  BY DEF SettledInv
<1> QED
  BY <1>1, Settled, PTL

-----------------------------------------------------------------------------
(* The stored state.                                                       *)

\* The configuration does not change.
StoredRequests == Requests \subseteq {"app", "toggle", "press", "release"}

LEMMA DurableStep ==
  ASSUME StoredRequests, TypeOK, DurableInv, [Next]_vars
  PROVE  DurableInv'
<1> USE DEF relayState, driveState, pulseState, storeState, config, bounds
<1>1. CASE StoreNotDue
  BY <1>1 DEF StoreNotDue, DurableInv, DurableTarget
<1>2. CASE CompleteControl
  BY <1>2 DEF CompleteControl, BookedPresent, BookedActual, DurableInv, DurableTarget
<1>3. CASE NothingToDrive
  BY <1>3 DEF NothingToDrive, DurableInv, DurableTarget
<1>4. CASE SetBusy
  BY <1>4 DEF SetBusy, DurableInv, DurableTarget
<1>5. CASE UpdateCompare
  BY <1>5 DEF UpdateCompare, DurableInv, DurableTarget
<1>6. CASE RearmZeroSync
  BY <1>6 DEF RearmZeroSync, DurableInv, DurableTarget
<1>7. CASE KeepWaiting
  BY <1>7 DEF KeepWaiting, DurableInv, DurableTarget
<1>8. CASE ZeroWaitExpires
  BY <1>8 DEF ZeroWaitExpires, DurableInv, DurableTarget
<1>9. CASE GiveUpZeroSync
  BY <1>9 DEF GiveUpZeroSync, DurableInv, DurableTarget
<1>10. CASE ForceTimer
  BY <1>10 DEF ForceTimer, DurableInv, DurableTarget
<1>11. CASE ProcReturn
  BY <1>11 DEF ProcReturn, DurableInv, DurableTarget
<1>12. CASE ZeroSync
  BY <1>12 DEF ZeroSync, DurableInv, DurableTarget
<1>13. CASE TimerMatch
  BY <1>13 DEF TimerMatch, DurableInv, DurableTarget
<1>14. CASE MapSetAndTarget
  BY <1>14 DEF MapSetAndTarget, DurableInv, DurableTarget, TypeOK
<1>15. CASE StoreTargetState
  BY <1>15 DEF StoreTargetState, DurableInv, DurableTarget, TypeOK
<1>16. ASSUME NEW i \in Channel, SelectChannel(i) PROVE DurableInv'
  BY <1>16 DEF SelectChannel, DurableInv, DurableTarget
<1>17. ASSUME NEW expired \in SUBSET Channel, AutoOff(expired)
      PROVE  DurableInv'
  BY <1>17 DEF AutoOff, DurableInv, DurableTarget, TypeOK
<1>18. CASE UNCHANGED vars
  BY <1>18 DEF vars, DurableInv, DurableTarget
<1>19. CASE PowerLoss
  BY <1>19 DEF PowerLoss, DurableInv, DurableTarget, Restore, Restored, TypeOK
<1>20. ASSUME NEW i \in Channel, NEW st \in BOOLEAN,
             SetTargetState(i, st, "SRC_APP")
               \/ SetTargetState(i, st, "SRC_DEVICE"),
             pc = "loop",
             UNCHANGED <<flash, power_on_state, pc>>
      PROVE  DurableInv'
  BY <1>20 DEF SetTargetState, DurableInv, DurableTarget, TypeOK
<1>21. ASSUME NEW i \in Channel, NEW st \in BOOLEAN, AppControl(i, st)
      PROVE  DurableInv'
  BY <1>21, <1>20, RequestsLeaveDrive
  DEF AppControl, DurableInv, DurableTarget
<1>22. ASSUME NEW i \in Channel, Toggle(i) PROVE DurableInv'
  BY <1>22, <1>20, RequestsLeaveDrive DEF Toggle, TypeOK
<1>23. ASSUME NEW i \in Channel, MomentaryPress(i) PROVE DurableInv'
  BY <1>23, <1>20, RequestsLeaveDrive DEF MomentaryPress, TypeOK
<1>24. ASSUME NEW i \in Channel, MomentaryRelease(i) PROVE DurableInv'
  BY <1>24, <1>20, RequestsLeaveDrive DEF MomentaryRelease, TypeOK
<1>25. ASSUME NEW i \in Channel,
             \E m \in Modes : ChangeMode(i, m)
      PROVE  FALSE
  BY <1>25 DEF StoredRequests, ChangeMode, Request
<1> QED
  BY <1>1, <1>2, <1>3, <1>4, <1>5, <1>6, <1>7, <1>8, <1>9, <1>10, <1>11, <1>12, <1>13, <1>14, <1>15, <1>16, <1>17, <1>18, <1>19, <1>21, <1>22, <1>23, <1>24, <1>25
  DEF Next, RelayProc, Environment

\* Once the deferred store has run, a power failure restores the state in
\* force, whatever happened between the request and the store.
THEOREM StoreIsDurable ==
  ASSUME StoredRequests
  PROVE  Spec => []DurableTarget
<1>1. Init => DurableInv
  <2> SUFFICES ASSUME Init, NEW i \in Channel,
                      switch_mode[i] # "MOMENTARY",
                      power_on_state[i] = "POWER_UP_RESTORE"
               PROVE  flash[i] = RLS_TARGET[i]
    BY DEF Init, DurableInv, DurableTarget
  <2>1. RLS_TARGET[i] = Restored(i, flash)
    BY DEF Init, Restore
  <2>2. flash[i] \in BOOLEAN
    BY DEF Init
  <2> QED
    BY <2>1, <2>2 DEF Restored
<1>2. TypeOK /\ DurableInv /\ [Next]_vars => DurableInv'
  BY DurableStep, StoredRequests
<1>3. DurableInv => DurableTarget
  BY DEF DurableInv
<1> QED
  BY <1>1, <1>2, <1>3, TypeCorrect, PTL DEF Spec
=============================================================================
