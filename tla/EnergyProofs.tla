---------------------------- MODULE EnergyProofs ----------------------------
(***************************************************************************)
(* Proofs about Energy for every number of channels and every counter      *)
(* width: no channel is ever charged for more than its load has used.      *)
(***************************************************************************)
EXTENDS Energy, TLAPS

EnergyInv == TypeOK /\ AccountInv

LEMMA InitEnergy == Init => EnergyInv
BY EnergyAssumption
   DEF Init, EnergyInv, TypeOK, AccountInv, Counted, Unread, Fresh, RunsBack,
       Zero

\* Where bl0906_handle_active_energy_rsp counts from is never beyond the
\* counter: the subtraction in u32 does not wrap.
LEMMA CountFromBelow ==
    ASSUME EnergyInv, NEW i \in Channel
    PROVE  CountFrom(i) \in 0..(WRAP - 1) /\ CountFrom(i) <= cf[i]
BY EnergyAssumption
   DEF EnergyInv, TypeOK, AccountInv, CountFrom, Fresh, RunsBack

LEMMA StepType == EnergyInv /\ [Next]_vars => TypeOK'
<1> SUFFICES ASSUME EnergyInv, [Next]_vars PROVE TypeOK'
  OBVIOUS
<1>0. TypeOK
  BY DEF EnergyInv
<1> USE EnergyAssumption DEF chip, reading, account, bounds
<1>1. CASE ChipReset
  BY <1>0, <1>1 DEF ChipReset, TypeOK, Zero
<1>2. CASE CleanAll
  BY <1>0, <1>2 DEF CleanAll, TypeOK, Zero
<1>3. CASE Restart
  BY <1>0, <1>3 DEF Restart, TypeOK, Zero
<1>4. ASSUME NEW i \in Channel, Consume(i) PROVE TypeOK'
  <2>1. (cf[i] + 1) % WRAP \in 0..(WRAP - 1)
    BY <1>0 DEF TypeOK
  <2> QED
    BY <1>0, <1>4, <2>1 DEF Consume, TypeOK
<1>5. ASSUME NEW i \in Channel, ReadEnergy(i) PROVE TypeOK'
  <2>1. CountFrom(i) \in 0..(WRAP - 1) /\ cf[i] - CountFrom(i) \in Nat
    BY <1>0, CountFromBelow DEF TypeOK
  <2>2. CASE RunsBack(i)
    BY <1>0, <1>5, <2>1, <2>2 DEF ReadEnergy, CfOverflow, TypeOK
  <2>3. CASE ~RunsBack(i)
    BY <1>0, <1>5, <2>1, <2>3 DEF ReadEnergy, TypeOK
  <2> QED
    BY <2>2, <2>3
<1>6. ASSUME NEW i \in Channel, Query(i) PROVE TypeOK'
  BY <1>0, <1>6 DEF Query, TypeOK
<1>7. ASSUME NEW i \in Channel, Calculate(i) PROVE TypeOK'
  <2>1. active_energy[i] - active_energy_offset[i] \in Nat
    BY <1>0 DEF EnergyInv, TypeOK, AccountInv
  <2>2. CASE active_energy_offset[i] # 0
    <3>1. active_energy_power_on[i]
             + (active_energy[i] - active_energy_offset[i]) \in Nat
      BY <1>0, <2>1 DEF TypeOK
    <3>2. total_active_energy' \in [Channel -> Nat]
      BY <1>0, <1>7, <2>2, <3>1 DEF Calculate, TypeOK
    <3>3. publish' \in [Channel -> BOOLEAN]
      BY <1>0, <1>7, <2>2 DEF Calculate, TypeOK
    <3> QED
      BY <1>0, <1>7, <2>2, <3>2, <3>3 DEF Calculate, TypeOK
  <2>3. CASE active_energy_offset[i] = 0
    BY <1>0, <1>7, <2>3 DEF Calculate, TypeOK
  <2> QED
    BY <2>2, <2>3
<1>8. ASSUME NEW i \in Channel, SetupPublish(i) PROVE TypeOK'
  BY <1>0, <1>8 DEF SetupPublish, TypeOK
<1>9. ASSUME NEW i \in Channel, RelayOff(i) PROVE TypeOK'
  BY <1>0, <1>9 DEF RelayOff, TypeOK
<1>10. ASSUME NEW i \in Channel, PublishEnergy(i) PROVE TypeOK'
  BY <1>0, <1>10 DEF PublishEnergy, TypeOK
<1>11. CASE UNCHANGED vars
  BY <1>0, <1>11 DEF vars, TypeOK
<1> QED
  BY <1>1, <1>2, <1>3, <1>4, <1>5, <1>6, <1>7, <1>8, <1>9, <1>10, <1>11
     DEF Next

-----------------------------------------------------------------------------
\* AccountInv, one channel at a time.
AccountOf(i) ==
    /\ total_active_energy[i] <= Counted(i)
    /\ Counted(i) + Unread(i) <= consumed[i]
    /\ reported[i] <= consumed[i]
    /\ flash[i] <= consumed[i]
    /\ active_energy_offset[i] <= active_energy[i]
    /\ IF Fresh(i)
       THEN active_energy[i] = 0 /\ active_energy_offset[i] = 0
       ELSE /\ cf_cnt_offset[i] <= cf_cnt_present[i]
            /\ cf_cnt_present[i] # CF_CNT_UNKNOWN
            /\ active_energy[i] = cf_cnt_present[i] - cf_cnt_offset[i]

\* An action on one channel leaves the account of the others alone.
LEMMA OtherChannels ==
    ASSUME EnergyInv, NEW j \in Channel,
           cf'[j] = cf[j], consumed'[j] = consumed[j],
           cf_cnt_offset'[j] = cf_cnt_offset[j],
           cf_cnt_present'[j] = cf_cnt_present[j],
           active_energy'[j] = active_energy[j],
           active_energy_power_on'[j] = active_energy_power_on[j],
           active_energy_offset'[j] = active_energy_offset[j],
           total_active_energy'[j] = total_active_energy[j],
           reported'[j] = reported[j], flash'[j] = flash[j]
    PROVE  AccountOf(j)'
BY DEF EnergyInv, AccountInv, AccountOf, Counted, Unread, Fresh, RunsBack

\* Consumption moves the counter by one, or round its end.
LEMMA ConsumeAccount ==
    ASSUME EnergyInv, NEW i \in Channel, Consume(i), NEW j \in Channel
    PROVE  AccountOf(j)'
<1> USE EnergyAssumption DEF chip, reading, account, bounds
<1>1. CASE j # i
  BY <1>1, OtherChannels DEF Consume, EnergyInv, TypeOK
<1>2. CASE j = i
  <2>1. /\ cf'[i] = cf[i] + 1 \/ cf'[i] = 0
        /\ consumed'[i] = consumed[i] + 1
    BY DEF Consume, EnergyInv, TypeOK
  <2>2. Counted(i)' = Counted(i) /\ Fresh(i)' = Fresh(i)
    BY DEF Consume, Counted, Fresh
  <2>3. Unread(i)' <= Unread(i) + 1
    BY <2>1 DEF Consume, Unread, Fresh, RunsBack, EnergyInv, TypeOK
  <2>4. Counted(i) \in Int /\ Unread(i) \in Int /\ Unread(i)' \in Int
    BY <2>1 DEF Consume, Counted, Unread, Fresh, RunsBack, EnergyInv, TypeOK
  <2> QED
    BY <1>2, <2>1, <2>2, <2>3, <2>4
       DEF Consume, AccountOf, EnergyInv, AccountInv, TypeOK
<1> QED
  BY <1>1, <1>2

\* A reading books what was unread, or starts a new run of the counter.
LEMMA ReadAccount ==
    ASSUME EnergyInv, NEW i \in Channel, ReadEnergy(i), NEW j \in Channel
    PROVE  AccountOf(j)'
<1> USE EnergyAssumption DEF chip, reading, account, bounds
<1>1. CASE j # i
  <2>1. CASE RunsBack(i)
    BY <1>1, <2>1, OtherChannels DEF ReadEnergy, CfOverflow, EnergyInv, TypeOK
  <2>2. CASE ~RunsBack(i)
    BY <1>1, <2>2, OtherChannels DEF ReadEnergy, EnergyInv, TypeOK
  <2> QED
    BY <2>1, <2>2
<1>2. CASE j = i
  <2>0. /\ cf_cnt_offset'[i] = CountFrom(i)
        /\ cf_cnt_present'[i] = cf[i]
        /\ active_energy'[i] = cf[i] - CountFrom(i)
        /\ cf' = cf /\ consumed' = consumed
        /\ reported' = reported /\ flash' = flash
    BY DEF ReadEnergy, EnergyInv, TypeOK
  <2>1. ~Fresh(i)' /\ ~RunsBack(i)' /\ Unread(i)' = 0
    BY <2>0 DEF Fresh, RunsBack, Unread, EnergyInv, TypeOK
  <2>2. CountFrom(i) \in Nat /\ CountFrom(i) <= cf[i]
    BY CountFromBelow
  <2>3. CASE Fresh(i)
    <3>1. CountFrom(i) = cf[i] /\ ~RunsBack(i)
      BY <2>3 DEF CountFrom, RunsBack
    <3>2. UNCHANGED account
      BY <3>1 DEF ReadEnergy
    <3> QED
      BY <1>2, <2>0, <2>1, <2>3, <3>1, <3>2
         DEF AccountOf, Counted, Unread, EnergyInv, AccountInv, TypeOK
  <2>4. CASE RunsBack(i)
    <3>1. CountFrom(i) = cf[i]
      BY <2>4 DEF CountFrom
    <3>2. /\ active_energy_power_on'[i] = total_active_energy[i]
          /\ total_active_energy'[i] = 0
          /\ active_energy_offset'[i] = 0
      BY <2>4 DEF ReadEnergy, CfOverflow, EnergyInv, TypeOK
    <3>3. total_active_energy[i] <= consumed[i]
      BY <2>4 DEF EnergyInv, AccountInv, TypeOK, Counted, Unread
    <3> QED
      BY <1>2, <2>0, <2>1, <3>1, <3>2, <3>3
         DEF AccountOf, Counted, EnergyInv, AccountInv, TypeOK
  <2>5. CASE ~Fresh(i) /\ ~RunsBack(i)
    <3>1. CountFrom(i) = cf_cnt_offset[i] /\ UNCHANGED account
      BY <2>5 DEF CountFrom, ReadEnergy
    <3>2. cf_cnt_present[i] <= cf[i]
      BY <2>5 DEF RunsBack, EnergyInv, TypeOK
    <3> QED
      BY <1>2, <2>0, <2>1, <2>2, <2>5, <3>1, <3>2
         DEF AccountOf, Counted, Unread, EnergyInv, AccountInv, TypeOK
  <2> QED
    BY <2>3, <2>4, <2>5
<1> QED
  BY <1>1, <1>2

LEMMA CalculateAccount ==
    ASSUME EnergyInv, NEW i \in Channel, Calculate(i), NEW j \in Channel
    PROVE  AccountOf(j)'
<1> USE EnergyAssumption DEF chip, reading, account, bounds
<1>1. CASE j # i
  BY <1>1, OtherChannels DEF Calculate, EnergyInv, TypeOK
<1>2. CASE j = i /\ active_energy_offset[i] # 0
  BY <1>2 DEF Calculate, AccountOf, Counted, Unread, Fresh, RunsBack,
     EnergyInv, AccountInv, TypeOK
<1>3. CASE j = i /\ active_energy_offset[i] = 0
  BY <1>3 DEF Calculate, AccountOf, Counted, Unread, Fresh, RunsBack,
     EnergyInv, AccountInv, TypeOK
<1> QED
  BY <1>1, <1>2, <1>3

\* No total exceeds what its load has used.
LEMMA TotalBelow ==
    ASSUME EnergyInv, NEW j \in Channel
    PROVE  /\ total_active_energy[j] <= consumed[j]
           /\ Counted(j) \in Int
           /\ Unread(j) \in Nat
<1>1. Unread(j) \in Nat /\ Counted(j) \in Int
  BY EnergyAssumption
     DEF EnergyInv, TypeOK, Unread, Counted, Fresh, RunsBack
<1> QED
  BY <1>1 DEF EnergyInv, TypeOK, AccountInv

LEMMA StepAccount == EnergyInv /\ [Next]_vars => AccountInv'
<1> SUFFICES ASSUME EnergyInv, [Next]_vars, NEW j \in Channel
             PROVE  AccountOf(j)'
  BY DEF AccountInv, AccountOf
<1> USE EnergyAssumption DEF chip, reading, account, bounds
<1>1. CASE ChipReset
  <2>1. /\ cf'[j] = 0
        /\ UNCHANGED <<consumed, cf_cnt_offset, cf_cnt_present, active_energy,
                       active_energy_power_on, active_energy_offset,
                       total_active_energy, reported, flash>>
    BY <1>1 DEF ChipReset, Zero
  <2>2. Unread(j)' = 0 /\ Counted(j)' = Counted(j) /\ Fresh(j)' = Fresh(j)
    BY <2>1 DEF Unread, Counted, Fresh, RunsBack, EnergyInv, TypeOK
  <2> QED
    BY <2>1, <2>2, TotalBelow DEF AccountOf, EnergyInv, AccountInv, TypeOK
<1>2. CASE CleanAll
  BY <1>2 DEF CleanAll, Zero, AccountOf, Counted, Unread, Fresh, RunsBack,
     EnergyInv, AccountInv, TypeOK
<1>3. CASE Restart
  BY <1>3 DEF Restart, Zero, AccountOf, Counted, Unread, Fresh, RunsBack,
     EnergyInv, AccountInv, TypeOK
<1>4. ASSUME NEW i \in Channel, Consume(i) PROVE AccountOf(j)'
  BY <1>4, ConsumeAccount
<1>5. ASSUME NEW i \in Channel, ReadEnergy(i) PROVE AccountOf(j)'
  BY <1>5, ReadAccount
<1>6. ASSUME NEW i \in Channel, Query(i) PROVE AccountOf(j)'
  BY <1>6, OtherChannels DEF Query
<1>7. ASSUME NEW i \in Channel, Calculate(i) PROVE AccountOf(j)'
  BY <1>7, CalculateAccount
<1>8. ASSUME NEW i \in Channel, SetupPublish(i) PROVE AccountOf(j)'
  BY <1>8, OtherChannels DEF SetupPublish
<1>9. ASSUME NEW i \in Channel, RelayOff(i) PROVE AccountOf(j)'
  BY <1>9, OtherChannels DEF RelayOff
<1>10. ASSUME NEW i \in Channel, PublishEnergy(i) PROVE AccountOf(j)'
  <2>1. /\ reported'[j] = total_active_energy[j] \/ reported'[j] = reported[j]
        /\ flash'[j] = total_active_energy[j] \/ flash'[j] = flash[j]
        /\ UNCHANGED <<chip, reading, account>>
    BY <1>10 DEF PublishEnergy, EnergyInv, TypeOK
  <2>2. Unread(j)' = Unread(j) /\ Counted(j)' = Counted(j)
           /\ Fresh(j)' = Fresh(j)
    BY <2>1 DEF Unread, Counted, Fresh, RunsBack
  <2> QED
    BY <2>1, <2>2, TotalBelow DEF AccountOf, EnergyInv, AccountInv
<1>11. CASE UNCHANGED vars
  BY <1>11, OtherChannels DEF vars
<1> QED
  BY <1>1, <1>2, <1>3, <1>4, <1>5, <1>6, <1>7, <1>8, <1>9, <1>10, <1>11
     DEF Next

LEMMA EnergyInvariant == Spec => []EnergyInv
<1>1. EnergyInv /\ [Next]_vars => EnergyInv'
  BY StepType, StepAccount DEF EnergyInv
<1> QED
  BY InitEnergy, <1>1, PTL DEF Spec

-----------------------------------------------------------------------------
\* Every variable of the account keeps its range: in particular no reading is
\* negative, so the u32 subtraction of the counters never wraps.
THEOREM EnergyTypeCorrect == Spec => []TypeOK
BY EnergyInvariant, PTL DEF EnergyInv

\* No total, report or record ever exceeds what the load has used, for every
\* counter width and every order of readings, wraps, resets and restarts.
THEOREM NoOvercount == Spec => []NeverOvercounts
<1>1. EnergyInv => NeverOvercounts
  BY TotalBelow DEF NeverOvercounts, EnergyInv, AccountInv
<1> QED
  BY EnergyInvariant, <1>1, PTL
=============================================================================
