--------------------------- MODULE MeterLinkProofs ---------------------------
(***************************************************************************)
(* Proofs about MeterLink for every size of queue and ring, every set of   *)
(* values a scan asks for, every data a frame may carry and every delay:   *)
(* the queue of reads stays a queue of registers whatever it drops, and no *)
(* late answer is taken for that of another register.                      *)
(***************************************************************************)
EXTENDS MeterLink, SequenceTheorems, TLAPS

LEMMA RegisterRange == Register \subseteq 0..255
<1> SUFFICES ASSUME NEW r \in Register PROVE r \in 0..255
  OBVIOUS
<1>1. CASE r \in {V_RMS, GAIN_1}
  BY <1>1 DEF V_RMS, GAIN_1
<1>2. CASE \E base \in {I1_RMS, WATT_1, CF1_CNT}, i \in Channel : r = base + i
  <2>1. PICK base \in {I1_RMS, WATT_1, CF1_CNT}, i \in Channel : r = base + i
    BY <1>2
  <2>2. base \in 0..48
    BY DEF I1_RMS, WATT_1, CF1_CNT
  <2>3. i \in 0..2
    BY MeterLinkAssumption DEF Channel
  <2> QED
    BY <2>1, <2>2, <2>3
<1> QED
  BY <1>1, <1>2 DEF Register

\* A byte added to a byte keeps the checksums of two registers apart, whatever
\* the data.
LEMMA ChecksumSeparates ==
    ASSUME NEW a \in 0..255, NEW b \in 0..255, NEW s \in Nat,
           CheckSum(a, s) = CheckSum(b, s)
    PROVE  a = b
<1>1. (a + s) % 256 \in 0..255 /\ (b + s) % 256 \in 0..255
  OBVIOUS
<1>2. (a + s) % 256 = (b + s) % 256
  BY <1>1 DEF CheckSum
<1>3. /\ a + s = 256 * ((a + s) \div 256) + ((a + s) % 256)
      /\ b + s = 256 * ((b + s) \div 256) + ((b + s) % 256)
      /\ (a + s) \div 256 \in Int /\ (b + s) \div 256 \in Int
  OBVIOUS
<1>4. a - b = 256 * ((a + s) \div 256 - (b + s) \div 256)
  BY <1>2, <1>3
<1> QED
  BY <1>3, <1>4

LEMMA ModuloBound ==
    ASSUME NEW n \in Nat, NEW m \in Nat \ {0}
    PROVE  n % m \in 0..(m - 1) /\ n % m <= n
<1>1. n % m \in 0..(m - 1)
  OBVIOUS
<1>2. CASE n < m
  <2>1. n % m = n
    BY <1>2
  <2> QED
    BY <2>1, <1>1
<1>3. CASE n >= m
  BY <1>1, <1>3
<1> QED
  BY <1>2, <1>3

\* The ring of fifo.c: whatever is pushed, registers wait in it and at least
\* one slot is free.
LEMMA PushType ==
    ASSUME NEW q \in Seq(Register), NEW items \in Seq(Register)
    PROVE  /\ FifoPush(q, items) \in Seq(Register)
           /\ Len(FifoPush(q, items)) < BL0906_BUF_CMD_SIZE
           /\ Len(FifoPush(q, items)) = (Len(q) + Len(items)) % BL0906_BUF_CMD_SIZE
<1> DEFINE all == q \o items
           n   == Len(all) % BL0906_BUF_CMD_SIZE
<1>1. all \in Seq(Register)
  BY ConcatProperties
<1>2. Len(all) \in Nat /\ \A k \in 1..Len(all) : all[k] \in Register
  BY <1>1, LenProperties, ElementOfSeq
<1>3. n \in 0..(BL0906_BUF_CMD_SIZE - 1) /\ n <= Len(all)
  BY <1>2, ModuloBound, MeterLinkAssumption
<1>4. /\ SubSeq(all, Len(all) - n + 1, Len(all)) \in Seq(Register)
      /\ Len(SubSeq(all, Len(all) - n + 1, Len(all))) = n
  <2>1. Len(all) - n + 1 \in Int /\ Len(all) \in Int
    BY <1>2, <1>3
  <2>2. \A k \in (Len(all) - n + 1)..Len(all) : all[k] \in Register
    BY <1>2, <1>3
  <2>3. /\ SubSeq(all, Len(all) - n + 1, Len(all)) \in Seq(Register)
        /\ Len(SubSeq(all, Len(all) - n + 1, Len(all))) =
             IF Len(all) - n + 1 <= Len(all)
             THEN Len(all) - (Len(all) - n + 1) + 1 ELSE 0
    BY <2>1, <2>2, SubSeqProperties
  <2> QED
    BY <2>3, <1>2, <1>3
<1> QED
  <2>1. FifoPush(q, items) = SubSeq(all, Len(all) - n + 1, Len(all))
    BY DEF FifoPush
  <2>2. n < BL0906_BUF_CMD_SIZE
    BY <1>3, MeterLinkAssumption
  <2>3. n = (Len(q) + Len(items)) % BL0906_BUF_CMD_SIZE
    BY ConcatProperties
  <2> HIDE DEF all, n
  <2> QED
    BY <2>1, <2>2, <2>3, <1>4

LEMMA ReadsType ==
    ASSUME NEW i \in Channel
    PROVE  /\ ReadsOf(i) \in Seq(Register) /\ ReadsOf(i) # <<>>
           /\ StartMeasure(i) \in Seq(Register)
<1>1. Measured \in Seq({I1_RMS, WATT_1, CF1_CNT}) /\ Len(Measured) > 0
  BY MeterLinkAssumption
<1>2. DOMAIN Measured = 1..Len(Measured) /\ Len(Measured) \in Nat
  BY <1>1
<1>3. \A k \in 1..Len(Measured) : Measured[k] + i \in Register
  BY <1>1 DEF Register
<1>4. ReadsOf(i) \in Seq(Register) /\ ReadsOf(i) # <<>>
  BY <1>1, <1>2, <1>3 DEF ReadsOf
<1>5. 0 \in Channel
  BY MeterLinkAssumption DEF Channel
<1>6. i = 0 => <<Head(ReadsOf(0)), V_RMS>> \o Tail(ReadsOf(0)) \in Seq(Register)
  <2> SUFFICES ASSUME i = 0
               PROVE  <<Head(ReadsOf(0)), V_RMS>> \o Tail(ReadsOf(0))
                        \in Seq(Register)
    OBVIOUS
  <2>1. Head(ReadsOf(0)) \in Register /\ Tail(ReadsOf(0)) \in Seq(Register)
    BY <1>4, HeadTailProperties
  <2>2. <<Head(ReadsOf(0)), V_RMS>> \in Seq(Register)
    BY <2>1 DEF Register
  <2> QED
    BY <2>1, <2>2, ConcatProperties
<1> QED
  BY <1>4, <1>6 DEF StartMeasure

LEMMA ScanType == ScanReads \in Seq(Register)
<1>1. \A i \in Channel : StartMeasure(i) \in Seq(Register)
  BY ReadsType
<1>2. 0 \in Channel /\ (NUMBER_RL > 1 => 1 \in Channel)
                    /\ (NUMBER_RL > 2 => 2 \in Channel)
  BY MeterLinkAssumption DEF Channel
<1>3. <<>> \in Seq(Register)
  OBVIOUS
<1> DEFINE one == IF NUMBER_RL > 1 THEN StartMeasure(1) ELSE <<>>
           two == IF NUMBER_RL > 2 THEN StartMeasure(2) ELSE <<>>
<1>4. StartMeasure(0) \in Seq(Register) /\ one \in Seq(Register)
                                        /\ two \in Seq(Register)
  BY <1>1, <1>2, <1>3
<1>5. StartMeasure(0) \o one \in Seq(Register)
  BY <1>4, ConcatProperties
<1>6. (StartMeasure(0) \o one) \o two \in Seq(Register)
  BY <1>4, <1>5, ConcatProperties
<1> QED
  BY <1>6 DEF ScanReads

LEMMA AfterGainType ==
    ASSUME TypeOK
    PROVE  AfterGain \in Seq(Register) /\ Len(AfterGain) < BL0906_BUF_CMD_SIZE
<1>1. GainReads \in Seq(Register)
  <2>1. <<GAIN_1>> \in Seq(Register) /\ <<>> \in Seq(Register)
    BY DEF Register
  <2> QED
    BY <2>1 DEF GainReads
<1> QED
  BY <1>1, PushType DEF AfterGain, TypeOK

-----------------------------------------------------------------------------

\* What a tick leaves of the right type, when the queue it works on and the
\* commands it sends are.
LEMMA MeasureType ==
    ASSUME TypeOK, InTime,
           NEW q \in Seq(Register), Len(q) < BL0906_BUF_CMD_SIZE,
           NEW asked \in Seq(Command), Measure(q, asked)
    PROVE  /\ queue' \in Seq(Register) /\ Len(queue') < BL0906_BUF_CMD_SIZE
           /\ gain_known' \in BOOLEAN
           /\ gain_t' \in 0..SET_GAIN_INTERVAL
           /\ scan_t' \in 0..TIME_SCAN_MEASURE
           /\ updated' \in [Channel -> SUBSET Value]
           /\ booked' \in SUBSET Channel
           /\ line' \in Seq(Command)
           /\ rx' \in Seq(Frame) /\ Len(rx') + Len(line') <= MaxLate
           /\ up' \in BOOLEAN
           /\ chip_gain' \in BOOLEAN
           /\ mistaken' \subseteq Register \X Register
           /\ dropped' \in BOOLEAN
<1> USE MeterLinkAssumption DEF TypeOK
<1>1. queue' \in Seq(Register) /\ Len(queue') < BL0906_BUF_CMD_SIZE
  BY PushType, ScanType DEF Measure
<1>2. gain_t' \in 0..SET_GAIN_INTERVAL /\ scan_t' \in 0..TIME_SCAN_MEASURE
  BY DEF Measure, GainDue, ScanDue
<1>3. updated' \in [Channel -> SUBSET Value] /\ booked' \in SUBSET Channel
  BY DEF Measure, Complete
<1>4. line' \in Seq(Command) /\ Len(rx') + Len(line') <= MaxLate
  <2> DEFINE commands == (IF GainDue THEN <<SET_GAIN>> ELSE <<>>) \o asked
  <2>1. (IF GainDue THEN <<SET_GAIN>> ELSE <<>>) \in Seq(Command)
    <3>1. <<SET_GAIN>> \in Seq(Command) /\ <<>> \in Seq(Command)
      BY DEF Command
    <3> QED
      BY <3>1
  <2>2. commands \in Seq(Command)
    BY <2>1, ConcatProperties
  <2>3. line' = IF Len(line) + Len(commands) <= MaxLate
                THEN line \o commands ELSE line
    BY DEF Measure, Send
  <2>4. rx' = rx /\ rx = <<>>
    BY DEF Measure, InTime
  <2> HIDE DEF commands
  <2>5. CASE Len(line) + Len(commands) <= MaxLate
    <3>1. /\ line \o commands \in Seq(Command)
          /\ Len(line \o commands) = Len(line) + Len(commands)
      BY <2>2, ConcatProperties
    <3>2. Len(rx') = 0 /\ Len(line') \in Nat
      BY <2>3, <2>4, <2>5, <3>1, LenProperties
    <3> QED
      BY <2>3, <2>5, <3>1, <3>2
  <2>6. CASE ~(Len(line) + Len(commands) <= MaxLate)
    BY <2>3, <2>4, <2>6
  <2> QED
    BY <2>5, <2>6
<1>5. dropped' \in BOOLEAN
  BY DEF Measure, Drops, Overflows
<1>6. UNCHANGED <<gain_known, rx, up, chip_gain, mistaken>>
  BY DEF Measure
<1> QED
  BY <1>1, <1>2, <1>3, <1>4, <1>5, <1>6

LEMMA TickType ==
    ASSUME TypeOK, Tick
    PROVE  TypeOK'
<1>1. AfterGain \in Seq(Register) /\ Len(AfterGain) < BL0906_BUF_CMD_SIZE
  BY AfterGainType
<1>2. <<>> \in Seq(Command)
  OBVIOUS
<1>3. CASE Ask
  <2>1. AfterGain # <<>> /\ InTime /\ running' = Head(AfterGain)
        /\ waited' = 0 /\ missed' = missed
        /\ Measure(Tail(AfterGain), <<Head(AfterGain)>>)
    BY <1>3 DEF Ask
  <2>2. /\ Head(AfterGain) \in Register
        /\ Tail(AfterGain) \in Seq(Register)
        /\ Len(Tail(AfterGain)) < BL0906_BUF_CMD_SIZE
    <3> DEFINE q == AfterGain
    <3>1. q \in Seq(Register) /\ q # <<>> /\ Len(q) < BL0906_BUF_CMD_SIZE
      BY <1>1, <2>1
    <3>2. Head(q) \in Register /\ Tail(q) \in Seq(Register)
      BY <3>1, HeadTailProperties
    <3> HIDE DEF q
    <3>3. Len(Tail(q)) < Len(q) /\ Len(Tail(q)) \in Nat /\ Len(q) \in Nat
      BY <3>1
    <3>4. Len(Tail(q)) < BL0906_BUF_CMD_SIZE
      BY <3>1, <3>3, MeterLinkAssumption
    <3> QED
      BY <3>2, <3>4 DEF q
  <2>3. <<Head(AfterGain)>> \in Seq(Command)
    BY <2>2 DEF Command
  <2>4. running' \in Register \cup {REG_UNKNOWN} /\ waited' \in 0..1
        /\ missed' \in 0..SILENCE
    BY <2>1, <2>2 DEF TypeOK
  <2> QED
    BY <2>1, <2>2, <2>3, <2>4, MeasureType DEF TypeOK
<1>4. CASE NothingToAsk
  <2>1. /\ InTime /\ Measure(AfterGain, <<>>)
        /\ running' = running /\ waited' = waited /\ missed' \in 0..SILENCE
    BY <1>4, MeterLinkAssumption DEF NothingToAsk, TypeOK
  <2> QED
    BY <1>1, <1>2, <2>1, MeasureType DEF TypeOK
<1>5. CASE KeepWaiting
  <2>1. /\ InTime /\ Measure(AfterGain, <<>>)
        /\ running' \in Register \cup {REG_UNKNOWN} /\ waited' \in 0..1
        /\ missed' \in 0..SILENCE
    BY <1>5 DEF KeepWaiting, TypeOK
  <2> QED
    BY <1>1, <1>2, <2>1, MeasureType DEF TypeOK
<1>6. CASE TimeOut
  <2>1. /\ InTime /\ Measure(AfterGain, <<>>)
        /\ running' \in Register \cup {REG_UNKNOWN} /\ waited' \in 0..1
        /\ missed' \in 0..SILENCE
    BY <1>6, MeterLinkAssumption DEF TimeOut, TypeOK
  <2> QED
    BY <1>1, <1>2, <2>1, MeasureType DEF TypeOK
<1> QED
  BY <1>3, <1>4, <1>5, <1>6 DEF Tick

\* An answer of the chip is a frame with its own checksum.
LEMMA AnswerType ==
    ASSUME NEW reg \in Register, NEW sum \in Nat, NEW gain \in BOOLEAN
    PROVE  [reg |-> reg, sum |-> sum, check |-> CheckSum(reg, sum),
            gain |-> gain] \in Frame
<1>1. reg \in 0..255
  BY RegisterRange
<1>2. CheckSum(reg, sum) \in 0..255
  BY <1>1 DEF CheckSum
<1> QED
  BY <1>2 DEF Frame

LEMMA ServeType ==
    ASSUME TypeOK, ChipServes
    PROVE  TypeOK'
<1> USE DEF TypeOK
<1>1. line # <<>> /\ line \in Seq(Command) /\ rx \in Seq(Frame)
  BY DEF ChipServes
<1>2. Head(line) \in Command /\ line' \in Seq(Command)
      /\ Len(line') = Len(line) - 1
  <2>1. Head(line) \in Command /\ Tail(line) \in Seq(Command)
    BY <1>1, HeadTailProperties
  <2>2. Len(Tail(line)) = Len(line) - 1
    BY <1>1
  <2> QED
    BY <2>1, <2>2 DEF ChipServes
<1>3. rx' \in Seq(Frame) /\ Len(rx') <= Len(rx) + 1 /\ chip_gain' \in BOOLEAN
  <2>1. CASE Head(line) = SET_GAIN
    BY <1>1, <2>1 DEF ChipServes
  <2>2. CASE Head(line) # SET_GAIN
    <3>1. PICK sum \in Sums :
            rx' = Append(rx, [reg |-> Head(line), sum |-> sum,
                              check |-> CheckSum(Head(line), sum),
                              gain |-> chip_gain /\ Head(line) = GAIN_1])
      BY <2>2 DEF ChipServes
    <3>2. Head(line) \in Register /\ sum \in Nat
      BY <1>2, <2>2, MeterLinkAssumption DEF Command
    <3>3. (chip_gain /\ Head(line) = GAIN_1) \in BOOLEAN
      OBVIOUS
    <3> DEFINE f == [reg |-> Head(line), sum |-> sum,
                     check |-> CheckSum(Head(line), sum),
                     gain |-> chip_gain /\ Head(line) = GAIN_1]
    <3>4. f \in Frame
      BY <3>2, <3>3, AnswerType
    <3> HIDE DEF f
    <3>5. Append(rx, f) \in Seq(Frame) /\ Len(Append(rx, f)) = Len(rx) + 1
      BY <1>1, <3>4, AppendProperties
    <3>6. rx' = Append(rx, f) /\ chip_gain' = chip_gain
      BY <2>2, <3>1 DEF ChipServes, f
    <3>7. Len(Append(rx, f)) <= Len(rx) + 1
      BY <1>1, <3>5, LenProperties
    <3> QED
      BY <3>5, <3>6, <3>7
  <2> QED
    BY <2>1, <2>2
<1>4. Len(rx') + Len(line') <= MaxLate
  BY <1>1, <1>2, <1>3, LenProperties, MeterLinkAssumption
<1>5. UNCHANGED <<driver, scan, up, mistaken, missed>>
  BY DEF ChipServes
<1> QED
  BY <1>2, <1>3, <1>4, <1>5 DEF driver, scan

LEMMA LoseType ==
    ASSUME TypeOK, Lose
    PROVE  TypeOK'
<1> USE DEF TypeOK
<1>1. /\ line # <<>> /\ line' = Tail(line)
      /\ UNCHANGED <<driver, scan, rx, up, chip_gain, mistaken, missed>>
  BY DEF Lose
<1>2. line' \in Seq(Command) /\ Len(line') = Len(line) - 1
  BY <1>1
<1>3. Len(rx') + Len(line') <= MaxLate
  BY <1>1, <1>2, LenProperties, MeterLinkAssumption
<1> QED
  BY <1>1, <1>2, <1>3 DEF driver, scan

LEMMA ReceiveType ==
    ASSUME TypeOK, Receive
    PROVE  TypeOK'
<1> USE DEF TypeOK
<1>1. /\ rx # <<>> /\ rx' = Tail(rx)
      /\ UNCHANGED <<queue, gain_t, scan_t, booked, dropped, chip, missed>>
  BY DEF Receive
<1>2. Head(rx) \in Frame /\ rx' \in Seq(Frame)
  BY <1>1, HeadTailProperties
<1>3. Len(rx') + Len(line') <= MaxLate
  <2>1. Len(rx') = Len(rx) - 1 /\ line' = line
    BY <1>1 DEF chip
  <2> QED
    BY <2>1, LenProperties, MeterLinkAssumption
<1>4. /\ updated' \in [Channel -> SUBSET Value]
      /\ mistaken' \subseteq Register \X Register
      /\ gain_known' \in BOOLEAN
      /\ running' \in Register \cup {REG_UNKNOWN}
      /\ waited' \in 0..1
  <2>1. CASE Accepts(Head(rx))
    <3>1. running \in Register
      BY <2>1 DEF Accepts
    <3>2. Head(rx).reg \in Register /\ Head(rx).gain \in BOOLEAN
      BY <1>2 DEF Frame
    <3>3. Updated(running) \in [Channel -> SUBSET Value]
      <4>1. \A i \in Channel :
              updated[i] \cup (IF running = V_RMS THEN {V_RMS}
                               ELSE {base \in Value : running = base + i})
                \in SUBSET Value
        BY DEF Value
      <4> QED
        BY <4>1 DEF Updated
    <3>4. <<running, Head(rx).reg>> \in Register \X Register
      BY <3>1, <3>2
    <3>5. /\ mistaken' = IF running = Head(rx).reg THEN mistaken
                         ELSE mistaken \cup {<<running, Head(rx).reg>>}
          /\ updated' = Updated(running)
          /\ gain_known' = IF running = GAIN_1 THEN Head(rx).gain
                           ELSE gain_known
          /\ running' = REG_UNKNOWN
          /\ waited' = 0
      BY <2>1 DEF Receive
    <3>6. mistaken' \subseteq Register \X Register
      BY <3>4, <3>5
    <3> QED
      BY <3>2, <3>3, <3>5, <3>6
  <2>2. CASE ~Accepts(Head(rx))
    BY <2>2 DEF Receive
  <2> QED
    BY <2>1, <2>2
<1> QED
  BY <1>1, <1>2, <1>3, <1>4 DEF chip

LEMMA LinkInit == Init => TypeOK
<1> SUFFICES ASSUME Init PROVE TypeOK
  OBVIOUS
<1> USE MeterLinkAssumption DEF Init
<1>1. queue \in Seq(Register) /\ Len(queue) < BL0906_BUF_CMD_SIZE
  OBVIOUS
<1>2. line \in Seq(Command) /\ rx \in Seq(Frame)
      /\ Len(rx) + Len(line) <= MaxLate
  OBVIOUS
<1>3. updated \in [Channel -> SUBSET Value] /\ booked \in SUBSET Channel
  OBVIOUS
<1>4. /\ running \in Register \cup {REG_UNKNOWN} /\ waited \in 0..1
      /\ gain_t \in 0..SET_GAIN_INTERVAL /\ scan_t \in 0..TIME_SCAN_MEASURE
      /\ missed \in 0..SILENCE
      /\ mistaken \subseteq Register \X Register
  OBVIOUS
<1>5. /\ gain_known \in BOOLEAN /\ up \in BOOLEAN /\ chip_gain \in BOOLEAN
      /\ dropped \in BOOLEAN
  OBVIOUS
<1> QED
  BY <1>1, <1>2, <1>3, <1>4, <1>5 DEF TypeOK

LEMMA StepType == TypeOK /\ [Next]_vars => TypeOK'
<1> SUFFICES ASSUME TypeOK, [Next]_vars PROVE TypeOK'
  OBVIOUS
<1>1. CASE FallSilent
  BY <1>1 DEF FallSilent, TypeOK, driver, scan
<1>2. CASE AnswerAgain
  BY <1>2 DEF AnswerAgain, TypeOK, driver, scan
<1>3. CASE UNCHANGED vars
  BY <1>3 DEF TypeOK, vars, driver, scan, chip
<1> QED
  BY <1>1, <1>2, <1>3, TickType, ServeType, LoseType, ReceiveType DEF Next

\* Every variable keeps its type: the ring of reads never holds anything but
\* registers of the chip, at least one of its slots is always free, and the
\* receive ring never holds more than the chip can owe.
THEOREM LinkTypeCorrect == Spec => []TypeOK
<1> QED
  BY LinkInit, StepType, PTL DEF Spec

-----------------------------------------------------------------------------

\* Every frame in the receive ring still has the checksum the chip gave it.
FramesIntact ==
    \A k \in 1..Len(rx) : rx[k].check = CheckSum(rx[k].reg, rx[k].sum)

LinkInv == TypeOK /\ FramesIntact /\ TakenIsAsked

LEMMA StepIntact == TypeOK /\ FramesIntact /\ [Next]_vars => FramesIntact'
<1> SUFFICES ASSUME TypeOK, FramesIntact, [Next]_vars PROVE FramesIntact'
  OBVIOUS
<1>1. rx \in Seq(Frame)
  BY DEF TypeOK
<1>2. CASE rx' = rx
  BY <1>2 DEF FramesIntact
<1>3. CASE rx # <<>> /\ rx' = Tail(rx)
  <2>1. Len(rx') = Len(rx) - 1 /\ Len(rx) \in Nat
        /\ \A k \in 1..Len(rx') : rx'[k] = rx[k + 1]
    BY <1>1, <1>3
  <2> QED
    BY <2>1 DEF FramesIntact
<1>4. ASSUME NEW reg, NEW sum, NEW gain,
             rx' = Append(rx, [reg |-> reg, sum |-> sum,
                               check |-> CheckSum(reg, sum), gain |-> gain])
      PROVE  FramesIntact'
  <2> DEFINE f == [reg |-> reg, sum |-> sum,
                   check |-> CheckSum(reg, sum), gain |-> gain]
  <2>1. f.check = CheckSum(f.reg, f.sum)
    OBVIOUS
  <2> HIDE DEF f
  <2>2. rx' = Append(rx, f)
    BY <1>4 DEF f
  <2>3. /\ Len(rx') = Len(rx) + 1 /\ Len(rx) \in Nat
        /\ rx'[Len(rx) + 1] = f
        /\ \A k \in 1..Len(rx) : rx'[k] = rx[k]
    BY <1>1, <2>2
  <2> QED
    BY <2>1, <2>3 DEF FramesIntact
<1>5. CASE Tick
  BY <1>2, <1>5 DEF Tick, Ask, NothingToAsk, KeepWaiting, TimeOut, Measure
<1>6. CASE ChipServes
  <2>1. CASE Head(line) = SET_GAIN
    BY <1>2, <1>6, <2>1 DEF ChipServes
  <2>2. CASE Head(line) # SET_GAIN
    BY <1>4, <1>6, <2>2 DEF ChipServes
  <2> QED
    BY <2>1, <2>2
<1>7. CASE Receive
  BY <1>3, <1>7 DEF Receive
<1>8. CASE Lose \/ FallSilent \/ AnswerAgain \/ UNCHANGED vars
  BY <1>2, <1>8 DEF Lose, FallSilent, AnswerAgain, vars
<1> QED
  BY <1>5, <1>6, <1>7, <1>8 DEF Next

LEMMA StepTaken == LinkInv /\ [Next]_vars => TakenIsAsked'
<1> SUFFICES ASSUME LinkInv, [Next]_vars PROVE TakenIsAsked'
  OBVIOUS
<1> USE DEF LinkInv
<1>1. CASE mistaken' = mistaken
  BY <1>1 DEF TakenIsAsked
<1>2. CASE Receive
  <2>1. CASE Accepts(Head(rx))
    <3>1. rx \in Seq(Frame) /\ rx # <<>>
      BY <1>2 DEF TypeOK, Receive
    <3>2. 1 \in 1..Len(rx) /\ Head(rx) = rx[1] /\ Head(rx) \in Frame
      BY <3>1, HeadTailProperties
    <3>3. Head(rx).check = CheckSum(Head(rx).reg, Head(rx).sum)
      BY <3>2 DEF FramesIntact
    <3>4. Head(rx).check = CheckSum(running, Head(rx).sum)
      BY <2>1 DEF Accepts
    <3>5. running \in 0..255 /\ Head(rx).reg \in 0..255 /\ Head(rx).sum \in Nat
      BY <2>1, <3>2, RegisterRange DEF Accepts, TypeOK, Frame
    <3>6. running = Head(rx).reg
      BY <3>3, <3>4, <3>5, ChecksumSeparates
    <3> QED
      BY <1>2, <2>1, <3>6 DEF Receive, TakenIsAsked
  <2>2. CASE ~Accepts(Head(rx))
    BY <1>1, <1>2, <2>2 DEF Receive
  <2> QED
    BY <2>1, <2>2
<1>3. CASE Tick
  BY <1>1, <1>3 DEF Tick, Ask, NothingToAsk, KeepWaiting, TimeOut, Measure
<1>4. CASE ChipServes \/ Lose \/ FallSilent \/ AnswerAgain \/ UNCHANGED vars
  BY <1>1, <1>4 DEF ChipServes, Lose, FallSilent, AnswerAgain, vars
<1> QED
  BY <1>2, <1>3, <1>4 DEF Next

\* No answer, however late and whatever it carries, is taken for the value of a
\* register that did not give it: bl0906_handle_serial_rx_message checks it
\* against the register asked, and one byte tells all registers apart.
THEOREM NeverMistaken == Spec => []TakenIsAsked
<1>1. Init => LinkInv
  BY LinkInit DEF Init, LinkInv, FramesIntact, TakenIsAsked
<1>2. LinkInv /\ [Next]_vars => LinkInv'
  BY StepType, StepIntact, StepTaken DEF LinkInv
<1>3. LinkInv => TakenIsAsked
  BY DEF LinkInv
<1> QED
  BY <1>1, <1>2, <1>3, PTL DEF Spec

-----------------------------------------------------------------------------
(* The ring of reads is emptied faster than it is filled.                  *)

\* What a positive factor does not change of a comparison.
LEMMA Cancel ==
    ASSUME NEW d \in Nat, NEW x \in Int, NEW y \in Int, d * x < d * y
    PROVE  x < y
<1> SUFFICES ASSUME y <= x PROVE FALSE
  OBVIOUS
<1>1. PICK k \in Nat : x = y + k
  BY x - y \in Nat, x = y + (x - y)
<1>2. d * x = d * y + d * k /\ d * k \in Nat
  BY <1>1
<1>3. QED
  BY <1>2

LEMMA Scale ==
    ASSUME NEW d \in Nat, NEW x \in Int, NEW y \in Int, x <= y
    PROVE  d * x <= d * y
<1>1. PICK k \in Nat : y = x + k
  BY y - x \in Nat, y = x + (y - x)
<1>2. d * y = d * x + d * k /\ d * k \in Nat
  BY <1>1
<1>3. QED
  BY <1>2

\* The bound on the work w waiting in the ring, r reads of which come with
\* every T-th tick and one with every G-th at most: d ticks are shared out, a
\* of them to the former reads and b to the latter.  s and g are the ticks since
\* the last of each, m the answers missed.
Bound(d, a, b, r, w, s, g, m) ==
    /\ d * w + a * s + b * g <= d * (2 * r + 2 + m) - b
    /\ s = 0 => \/ w <= 2 * r
                \/ d * w + b * g <= d * (2 * r + 1 + m) + a

LEMMA BusyBound ==
    ASSUME NEW d \in Nat, NEW a \in Nat, NEW b \in Nat, NEW r \in Nat,
           NEW T \in Nat, NEW G \in Nat,
           a + b < d, a * T = 2 * (r * d) - a, b * G = 2 * d - b,
           NEW w \in Nat, NEW s \in Nat, NEW g \in Nat, NEW m \in Nat,
           NEW ww \in Nat, NEW ss \in Nat, NEW gg \in Nat, NEW mm \in Nat,
           NEW scans \in 0..1, NEW gains \in 0..1,
           Bound(d, a, b, r, w, s, g, m),
           ww <= w - 1 + (mm - m) + 2 * r * scans + 2 * gains,
           \/ scans = 1 /\ s = T /\ ss = 0
           \/ scans = 0 /\ ss = s + 1,
           \/ gains = 1 /\ g = G /\ gg = 0
           \/ gains = 0 /\ gg \in {0, g + 1}
    PROVE  Bound(d, a, b, r, ww, ss, gg, mm)
<1> DEFINE dw == d * w
           dm == d * m
           dmm == d * mm
           dr == r * d
           sa == a * s
           bg == b * g
<1>a. /\ dw \in Nat /\ dm \in Nat /\ dmm \in Nat /\ dr \in Nat /\ sa \in Nat
      /\ bg \in Nat
  OBVIOUS
<1>b. d * (2 * r + 2 + m) = 2 * dr + 2 * d + dm
      /\ d * (2 * r + 2 + mm) = 2 * dr + 2 * d + dmm
      /\ d * (2 * r + 1 + mm) = 2 * dr + d + dmm
  OBVIOUS
<1>c. dw + sa + bg <= 2 * dr + 2 * d + dm - b
  BY <1>b DEF Bound
<1>d. b * (g + 1) = bg + b /\ a * (s + 1) = sa + a /\ a * 0 = 0 /\ b * 0 = 0
  OBVIOUS
<1>e. d * ww <= dw - d + dmm - dm + 2 * dr * scans + 2 * d * gains
  <2>1. d * ww <= d * (w - 1 + (mm - m) + 2 * r * scans + 2 * gains)
    BY Scale
  <2>2. CASE scans = 0 /\ gains = 0
    BY <2>1, <2>2
  <2>3. CASE scans = 0 /\ gains = 1
    BY <2>1, <2>3
  <2>4. CASE scans = 1 /\ gains = 0
    BY <2>1, <2>4
  <2>5. CASE scans = 1 /\ gains = 1
    BY <2>1, <2>5
  <2>6. QED
    BY <2>2, <2>3, <2>4, <2>5
<1>f. d * ww \in Nat
  OBVIOUS
<1>g. b * gg <= bg + b - 2 * d * gains
  <2>1. CASE gains = 1 /\ g = G /\ gg = 0
    BY <1>d, <2>1
  <2>2. CASE gains = 0 /\ gg \in {0, g + 1}
    BY <1>a, <1>d, <2>2
  <2>3. QED
    BY <2>1, <2>2
<1>h. b * gg \in Nat
  OBVIOUS
<1>1. CASE scans = 1 /\ s = T /\ ss = 0
  <2>1. sa = 2 * dr - a /\ a * ss = 0
    BY <1>1, <1>d
  <2> HIDE DEF dw, dm, dmm, dr, sa, bg
  <2>2. d * ww <= dw - d + dmm - dm + 2 * dr + 2 * d * gains
    BY <1>a, <1>e, <1>1
  <2>3. d * ww + b * gg <= dw - d + dmm - dm + 2 * dr + bg + b
    BY <1>a, <1>f, <1>g, <1>h, <2>2
  <2>4. d * ww + b * gg <= d + a + dmm + 2 * dr
    BY <1>a, <1>c, <1>f, <1>h, <2>1, <2>3
  <2>5. d * ww + a * ss + b * gg <= 2 * dr + 2 * d + dmm - b
    BY <1>a, <1>f, <1>h, <2>1, <2>4
  <2>6. QED
    BY <1>b, <2>4, <2>5 DEF Bound
<1>2. CASE scans = 0 /\ ss = s + 1
  <2>1. a * ss = sa + a /\ ss # 0
    BY <1>2, <1>d
  <2> HIDE DEF dw, dm, dmm, dr, sa, bg
  <2>2. d * ww <= dw - d + dmm - dm + 2 * d * gains
    BY <1>a, <1>e, <1>2
  <2>3. d * ww + b * gg <= dw - d + dmm - dm + bg + b
    BY <1>a, <1>f, <1>g, <1>h, <2>2
  <2>4. d * ww + a * ss + b * gg <= 2 * dr + 2 * d + dmm - b
    <3> DEFINE work == d * ww
               gain == b * gg
    <3>1. work \in Nat /\ gain \in Nat /\ work + gain <= dw - d + dmm - dm + bg + b
      BY <1>f, <1>h, <2>3
    <3> HIDE DEF work, gain
    <3>2. work + gain + dm <= dw - d + dmm + bg + b
      BY <1>a, <3>1
    <3>3. work + gain + dm + sa <= 2 * dr + 2 * d + dm - d + dmm
      BY <1>a, <1>c, <3>1, <3>2
    <3>4. work + gain + sa <= 2 * dr + d + dmm
      BY <1>a, <3>1, <3>3
    <3>5. work + (sa + a) + gain <= 2 * dr + 2 * d + dmm - b
      BY <1>a, <3>1, <3>4
    <3>6. QED
      BY <2>1, <3>5 DEF work, gain
  <2>5. QED
    BY <1>b, <2>1, <2>4 DEF Bound
<1>3. QED
  BY <1>1, <1>2

LEMMA IdleBound ==
    ASSUME NEW d \in Nat, NEW a \in Nat, NEW b \in Nat, NEW r \in Nat,
           NEW T \in Nat, NEW G \in Nat,
           a + b < d, a * T = 2 * (r * d) - a, b * G = 2 * d - b,
           NEW ww \in Nat, NEW ss \in Nat, NEW gg \in Nat, gg <= G,
           NEW scans \in 0..1,
           ww <= 2 * r * scans,
           scans = 1 => ss = 0,
           ss <= T
    PROVE  Bound(d, a, b, r, ww, ss, gg, 0)
<1> DEFINE dr == r * d
<1>a. dr \in Nat /\ a * ss \in Nat /\ b * gg \in Nat /\ d * ww \in Nat
  OBVIOUS
<1>b. d * (2 * r + 2 + 0) = 2 * dr + 2 * d
  OBVIOUS
<1>1. b * gg <= 2 * d - b /\ a * ss <= 2 * dr - a
  BY Scale
<1>2. ww <= 2 * r
  OBVIOUS
<1>3. CASE scans = 1
  <2>1. a * ss = 0
    BY <1>3
  <2>2. d * ww <= 2 * dr
    <3>1. d * ww <= d * (2 * r)
      BY <1>2, Scale
    <3>2. QED
      BY <3>1
  <2> HIDE DEF dr
  <2>3. d * ww + a * ss + b * gg <= 2 * dr + 2 * d - b
    BY <1>a, <1>1, <2>1, <2>2
  <2>4. QED
    BY <1>2, <1>b, <2>3 DEF Bound
<1>4. CASE scans = 0
  <2>1. d * ww = 0
    BY <1>4
  <2> HIDE DEF dr
  <2>3. d * ww + a * ss + b * gg <= 2 * dr + 2 * d - b
    BY <1>a, <1>1, <2>1
  <2>4. QED
    BY <1>2, <1>b, <2>3 DEF Bound
<1>5. QED
  BY <1>3, <1>4

\* What the bound leaves when the gain is read, and when a scan is due.
LEMMA BoundAtGain ==
    ASSUME NEW d \in Nat, NEW a \in Nat \ {0}, NEW b \in Nat, NEW r \in Nat,
           NEW G \in Nat, a + b < d, b * G = 2 * d - b,
           NEW w \in Nat, NEW s \in Nat, NEW m \in Nat,
           Bound(d, a, b, r, w, s, G, m)
    PROVE  w <= 2 * r \/ w < 2 * r + m
<1> DEFINE dk == d * (2 * r + m)
           dw == d * w
<1>a. dk \in Nat /\ dw \in Nat /\ a * s \in Nat
  OBVIOUS
<1>b. /\ d * (2 * r + 2 + m) = dk + 2 * d
      /\ d * (2 * r + 1 + m) = dk + d
  OBVIOUS
<1>1. dw < dk => w < 2 * r + m
  BY Cancel
<1>2. CASE s = 0
  <2>1. w <= 2 * r \/ dw + 2 * d - b <= dk + d + a
    BY <1>2, <1>b DEF Bound
  <2> HIDE DEF dk, dw
  <2>2. QED
    BY <1>a, <1>1, <2>1
<1>3. CASE s # 0
  <2>1. a * s >= a
    BY <1>3, Scale, s >= 1, a * 1 = a
  <2>2. dw + a * s + 2 * d - b <= dk + 2 * d - b
    BY <1>b DEF Bound
  <2> HIDE DEF dk, dw
  <2>3. QED
    BY <1>a, <1>1, <2>1, <2>2
<1>4. QED
  BY <1>2, <1>3

LEMMA BoundAtScan ==
    ASSUME NEW d \in Nat, NEW a \in Nat, NEW b \in Nat, NEW r \in Nat,
           NEW T \in Nat, NEW G \in Nat,
           a + b < d, a * T = 2 * (r * d) - a, b * G = 2 * d - b,
           NEW w \in Nat, NEW g \in Nat, NEW m \in Nat,
           Bound(d, a, b, r, w, T, g, m)
    PROVE  w <= 2 + m /\ (g = G => w <= m)
<1> DEFINE dm == d * m
           dw == d * w
           dr == r * d
<1>a. dm \in Nat /\ dw \in Nat /\ dr \in Nat /\ b * g \in Nat
  OBVIOUS
<1>b. /\ d * (2 * r + 2 + m) = 2 * dr + 2 * d + dm
      /\ d * (3 + m) = 3 * d + dm /\ d * (1 + m) = d + dm
  OBVIOUS
<1>1. /\ dw < d * (3 + m) => w < 3 + m
      /\ dw < d * (1 + m) => w < 1 + m
  BY Cancel
<1>2. dw + 2 * dr - a + b * g <= 2 * dr + 2 * d + dm - b
  BY <1>b DEF Bound
<1> HIDE DEF dm, dw, dr
<1>3. w < 3 + m
  BY <1>a, <1>b, <1>1, <1>2
<1>4. g = G => w < 1 + m
  BY <1>a, <1>b, <1>1, <1>2
<1>5. QED
  BY <1>3, <1>4

\* A tick that takes l reads over, with w2 the work and l2 the reads after it.
LEMMA BusyTick ==
    ASSUME NEW r \in Nat, NEW l \in Nat, NEW l2 \in Nat, NEW w \in Nat,
           NEW w2 \in Nat, NEW m \in Nat, NEW m2 \in Nat,
           NEW scans \in 0..1, NEW gains \in 0..1,
           2 * l + (w2 - 2 * l2) <= w - 1 + (m2 - m) + 2 * gains,
           w2 >= 2 * l2, l2 <= l + r * scans
    PROVE  w2 <= w - 1 + (m2 - m) + 2 * r * scans + 2 * gains
<1>1. CASE scans = 0
  <2>1. l2 <= l
    BY <1>1
  <2>2. QED
    BY <1>1, <2>1
<1>2. CASE scans = 1
  <2>1. l2 <= l + r
    BY <1>2
  <2>2. QED
    BY <1>2, <2>1
<1>3. QED
  BY <1>1, <1>2

\* The queue before the scan is within the same bound as the whole work.
LEMMA QueueWithin ==
    ASSUME NEW l \in Int, NEW l2 \in Int, NEW w2 \in Int, NEW x \in Int,
           2 * l + (w2 - 2 * l2) <= x, w2 >= 2 * l2
    PROVE  2 * l <= x
OBVIOUS

LEMMA ScanFits ==
    ASSUME NEW r \in Nat, NEW l \in Nat, NEW w \in Nat, NEW m \in Nat,
           NEW m2 \in Nat, NEW gains \in 0..1, NEW size \in Nat, NEW s \in Nat,
           2 * l <= w - 1 + (m2 - m) + 2 * gains,
           w <= 2 + m, gains = 1 => w <= m, m2 < s, s < 2 * (size - r)
    PROVE  l + r < size
<1>1. CASE gains = 0
  BY <1>1
<1>2. CASE gains = 1
  BY <1>2
<1>3. QED
  BY <1>1, <1>2

\* Less work is as well bounded.
LEMMA LessBound ==
    ASSUME NEW d \in Nat, NEW a \in Nat, NEW b \in Nat, NEW r \in Nat,
           NEW w \in Nat, NEW s \in Nat, NEW g \in Nat, NEW m \in Nat,
           NEW ww \in Nat, ww <= w, Bound(d, a, b, r, w, s, g, m)
    PROVE  Bound(d, a, b, r, ww, s, g, m)
<1>1. d * ww <= d * w
  BY Scale
<1>2. /\ d * ww \in Nat /\ d * w \in Nat /\ a * s \in Nat /\ b * g \in Nat
      /\ d * (2 * r + 2 + m) \in Nat /\ d * (2 * r + 1 + m) \in Nat
  OBVIOUS
<1>3. QED
  BY <1>1, <1>2 DEF Bound

-----------------------------------------------------------------------------
\* A scan asks for every value of every channel, and for the voltage.
LEMMA ScanLength == Len(ScanReads) = Reads
<1>1. Len(Measured) \in Nat /\ Len(Measured) > 0
  BY MeterLinkAssumption
<1>2. 0 \in Channel /\ (NUMBER_RL > 1 => 1 \in Channel)
                    /\ (NUMBER_RL > 2 => 2 \in Channel)
  BY MeterLinkAssumption DEF Channel
<1>3. \A i \in Channel : Len(ReadsOf(i)) = Len(Measured)
  <2> SUFFICES ASSUME NEW i \in Channel PROVE Len(ReadsOf(i)) = Len(Measured)
    OBVIOUS
  <2>1. DOMAIN Measured = 1..Len(Measured)
    BY MeterLinkAssumption
  <2>2. DOMAIN ReadsOf(i) = 1..Len(Measured)
    BY <2>1 DEF ReadsOf
  <2>3. ReadsOf(i) \in Seq(Register)
    BY ReadsType
  <2>4. QED
    BY <1>1, <2>2, <2>3, LenProperties
<1>4. Len(StartMeasure(0)) = Len(Measured) + 1
  <2> DEFINE r == ReadsOf(0)
  <2>1. r \in Seq(Register) /\ r # <<>> /\ Len(r) = Len(Measured)
    BY <1>2, <1>3, ReadsType
  <2>2. StartMeasure(0) = <<Head(r), V_RMS>> \o Tail(r)
    BY DEF StartMeasure
  <2> HIDE DEF r
  <2>3. Head(r) \in Register /\ Tail(r) \in Seq(Register) /\ Len(Tail(r)) = Len(r) - 1
    BY <2>1, HeadTailProperties
  <2>4. V_RMS \in Register
    BY DEF Register
  <2>5. <<Head(r), V_RMS>> \in Seq(Register) /\ Len(<<Head(r), V_RMS>>) = 2
    BY <2>3, <2>4
  <2>6. Len(<<Head(r), V_RMS>> \o Tail(r)) = 2 + Len(Tail(r))
    BY <2>3, <2>5, ConcatProperties
  <2>7. QED
    BY <1>1, <2>1, <2>2, <2>3, <2>6
<1>5. \A i \in Channel : i # 0 => Len(StartMeasure(i)) = Len(Measured)
  BY <1>3 DEF StartMeasure
<1> DEFINE one == IF NUMBER_RL > 1 THEN StartMeasure(1) ELSE <<>>
           two == IF NUMBER_RL > 2 THEN StartMeasure(2) ELSE <<>>
<1>6. /\ StartMeasure(0) \in Seq(Register)
      /\ one \in Seq(Register) /\ two \in Seq(Register)
  <2>1. <<>> \in Seq(Register)
    OBVIOUS
  <2>2. QED
    BY <1>2, <2>1, ReadsType
<1>7. /\ Len(one) = IF NUMBER_RL > 1 THEN Len(Measured) ELSE 0
      /\ Len(two) = IF NUMBER_RL > 2 THEN Len(Measured) ELSE 0
  BY <1>2, <1>5
<1> HIDE DEF one, two
<1>8. StartMeasure(0) \o one \in Seq(Register)
      /\ Len(StartMeasure(0) \o one) = Len(Measured) + 1 + Len(one)
  BY <1>4, <1>6, ConcatProperties
<1>9. Len((StartMeasure(0) \o one) \o two) = Len(Measured) + 1 + Len(one) + Len(two)
  BY <1>6, <1>8, ConcatProperties
<1>10. Len(ScanReads) = Len(Measured) + 1 + Len(one) + Len(two)
  BY <1>9 DEF ScanReads, one, two
<1>11. CASE NUMBER_RL = 1
  BY <1>1, <1>7, <1>10, <1>11 DEF Reads
<1>12. CASE NUMBER_RL = 2
  BY <1>1, <1>7, <1>10, <1>12 DEF Reads
<1>13. CASE NUMBER_RL = 3
  BY <1>1, <1>7, <1>10, <1>13 DEF Reads
<1>14. QED
  BY <1>11, <1>12, <1>13, MeterLinkAssumption

\* A ring with room takes what is pushed, one without never holds more.
LEMMA PushLength ==
    ASSUME NEW q \in Seq(Register), NEW items \in Seq(Register)
    PROVE  /\ Len(FifoPush(q, items)) <= Len(q) + Len(items)
           /\ ~Overflows(q, items) =>
                 Len(FifoPush(q, items)) = Len(q) + Len(items)
<1> DEFINE n == Len(q) + Len(items)
           m == BL0906_BUF_CMD_SIZE
<1>1. n \in Nat /\ m \in Nat \ {0}
  BY LenProperties, MeterLinkAssumption
<1>2. Len(FifoPush(q, items)) = n % m
  BY PushType
<1> HIDE DEF n, m
<1>3. n % m <= n
  BY <1>1, ModuloBound
<1>4. n < m => n % m = n
  BY <1>1
<1>5. ~Overflows(q, items) => n < m
  BY <1>1 DEF Overflows, n, m
<1>6. QED
  BY <1>1, <1>2, <1>3, <1>4, <1>5 DEF n

-----------------------------------------------------------------------------
\* Of Cycle ticks, what the reads of the scans take and what those of the gain.
ScanTicks == TIME_SCAN_MEASURE + 1
GainTicks == SET_GAIN_INTERVAL + 1
Cycle     == ScanTicks * GainTicks
ScanShare == 2 * Reads * GainTicks
GainShare == 2 * ScanTicks

\* The ticks the ring takes to run empty if every answer comes late.
Work == 2 * Len(queue) + (IF running = REG_UNKNOWN THEN 0 ELSE 1 - waited)

PaceInv ==
    missed < SILENCE =>
        Bound(Cycle, ScanShare, GainShare, Reads, Work, scan_t, gain_t, missed)

Scans == IF ScanDue THEN 1 ELSE 0
Gains == IF GainDue THEN 1 ELSE 0

LEMMA Shares ==
    ASSUME Provisioned
    PROVE  /\ Cycle \in Nat /\ ScanShare \in Nat \ {0} /\ GainShare \in Nat
           /\ Reads \in Nat \ {0}
           /\ ScanShare + GainShare < Cycle
           /\ ScanShare * TIME_SCAN_MEASURE = 2 * (Reads * Cycle) - ScanShare
           /\ GainShare * SET_GAIN_INTERVAL = 2 * Cycle - GainShare
<1>1. Len(Measured) \in Nat /\ NUMBER_RL \in Nat
  BY MeterLinkAssumption
<1>2. Reads \in Nat \ {0}
  BY <1>1 DEF Reads
<1>3. ScanTicks \in Nat \ {0} /\ GainTicks \in Nat \ {0}
  BY MeterLinkAssumption DEF ScanTicks, GainTicks
<1>4. /\ Cycle \in Nat /\ ScanShare \in Nat /\ GainShare \in Nat
  BY <1>2, <1>3 DEF Cycle, ScanShare, GainShare
<1>5. ScanShare # 0
  <2>1. 2 * Reads \in Nat /\ 2 * Reads >= 1 /\ GainTicks >= 1
    BY <1>2, <1>3
  <2>2. (2 * Reads) * GainTicks >= (2 * Reads) * 1
    BY <1>3, <2>1, Scale
  <2>3. QED
    BY <2>1, <2>2 DEF ScanShare
<1>6. ScanShare + GainShare < Cycle
  BY DEF Provisioned, ScanShare, GainShare, Cycle, ScanTicks, GainTicks
<1>7. ScanShare * TIME_SCAN_MEASURE = 2 * (Reads * Cycle) - ScanShare
  <2> DEFINE k == Reads * GainTicks
  <2>1. k \in Nat /\ TIME_SCAN_MEASURE \in Nat
    BY <1>2, <1>3, MeterLinkAssumption
  <2>2. ScanShare = 2 * k
    BY <1>2, <1>3 DEF ScanShare
  <2>3. Reads * Cycle = k * (TIME_SCAN_MEASURE + 1)
    BY <1>2, <1>3, <2>1 DEF Cycle, ScanTicks
  <2> HIDE DEF k
  <2>4. QED
    BY <2>1, <2>2, <2>3
<1>8. GainShare * SET_GAIN_INTERVAL = 2 * Cycle - GainShare
  BY <1>3, MeterLinkAssumption DEF GainShare, Cycle, GainTicks
<1>9. QED
  BY <1>2, <1>4, <1>5, <1>6, <1>7, <1>8

LEMMA WorkType ==
    TypeOK => Work \in Nat /\ Len(queue) \in Nat /\ 2 * Len(queue) <= Work
<1> SUFFICES ASSUME TypeOK
             PROVE  Work \in Nat /\ Len(queue) \in Nat /\ 2 * Len(queue) <= Work
  OBVIOUS
<1>1. Len(queue) \in Nat /\ waited \in 0..1
  BY LenProperties DEF TypeOK
<1>2. QED
  BY <1>1 DEF Work

LEMMA AfterGainLength ==
    ASSUME TypeOK
    PROVE  /\ Len(AfterGain) \in Nat /\ Len(AfterGain) <= Len(queue) + Gains
           /\ ~Overflows(queue, GainReads) => Len(AfterGain) = Len(queue) + Gains
           /\ AfterGain = <<>> <=> Len(AfterGain) = 0
<1>1. GainReads \in Seq(Register) /\ Len(GainReads) = Gains
  <2>1. <<GAIN_1>> \in Seq(Register) /\ <<>> \in Seq(Register)
    BY DEF Register
  <2>2. QED
    BY <2>1 DEF GainReads, Gains
<1>2. queue \in Seq(Register) /\ AfterGain \in Seq(Register)
  BY AfterGainType DEF TypeOK
<1>3. Len(AfterGain) \in Nat /\ (AfterGain = <<>> <=> Len(AfterGain) = 0)
  BY <1>2
<1>4. QED
  BY <1>1, <1>2, <1>3, PushLength DEF AfterGain

\* What a tick adds to the ring and to the clocks.
LEMMA MeasurePace ==
    ASSUME TypeOK, NEW q \in Seq(Register), NEW asked, Measure(q, asked)
    PROVE  /\ Len(queue') \in Nat /\ Len(q) \in Nat
           /\ Len(queue') <= Len(q) + Reads * Scans
           /\ \/ Scans = 1 /\ scan_t = TIME_SCAN_MEASURE /\ scan_t' = 0
              \/ Scans = 0 /\ scan_t' = scan_t + 1
           /\ \/ Gains = 1 /\ gain_t = SET_GAIN_INTERVAL /\ gain_t' = 0
              \/ Gains = 0 /\ gain_t' \in {0, gain_t + 1}
           /\ scan_t' \in 0..TIME_SCAN_MEASURE
           /\ gain_t' \in 0..SET_GAIN_INTERVAL
           /\ dropped' = Drops(q)
<1>1. Len(q) \in Nat /\ Reads \in Nat
  <2>1. Len(Measured) \in Nat /\ NUMBER_RL \in Nat
    BY MeterLinkAssumption
  <2>2. QED
    BY <2>1, LenProperties DEF Reads
<1>2. Len(queue') \in Nat /\ Len(queue') <= Len(q) + Reads * Scans
  <2>1. CASE ScanDue
    <3>1. queue' = FifoPush(q, ScanReads)
      BY <2>1 DEF Measure
    <3>2. FifoPush(q, ScanReads) \in Seq(Register)
      BY ScanType, PushType
    <3>3. Len(FifoPush(q, ScanReads)) <= Len(q) + Reads
      BY ScanType, PushLength, ScanLength
    <3>4. Reads * Scans = Reads
      BY <1>1, <2>1 DEF Scans
    <3>5. QED
      BY <3>1, <3>2, <3>3, <3>4, LenProperties
  <2>2. CASE ~ScanDue
    BY <1>1, <2>2 DEF Measure, Scans
  <2>3. QED
    BY <2>1, <2>2
<1>3. \/ Scans = 1 /\ scan_t = TIME_SCAN_MEASURE /\ scan_t' = 0
      \/ Scans = 0 /\ scan_t' = scan_t + 1
  BY DEF Measure, ScanDue, Scans
<1>4. \/ Gains = 1 /\ gain_t = SET_GAIN_INTERVAL /\ gain_t' = 0
      \/ Gains = 0 /\ gain_t' \in {0, gain_t + 1}
  BY DEF Measure, GainDue, Gains
<1>5. scan_t' \in 0..TIME_SCAN_MEASURE /\ gain_t' \in 0..SET_GAIN_INTERVAL
  BY MeterLinkAssumption DEF Measure, TypeOK, GainDue, ScanDue
<1>6. dropped' = Drops(q)
  BY DEF Measure
<1>7. QED
  BY <1>1, <1>2, <1>3, <1>4, <1>5, <1>6

LEMMA GainFits ==
    ASSUME Provisioned, TypeOK, PaceInv, missed < SILENCE
    PROVE  ~Overflows(queue, GainReads)
<1>1. /\ Work \in Nat /\ Len(queue) \in Nat /\ 2 * Len(queue) <= Work
      /\ Len(queue) < BL0906_BUF_CMD_SIZE /\ BL0906_BUF_CMD_SIZE \in Nat
      /\ missed \in Nat /\ SILENCE \in Nat /\ Reads \in Nat /\ scan_t \in Nat
  <2>1. Work \in Nat /\ Len(queue) \in Nat /\ 2 * Len(queue) <= Work
    BY WorkType
  <2>2. Len(queue) < BL0906_BUF_CMD_SIZE
    BY DEF TypeOK
  <2>3. missed \in Nat /\ scan_t \in Nat
    BY DEF TypeOK
  <2>4. BL0906_BUF_CMD_SIZE \in Nat /\ SILENCE \in Nat
    BY MeterLinkAssumption
  <2>5. Reads \in Nat
    BY Shares
  <2>6. QED
    BY <2>1, <2>2, <2>3, <2>4, <2>5
<1>2. Reads + 2 <= BL0906_BUF_CMD_SIZE /\ SILENCE < 2 * (BL0906_BUF_CMD_SIZE - Reads)
  BY DEF Provisioned
<1>3. CASE GainDue
  <2>1. Bound(Cycle, ScanShare, GainShare, Reads, Work, scan_t,
              SET_GAIN_INTERVAL, missed)
    BY <1>3 DEF PaceInv, GainDue
  <2>2. Work <= 2 * Reads \/ Work < 2 * Reads + missed
    BY <1>1, <2>1, Shares, BoundAtGain, MeterLinkAssumption
  <2>3. Len(queue) + 1 < BL0906_BUF_CMD_SIZE
    BY <1>1, <1>2, <2>2
  <2>4. Len(GainReads) = 1
    BY <1>3 DEF GainReads
  <2>5. QED
    BY <1>1, <2>3, <2>4 DEF Overflows
<1>4. CASE ~GainDue
  <2>1. Len(GainReads) = 0
    BY <1>4 DEF GainReads
  <2>2. QED
    BY <1>1, <2>1 DEF Overflows
<1>5. QED
  BY <1>3, <1>4

\* A tick in which the ring is not empty, or fills, takes one tick off its work.
LEMMA BusyPace ==
    ASSUME Provisioned, TypeOK, TypeOK', PaceInv, missed < SILENCE,
           missed' < SILENCE,
           NEW q \in Seq(Register), NEW asked, Measure(q, asked),
           2 * Len(q) + (Work' - 2 * Len(queue'))
               <= Work - 1 + (missed' - missed) + 2 * Gains,
           Work' >= 2 * Len(queue')
    PROVE  PaceInv' /\ ~dropped'
<1>1. /\ Work \in Nat /\ Work' \in Nat /\ missed \in Nat /\ missed' \in Nat
      /\ scan_t \in Nat /\ gain_t \in Nat /\ scan_t' \in Nat /\ gain_t' \in Nat
      /\ BL0906_BUF_CMD_SIZE \in Nat /\ SILENCE \in Nat
      /\ TIME_SCAN_MEASURE \in Nat /\ SET_GAIN_INTERVAL \in Nat
  <2>1. Work' \in Nat
    <3>1. Len(queue') \in Nat /\ waited' \in 0..1
      BY LenProperties DEF TypeOK
    <3>2. QED
      BY <3>1 DEF Work
  <2>2. Work \in Nat
    BY WorkType
  <2>3. /\ missed \in Nat /\ missed' \in Nat
        /\ scan_t \in Nat /\ gain_t \in Nat /\ scan_t' \in Nat /\ gain_t' \in Nat
    BY DEF TypeOK
  <2>4. /\ BL0906_BUF_CMD_SIZE \in Nat /\ SILENCE \in Nat
        /\ TIME_SCAN_MEASURE \in Nat /\ SET_GAIN_INTERVAL \in Nat
    BY MeterLinkAssumption
  <2>5. QED
    BY <2>1, <2>2, <2>3, <2>4
<1>2. /\ Len(queue') \in Nat /\ Len(q) \in Nat
      /\ Len(queue') <= Len(q) + Reads * Scans
      /\ \/ Scans = 1 /\ scan_t = TIME_SCAN_MEASURE /\ scan_t' = 0
         \/ Scans = 0 /\ scan_t' = scan_t + 1
      /\ \/ Gains = 1 /\ gain_t = SET_GAIN_INTERVAL /\ gain_t' = 0
         \/ Gains = 0 /\ gain_t' \in {0, gain_t + 1}
      /\ dropped' = Drops(q)
  BY MeasurePace
<1>3. Scans \in 0..1 /\ Gains \in 0..1
  BY DEF Scans, Gains
<1>4. /\ Cycle \in Nat /\ ScanShare \in Nat /\ GainShare \in Nat /\ Reads \in Nat
      /\ ScanShare + GainShare < Cycle
      /\ ScanShare * TIME_SCAN_MEASURE = 2 * (Reads * Cycle) - ScanShare
      /\ GainShare * SET_GAIN_INTERVAL = 2 * Cycle - GainShare
  BY Shares
<1>5. Bound(Cycle, ScanShare, GainShare, Reads, Work, scan_t, gain_t, missed)
  BY DEF PaceInv
<1>t. Work' <= Work - 1 + (missed' - missed) + 2 * Reads * Scans + 2 * Gains
  BY <1>1, <1>2, <1>3, <1>4, BusyTick
<1>q. 2 * Len(q) <= Work - 1 + (missed' - missed) + 2 * Gains
  <2> DEFINE Limit == Work - 1 + (missed' - missed) + 2 * Gains
  <2>1. Limit \in Int
    BY <1>1, <1>3
  <2>2. 2 * Len(q) + (Work' - 2 * Len(queue')) <= Limit
    OBVIOUS
  <2>3. Len(q) \in Int /\ Len(queue') \in Int /\ Work' \in Int
    BY <1>1, <1>2
  <2> HIDE DEF Limit
  <2>4. 2 * Len(q) <= Limit
    BY <2>1, <2>2, <2>3, QueueWithin
  <2>5. QED
    BY <2>4 DEF Limit
<1>6. PaceInv'
  <2>1. Work' <= Work - 1 + (missed' - missed) + 2 * Reads * Scans + 2 * Gains
    BY <1>t
  <2>2. Bound(Cycle, ScanShare, GainShare, Reads, Work', scan_t', gain_t', missed')
    BY <1>1, <1>2, <1>3, <1>4, <1>5, <2>1, BusyBound
  <2>3. QED
    BY <2>2 DEF PaceInv, Cycle, ScanShare, GainShare, Reads, ScanTicks, GainTicks
<1>7. ~(ScanDue /\ Overflows(q, ScanReads))
  <2> SUFFICES ASSUME ScanDue PROVE ~Overflows(q, ScanReads)
    OBVIOUS
  <2>1. Work <= 2 + missed /\ (gain_t = SET_GAIN_INTERVAL => Work <= missed)
    <3>1. scan_t = TIME_SCAN_MEASURE
      BY DEF ScanDue
    <3>2. QED
      BY <1>1, <1>4, <1>5, <3>1, BoundAtScan
  <2>2. 2 * Len(q) <= Work - 1 + (missed' - missed) + 2 * Gains
    BY <1>q
  <2>3. Gains = 1 => Work <= missed
    BY <1>2, <2>1
  <2>4. SILENCE < 2 * (BL0906_BUF_CMD_SIZE - Reads)
    BY DEF Provisioned
  <2>5. Len(q) + Reads < BL0906_BUF_CMD_SIZE
    BY <1>1, <1>2, <1>3, <1>4, <2>1, <2>2, <2>3, <2>4, ScanFits
  <2>6. QED
    BY <1>1, <1>2, <1>4, <2>5, ScanLength DEF Overflows
<1>8. QED
  BY <1>2, <1>6, <1>7, GainFits DEF Drops

LEMMA IdlePace ==
    ASSUME Provisioned, TypeOK, TypeOK', queue = <<>>, AfterGain = <<>>,
           running' = REG_UNKNOWN, missed' = 0,
           NEW asked, Measure(AfterGain, asked)
    PROVE  PaceInv' /\ ~dropped'
<1>1. /\ Reads \in Nat \ {0} /\ BL0906_BUF_CMD_SIZE \in Nat
      /\ Reads + 2 <= BL0906_BUF_CMD_SIZE
  BY Shares, MeterLinkAssumption DEF Provisioned
<1>2. Len(queue) = 0 /\ Len(AfterGain) = 0 /\ AfterGain \in Seq(Register)
  BY AfterGainType
<1>3. Scans \in 0..1 /\ Gains \in 0..1
  BY DEF Scans, Gains
<1>4. ~Overflows(queue, GainReads)
  <2>1. Len(GainReads) <= 1 /\ Len(GainReads) \in Nat
    BY DEF GainReads
  <2>2. QED
    BY <1>1, <1>2, <2>1 DEF Overflows
<1>5. ~Overflows(AfterGain, ScanReads)
  BY <1>1, <1>2, ScanLength DEF Overflows
<1>6. /\ Len(queue') \in Nat
      /\ Len(queue') <= Reads * Scans
      /\ Scans = 1 => scan_t' = 0
      /\ scan_t' \in 0..TIME_SCAN_MEASURE
      /\ gain_t' \in 0..SET_GAIN_INTERVAL
      /\ dropped' = Drops(AfterGain)
  <2>1. /\ Len(queue') \in Nat
        /\ Len(queue') <= Len(AfterGain) + Reads * Scans
        /\ Scans = 1 => scan_t' = 0
        /\ scan_t' \in 0..TIME_SCAN_MEASURE
        /\ gain_t' \in 0..SET_GAIN_INTERVAL
        /\ dropped' = Drops(AfterGain)
    <3>1. /\ Len(queue') \in Nat
          /\ Len(queue') <= Len(AfterGain) + Reads * Scans
      BY <1>2, MeasurePace
    <3>2. /\ \/ Scans = 1 /\ scan_t = TIME_SCAN_MEASURE /\ scan_t' = 0
             \/ Scans = 0 /\ scan_t' = scan_t + 1
          /\ scan_t' \in 0..TIME_SCAN_MEASURE
          /\ gain_t' \in 0..SET_GAIN_INTERVAL
      BY <1>2, MeasurePace
    <3>3. dropped' = Drops(AfterGain)
      BY <1>2, MeasurePace
    <3>4. QED
      BY <3>1, <3>2, <3>3
  <2>2. Reads * Scans \in Nat
    BY <1>1, <1>3
  <2>3. QED
    BY <1>2, <2>1, <2>2
<1>7. PaceInv'
  <2>1. Work' \in Nat /\ Work' <= 2 * Reads * Scans
    <3>1. Work' = 2 * Len(queue')
      BY <1>6 DEF Work
    <3>2. CASE Scans = 0
      BY <1>1, <1>6, <3>1, <3>2
    <3>3. CASE Scans = 1
      BY <1>1, <1>6, <3>1, <3>3
    <3>4. QED
      BY <1>3, <3>2, <3>3
  <2>2. Bound(Cycle, ScanShare, GainShare, Reads, Work', scan_t', gain_t', 0)
    <3>1. /\ TIME_SCAN_MEASURE \in Nat /\ SET_GAIN_INTERVAL \in Nat
          /\ scan_t' \in Nat /\ gain_t' \in Nat
          /\ scan_t' <= TIME_SCAN_MEASURE /\ gain_t' <= SET_GAIN_INTERVAL
      BY <1>6, MeterLinkAssumption
    <3>2. QED
      BY <1>3, <1>6, <2>1, <3>1, Shares, IdleBound
  <2>3. QED
    BY <2>2 DEF PaceInv, Cycle, ScanShare, GainShare, Reads, ScanTicks, GainTicks
<1>8. QED
  BY <1>4, <1>5, <1>6, <1>7 DEF Drops

LEMMA TickPace ==
    ASSUME Provisioned, TypeOK, TypeOK', PaceInv, Tick, missed' < SILENCE
    PROVE  PaceInv' /\ ~dropped'
<1>1. /\ Len(queue) \in Nat /\ missed \in 0..SILENCE /\ SILENCE \in Nat
      /\ waited \in 0..1 /\ Len(queue') \in Nat /\ waited' \in 0..1
      /\ Gains \in 0..1 /\ missed' \in Nat
  BY LenProperties, MeterLinkAssumption DEF TypeOK, Gains
<1>2. /\ AfterGain \in Seq(Register) /\ Len(AfterGain) \in Nat
      /\ Len(AfterGain) <= Len(queue) + Gains
  BY AfterGainType, AfterGainLength
<1>3. CASE Ask
  <2>1. /\ running = REG_UNKNOWN /\ AfterGain # <<>> /\ missed' = missed
        /\ waited' = 0
        /\ Measure(Tail(AfterGain), <<Head(AfterGain)>>)
    BY <1>3 DEF Ask
  <2>2. Tail(AfterGain) \in Seq(Register) /\ Len(Tail(AfterGain)) = Len(AfterGain) - 1
    BY <1>2, <2>1, HeadTailProperties
  <2>3. Work = 2 * Len(queue) /\ Work' \in {2 * Len(queue'), 2 * Len(queue') + 1}
    BY <1>1, <2>1 DEF Work
  <2>4. 2 * Len(Tail(AfterGain)) + (Work' - 2 * Len(queue'))
            <= Work - 1 + (missed' - missed) + 2 * Gains
        /\ Work' >= 2 * Len(queue')
    BY <1>1, <1>2, <2>1, <2>2, <2>3
  <2>5. QED
    BY <2>1, <2>2, <2>4, BusyPace
<1>4. CASE NothingToAsk
  <2>1. /\ running' = REG_UNKNOWN /\ AfterGain = <<>>
        /\ missed' = IF queue = <<>> THEN 0 ELSE missed
        /\ Measure(AfterGain, <<>>)
    BY <1>4 DEF NothingToAsk
  <2>2. queue = <<>>
    <3> SUFFICES ASSUME queue # <<>> PROVE FALSE
      OBVIOUS
    <3>1. Len(queue) > 0
      BY <1>1 DEF TypeOK
    <3>2. ~Overflows(queue, GainReads)
      BY <2>1, GainFits
    <3>3. Len(AfterGain) = Len(queue) + Gains /\ Len(AfterGain) = 0
      BY <2>1, <3>2, AfterGainLength
    <3>4. Len(queue) + Gains = 0 /\ Len(queue) \in Nat /\ Gains \in 0..1
      BY <1>1, <3>3
    <3>5. QED
      BY <3>1, <3>4
  <2>3. QED
    BY <2>1, <2>2, IdlePace
<1>5. CASE KeepWaiting
  <2>1. /\ running # REG_UNKNOWN /\ waited = 0 /\ waited' = 1 /\ running' = running
        /\ missed' = missed /\ Measure(AfterGain, <<>>)
    BY <1>5 DEF KeepWaiting
  <2>2. Work = 2 * Len(queue) + 1 /\ Work' = 2 * Len(queue')
    BY <1>1, <2>1 DEF Work
  <2>3. 2 * Len(AfterGain) + (Work' - 2 * Len(queue'))
            <= Work - 1 + (missed' - missed) + 2 * Gains
        /\ Work' >= 2 * Len(queue')
    BY <1>1, <1>2, <2>1, <2>2
  <2>4. QED
    BY <1>2, <2>1, <2>3, BusyPace
<1>6. CASE TimeOut
  <2>1. /\ running' = REG_UNKNOWN /\ Measure(AfterGain, <<>>)
        /\ missed' = IF missed < SILENCE THEN missed + 1 ELSE SILENCE
    BY <1>6 DEF TimeOut
  <2>2. missed' = missed + 1 /\ missed < SILENCE
    BY <1>1, <2>1
  <2>3. Work \in Nat /\ Work >= 2 * Len(queue) /\ Work' = 2 * Len(queue')
    BY <1>1, <2>1, WorkType DEF Work
  <2>4. 2 * Len(AfterGain) + (Work' - 2 * Len(queue'))
            <= Work - 1 + (missed' - missed) + 2 * Gains
        /\ Work' >= 2 * Len(queue')
    BY <1>1, <1>2, <2>2, <2>3
  <2>5. QED
    BY <1>2, <2>1, <2>2, <2>4, BusyPace
<1>7. QED
  BY <1>3, <1>4, <1>5, <1>6 DEF Tick

\* Between two ticks an answer only takes work away.
LEMMA QuietPace ==
    ASSUME Provisioned, TypeOK, TypeOK', PaceInv,
           UNCHANGED <<queue, scan_t, gain_t, missed, dropped>>,
           UNCHANGED <<running, waited>> \/ running' = REG_UNKNOWN
    PROVE  PaceInv'
<1>1. Len(queue) \in Nat /\ waited \in 0..1 /\ queue' = queue
  BY LenProperties DEF TypeOK
<1>2. Work \in Nat /\ Work' \in Nat /\ Work' <= Work
  BY <1>1 DEF Work
<1>3. /\ scan_t \in Nat /\ gain_t \in Nat /\ missed \in Nat
      /\ scan_t' = scan_t /\ gain_t' = gain_t /\ missed' = missed
  BY DEF TypeOK
<1>4. CASE missed < SILENCE
  <2>1. Bound(Cycle, ScanShare, GainShare, Reads, Work', scan_t', gain_t', missed')
    BY <1>2, <1>3, <1>4, Shares, LessBound DEF PaceInv
  <2>2. QED
    BY <2>1 DEF PaceInv, Cycle, ScanShare, GainShare, Reads, ScanTicks, GainTicks
<1>5. CASE ~(missed < SILENCE)
  BY <1>3, <1>5 DEF PaceInv
<1>6. QED
  BY <1>4, <1>5

LEMMA PaceStep ==
    ASSUME Provisioned, TypeOK, PaceInv, DropsNeedSilence, [Next]_vars
    PROVE  PaceInv' /\ DropsNeedSilence'
<1>1. TypeOK' /\ missed' \in Nat /\ SILENCE \in Nat
  BY StepType, MeterLinkAssumption DEF TypeOK
<1>2. CASE Tick
  <2>1. CASE missed' < SILENCE
    BY <1>1, <1>2, <2>1, TickPace DEF DropsNeedSilence
  <2>2. CASE ~(missed' < SILENCE)
    BY <1>1, <2>2 DEF PaceInv, DropsNeedSilence
  <2>3. QED
    BY <2>1, <2>2
<1>3. CASE ~Tick
  <2>1. /\ UNCHANGED <<queue, scan_t, gain_t, missed, dropped>>
        /\ UNCHANGED <<running, waited>> \/ running' = REG_UNKNOWN
    BY <1>3 DEF Next, ChipServes, Lose, FallSilent, AnswerAgain, Receive, vars,
                driver, scan
  <2>2. QED
    BY <1>1, <2>1, QuietPace DEF DropsNeedSilence
<1>4. QED
  BY <1>2, <1>3

LEMMA PaceInit ==
    ASSUME Provisioned, Init
    PROVE  PaceInv /\ DropsNeedSilence
<1>1. Work = 0 /\ scan_t = 0 /\ gain_t = 0 /\ missed = 0 /\ dropped = FALSE
  BY DEF Init, Work
<1>2. Bound(Cycle, ScanShare, GainShare, Reads, 0, 0, 0, 0)
  <2>1. /\ Cycle \in Nat /\ ScanShare \in Nat /\ GainShare \in Nat /\ Reads \in Nat
        /\ ScanShare + GainShare < Cycle
        /\ ScanShare * TIME_SCAN_MEASURE = 2 * (Reads * Cycle) - ScanShare
        /\ GainShare * SET_GAIN_INTERVAL = 2 * Cycle - GainShare
    BY Shares
  <2>2. /\ TIME_SCAN_MEASURE \in Nat /\ SET_GAIN_INTERVAL \in Nat
        /\ 0 <= TIME_SCAN_MEASURE /\ 0 <= SET_GAIN_INTERVAL
    BY MeterLinkAssumption
  <2>3. 0 \in Nat /\ 0 \in 0..1 /\ 0 <= 2 * Reads * 0 /\ (0 = 1 => 0 = 0)
    BY <2>1
  <2>4. QED
    BY <2>1, <2>2, <2>3, IdleBound
<1>3. QED
  BY <1>1, <1>2 DEF PaceInv, DropsNeedSilence

\* With the proportions of the real intervals and sizes, no read is dropped
\* before SILENCE answers are missed without the ring running empty: not by
\* answers that all come late, and not by the scan and the gain falling due
\* together (bl0906_set_gain_proc, bl0906_measurenment_start, FifoPush).
THEOREM DropsAreJustified == ASSUME Provisioned PROVE Spec => []DropsNeedSilence
<1>1. Init => TypeOK /\ PaceInv /\ DropsNeedSilence
  BY LinkInit, PaceInit
<1>2. TypeOK /\ PaceInv /\ DropsNeedSilence /\ [Next]_vars
         => (TypeOK /\ PaceInv /\ DropsNeedSilence)'
  BY StepType, PaceStep
<1>3. QED
  BY <1>1, <1>2, PTL DEF Spec

=============================================================================
