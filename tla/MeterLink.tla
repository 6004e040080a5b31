------------------------------ MODULE MeterLink ------------------------------
(***************************************************************************)
(* The conversation with the metering chip: the queue of registers to read *)
(* (periph/bl0906.c over fifo.c), the serial line in both directions       *)
(* (mesh_common.c, main.c, my_fifo of tutility.c) and the scan of energy.c *)
(* that asks for four values per channel and waits for all of them.        *)
(*                                                                         *)
(* sw_loop_100ms_interval is one Tick; everything timed counts ticks.  The *)
(* chip answers commands in the order of the line.  While it works (up)    *)
(* its answer is handled before the next tick; otherwise a command or its  *)
(* answer may be lost or come any number of ticks late.  Of what a frame   *)
(* carries only the sum of its data bytes, its checksum and whether it     *)
(* reports the default gain matter; reg is where it really came from.      *)
(***************************************************************************)
EXTENDS Naturals, Sequences

CONSTANTS
    NUMBER_RL,            \* channels
    Measured,             \* the values a scan asks for per channel, in order
    BL0906_BUF_CMD_SIZE,  \* slots of the queue
    TIME_SCAN_MEASURE,    \* ticks from one scan to the next
    SET_GAIN_INTERVAL,    \* ticks from one attempt to set the gain to the next
    Sums,                 \* what the data bytes of an answer may add up to
    SILENCE,              \* missed answers without which no read is dropped
    MaxLate               \* commands a chip that does not answer still holds

\* The registers of the chip, of which channel i has the i-th after the first.
I1_RMS      == 13
V_RMS       == 22
WATT_1      == 35
CF1_CNT     == 48
GAIN_1      == 96
REG_UNKNOWN == 255
SET_GAIN    == 256     \* not a register: the three writes that set the gain

ASSUME MeterLinkAssumption ==
    /\ NUMBER_RL \in 1..3
    /\ Measured \in Seq({I1_RMS, WATT_1, CF1_CNT}) /\ Len(Measured) > 0
    /\ BL0906_BUF_CMD_SIZE \in Nat \ {0}
    /\ TIME_SCAN_MEASURE \in Nat \ {0}
    /\ SET_GAIN_INTERVAL \in Nat \ {0}
    /\ Sums \subseteq Nat
    /\ SILENCE \in Nat
    /\ MaxLate \in Nat /\ MaxLate >= 2

Channel  == 0..(NUMBER_RL - 1)
Value    == {Measured[k] : k \in DOMAIN Measured} \cup {V_RMS}
Register == {V_RMS, GAIN_1} \cup
            {base + i : base \in {I1_RMS, WATT_1, CF1_CNT}, i \in Channel}
Command  == Register \cup {SET_GAIN}
Frame    == [reg : Register, sum : Nat, check : 0..255, gain : BOOLEAN]

VARIABLES
    queue,          \* fifo_bl0906_cmd, oldest first
    running,        \* cmd_is_running.id_register
    waited,         \* ticks since it was asked
    gain_known,     \* gain_par.value is the default
    gain_t,         \* ticks since the gain was last set
    scan_t,         \* ticks since the last scan
    updated,        \* energy_updated_flag
    booked,         \* history: the channels this tick has calculated
    line,           \* commands on their way to the chip
    rx,             \* frames in hci_rx_fifo
    up,             \* the chip answers
    chip_gain,      \* its GAIN_1 register holds the default
    mistaken,       \* history: answers taken for another register's
    dropped,        \* history: this tick has dropped reads
    missed          \* history: time-outs since the queue was last empty

driver == <<queue, running, waited, gain_known, gain_t>>
scan   == <<scan_t, updated, booked, dropped>>
chip   == <<line, up, chip_gain>>
vars   == <<driver, scan, rx, chip, mistaken, missed>>

TypeOK ==
    /\ queue \in Seq(Register) /\ Len(queue) < BL0906_BUF_CMD_SIZE
    /\ running \in Register \cup {REG_UNKNOWN}
    /\ waited \in 0..1
    /\ gain_known \in BOOLEAN
    /\ gain_t \in 0..SET_GAIN_INTERVAL
    /\ scan_t \in 0..TIME_SCAN_MEASURE
    /\ updated \in [Channel -> SUBSET Value]
    /\ booked \in SUBSET Channel
    /\ line \in Seq(Command)
    /\ rx \in Seq(Frame) /\ Len(rx) + Len(line) <= MaxLate
    /\ up \in BOOLEAN
    /\ chip_gain \in BOOLEAN
    /\ mistaken \subseteq Register \X Register
    /\ dropped \in BOOLEAN
    /\ missed \in 0..SILENCE

\* bl0906_init and energy_init; the first scan and the first setting of the
\* gain fall due one interval after start-up.
Init ==
    /\ queue = <<>>
    /\ running = REG_UNKNOWN
    /\ waited = 0
    /\ gain_known = FALSE
    /\ gain_t = 0
    /\ scan_t = 0
    /\ updated = [i \in Channel |-> {}]
    /\ booked = {}
    /\ line = <<>>
    /\ rx = <<>>
    /\ up \in BOOLEAN
    /\ chip_gain = FALSE
    /\ mistaken = {}
    /\ dropped = FALSE
    /\ missed = 0

-----------------------------------------------------------------------------
(* The queue of fifo.c: FifoPush has no test for a full ring, so the items *)
(* waiting are the last ones pushed, as many as tail - head says modulo    *)
(* the number of slots.                                                    *)

FifoPush(q, items) ==
    LET all == q \o items
        n   == Len(all) % BL0906_BUF_CMD_SIZE
    IN  SubSeq(all, Len(all) - n + 1, Len(all))

Overflows(q, items) == Len(q) + Len(items) >= BL0906_BUF_CMD_SIZE

-----------------------------------------------------------------------------
(* One tick: bl0906_set_gain_proc, bl0906_fifo_proc, then                  *)
(* energy_measurement_proc.                                                *)

ReadsOf(i) == [k \in DOMAIN Measured |-> Measured[k] + i]

\* Mutant: every channel reads the voltage.
VoltageAlways(i) == <<V_RMS>> \o ReadsOf(i)

\* bl0906_measurenment_start: the voltage is read once for all channels.
StartMeasure(i) ==
    IF i = 0 THEN <<Head(ReadsOf(0)), V_RMS>> \o Tail(ReadsOf(0))
    ELSE ReadsOf(i)

\* All channels are due together: their timers start together.
ScanReads ==
    StartMeasure(0) \o (IF NUMBER_RL > 1 THEN StartMeasure(1) ELSE <<>>)
                    \o (IF NUMBER_RL > 2 THEN StartMeasure(2) ELSE <<>>)

GainDue == ~gain_known /\ gain_t = SET_GAIN_INTERVAL
ScanDue == scan_t = TIME_SCAN_MEASURE

\* Mutant: the gain is not read back.
GainNotRead == <<>>

GainReads == IF GainDue THEN <<GAIN_1>> ELSE <<>>
AfterGain == FifoPush(queue, GainReads)

\* Reads are dropped by one of the two pushes of this tick, the second of
\* which finds the queue as q.
Drops(q) == \/ Overflows(queue, GainReads)
            \/ ScanDue /\ Overflows(q, ScanReads)

\* my_fifo_push_hci_tx_fifo, blc_hci_tx_to_uart and the line: a chip that does
\* not answer holds so many commands and misses the others.
Send(commands) ==
    line' = IF Len(line) + Len(commands) <= MaxLate
            THEN line \o commands ELSE line

Complete == {i \in Channel : ~ScanDue /\ updated[i] = Value}

\* Everything in a tick but bl0906_fifo_proc, which leaves the queue as q and
\* has sent asked.
Measure(q, asked) ==
    /\ queue' = IF ScanDue THEN FifoPush(q, ScanReads) ELSE q
    /\ Send((IF GainDue THEN <<SET_GAIN>> ELSE <<>>) \o asked)
    /\ gain_t' = IF gain_known \/ GainDue THEN 0 ELSE gain_t + 1
    /\ scan_t' = IF ScanDue THEN 0 ELSE scan_t + 1
    /\ booked' = Complete
    /\ dropped' = Drops(q)
    /\ updated' = [i \in Channel |->
                      IF ScanDue \/ i \in Complete THEN {} ELSE updated[i]]
    /\ UNCHANGED <<gain_known, rx, up, chip_gain, mistaken>>

\* The main loop has looked at the receive ring since the last tick, and a
\* working chip has answered.
InTime == rx = <<>> /\ (up => line = <<>>)

\* bl0906_fifo_proc, nothing asked: the next register is.
Ask ==
    /\ InTime
    /\ running = REG_UNKNOWN
    /\ AfterGain # <<>>
    /\ running' = Head(AfterGain)
    /\ waited' = 0
    /\ missed' = missed
    /\ Measure(Tail(AfterGain), <<Head(AfterGain)>>)

NothingToAsk ==
    /\ InTime
    /\ running = REG_UNKNOWN
    /\ AfterGain = <<>>
    /\ missed' = IF queue = <<>> THEN 0 ELSE missed
    /\ UNCHANGED <<running, waited>>
    /\ Measure(AfterGain, <<>>)

\* 100 ms may not have passed at the first tick after the question; at the
\* second they have.
KeepWaiting ==
    /\ InTime
    /\ running # REG_UNKNOWN
    /\ waited = 0
    /\ waited' = 1
    /\ UNCHANGED <<running, missed>>
    /\ Measure(AfterGain, <<>>)

\* Mutant: the time-out is not noticed.
TimeOutUnnoticed ==
    /\ InTime
    /\ running # REG_UNKNOWN
    /\ UNCHANGED <<running, waited, missed>>
    /\ Measure(AfterGain, <<>>)

TimeOut ==
    /\ InTime
    /\ running # REG_UNKNOWN
    /\ running' = REG_UNKNOWN
    /\ waited' = 0
    /\ missed' = IF missed < SILENCE THEN missed + 1 ELSE SILENCE
    /\ Measure(AfterGain, <<>>)

Tick == Ask \/ NothingToAsk \/ KeepWaiting \/ TimeOut

-----------------------------------------------------------------------------
(* The chip and the serial line.                                           *)

\* The sum of register and data modulo 2^8, complemented.
CheckSum(reg, sum) == 255 - ((reg + sum) % 256)

\* A read is answered with a frame, which the interrupt handler leaves in the
\* receive ring; a write is not answered.
ChipServes ==
    /\ line # <<>>
    /\ line' = Tail(line)
    /\ IF Head(line) = SET_GAIN
       THEN chip_gain' = TRUE /\ rx' = rx
       ELSE /\ \E sum \in Sums :
                  rx' = Append(rx, [reg |-> Head(line), sum |-> sum,
                                    check |-> CheckSum(Head(line), sum),
                                    gain |-> chip_gain /\ Head(line) = GAIN_1])
            /\ UNCHANGED chip_gain
    /\ UNCHANGED <<driver, scan, up, mistaken, missed>>

Lose ==
    /\ ~up
    /\ line # <<>>
    /\ line' = Tail(line)
    /\ UNCHANGED <<driver, scan, rx, up, chip_gain, mistaken, missed>>

\* Falling silent, perhaps because it restarts and forgets its gain.
FallSilent ==
    /\ up
    /\ up' = FALSE
    /\ chip_gain' \in {chip_gain, FALSE}
    /\ UNCHANGED <<driver, scan, line, rx, mistaken, missed>>

AnswerAgain ==
    /\ ~up
    /\ up' = TRUE
    /\ UNCHANGED <<driver, scan, line, rx, chip_gain, mistaken, missed>>

\* Mutant: the checksum is not compared.
AcceptsAny(frame) == running # REG_UNKNOWN

\* The driver adds the data to the register it has asked: an answer from
\* another register must not have the same checksum.
Accepts(frame) ==
    running # REG_UNKNOWN /\ frame.check = CheckSum(running, frame.sum)

\* energy_handle_measurement_complete: the voltage counts for every channel.
Updated(reg) ==
    [i \in Channel |-> updated[i] \cup
        (IF reg = V_RMS THEN {V_RMS} ELSE {base \in Value : reg = base + i})]

\* blc_rx_from_uart and bl0906_handle_serial_rx_message: the handler is that of
\* the register asked, whatever the frame holds.
Receive ==
    /\ rx # <<>>
    /\ rx' = Tail(rx)
    /\ IF Accepts(Head(rx))
       THEN /\ mistaken' = IF running = Head(rx).reg THEN mistaken
                           ELSE mistaken \cup {<<running, Head(rx).reg>>}
            /\ updated' = Updated(running)
            /\ gain_known' = IF running = GAIN_1 THEN Head(rx).gain
                             ELSE gain_known
            /\ running' = REG_UNKNOWN
            /\ waited' = 0
       ELSE UNCHANGED <<mistaken, updated, gain_known, running, waited>>
    /\ UNCHANGED <<queue, gain_t, scan_t, booked, dropped, chip, missed>>

-----------------------------------------------------------------------------
Next == Tick \/ ChipServes \/ Lose \/ FallSilent \/ AnswerAgain \/ Receive

Spec == Init /\ [][Next]_vars

\* The 100 ms tick goes on, the main loop looks at the receive ring, and a chip
\* that works answers.
FairSpec ==
    /\ Spec
    /\ WF_vars(Tick)
    /\ WF_vars(Receive)
    /\ WF_vars(up /\ ChipServes)

-----------------------------------------------------------------------------
\* A value is only taken as the register it was read from, with answers late
\* by any number of questions.
TakenIsAsked == mistaken = {}

\* The reads of a scan: every channel's and the voltage.
Reads == NUMBER_RL * Len(Measured) + 1

\* The proportions in which reads are asked for: two ticks for each, as a late
\* answer takes, leave some ticks over, the ring holds a scan and a read of the
\* gain, and each slot it has left after a scan allows for two missed answers.
\* 10 reads every 21 ticks, one more every 51 and 16 slots do for a SILENCE of
\* up to 11.
Provisioned ==
    LET scans == TIME_SCAN_MEASURE + 1
        gains == SET_GAIN_INTERVAL + 1
    IN  /\ 2 * Reads * gains + 2 * scans < scans * gains
        /\ Reads + 2 <= BL0906_BUF_CMD_SIZE
        /\ SILENCE < 2 * (BL0906_BUF_CMD_SIZE - Reads)

\* The ring drops reads only after the chip has missed SILENCE answers without
\* the queue running empty in between: a few lost answers cost no other read.
DropsNeedSilence == dropped => missed >= SILENCE

\* Once the chip answers, every channel is calculated again and again, after
\* any silence and with whatever the ring has dropped.
KeepsBooking == <>[]up => \A i \in Channel : []<>(i \in booked)

\* A gain that is not known to be set, when the chip answers for good and no
\* answer from before waits in the ring, is set in the end and stays set and known
\* to be.  (A chip that forgets a gain known already never gets it back.)
GainIsSet ==
    (~gain_known /\ rx = <<>> /\ []up) ~> [](gain_known /\ chip_gain)
=============================================================================
