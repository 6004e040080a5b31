--------------------------- MODULE FlashLogProofs ---------------------------
(***************************************************************************)
(* Proofs about FlashLog for every sector size and every set of records:   *)
(* the log never programs a block that is not erased, the index in RAM is  *)
(* the one a restart would find, and the log implements the durable cell.  *)
(***************************************************************************)
EXTENDS FlashLog, TLAPS

LogInv == TypeOK /\ LogShape

\* The scan of a restart is deterministic, whatever the sector holds.
LEMMA ScanUnique ==
    ASSUME NEW m \in [Slot -> Value \cup {Blank, Torn}],
           NEW j \in Slot, Found(m, j), NEW k \in Slot, Found(m, k)
    PROVE  j = k
BY FlashLogAssumption DEF Found, Slot

LEMMA InitLog == Init => LogInv
BY FlashLogAssumption DEF Init, LogInv, TypeOK, LogShape, Slot

LEMMA StepType == LogInv /\ [Next]_vars => TypeOK'
<1> SUFFICES ASSUME LogInv, [Next]_vars PROVE TypeOK'
  OBVIOUS
<1> USE FlashLogAssumption DEF LogInv, TypeOK
<1>1. ASSUME NEW v \in Value, Store(v) PROVE TypeOK'
  BY <1>1 DEF Store, NextIndex, Slot
<1>2. CASE EraseSector
  BY <1>2 DEF EraseSector
<1>3. CASE WritePage
  BY <1>3 DEF WritePage, Programmed
<1>4. CASE Crash
  BY <1>4 DEF Crash
<1>5. CASE UNCHANGED vars
  BY <1>5 DEF vars
<1> QED
  BY <1>1, <1>2, <1>3, <1>4, <1>5 DEF Next

\* After a power failure the records still fill the sector from the front,
\* and the index the scan finds is that of the last one.
LEMMA CrashShape == LogInv /\ Crash => LogShape'
<1> SUFFICES ASSUME LogInv, Crash PROVE LogShape'
  OBVIOUS
<1> USE FlashLogAssumption DEF LogInv, TypeOK, Slot
<1>1. PICK k \in Slot : Found(mem', k) /\ index' = k
  BY DEF Crash
<1>2. phase' = "idle"
  BY DEF Crash
<1>3. CASE mem' = mem /\ phase # "write"
  <2>1. CASE \A j \in Slot : mem[j] = Blank
    <3>1. k = Last
      BY <1>1, <1>3, <2>1 DEF Found
    <3> QED
      BY <1>1, <1>2, <1>3, <2>1, <3>1 DEF LogShape
  <2>2. CASE phase = "idle" /\ \A j \in Slot : mem[j] # Blank <=> j <= index
    <3>1. k = index
      BY <1>1, <1>3, <2>2 DEF Found
    <3> QED
      BY <1>1, <1>2, <1>3, <2>2, <3>1 DEF LogShape
  <2>3. CASE phase = "erase" /\ \A j \in Slot : mem[j] # Blank
    <3>1. k = Last
      BY <1>1, <1>3, <2>3 DEF Found
    <3> QED
      BY <1>1, <1>2, <1>3, <2>3, <3>1 DEF LogShape
  <2> QED
    <3>1. CASE phase = "idle"
      <4>1. \/ \A j \in Slot : mem[j] = Blank
            \/ \A j \in Slot : mem[j] # Blank <=> j <= index
        BY <3>1 DEF LogShape
      <4> QED
        BY <3>1, <4>1, <2>1, <2>2
    <3>2. CASE phase = "erase"
      BY <3>2, <2>1, <2>3 DEF LogShape
    <3> QED
      BY <1>3, <3>1, <3>2
<1>4. CASE mem' = mem /\ phase = "write"
  BY <1>1, <1>2, <1>4 DEF Found, LogShape
<1>5. CASE phase = "write" /\ mem' = [mem EXCEPT ![index] = Torn]
  BY <1>1, <1>2, <1>5 DEF Found, LogShape
<1> QED
  BY <1>3, <1>4, <1>5 DEF Crash

LEMMA StepShape == LogInv /\ [Next]_vars => LogShape'
<1> SUFFICES ASSUME LogInv, [Next]_vars PROVE LogShape'
  OBVIOUS
<1> USE FlashLogAssumption DEF LogInv, TypeOK, LogShape, Slot
<1>1. ASSUME NEW v \in Value, Store(v) PROVE LogShape'
  <2>1. /\ phase = "idle" /\ mem' = mem /\ index' = NextIndex(index)
        /\ phase' = IF index' = 0 THEN "erase" ELSE "write"
    BY <1>1 DEF Store
  <2>2. CASE index = Last
    <3>1. index' = 0 /\ phase' = "erase"
      BY <2>1, <2>2 DEF NextIndex
    <3>2. \/ \A k \in Slot : mem[k] = Blank
          \/ \A k \in Slot : mem[k] # Blank
      BY <2>1, <2>2
    <3> QED
      BY <2>1, <3>1, <3>2
  <2>3. CASE index # Last
    <3>1. index' = index + 1 /\ phase' = "write"
      BY <2>1, <2>3 DEF NextIndex
    <3>2. \A k \in Slot : mem[k] # Blank <=> k <= index
      BY <2>1, <2>3
    <3> QED
      BY <2>1, <3>1, <3>2
  <2> QED
    BY <2>2, <2>3
<1>2. CASE EraseSector
  BY <1>2 DEF EraseSector
<1>3. CASE WritePage
  <2>1. mem[index] = Blank
    BY <1>3 DEF WritePage
  <2>2. mem' = [mem EXCEPT ![index] = data] /\ data # Blank
    BY <1>3, <2>1 DEF WritePage, Programmed
  <2> QED
    BY <1>3, <2>2 DEF WritePage
<1>4. CASE Crash
  BY <1>4, CrashShape
<1>5. CASE UNCHANGED vars
  BY <1>5 DEF vars
<1> QED
  BY <1>1, <1>2, <1>3, <1>4, <1>5 DEF Next

LEMMA LogInvariant == Spec => []LogInv
<1>1. LogInv /\ [Next]_vars => LogInv'
  BY StepType, StepShape DEF LogInv
<1> QED
  BY InitLog, <1>1, PTL DEF Spec

-----------------------------------------------------------------------------
\* Every variable of the log keeps its range, in particular the index never
\* leaves the sector.
THEOREM LogTypeCorrect == Spec => []TypeOK
BY LogInvariant, PTL DEF LogInv

\* flash_user_store never programs a block that is not erased, however
\* stores, wraps and power failures follow one another.
THEOREM NeverOverwrites == Spec => []WriteOnErased
<1>1. LogInv => WriteOnErased
  BY FlashLogAssumption DEF LogInv, TypeOK, LogShape, WriteOnErased, Slot
<1> QED
  BY LogInvariant, <1>1, PTL

\* At rest, the index in RAM is the one flash_user_get_flash_index would find
\* after a restart: what was stored last is what is restored.
THEOREM RestartFindsLast == Spec => []ScanAgrees
<1>1. LogInv => ScanAgrees
  BY FlashLogAssumption
     DEF LogInv, TypeOK, LogShape, ScanAgrees, Found, Slot
<1> QED
  BY LogInvariant, <1>1, PTL

-----------------------------------------------------------------------------
(* The log implements the durable cell.                                    *)

LEMMA CellInit == Init => Cell!Init
BY FlashLogAssumption DEF Init, Cell!Init, Current, Written, Latest, Slot

LEMMA CellStore ==
    ASSUME LogInv, NEW v \in Value, Store(v)
    PROVE  Cell!Begin(v)
<1> USE FlashLogAssumption DEF LogInv, TypeOK, LogShape, Slot
<1>1. phase = "idle" /\ data = None /\ data' = v /\ mem' = mem
  BY DEF Store
<1>2. Current' = Current
  BY <1>1 DEF Store, NextIndex, Current, Latest
<1>3. Written' = Written
  BY <1>1 DEF Store, NextIndex, Written, Latest
<1> QED
  BY <1>1, <1>2, <1>3 DEF Cell!Begin

\* Erasing a full sector is the loss; a sector that was still blank after its
\* first use has nothing to lose.
LEMMA CellErase ==
    ASSUME LogInv, EraseSector
    PROVE  Cell!Lose \/ UNCHANGED Cell!vars
<1> USE FlashLogAssumption DEF LogInv, TypeOK, LogShape, Slot
<1>1. /\ phase = "erase" /\ phase' = "write" /\ index = 0 /\ index' = 0
      /\ data' = data /\ data # None
      /\ mem' = [k \in Slot |-> Blank]
  BY DEF EraseSector
<1>2. Current' = Blank /\ Written' = 0
  BY <1>1 DEF Current, Written, Latest
<1>3. CASE mem[0] = Blank
  BY <1>1, <1>2, <1>3 DEF Cell!vars, Current, Written, Latest
<1>4. CASE mem[0] # Blank
  BY <1>1, <1>2, <1>4 DEF Cell!Lose, Current, Written, Latest
<1> QED
  BY <1>3, <1>4

LEMMA CellWrite ==
    ASSUME LogInv, WritePage
    PROVE  Cell!Commit
<1> USE FlashLogAssumption DEF LogInv, TypeOK, LogShape, Slot
<1>1. /\ phase = "write" /\ phase' = "idle" /\ index' = index
      /\ data # None /\ data' = None
  BY DEF WritePage
<1>2. mem[index] = Blank
  BY <1>1
<1>3. mem' = [mem EXCEPT ![index] = data] /\ data # Blank
  BY <1>2 DEF WritePage, Programmed
<1>4. Written = index /\ Written < Last + 1
  BY <1>1 DEF Written, Latest
<1>5. mem'[0] # Blank
  BY <1>1, <1>3
<1>6. Current' = data /\ Written' = Written + 1
  BY <1>1, <1>3, <1>4, <1>5 DEF Current, Written, Latest
<1> QED
  BY <1>1, <1>4, <1>6 DEF Cell!Commit

LEMMA CellCrash ==
    ASSUME LogInv, Crash
    PROVE  Cell!Abandon \/ UNCHANGED Cell!vars
<1> USE FlashLogAssumption DEF LogInv, TypeOK, LogShape, Slot
<1>1. PICK k \in Slot : Found(mem', k) /\ index' = k
  BY DEF Crash
<1>2. phase' = "idle" /\ data' = None
  BY DEF Crash
<1>3. CASE phase = "idle"
  <2>1. mem' = mem
    BY <1>3 DEF Crash
  <2>2. index' = index
    BY <1>1, <1>3, <2>1 DEF Found
  <2> QED
    BY <1>2, <1>3, <2>1, <2>2 DEF Cell!vars, Current, Written, Latest
<1>4. CASE phase = "erase"
  <2>1. mem' = mem
    BY <1>4 DEF Crash
  <2>2. index' = Last
    BY <1>1, <1>4, <2>1 DEF Found
  <2>3. Current' = Current /\ Written' = Written
    BY <1>2, <1>4, <2>1, <2>2 DEF Current, Written, Latest
  <2> QED
    BY <1>2, <1>4, <2>3 DEF Cell!Abandon
<1>5. CASE phase = "write" /\ mem' = mem
  <2>1. index' = IF index = 0 THEN Last ELSE index - 1
    BY <1>1, <1>5 DEF Found
  <2>2. Current' = Current /\ Written' = Written
    BY <1>2, <1>5, <2>1 DEF Current, Written, Latest
  <2> QED
    BY <1>2, <1>5, <2>2 DEF Cell!Abandon
<1>6. CASE phase = "write" /\ mem' = [mem EXCEPT ![index] = Torn]
  <2>1. index' = index
    BY <1>1, <1>6 DEF Found
  <2>2. Current' = Torn /\ Written = index /\ Written' = Written + 1
    BY <1>2, <1>6, <2>1 DEF Current, Written, Latest
  <2> QED
    BY <1>2, <1>6, <2>2 DEF Cell!Abandon
<1> QED
  BY <1>3, <1>4, <1>5, <1>6 DEF Crash

\* Every store, wrap, erase and power failure of the log is a step of the
\* durable cell: a stored record is what a restart restores, and it is exposed
\* only while a full sector is being recycled.
THEOREM LogImplementsCell == Spec => ImplementsCell
<1>1. LogInv /\ [Next]_vars => [Cell!Next]_(Cell!vars)
  <2> SUFFICES ASSUME LogInv, [Next]_vars
               PROVE  Cell!Next \/ UNCHANGED Cell!vars
    OBVIOUS
  <2>1. ASSUME NEW v \in Value, Store(v) PROVE Cell!Next
    BY <2>1, CellStore DEF Cell!Next
  <2>2. CASE EraseSector
    BY <2>2, CellErase DEF Cell!Next
  <2>3. CASE WritePage
    BY <2>3, CellWrite DEF Cell!Next
  <2>4. CASE Crash
    BY <2>4, CellCrash DEF Cell!Next
  <2>5. CASE UNCHANGED vars
    BY <2>5 DEF vars, Cell!vars, Current, Written, Latest
  <2> QED
    BY <2>1, <2>2, <2>3, <2>4, <2>5 DEF Next
<1> QED
  BY LogInvariant, CellInit, <1>1, PTL DEF Spec, Cell!Spec, ImplementsCell
=============================================================================
