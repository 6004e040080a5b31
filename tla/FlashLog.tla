------------------------------ MODULE FlashLog ------------------------------
(***************************************************************************)
(* The one-sector record log of user/flash_user.c.  Every module that keeps*)
(* a record across restarts (relay state, on-time, energy, configuration,  *)
(* schedules) calls flash_user_store to append a block, and at start-up    *)
(* flash_user_get_flash_index to find the last one and flash_user_restore  *)
(* to read it.                                                             *)
(*                                                                         *)
(* Addresses are counted in blocks: slot k is the block at k * block_size, *)
(* Last the highest slot below flash_size.  A sector whose first block is  *)
(* blank gives the index flash_size - block_size, from which the next      *)
(* store wraps and a read finds blank flash, as from slot Last.            *)
(***************************************************************************)
EXTENDS Naturals

CONSTANTS
    Last,        \* the highest slot of the sector
    Value,       \* the records stored; none of them is all ones
    Blank,       \* an erased block: all ones
    Torn,        \* a block whose programming was cut short or overlaid
    None,
    MaxStores,   \* bound on the number of stores
    MaxCrashes   \* bound on the number of power failures

ASSUME FlashLogAssumption ==
    /\ Last \in Nat
    /\ Blank \notin Value /\ Torn \notin Value /\ Blank # Torn
    /\ None \notin Value \cup {Blank, Torn}
    /\ MaxStores \in Nat /\ MaxCrashes \in Nat

Slot == 0..Last

VARIABLES
    mem,      \* the sector
    index,    \* *flash_index
    phase,    \* how far flash_user_store has come
    data,     \* the record being stored
    stores, crashes

vars == <<mem, index, phase, data, stores, crashes>>

TypeOK ==
    /\ mem \in [Slot -> Value \cup {Blank, Torn}]
    /\ index \in Slot
    /\ phase \in {"idle", "erase", "write"}
    /\ data \in Value \cup {None}
    /\ phase = "idle" <=> data = None
    /\ stores \in 0..MaxStores
    /\ crashes \in 0..MaxCrashes

\* flash_user_get_flash_index: scan for the first blank block; the index is
\* that of the block before it.
Found(m, k) ==
    \/ m[0] = Blank /\ k = Last
    \/ /\ \A j \in 0..k : m[j] # Blank
       /\ k < Last => m[k + 1] = Blank

Init ==
    /\ mem = [k \in Slot |-> Blank]
    /\ index = Last
    /\ phase = "idle"
    /\ data = None
    /\ stores = 0
    /\ crashes = 0

\* Mutant: the last block of the sector is given up.
NextIndexEarly(k) == IF k + 1 >= Last THEN 0 ELSE k + 1

NextIndex(k) == IF k >= Last THEN 0 ELSE k + 1

\* flash_user_store: the index advances first, in RAM ...
Store(v) ==
    /\ phase = "idle"
    /\ stores < MaxStores
    /\ stores' = stores + 1
    /\ data' = v
    /\ index' = NextIndex(index)
    /\ phase' = IF index' = 0 THEN "erase" ELSE "write"
    /\ UNCHANGED <<mem, crashes>>

\* Mutant: the sector is not erased on the wrap.
EraseSectorSkipped ==
    /\ phase = "erase"
    /\ phase' = "write"
    /\ UNCHANGED <<mem, index, data, stores, crashes>>

\* ... the sector is erased when the log wraps ...
EraseSector ==
    /\ phase = "erase"
    /\ mem' = [k \in Slot |-> Blank]
    /\ phase' = "write"
    /\ UNCHANGED <<index, data, stores, crashes>>

\* Programming can only clear bits: over anything but a blank block it leaves
\* a mixture.
Programmed(old, new) == IF old = Blank THEN new ELSE Torn

\* ... and the block is programmed.
WritePage ==
    /\ phase = "write"
    /\ mem' = [mem EXCEPT ![index] = Programmed(@, data)]
    /\ phase' = "idle"
    /\ data' = None
    /\ UNCHANGED <<index, stores, crashes>>

\* Mutant: the restart does not look for the last record.
CrashNoScan ==
    /\ crashes < MaxCrashes
    /\ crashes' = crashes + 1
    /\ \/ mem' = mem
       \/ phase = "write" /\ mem' = [mem EXCEPT ![index] = Torn]
    /\ index' = 0
    /\ phase' = "idle"
    /\ data' = None
    /\ UNCHANGED stores

\* A power failure and the restart's scan.  Programming in progress may leave
\* its block untouched or torn; an erase is taken to happen or not.
Crash ==
    /\ crashes < MaxCrashes
    /\ crashes' = crashes + 1
    /\ \/ mem' = mem
       \/ phase = "write" /\ mem' = [mem EXCEPT ![index] = Torn]
    /\ \E k \in Slot : Found(mem', k) /\ index' = k
    /\ phase' = "idle"
    /\ data' = None
    /\ UNCHANGED stores

Next == EraseSector \/ WritePage \/ Crash \/ \E v \in Value : Store(v)

Spec == Init /\ [][Next]_vars

-----------------------------------------------------------------------------
\* The log never programs a block that is not erased, in whatever order
\* stores, wraps and power failures come.
WriteOnErased == phase = "write" => mem[index] = Blank

\* At rest, the index in RAM is the one the scan of a restart would find: the
\* record written last is the record restored.
ScanAgrees == phase = "idle" => Found(mem, index)

\* The records fill the sector from the front without gaps.
LogShape ==
    /\ phase = "idle"  => \/ \A k \in Slot : mem[k] = Blank /\ index = Last
                          \/ \A k \in Slot : mem[k] # Blank <=> k <= index
    /\ phase = "write" => \A k \in Slot : mem[k] # Blank <=> k < index
    /\ phase = "erase" => /\ index = 0
                          /\ \/ \A k \in Slot : mem[k] = Blank
                             \/ \A k \in Slot : mem[k] # Blank

-----------------------------------------------------------------------------
(* The log implements the durable cell.                                    *)

\* The slot a restart would restore from.
Latest ==
    IF phase = "idle" THEN index
    ELSE IF index = 0 THEN Last ELSE index - 1

Current == mem[Latest]

Written == IF mem[0] = Blank THEN 0 ELSE Latest + 1

Cell == INSTANCE DurableCell WITH
            cell <- Current, pending <- data, fill <- Written,
            Capacity <- Last + 1

\* The log is a durable cell: a stored record is what a restart restores, a
\* store cut short leaves the previous record or a torn one, and the record
\* is exposed to loss only while a full sector is being recycled.
ImplementsCell == Cell!Spec
=============================================================================
