------------------------------- MODULE MtdScan --------------------------------
(***************************************************************************)
(* The table of MTD partitions (daemon/src/fs/mtdutils.c): filled from     *)
(* /proc/mtd by mtd_scan_partitions, searched by                           *)
(* mtd_find_partition_by_name.  Partitions come and go between two scans.  *)
(***************************************************************************)
EXTENDS Integers, FiniteSets

CONSTANTS
    Slots,       \* entries of g_mtd_state.partitions (32 in the code)
    Numbers,     \* the numbers of MTD devices
    Names,
    ReadLimit,   \* how many lines fit in buf
    None

ScanAssumption ==
    /\ Slots \in Nat
    /\ Numbers = 0 .. Slots - 1
    /\ ReadLimit \in Nat
    /\ None \notin Names

VARIABLES
    proc,    \* external: /proc/mtd, the name on the line of each device, or None
    table,   \* name of each slot, or None (device_index -1)
    count,   \* partition_count
    seen     \* history: /proc/mtd as the last scan found it, if it could be read

vars == <<proc, table, count, seen>>

Cleared == [i \in 0 .. Slots - 1 |-> None]
Listed(p) == {i \in Numbers : p[i] # None}

Init ==
    /\ proc \in [Numbers -> Names \cup {None}]
    /\ table = Cleared /\ count = -1
    /\ seen = [i \in Numbers |-> None]

\* External: a device appears, goes, or is given another name.
Change ==
    /\ proc' \in [Numbers -> Names \cup {None}]
    /\ UNCHANGED <<table, count, seen>>

\* Slip: the entries of the last scan stay.
StartFromOld == table

\* The table a scan starts from: all names freed.
StartFrom == Cleared

\* The lines that fit in the buffer, each with its device.
Read == {i \in Listed(proc) : Cardinality({j \in Listed(proc) : j < i}) < ReadLimit}

\* mtd_scan_partitions
Scan ==
    /\ table' = [i \in DOMAIN table |-> IF i \in Read THEN proc[i] ELSE StartFrom[i]]
    /\ count' = Cardinality(Read)
    /\ seen' = [i \in Numbers |-> IF i \in Read THEN proc[i] ELSE None]
    /\ UNCHANGED proc

\* /proc/mtd cannot be opened or read.
ScanFails ==
    /\ table' = StartFrom /\ count' = -1
    /\ seen' = [i \in Numbers |-> None]
    /\ UNCHANGED proc

Next == Change \/ Scan \/ ScanFails

Spec == Init /\ [][Next]_vars

Matches(name) == {i \in DOMAIN table : table[i] = name}

\* mtd_find_partition_by_name
Find(name) ==
    IF Matches(name) = {} THEN None
    ELSE CHOOSE i \in Matches(name) : \A j \in Matches(name) : i <= j

\* A partition that is found is one that the last scan saw under that name,
\* never one of an earlier scan; one that it saw is found, even after a
\* failed scan has cleared the table or when the numbers have gaps.
FoundIsSeen ==
    \A n \in Names :
        IF \E i \in Numbers : seen[i] = n THEN seen[Find(n)] = n
                                          ELSE Find(n) = None
===============================================================================
