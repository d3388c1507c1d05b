-------------------------- MODULE PartitionLayout ---------------------------
(***************************************************************************)
(* Where the partitions of a firmware build lie (partition_layout of       *)
(* scripts/firmware_security.py).                                          *)
(*                                                                         *)
(* ESPHome writes partitions.csv with the offsets left out; the scripts    *)
(* work them out row by row as the ESP-IDF does, and trust the result when *)
(* they decide that a factory image stops before the NVS partition.  A     *)
(* step reads one row.  Comments and blank lines are left out.             *)
(***************************************************************************)
EXTENDS Integers, Sequences

CONSTANTS
    Names,           \* of partitions
    Implicit,        \* an offset that is left out
    ShortRow,        \* a row with fewer than five fields, or without its numbers
    Tables,          \* the tables that may be read
    TableOffset,     \* CONFIG_PARTITION_TABLE_OFFSET
    TableSize,       \* 0x1000
    DataAlignment,   \* 0x1000
    AppAlignment,    \* 0x10000
    Kilo             \* 1024

\* A size is a number and its suffix.
Row == [name : Names, app : BOOLEAN, offset : Nat \cup {Implicit},
        number : Nat, suffix : {"none", "K", "M"}]

ASSUME LayoutAssumption ==
    /\ Implicit \notin Int
    /\ ShortRow \notin Row
    /\ Tables \subseteq Seq(Row \cup {ShortRow})
    /\ {TableOffset, TableSize} \subseteq Nat
    /\ {DataAlignment, AppAlignment, Kilo} \subseteq Nat \ {0}

VARIABLES
    table,    \* the rows of the file
    row,      \* the row that is read next
    cursor,   \* where the rows before it end
    layout,   \* where the partitions named so far lie
    scan      \* "running", "accepted" or, when it raised, "rejected"

layoutVars == <<table, row, cursor, layout, scan>>

-----------------------------------------------------------------------------
ParseSize(r) ==
    CASE r.suffix = "none" -> r.number
      [] r.suffix = "K"    -> r.number * Kilo
      [] r.suffix = "M"    -> r.number * (Kilo * Kilo)

\* For a power of two this is what the code does with a mask.
Align(value, alignment) == ((value + alignment - 1) \div alignment) * alignment

Alignment(r) == IF r.app THEN AppAlignment ELSE DataAlignment

OffsetOf(r) == IF r.offset = Implicit THEN Align(cursor, Alignment(r)) ELSE r.offset

End(partition) == partition.start + partition.size

\* A bug to rule out: an implicit offset is taken as it comes.
PlacedUnaligned(r) ==
    [start |-> IF r.offset = Implicit THEN cursor ELSE r.offset, size |-> ParseSize(r)]

Placed(r) == [start |-> OffsetOf(r), size |-> ParseSize(r)]

With(map, name, partition) ==
    [n \in DOMAIN map \cup {name} |-> IF n = name THEN partition ELSE map[n]]

\* The state in which partition_layout begins to read t.
Begun(t) == [table |-> t, row |-> 1, cursor |-> TableOffset + TableSize,
             layout |-> <<>>, scan |-> "running"]

-----------------------------------------------------------------------------
\* A bug to rule out: an explicit offset is believed.
ResolveRowAnywhere ==
    /\ scan = "running"
    /\ row <= Len(table)
    /\ IF table[row] = ShortRow
       THEN scan' = "rejected" /\ UNCHANGED <<row, cursor, layout>>
       ELSE /\ layout' = With(layout, table[row].name, Placed(table[row]))
            /\ cursor' = End(Placed(table[row]))
            /\ row' = row + 1
            /\ UNCHANGED scan
    /\ UNCHANGED table

(***************************************************************************)
(* One row.  A name that comes twice keeps its last place.                 *)
(***************************************************************************)
ResolveRow ==
    /\ scan = "running"
    /\ row <= Len(table)
    /\ IF table[row] = ShortRow \/ Placed(table[row]).start < cursor
       THEN scan' = "rejected" /\ UNCHANGED <<row, cursor, layout>>
       ELSE /\ layout' = With(layout, table[row].name, Placed(table[row]))
            /\ cursor' = End(Placed(table[row]))
            /\ row' = row + 1
            /\ UNCHANGED scan
    /\ UNCHANGED table

FinishLayout ==
    /\ scan = "running"
    /\ row > Len(table)
    /\ scan' = "accepted"
    /\ UNCHANGED <<table, row, cursor, layout>>

LayoutInit ==
    \E t \in Tables :
        /\ table = t
        /\ row = Begun(t).row
        /\ cursor = Begun(t).cursor
        /\ layout = Begun(t).layout
        /\ scan = Begun(t).scan

LayoutNext == ResolveRow \/ FinishLayout

LayoutSpec == LayoutInit /\ [][LayoutNext]_layoutVars

-----------------------------------------------------------------------------
\* However offsets are given or left out, the partitions of a layout lie
\* behind the partition table and apart from one another.
PartitionsApart ==
    \A m \in DOMAIN layout :
        /\ layout[m].start >= TableOffset + TableSize
        /\ \A n \in DOMAIN layout \ {m} :
              End(layout[m]) <= layout[n].start \/ End(layout[n]) <= layout[m].start

\* The scan refuses a table only for a short row or for an offset that is
\* written in it: where the offsets are left out it finds a place for each
\* row, and an aligned one.
ImplicitRowsFit ==
    /\ scan = "rejected" => table[row] = ShortRow \/ table[row].offset # Implicit
    /\ \A i \in 1 .. row - 1 :
          table[i].offset = Implicit /\ (\A j \in i + 1 .. row - 1 : table[j].name # table[i].name)
              => layout[table[i].name].start % Alignment(table[i]) = 0
=============================================================================
