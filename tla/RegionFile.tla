------------------------------ MODULE RegionFile ----------------------------
(***************************************************************************)
(* A region file (streams/region/region_file.rs): a header with one lookup *)
(* table entry per block slot, then sectors of data.  A save appends the   *)
(* block, rewrites it in place, or moves every later sector down to shrink *)
(* or relocate it; the table in memory follows, and the header is written  *)
(* last.  One handle at a time, as SharedRegionFile's mutex gives it.      *)
(*                                                                         *)
(* Every call on the file is a step.  It may fail after writing a part, or *)
(* the process may die in it; what was written stays written (a power loss *)
(* that reorders writes is not modelled, the code never syncs).  A cell is *)
(* the unit of data: a payload is the cells <<save, 1>>, <<save, 2>>, ...  *)
(* of which the first is its length prefix, and Zero is a zeroed cell.     *)
(***************************************************************************)
EXTENDS Integers, Sequences, FiniteSets

CONSTANTS
    SlotCount,      \* block slots of the region, in the order of the table
    SectorSize,     \* cells in a sector
    Misalignments,  \* what blocks_begin_offset % sector_size may be
    MaxSectorCount, \* MAX_SECTOR_COUNT
    Sizes,          \* cells a payload may take, its length prefix included
    MaxSaves,       \* bound: saves
    MaxFaults       \* bound: calls that fail or in which the process dies

ASSUME RegionAssumption ==
    /\ {SlotCount, SectorSize, MaxSectorCount} \subseteq Nat \ {0}
    /\ Misalignments \subseteq 0..(SectorSize - 1)
    /\ Sizes \subseteq Nat \ {0}
    /\ {MaxSaves, MaxFaults} \subseteq Nat

VARIABLES
    misalign, \* blocks_begin_offset % sector_size of this format
    header,   \* on disk: "none" (no file), "cut" (file ends in the header), "whole"
    disk_lut, \* on disk: the table
    data,     \* on disk: the cells after the header
    lut,      \* header.blocks
    sectors,  \* sectors.len(): nothing else of the reverse map is read
    pc,       \* "closed", "create", "idle" or the next file call of a save
    op,       \* the save under way
    sizes,    \* sizes[v]: the cells of the v-th save
    faults,
    acked,    \* acked[s]: the last save of slot s that returned Ok
    suspect,  \* slots a save that did not return Ok may have damaged
    torn,     \* the table on disk mixes two tables
    gapped,   \* ... and so does the one in memory, read from it
    stopped   \* the save that first stopped with sectors moving, 0 for none

disk  == <<header, disk_lut, data>>
table == <<lut, sectors>>
ghost == <<acked, suspect, torn, gapped, stopped>>
vars  == <<misalign, disk, table, pc, op, sizes, faults, ghost>>

Slots == 1..SlotCount
Zero  == <<0, 0>>
NoOp  == [slot |-> 1, save |-> 0, before |-> [index |-> 0, count |-> 0], freed |-> 0, behind |-> {}]

-----------------------------------------------------------------------------
(* The lookup table *)

Empty == [index |-> 0, count |-> 0]

Present(l, s) == l[s].count > 0

End(l, s) == l[s].index + l[s].count

Interval(l, s) == l[s].index .. End(l, s) - 1

Behind_NotAdjacent(l, s) == {t \in Slots : Present(l, t) /\ l[t].index > End(l, s)}

\* The slots stored after slot s.
Behind(l, s) == {t \in Slots : Present(l, t) /\ l[t].index > l[s].index}

\* The entries as a shift leaves them that takes n sectors from slot s.
Shrunk(l, s, n) ==
    [t \in Slots |->
        CASE t = s -> IF l[s].count = n THEN Empty ELSE [l[s] EXCEPT !.count = @ - n]
          [] t \in Behind(l, s) -> [l[t] EXCEPT !.index = @ - n]
          [] OTHER -> l[t]]

Overlap(l, s, t) == s # t /\ Present(l, s) /\ Present(l, t) /\ l[s].index < End(l, t) /\ l[t].index < End(l, s)

Occupied(l) == UNION {Interval(l, s) : s \in Slots}

\* What the code relies on: the blocks fill the first n sectors, each its own.
Tight(l, n) ==
    /\ \A s, t \in Slots : ~Overlap(l, s, t)
    /\ Occupied(l) = 0..(n - 1)

SectorCapacity_Floor == Len(data) \div SectorSize

SectorCapacity == (Len(data) + SectorSize - 1) \div SectorSize

\* load_header finds a whole header, validate_lut no entry out of the file or over another.
Opens ==
    /\ header = "whole"
    /\ \A s \in Slots : Present(disk_lut, s) => End(disk_lut, s) <= SectorCapacity
    /\ \A s, t \in Slots : ~Overlap(disk_lut, s, t)

-----------------------------------------------------------------------------
(* The file *)

Payload(v) == [i \in 1..sizes[v] |-> <<v, i>>]

SectorsFor(size) == (size + SectorSize - 1) \div SectorSize

\* The data after cells are written at offset p; a hole is zero-filled.
Written(p, cells) ==
    IF cells = <<>> THEN data
    ELSE [i \in 1..(IF p + Len(cells) > Len(data) THEN p + Len(cells) ELSE Len(data)) |->
            IF p < i /\ i <= p + Len(cells) THEN cells[i - p]
            ELSE IF i <= Len(data) THEN data[i] ELSE Zero]

\* Every prefix of cells that a write may leave behind when it does not complete.
Parts(cells) == {SubSeq(cells, 1, k) : k \in 0..Len(cells)}

\* What load_block returns through table l: 0 BlockNotFound, a save whose
\* payload is read whole, or -1 for an error or garbage.
LoadBlock(l, s) ==
    LET begin == l[s].index * SectorSize
        v     == data[begin + 1][1]
    IN  CASE ~Present(l, s) -> 0
          [] /\ Present(l, s) /\ begin < Len(data)
             /\ data[begin + 1] # Zero /\ data[begin + 1][2] = 1
             /\ sizes[v] <= l[s].count * SectorSize
             /\ begin + sizes[v] <= Len(data)
             /\ SubSeq(data, begin + 1, begin + sizes[v]) = Payload(v) -> v
          [] OTHER -> -1

-----------------------------------------------------------------------------
(* Opening and closing *)

Init ==
    /\ misalign \in Misalignments
    /\ header = "none" /\ disk_lut = [s \in Slots |-> Empty] /\ data = <<>>
    /\ lut = [s \in Slots |-> Empty] /\ sectors = 0
    /\ pc = "closed" /\ op = NoOp /\ sizes = <<>> /\ faults = 0
    /\ acked = [s \in Slots |-> 0] /\ suspect = {}
    /\ torn = FALSE /\ gapped = FALSE /\ stopped = 0

\* open_with_format: an existing file is read and its sector map rebuilt.
Open ==
    /\ pc = "closed" /\ Opens
    /\ lut' = disk_lut /\ sectors' = Cardinality(Occupied(disk_lut))
    /\ pc' = "idle" /\ gapped' = torn
    /\ UNCHANGED <<misalign, disk, op, sizes, faults, acked, suspect, torn, stopped>>

\* BadHeader, now and every time it is tried again.
Refuse ==
    /\ pc = "closed" /\ header # "none" /\ ~Opens
    /\ UNCHANGED vars

\* ... and a missing one is created empty before its header is written.
Create ==
    /\ pc = "closed" /\ header = "none"
    /\ header' = "cut" /\ pc' = "create"
    /\ lut' = [s \in Slots |-> Empty] /\ sectors' = 0
    /\ UNCHANGED <<misalign, disk_lut, data, op, sizes, faults, ghost>>

FinishCreate ==
    /\ pc = "create"
    /\ header' = "whole" /\ disk_lut' = lut /\ pc' = "idle"
    /\ UNCHANGED <<misalign, data, table, op, sizes, faults, ghost>>

\* close, or the drop of the handle: header_dirty is never set, so nothing is written.
Close ==
    /\ pc = "idle" /\ pc' = "closed"
    /\ lut' = [s \in Slots |-> Empty] /\ sectors' = 0 /\ gapped' = FALSE
    /\ UNCHANGED <<misalign, disk, op, sizes, faults, acked, suspect, torn, stopped>>

-----------------------------------------------------------------------------
(* save_block *)

BeginSave(s, size) ==
    /\ pc = "idle" /\ Len(sizes) < MaxSaves
    /\ sizes' = Append(sizes, size)
    /\ LET old == lut[s]
           new == SectorsFor(size)
           n   == CASE new < old.count -> old.count - new
                    [] new > old.count -> old.count
                    [] OTHER -> 0
       IN  /\ op' = [slot |-> s, save |-> Len(sizes) + 1, before |-> old, freed |-> n,
                     behind |-> IF n = 0 THEN {} ELSE Behind(lut, s)]
           /\ pc' = CASE n > 0 -> "shift"
                      [] new = old.count -> "rewrite"
                      [] OTHER -> "append"
    /\ UNCHANGED <<misalign, disk, table, faults, ghost>>

ShiftFrom == (op.before.index + op.before.count) * SectorSize

ShiftTo_OwnStart == op.before.index * SectorSize

ShiftTo == ShiftFrom - op.freed * SectorSize
Rest == SubSeq(data, ShiftFrom + 1, Len(data))

\* remove_sectors_from_block reads what follows the block and writes it lower.
Shift ==
    /\ pc = "shift"
    /\ data' = Written(ShiftTo, Rest) /\ pc' = "truncate"
    /\ UNCHANGED <<misalign, header, disk_lut, table, op, sizes, faults, ghost>>

Doubt == IF op = NoOp THEN suspect ELSE suspect \cup {op.slot} \cup op.behind

StoppedAt(moving) == IF stopped = 0 /\ moving THEN Len(sizes) + 1 ELSE stopped

\* An error leaves save_block: the handle stays, its table as it is.
Abort ==
    /\ pc' = "idle" /\ op' = NoOp
    /\ suspect' = Doubt /\ stopped' = StoppedAt(op.freed > 0)

\* sectors.len() once the freed ones are drained.
Drained == sectors - op.freed

\* The file is cut by the sectors freed, which may reach into the header of a
\* file whose last sector is short; then the table is updated, slot by slot
\* up to an index that would underflow, and the reverse map drained.
Truncate ==
    LET length == Len(data) - op.freed * SectorSize
        new    == Shrunk(lut, op.slot, op.freed)
        end    == op.before.index + op.before.count
    IN  /\ pc = "truncate"
        /\ data' = SubSeq(data, 1, length)
        /\ header' = IF length < 0 THEN "cut" ELSE header
        /\ disk_lut' = [s \in Slots |-> IF s > SlotCount + length THEN Empty ELSE disk_lut[s]]
        /\ torn' = (torn \/ length < 0)
        /\ \/ /\ \A s \in Slots : new[s].index >= 0
              /\ end <= sectors
              /\ lut' = new /\ sectors' = Drained
              /\ pc' = IF new[op.slot].count = 0 THEN "append" ELSE "rewrite"
              /\ UNCHANGED <<op, suspect, stopped>>
           \/ /\ (\E s \in Slots : new[s].index < 0) \/ end > sectors
              /\ lut' = [s \in Slots |-> IF s = op.slot \/ \A t \in 1..s : new[t].index >= 0
                                         THEN new[s] ELSE lut[s]]
              /\ Abort /\ UNCHANGED sectors
        /\ UNCHANGED <<misalign, sizes, faults, acked, gapped>>

\* write_payload at the end of the sectors.
WritePayload ==
    /\ pc = "append"
    /\ data' = Written(sectors * SectorSize, Payload(op.save))
    /\ header' = "whole" /\ pc' = "pad"
    /\ UNCHANGED <<misalign, disk_lut, table, op, sizes, faults, ghost>>

\* pad_to_sector_size: the position in the file, not in the data, is rounded up.
PadCells ==
    LET size == sizes[op.save]
        over == (misalign + sectors * SectorSize + size) % SectorSize
    IN  [i \in 1..(IF over = 0 THEN 0 ELSE SectorSize - over) |-> Zero]

Pad ==
    LET n == SectorsFor(sizes[op.save])
    IN  /\ pc = "pad"
        /\ data' = Written(sectors * SectorSize + sizes[op.save], PadCells)
        /\ \/ /\ n <= MaxSectorCount
              /\ lut' = [lut EXCEPT ![op.slot] = [index |-> sectors, count |-> n]]
              /\ sectors' = sectors + n
              /\ pc' = "header"
              /\ UNCHANGED <<op, suspect, stopped>>
           \/ n > MaxSectorCount /\ Abort /\ UNCHANGED table
        /\ UNCHANGED <<misalign, header, disk_lut, sizes, faults, acked, torn, gapped>>

RewriteOffset == op.before.index * SectorSize

Rewrite ==
    /\ pc = "rewrite"
    /\ data' = Written(RewriteOffset, Payload(op.save)) /\ pc' = "header"
    /\ UNCHANGED <<misalign, header, disk_lut, table, op, sizes, faults, ghost>>

\* save_header and the flush: save_block returns Ok.
SaveHeader ==
    /\ pc = "header"
    /\ disk_lut' = lut /\ header' = "whole" /\ torn' = gapped
    /\ pc' = "idle" /\ op' = NoOp
    /\ acked' = [acked EXCEPT ![op.slot] = op.save]
    /\ suspect' = IF gapped THEN suspect ELSE suspect \ {op.slot}
    /\ UNCHANGED <<misalign, data, table, sizes, faults, gapped, stopped>>

-----------------------------------------------------------------------------
(* Failing calls and crashes *)

\* The call under way returns an error, or the process dies in it.
Interrupted ==
    /\ faults < MaxFaults /\ faults' = faults + 1
    /\ op' = NoOp /\ suspect' = Doubt
    /\ stopped' = StoppedAt(op.freed > 0 \/ pc = "create")
    /\ \/ /\ pc' = IF pc = "create" THEN "closed" ELSE "idle"
          /\ UNCHANGED <<table, gapped>>
       \/ /\ pc' = "closed" /\ gapped' = FALSE
          /\ lut' = [s \in Slots |-> Empty] /\ sectors' = 0
    /\ UNCHANGED <<misalign, sizes, acked>>

\* A write of cells at p stops early.
PartialWrite(step, p, cells) ==
    /\ pc = step
    /\ \E part \in Parts(cells) :
        /\ data' = Written(p, part)
        /\ header' = IF part = <<>> THEN header ELSE "whole"
    /\ Interrupted /\ UNCHANGED <<disk_lut, torn>>

\* set_len fails, or the creation of the file stops before its header.
NoWrite ==
    /\ pc \in {"truncate", "create"}
    /\ Interrupted /\ UNCHANGED <<disk, torn>>

\* The header's write stops after the entries before slot n.
PartialHeader ==
    /\ pc = "header" /\ header' = header /\ data' = data
    /\ \E n \in 1..(SlotCount + 1) :
        /\ disk_lut' = [s \in Slots |-> IF s < n THEN lut[s] ELSE disk_lut[s]]
        /\ torn' = CASE disk_lut' = lut -> gapped
                     [] disk_lut' # lut /\ disk_lut' = disk_lut -> torn
                     [] OTHER -> TRUE
    /\ Interrupted

Fault ==
    \/ PartialWrite("shift", ShiftTo, Rest)
    \/ PartialWrite("append", sectors * SectorSize, Payload(op.save))
    \/ PartialWrite("pad", sectors * SectorSize + sizes[op.save], PadCells)
    \/ PartialWrite("rewrite", RewriteOffset, Payload(op.save))
    \/ NoWrite
    \/ PartialHeader

Next ==
    \/ Open \/ Refuse \/ Create \/ FinishCreate \/ Close
    \/ \E s \in Slots, size \in Sizes : BeginSave(s, size)
    \/ Shift \/ Truncate \/ WritePayload \/ Pad \/ Rewrite \/ SaveHeader
    \/ Fault

Spec == Init /\ [][Next]_vars

-----------------------------------------------------------------------------
(* Properties *)

Save == 0..MaxSaves
Info == [index : Nat, count : Nat]

\* The shape of the state.
TypeOK ==
    /\ misalign \in Misalignments
    /\ header \in {"none", "cut", "whole"}
    /\ disk_lut \in [Slots -> Info] /\ lut \in [Slots -> Info]
    /\ sectors \in Nat
    /\ data \in Seq(Save \X Nat)
    /\ pc \in {"closed", "create", "idle", "shift", "truncate", "append", "pad", "rewrite", "header"}
    /\ op \in [slot : Slots, save : Save, before : Info, freed : Nat, behind : SUBSET Slots]
    /\ sizes \in Seq(Sizes) /\ Len(sizes) \in Save
    /\ faults \in 0..MaxFaults
    /\ acked \in [Slots -> Save] /\ suspect \subseteq Slots
    /\ stopped \in 0..(MaxSaves + 1) /\ {torn, gapped} \subseteq BOOLEAN

\* Through every save, shift, failed call, crash and reopening the table in
\* memory gives each sector below sectors.len() to exactly one block, and so
\* does the table on disk for its own number of sectors; only a header write
\* that stopped between two entries of different tables can break it.
TablesTight ==
    /\ TypeOK
    /\ pc # "closed" /\ ~gapped => Tight(lut, sectors)
    /\ ~torn => Tight(disk_lut, Cardinality(Occupied(disk_lut)))

\* The payload leaves the last misalign cells of its last sector unused.  One
\* that does not may lose its end without any failure: padding rounds the
\* position in the file (region_file.rs:430) while sectors start behind the
\* header, so the last sector of the file stays short, and when its block is
\* saved again, whole sectors are cut off a file that ends within one.
ClearOfPadding(s) == (sizes[acked[s]] - 1) % SectorSize < SectorSize - misalign

\* A block whose last save returned Ok reads back as saved, whatever happened
\* to other blocks since: a save that failed, ran out of sectors or died can
\* harm its own block and, when it had to move sectors, those stored behind
\* it, and no other.  Three exceptions: padding (ClearOfPadding); the saves
\* after one that stopped with sectors moving, whose last sector may be short
\* so that the next relocation cuts into the block before it; and a handle
\* opened on a torn table, whose reverse map leaves the gaps out
\* (rebuild_sectors, region_file.rs:408), so that a block is appended over
\* the last one.
SavedBlocksReadBack ==
    pc = "idle" /\ stopped \in {0, Len(sizes) + 1} /\ ~gapped =>
        \A s \in Slots \ suspect :
            acked[s] = 0 \/ ClearOfPadding(s) => LoadBlock(lut, s) = acked[s]

\* The file opens again after every failure and crash of a save that moved no
\* sectors and of which no header write was cut in two.
FileOpensAgain ==
    pc = "closed" /\ stopped = 0 /\ ~torn /\ header # "none" => Opens
=============================================================================
