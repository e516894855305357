---------------------------- MODULE FlushBuffer ----------------------------
(***************************************************************************)
(* Where the bytes of the commit log go: one flush_buffer with its two     *)
(* positions (_offset, and the cursor of its data_output), and the file    *)
(* do_flush_one_buffer writes it to.                                       *)
(*                                                                         *)
(* A cell stands for some bytes of equal count.  It is Blank, part of the  *)
(* header of a record, which carries the CRC, here the cells it was        *)
(* computed from, or part of a serialized mutation.                        *)
(***************************************************************************)
EXTENDS Integers, Sequences

CONSTANTS HEADER_SIZE,
          Sizes,     \* the sizes of serialized mutations
          OUTPUT_BUFFER_ALIGNMENT,
          FLUSH_BUFFER_SIZE,
          FileSize   \* bound: the size of the file

ASSUME FlushBufferAssumption ==
    /\ HEADER_SIZE \in Nat \ {0} /\ Sizes \subseteq Nat
    /\ OUTPUT_BUFFER_ALIGNMENT \in Nat \ {0}
    /\ FLUSH_BUFFER_SIZE \in Nat /\ FLUSH_BUFFER_SIZE % OUTPUT_BUFFER_ALIGNMENT = 0
    /\ FileSize \in Nat

VARIABLES flush_phase,  \* "fill", "flush" or "flushed"
          mem,          \* the memory of the buffer
          _offset,
          _output,      \* where it writes
          _written,
          disk,         \* the cells of the file
          _file_offset,
          base,         \* _file_offset when the flush began (auxiliary)
          records       \* number of appends so far (auxiliary)

flushVars == <<flush_phase, mem, _offset, _output, _written, disk, _file_offset, base, records>>

Blank == <<"blank">>
HeaderCell(r, i, crc) == <<"header", r, i, crc>>
MutationCell(r, i) == <<"mutation", r, i>>

FlushInit ==
    /\ flush_phase = "fill"
    /\ mem = [p \in 0 .. FLUSH_BUFFER_SIZE - 1 |-> Blank]
    /\ _offset = 0 /\ _output = 0 /\ _written = 0
    /\ disk = [p \in 0 .. FileSize - 1 |-> Blank]
    /\ _file_offset = 0 /\ base = 0
    /\ records = 0

align_up(n) == ((n + OUTPUT_BUFFER_ALIGNMENT - 1) \div OUTPUT_BUFFER_ALIGNMENT) * OUTPUT_BUFFER_ALIGNMENT
align_down(n) == (n \div OUTPUT_BUFFER_ALIGNMENT) * OUTPUT_BUFFER_ALIGNMENT

(* m with the cells c[0], c[1], ... from position p on.                    *)
Overwrite(m, p, c) == [q \in DOMAIN m |-> IF q - p \in DOMAIN c THEN c[q - p] ELSE m[q]]

-----------------------------------------------------------------------------
(* A mutation of size n for which there is room is put into the buffer:    *)
(* skip(HEADER_SIZE) moves the offset, write() encodes at the cursor, the  *)
(* CRC is computed from the cells at the offset, and the header is filled. *)
write_record(n) ==
    LET r      == records + 1
        record == _offset + HEADER_SIZE
        mem1   == Overwrite(mem, _output, [i \in 0 .. n - 1 |-> MutationCell(r, i)])
        crc    == [i \in 1 .. n |-> mem1[record + i - 1]]
    IN  /\ flush_phase = "fill"
        /\ _offset + HEADER_SIZE + n <= FLUSH_BUFFER_SIZE
        /\ _output + n <= FLUSH_BUFFER_SIZE
        /\ mem' = Overwrite(mem1, _offset, [i \in 0 .. HEADER_SIZE - 1 |-> HeaderCell(r, i, crc)])
        /\ _offset' = _offset + HEADER_SIZE + n
        /\ _output' = _output + n
        /\ records' = r
        /\ UNCHANGED <<flush_phase, _written, disk, _file_offset, base>>

(* data_output has no room behind its cursor and throws, behind skip() and *)
(* perhaps some of the fields.                                             *)
write_record_throws(n) ==
    /\ flush_phase = "fill"
    /\ _offset + HEADER_SIZE + n <= FLUSH_BUFFER_SIZE
    /\ _output + n > FLUSH_BUFFER_SIZE
    /\ \E k \in 0 .. FLUSH_BUFFER_SIZE - _output :
         /\ mem' = Overwrite(mem, _output, [i \in 0 .. k - 1 |-> MutationCell(records + 1, i)])
         /\ _output' = _output + k
    /\ _offset' = _offset + HEADER_SIZE
    /\ records' = records + 1
    /\ UNCHANGED <<flush_phase, _written, disk, _file_offset, base>>

(* The flush loop has taken the buffer; file space is the model's bound.   *)
start_flush ==
    /\ flush_phase = "fill"
    /\ _file_offset + align_up(_offset) <= FileSize
    /\ flush_phase' = "flush"
    /\ base' = _file_offset
    /\ UNCHANGED <<mem, _offset, _output, _written, disk, _file_offset, records>>

\* Mutant: the position in the buffer does not advance with a short write.
flush_turn_KeepsPosition ==
    LET size == _offset - _written
        pad  == align_up(size) - size
    IN  /\ flush_phase = "flush"
        /\ mem' = Overwrite(mem, _offset, [i \in 0 .. pad - 1 |-> Blank])
        /\ \E k \in 0 .. align_up(size) \div OUTPUT_BUFFER_ALIGNMENT :
             /\ k = 0 <=> size = 0
             /\ disk' = Overwrite(disk, _file_offset, [i \in 0 .. k * OUTPUT_BUFFER_ALIGNMENT - 1 |-> mem'[i]])
             /\ _written' = _written + k * OUTPUT_BUFFER_ALIGNMENT
             /\ _file_offset' = _file_offset + align_down(k * OUTPUT_BUFFER_ALIGNMENT)
             /\ flush_phase' = IF _written' >= _offset THEN "flushed" ELSE "flush"
        /\ UNCHANGED <<_offset, _output, base, records>>

(* One turn of the loop of do_flush_one_buffer: the payload is filled up   *)
(* to the alignment, and a DMA write of it writes all of it or a part that *)
(* is a multiple of the alignment.                                         *)
flush_turn ==
    LET size == _offset - _written
        pad  == align_up(size) - size
    IN  /\ flush_phase = "flush"
        /\ mem' = Overwrite(mem, _offset, [i \in 0 .. pad - 1 |-> Blank])
        /\ \E k \in 0 .. align_up(size) \div OUTPUT_BUFFER_ALIGNMENT :
             /\ k = 0 <=> size = 0
             /\ disk' = Overwrite(disk, _file_offset, [i \in 0 .. k * OUTPUT_BUFFER_ALIGNMENT - 1 |-> mem'[_written + i]])
             /\ _written' = _written + k * OUTPUT_BUFFER_ALIGNMENT
             /\ _file_offset' = _file_offset + align_down(k * OUTPUT_BUFFER_ALIGNMENT)
             /\ flush_phase' = IF _written' >= _offset THEN "flushed" ELSE "flush"
        /\ UNCHANGED <<_offset, _output, base, records>>

(* The buffer is used again; _output is not reset.                         *)
reset_buffer ==
    /\ flush_phase = "flushed"
    /\ flush_phase' = "fill"
    /\ _offset' = 0 /\ _written' = 0
    /\ UNCHANGED <<mem, _output, disk, _file_offset, base, records>>

FlushNext ==
    \/ \E n \in Sizes : write_record(n) \/ write_record_throws(n)
    \/ start_flush
    \/ flush_turn
    \/ reset_buffer

FlushSpec == FlushInit /\ [][FlushNext]_flushVars

-----------------------------------------------------------------------------
FlushTypeOK ==
    /\ flush_phase \in {"fill", "flush", "flushed"}
    /\ DOMAIN mem = 0 .. FLUSH_BUFFER_SIZE - 1
    /\ _offset \in 0 .. FLUSH_BUFFER_SIZE /\ _output \in 0 .. FLUSH_BUFFER_SIZE /\ _written \in 0 .. FLUSH_BUFFER_SIZE
    /\ DOMAIN disk = 0 .. FileSize - 1
    /\ _file_offset \in 0 .. FileSize /\ base \in 0 .. FileSize
    /\ records \in Nat

(* DMA goes from an aligned position of the buffer to an aligned position  *)
(* of the file, after any sequence of short writes and of buffers.         *)
AlignedIO == _written % OUTPUT_BUFFER_ALIGNMENT = 0 /\ _file_offset % OUTPUT_BUFFER_ALIGNMENT = 0

(* However the writes are cut short, a flush that is done has put the      *)
(* whole of the buffer into the file, in order and in one piece.           *)
FileHoldsBuffer ==
    flush_phase = "flushed" => \A i \in 0 .. _offset - 1 : disk[base + i] = mem[i]

(* No part of a record that has reached the file is ever written over, by  *)
(* the rest of its own buffer or by a later one.                           *)
FileKept == [][\A p \in DOMAIN disk : disk[p] # Blank => disk'[p] = disk[p]]_flushVars

=============================================================================
