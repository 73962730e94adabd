--------------------------- MODULE ReceivingBuffer ---------------------------
(***************************************************************************)
(* The byte buffer of utility/receiving_buffer.hpp, which both ends of the *)
(* serial line collect incoming bytes in.  A buffer is a record            *)
(*                                                                         *)
(*   [mem, read_index, write_index]                                        *)
(*                                                                         *)
(* and each method of the class is an operator from a buffer to a buffer   *)
(* (or to what the method returns).  As in the class, nothing is checked   *)
(* here: the callers must not commit more than they were offered, nor      *)
(* consume more than there is.                                             *)
(***************************************************************************)
EXTENDS Integers, Sequences

CONSTANT Capacity           \* the template parameter

ASSUME CapacityAssumption == Capacity \in Nat \ {0}

Cells == 0 .. Capacity - 1

\* Never stored by a driver: what an untouched cell holds.
Unwritten == -1

Buffers == [mem : [Cells -> Int], read_index : 0 .. Capacity,
            write_index : 0 .. Capacity]

EmptyBuffer ==
  [mem |-> [i \in Cells |-> Unwritten], read_index |-> 0, write_index |-> 0]

\* get_writable().size() and get_data().size()
WritableSize(b) == Capacity - b.write_index
DataSize(b) == b.write_index - b.read_index

\* get_data()[i]
DataByte(b, i) == b.mem[b.read_index + i]

(***************************************************************************)
(* The driver fills the first n bytes of get_writable() with the bytes     *)
(* first, first + 1, ... of the line, and the caller commits them.         *)
(***************************************************************************)
Store(b, first, n) ==
  [b EXCEPT !.mem = [i \in Cells |->
      IF b.write_index <= i /\ i < b.write_index + n
      THEN first + (i - b.write_index)
      ELSE b.mem[i]]]

Commit(b, n) == [b EXCEPT !.write_index = b.write_index + n]

\* A wrong consume that drops one byte too many, as a length that counts
\* the terminator of the message would.
ConsumeOneMore(b, n) == [b EXCEPT !.read_index = b.read_index + n + 1]

Consume(b, n) == [b EXCEPT !.read_index = b.read_index + n]

Reset(b) == [b EXCEPT !.read_index = 0, !.write_index = 0]

(***************************************************************************)
(* memmove the unread bytes to the front, unless they are there already.   *)
(***************************************************************************)
\* The indices moved, the bytes forgotten.
MoveIndicesOnly(b) ==
  [b EXCEPT !.read_index = 0, !.write_index = DataSize(b)]

\* A test on write_index in place of read_index's, or no call at all.
MoveNothing(b) == b

MoveDataToFront(b) ==
  IF b.read_index > 0
  THEN [mem |-> [i \in Cells |->
                   IF i < DataSize(b) THEN DataByte(b, i) ELSE b.mem[i]],
        read_index  |-> 0,
        write_index |-> DataSize(b)]
  ELSE b
=============================================================================
