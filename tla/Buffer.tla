------------------------------ MODULE Buffer -------------------------------
(***************************************************************************)
(* src/common/buffer.c: a queue of bytes in a list of blocks.              *)
(*                                                                         *)
(* The list of blocks is a sequence: `first' is its head, `last' its last  *)
(* element, and both are NULL when it is empty.  A block holds BlockSize   *)
(* bytes, which are Junk as malloc(3) returns them, and Junk again once    *)
(* they were read (the code leaves them there: they mean nothing).  The    *)
(* copying loops move one byte at a time here; a memcpy(3) of n bytes is n *)
(* turns.                                                                  *)
(***************************************************************************)
EXTENDS Integers, Sequences, SequencesExt

CONSTANTS
  Bytes,       \* the bytes that are told apart
  BlockSize,   \* BUFFER_BLOCK_SIZE
  MaxAppend,   \* bytes that one call appends, at most
  MaxSize      \* bound: bytes in a buffer

ASSUME BufferAssumption == BlockSize \in Nat \ {0} /\ MaxAppend \in Nat

VARIABLES
  buf,         \* the struct buffer_s
  ret          \* what the last call returned

bufferVars == <<buf, ret>>

Junk == "junk"
Null == <<"NULL">>   \* the null pointer

-----------------------------------------------------------------------------
(* The blocks.                                                             *)

buffer_new ==
  [blocks |-> <<>>, start_offset |-> 0, end_offset |-> 0, size |-> 0]

block_add(b) == [b EXCEPT !.blocks = Append(@, [i \in 1..BlockSize |-> Junk])]

block_remove(b) == [b EXCEPT !.blocks = Tail(@)]

\* The part of block i that is in use.
Used(b, i) ==
  LET from == IF i = 1 THEN b.start_offset ELSE 0
      to   == IF i = Len(b.blocks) THEN b.end_offset ELSE BlockSize
  IN SubSeq(b.blocks[i], from + 1, to)

Stored(b) == FlattenSeq([i \in 1..Len(b.blocks) |-> Used(b, i)])

\* The number of bytes up to the first c, or 0.
buffer_find_char(b, c) == SelectInSeq(Stored(b), LAMBDA d : d = c)

-----------------------------------------------------------------------------
(* Appending and reading.                                                  *)

\* One turn of the loop in buffer_append.
PutByte(b, c) ==
  LET full == b.blocks = <<>> \/ b.end_offset = BlockSize
      r    == IF full THEN [block_add(b) EXCEPT !.end_offset = 0] ELSE b
  IN [r EXCEPT !.blocks[Len(r.blocks)][r.end_offset + 1] = c,
               !.end_offset = @ + 1]

buffer_append(b, input) ==
  LET turn[i \in 0..Len(input)] ==
        IF i = 0 THEN b ELSE PutByte(turn[i - 1], input[i])
  IN [turn[Len(input)] EXCEPT !.size = @ + Len(input)]

\* One turn of the loop in buffer_read.  Without a first block, the assertion
\* of the loop fails.
TakeByte(r) ==
  IF r.b.blocks = <<>> THEN [r EXCEPT !.data = Append(@, Junk)]
  ELSE LET next == [r.b EXCEPT !.start_offset = @ + 1]
       IN [data |-> Append(r.data, Head(r.b.blocks)[next.start_offset]),
           b    |-> IF next.start_offset = BlockSize
                    THEN [block_remove(next) EXCEPT !.start_offset = 0]
                    ELSE [next EXCEPT !.blocks[1][next.start_offset] = Junk]]

\* The last block of an empty buffer is removed.
DropEmpty(b) ==
  IF b.size = 0 /\ b.blocks # <<>>
  THEN [block_remove(b) EXCEPT !.start_offset = 0] ELSE b

\* What a read returns: the buffer, the array, and the number of bytes in it.
buffer_read(b, size) ==
  LET n == IF size < b.size THEN size ELSE b.size
      turn[i \in 0..n] ==
        IF i = 0 THEN [b |-> b, data |-> <<>>] ELSE TakeByte(turn[i - 1])
      r == turn[n]
  IN [b |-> DropEmpty([r.b EXCEPT !.size = @ - n]), data |-> r.data, size |-> n]

\* Mutant: a block that was read in part is detached.
Detachable_Offset(b, size) == Len(b.blocks) = 1 /\ b.size = size

\* block_detach succeeds: the caller gets the block itself.
Detachable(b, size) ==
  Len(b.blocks) = 1 /\ b.start_offset = 0 /\ b.size = size

buffer_read_alloc(b, size) ==
  IF Detachable(b, size)
  THEN [b |-> buffer_new, data |-> Head(b.blocks), size |-> size]
  ELSE buffer_read(b, size)

\* Writing a NUL ends the string: this is what precedes it, or the first NUL.
Terminated(data, at) ==
  SubSeq(data, 1, SelectInSeq([data EXCEPT ![at] = "NUL"], LAMBDA c : c = "NUL") - 1)

ReadResult(b, value) == [b |-> b, value |-> value]

buffer_read_line(b) ==
  LET n == buffer_find_char(b, "NL")
      r == buffer_read_alloc(b, n)
  IN IF n = 0 THEN ReadResult(b, Null)
     ELSE IF r.size >= 2 /\ r.data[r.size - 1] = "CR"
          THEN ReadResult(r.b, Terminated(r.data, r.size - 1))
          ELSE ReadResult(r.b, Terminated(r.data, r.size))

buffer_read_chunk(b, terminator) ==
  LET n == buffer_find_char(b, terminator)
      r == buffer_read_alloc(b, n)
  IN IF n = 0 THEN ReadResult(b, Null)
     ELSE ReadResult(r.b, Terminated(r.data, r.size))

buffer_slurp(b) ==
  LET r == buffer_read_alloc(b, b.size)
  IN ReadResult(r.b, SubSeq(r.data, 1, r.size))

-----------------------------------------------------------------------------
(* The calls.                                                              *)

Appends(input) ==
  /\ buf.size + Len(input) <= MaxSize
  /\ buf' = buffer_append(buf, input)
  /\ ret' = Null

Reads(size) ==
  LET r == buffer_read(buf, size)
  IN buf' = r.b /\ ret' = SubSeq(r.data, 1, r.size)

Returns(r) == buf' = r.b /\ ret' = r.value

\* buffer_free, and buffer_new in its place, as fifo.c purges its queue.
Replaces == buf' = buffer_new /\ ret' = Null

BufferInit == buf = buffer_new /\ ret = Null

BufferNext ==
  \/ \E input \in BoundedSeq(Bytes, MaxAppend) : Appends(input)
  \/ \E size \in 0..buf.size + 1 : Reads(size)
  \/ Returns(buffer_read_line(buf))
  \/ \E c \in Bytes : Returns(buffer_read_chunk(buf, c))
  \/ Returns(buffer_slurp(buf))
  \/ Replaces

BufferSpec == BufferInit /\ [][BufferNext]_bufferVars

-----------------------------------------------------------------------------
Queue == INSTANCE ByteQueue WITH queue <- Stored(buf), returned <- ret

\* The size that buffer_size reports, and that detaching relies on, is the
\* number of bytes in the blocks.
SizeFollows == buf.size = Len(Stored(buf))

\* However the bytes are spread over blocks, and whether a read copies, spans
\* or detaches them, the buffer behaves as a queue of bytes, and its size
\* follows.
BufferIsQueue == Queue!Spec /\ []SizeFollows

=============================================================================
