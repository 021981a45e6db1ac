------------------------------ MODULE IOBuffer ------------------------------
(***************************************************************************)
(* IOBuffer (include/ioBuffer.h, source/ioBuffer.cpp): a linear buffer      *)
(*                                                                          *)
(*     [unusable][usedArea][freeArea]                                       *)
(*                                                                          *)
(* as a record and operators over it, one per method.  The bytes are kept,  *)
(* those outside usedArea too, because what coalesce promises is about      *)
(* where they are.                                                          *)
(***************************************************************************)
EXTENDS Integers, Sequences

CONSTANTS Byte, NUL,    \* the values of a char, and the one that is 0
          Size          \* m_size

ASSUME NULAssumption == NUL \in Byte
ASSUME SizeAssumption == Size \in Nat \ {0}

Index == 0..(Size - 1)

Buffer == [data  : [Index -> Byte],    \* m_buffer
           start : 0..Size,            \* m_start
           end   : 0..Size]            \* m_end

\* The asserts of freeSize, usedSize and empty.
WellFormed(b) == b \in Buffer /\ b.start <= b.end

NewBuffer == [data |-> [i \in Index |-> NUL], start |-> 0, end |-> 0]

freeSize(b) == Size - b.end

usedSize(b) == b.end - b.start

\* The assert of freeArea: a pointer to it is only formed inside the buffer.
FreeAreaExists(b) == b.end < Size

\* What usedArea and usedSize together give.
Used(b) == [i \in 1..usedSize(b) |-> b.data[b.start + i - 1]]

\* Bytes copied to freeArea, then markUsed.
Put(b, s) ==
  [b EXCEPT !.data = [i \in Index |-> IF b.end <= i /\ i < b.end + Len(s)
                                      THEN s[i - b.end + 1] ELSE b.data[i]],
            !.end = b.end + Len(s)]

clear(b) == [b EXCEPT !.start = 0, !.end = 0]

\* An emptied buffer starts over.
markFree(b, n) ==
  IF b.start + n = b.end THEN [b EXCEPT !.start = 0, !.end = 0]
                         ELSE [b EXCEPT !.start = b.start + n]

\* Mutant: the bytes are not moved.
coalesceInPlace(b) == [b EXCEPT !.start = 0, !.end = b.end - b.start]

coalesce(b) ==
  [b EXCEPT !.data = [i \in Index |-> IF i < b.end - b.start THEN b.data[i + b.start]
                                                             ELSE b.data[i]],
            !.start = 0,
            !.end = b.end - b.start]

=============================================================================
