------------------------------- MODULE Buffer -------------------------------
(***************************************************************************)
(* The Buffer of a connection (src/src/netlayer/Buffer.h, Buffer.cc): a    *)
(* vector with two indices.  It grows, or moves its readable bytes to the  *)
(* front, when an append does not fit; readFd reads past its end into a    *)
(* second array and appends the rest.                                      *)
(*                                                                         *)
(* Index i of the C++ vector is buffer_[i + 1] here.                       *)
(***************************************************************************)
EXTENDS Naturals, Sequences

CONSTANTS
  Byte, Zero,    \* the values of a char; what resize() fills with
  Data,          \* the byte strings appended or read
  CheapPrepend,
  InitialSize,
  ExtraSize,     \* sizeof extrabuf
  MaxReadable    \* bound on the readable bytes

ASSUME BufferAssumption ==
  /\ Zero \in Byte
  /\ Data \subseteq Seq(Byte)
  /\ {CheapPrepend, InitialSize, ExtraSize, MaxReadable} \subseteq Nat

VARIABLES
  buf,     \* the object: buffer_, readerIndex_, writerIndex_
  result,  \* what the last retrieveAllAsString returned
  peak     \* history: the most bytes it ever held

vars == <<buf, result, peak>>

Indices(b) == /\ CheapPrepend <= b.readerIndex_
              /\ b.readerIndex_ <= b.writerIndex_
              /\ b.writerIndex_ <= Len(b.buffer_)

(* The type of the state; the readable bytes lie inside the vector, behind *)
(* the prepend area (Buffer.h:24-40, 115-132).                             *)
BufOK(b) == /\ b \in [buffer_ : Seq(Byte), readerIndex_ : Nat, writerIndex_ : Nat]
            /\ Indices(b)

TypeOK == BufOK(buf) /\ result \in Seq(Byte) /\ peak \in Nat

------------------------------------------------------------------------------
readableBytes(b) == b.writerIndex_ - b.readerIndex_
writableBytes(b) == Len(b.buffer_) - b.writerIndex_
prependableBytes(b) == b.readerIndex_

contents(b) == [i \in 1 .. readableBytes(b) |-> b.buffer_[b.readerIndex_ + i]]

(* The constructor ignores its argument and takes the default size.        *)
Init ==
  /\ buf = [buffer_ |-> [i \in 1 .. CheapPrepend + InitialSize |-> Zero],
            readerIndex_ |-> CheapPrepend, writerIndex_ |-> CheapPrepend]
  /\ result = <<>>
  /\ peak = 0

(* The bytes d are stored from index w on.                                 *)
store(s, w, d) ==
  [i \in 1 .. Len(s) |-> IF i \in w + 1 .. w + Len(d) THEN d[i - w] ELSE s[i]]

resize(s, n) == [i \in 1 .. n |-> IF i <= Len(s) THEN s[i] ELSE Zero]

grow(b, len) == [b EXCEPT !.buffer_ = resize(@, b.writerIndex_ + len)]

movesIndicesOnly(b) ==                                              \* mutant
  [b EXCEPT !.readerIndex_ = CheapPrepend,
            !.writerIndex_ = CheapPrepend + readableBytes(b)]

compact(b) ==
  [buffer_ |-> store(b.buffer_, CheapPrepend, contents(b)),
   readerIndex_ |-> CheapPrepend,
   writerIndex_ |-> CheapPrepend + readableBytes(b)]

neverCompacts(b, len) == TRUE                                       \* mutant
mustGrow(b, len) ==
  writableBytes(b) + prependableBytes(b) < len + CheapPrepend

makeSpace(b, len) == IF mustGrow(b, len) THEN grow(b, len) ELSE compact(b)

ensureWriteableBytes(b, len) ==
  IF writableBytes(b) < len THEN makeSpace(b, len) ELSE b

write(b, d) == [b EXCEPT !.buffer_ = store(@, b.writerIndex_, d),
                         !.writerIndex_ = @ + Len(d)]

append(b, d) == write(ensureWriteableBytes(b, Len(d)), d)

retrieveAll(b) == [b EXCEPT !.readerIndex_ = CheapPrepend,
                            !.writerIndex_ = CheapPrepend]

retrieve(b, len) == IF len < readableBytes(b)
                    THEN [b EXCEPT !.readerIndex_ = @ + len]
                    ELSE retrieveAll(b)

(* readv fills the writable part first, then extrabuf, which it is given   *)
(* only when the writable part is smaller.                                 *)
capacity(b) == IF writableBytes(b) < ExtraSize
               THEN writableBytes(b) + ExtraSize ELSE writableBytes(b)

readvInto(b, d) ==
  LET w == writableBytes(b)
  IN IF Len(d) <= w
     THEN write(b, d)
     ELSE append(write(b, SubSeq(d, 1, w)), SubSeq(d, w + 1, Len(d)))

------------------------------------------------------------------------------
Becomes(b) == /\ readableBytes(b) <= MaxReadable
              /\ buf' = b
              /\ peak' = IF readableBytes(b) > peak THEN readableBytes(b)
                                                    ELSE peak

Append_(d) == Becomes(append(buf, d)) /\ UNCHANGED result

(* A failed readv, or the end of the stream, changes nothing.              *)
readFd(d) == /\ Len(d) <= capacity(buf)
             /\ Becomes(readvInto(buf, d))
             /\ UNCHANGED result

(* handleWrite: what writeFd wrote, any part of it, is retrieved.          *)
writeFd == \E n \in 1 .. readableBytes(buf) :
             Becomes(retrieve(buf, n)) /\ UNCHANGED result

retrieveAllAsString == /\ result' = contents(buf)
                       /\ Becomes(retrieve(buf, readableBytes(buf)))

Next == \/ \E d \in Data : Append_(d) \/ readFd(d)
        \/ writeFd \/ retrieveAllAsString

Spec == Init /\ [][Next]_vars

------------------------------------------------------------------------------
(* Properties.                                                             *)

(* Whatever the buffer does to make room, the bytes come out in order:     *)
(* growing, moving to the front, the reset of the indices and the second   *)
(* array of readFd lose nothing (Buffer.h:43-132, Buffer.cc:10-52).        *)
BQ == INSTANCE ByteQueue WITH queue <- contents(buf)

ImplementsByteQueue == BQ!Spec

(* The vector never shrinks, but it stays in proportion to the most bytes  *)
(* it ever held: it grows only when moving to the front would not do       *)
(* (Buffer.h:118).                                                         *)
MemoryBounded ==
  \/ Len(buf.buffer_) <= CheapPrepend + InitialSize
  \/ Len(buf.buffer_) <= 2 * peak + CheapPrepend
==============================================================================
