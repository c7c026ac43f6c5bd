------------------------------- MODULE Buffer -------------------------------
(***************************************************************************)
(* The input of a scanner: class Buffer keeps a window of the bytes of a   *)
(* stream and gives them out one by one, class UTF8Buffer puts characters  *)
(* together from them.  A buffer is a record                               *)
(*   data      the bytes of the stream, whatever was read of them          *)
(*   kind      what it was made from: a piece of memory, a file it opened  *)
(*             ("file") or was given ("userFile"), a stdio stream that     *)
(*             cannot seek ("pipe"), or a std::istream                     *)
(*   buf, bufCapacity, bufLen, bufPos, bufStart, fileLen   as in the class *)
(*   open      cStream is not NULL                                         *)
(*   at        the position of the stream                                  *)
(*   eof, fail the state bits of the std::istream                          *)
(*   utf8      it is a UTF8Buffer                                          *)
(*   exited    exit(1) was called                                          *)
(* The bytes of buf that were never written are not part of the sequence.  *)
(***************************************************************************)
EXTENDS Integers, Sequences

CONSTANTS
  MaxBufferLength,   \* MAX_BUFFER_LENGTH
  MinBufferLength    \* MIN_BUFFER_LENGTH

ASSUME LengthsAssumption ==
  /\ MaxBufferLength \in Nat \ {0}
  /\ MinBufferLength \in Nat \ {0}

EoF == 65536            \* Buffer::MaxChar + 1
IntMax == 2147483647

Kinds == {"memory", "file", "userFile", "pipe", "istream"}

Buffers ==
  [data : Seq(0..255), kind : Kinds, buf : Seq(0..255), bufCapacity : Nat, bufLen : Nat,
   bufPos : Int, bufStart : Nat, fileLen : Nat, open : BOOLEAN, at : Nat, eof : BOOLEAN,
   fail : BOOLEAN, utf8 : BOOLEAN, exited : BOOLEAN]

Least(i, j) == IF i < j THEN i ELSE j

----------------------------------------------------------------------------
(* The streams.                                                            *)

CanSeek(b) == b.open /\ b.kind # "pipe"

\* The bytes fread finds at the stream's position if it is asked for that many.
Readable(b, at, n) == SubSeq(b.data, at + 1, Least(at + n, Len(b.data)))

\* The bytes go to buf + i.
FRead(b, i, n) ==
  LET read == Readable(b, b.at, n)
  IN [b EXCEPT !.buf = SubSeq(@, 1, i) \o read \o SubSeq(@, i + Len(read) + 1, Len(@)),
               !.bufLen = i + Len(read),
               !.at = @ + Len(read)]

FSeek(b, value) == IF CanSeek(b) THEN [b EXCEPT !.at = value] ELSE b

\* istream::tellg and seekg: end of file is forgotten, the failure it caused is not.
Tell(b) == IF b.fail THEN -1 ELSE b.at
Seek(b, value) == [b EXCEPT !.eof = FALSE, !.at = IF b.fail THEN @ ELSE value]

\* istream::get, and the test of eof() that follows.
Get(b) ==
  IF b.fail \/ b.eof
  THEN [b |-> [b EXCEPT !.fail = TRUE], ch |-> IF b.eof THEN EoF ELSE -1]
  ELSE IF b.at < Len(b.data)
  THEN [b |-> [b EXCEPT !.at = @ + 1], ch |-> b.data[b.at + 1]]
  ELSE [b |-> [b EXCEPT !.eof = TRUE, !.fail = TRUE], ch |-> EoF]

----------------------------------------------------------------------------
(* Class Buffer.                                                           *)

GetPos(b) == IF b.kind = "istream" THEN Tell(b) ELSE b.bufPos + b.bufStart

Exit(b) == [b EXCEPT !.exited = TRUE]

\* Room is made by doubling a full buffer.
WithRoom(b) ==
  IF b.bufCapacity = b.bufLen THEN [b EXCEPT !.bufCapacity = b.bufLen * 2] ELSE b

\* Mutant: the length of the input is not adapted.
ChunkUncounted(b) ==
  LET r == WithRoom(b)
  IN FRead(r, r.bufLen, r.bufCapacity - r.bufLen)

ReadNextStreamChunk(b) ==
  LET r == WithRoom(b)
      f == FRead(r, r.bufLen, r.bufCapacity - r.bufLen)
  IN IF f.bufLen > r.bufLen THEN [f EXCEPT !.fileLen = f.bufLen] ELSE r

\* Chunks are read until value is before their end or there is none.  Every chunk has a
\* byte at least, and asking once more at the end of the stream changes nothing.
StreamTo(b, value) ==
  LET more(c) == IF value >= c.fileLen THEN ReadNextStreamChunk(c) ELSE c
      chunk[n \in 0..(Len(b.data) + 1)] == IF n = 0 THEN b ELSE more(chunk[n - 1])
  IN chunk[Len(b.data) + 1]

\* Mutant: the window is swapped in, and read where it was left.
SwapInAsLeft(b, value) == [FRead(FSeek(b, value), 0, b.bufCapacity) EXCEPT !.bufStart = value]

SwapIn(b, value) ==
  [FRead(FSeek(b, value), 0, b.bufCapacity) EXCEPT !.bufStart = value, !.bufPos = 0]

\* SetPos once the position is in sight.
MoveTo(b, value) ==
  IF value < 0 \/ value > b.fileLen THEN Exit(b)
  ELSE IF value >= b.bufStart /\ value < b.bufStart + b.bufLen
  THEN [b EXCEPT !.bufPos = value - b.bufStart]
  ELSE IF b.open THEN SwapIn(b, value)
  ELSE [b EXCEPT !.bufPos = b.fileLen - b.bufStart]

SetPos(b, value) ==
  IF b.kind = "istream" THEN Seek(b, value)
  ELSE MoveTo(IF value >= b.fileLen /\ b.open /\ ~CanSeek(b) THEN StreamTo(b, value) ELSE b, value)

\* buf[bufPos++]
TakeByte(b) == [b |-> [b EXCEPT !.bufPos = @ + 1], ch |-> b.buf[b.bufPos + 1]]

\* The byte behind the bytes read so far, if there are more now.
TakeNew(b, more) ==
  IF more.bufLen > b.bufLen THEN TakeByte(more) ELSE [b |-> more, ch |-> EoF]

ReadByte(b) ==
  IF b.kind = "istream" THEN Get(b)
  ELSE IF b.bufPos < b.bufLen THEN TakeByte(b)
  ELSE IF GetPos(b) < b.fileLen THEN TakeByte(SetPos(b, GetPos(b)))
  ELSE TakeNew(b, IF b.open /\ ~CanSeek(b) THEN ReadNextStreamChunk(b) ELSE b)

----------------------------------------------------------------------------
(* Class UTF8Buffer.                                                       *)

\* 10xxxxxx
Continuation(ch) == ch \in 128..191

\* What is left of a lead byte that n bytes follow: its lowest 6 - n bits.
LeadBits(ch, n) == ch % (CASE n = 1 -> 32 [] n = 2 -> 16 [] n = 3 -> 8)

\* do ... while: bytes are read until one is no continuation, at most all there are.
ReadStart(b) ==
  LET next(r) == IF Continuation(r.ch) THEN ReadByte(r.b) ELSE r
      start[n \in 0..Len(b.data)] == IF n = 0 THEN ReadByte(b) ELSE next(start[n - 1])
  IN start[Len(b.data)]

\* The bytes that follow a lead byte 11110xxx, 1110xxxx or 110xxxxx.
Trailing(ch) == IF ch >= 240 THEN 3 ELSE IF ch >= 224 THEN 2 ELSE 1

\* The six bits of the byte q behind those of r.
Join(r, q) == [b |-> q.b, ch |-> r.ch * 64 + (q.ch % 64)]

\* The character with lead byte r and n bytes more.
Joined(r, n) ==
  LET joined[k \in 0..n] ==
        IF k = 0 THEN [r EXCEPT !.ch = LeadBits(@, n)]
        ELSE Join(joined[k - 1], ReadByte(joined[k - 1].b))
  IN joined[n]

Character(r) == IF r.ch < 128 \/ r.ch = EoF THEN r ELSE Joined(r, Trailing(r.ch))

ReadCharacter(b) == Character(ReadStart(b))

UTF8Buffer(b) == [b EXCEPT !.utf8 = TRUE]

Read(b) == IF b.utf8 THEN ReadCharacter(b) ELSE ReadByte(b)

Peek(b) ==
  LET back(r) == [r EXCEPT !.b = SetPos(@, GetPos(b))] IN back(Read(b))

----------------------------------------------------------------------------
(* The constructors.                                                       *)

Empty(kind, data) ==
  [data |-> data, kind |-> kind, buf |-> <<>>, bufCapacity |-> 0, bufLen |-> 0, bufPos |-> 0,
   bufStart |-> 0, fileLen |-> 0, open |-> FALSE, at |-> 0, eof |-> FALSE, fail |-> FALSE,
   utf8 |-> FALSE, exited |-> FALSE]

Memory(data) ==
  [Empty("memory", data) EXCEPT !.buf = data, !.bufCapacity = Len(data), !.bufLen = Len(data),
                                !.fileLen = Len(data)]

\* The capacity is that of the window, which is empty so far.
Opened(kind, data) ==
  IF kind = "pipe" THEN [Empty(kind, data) EXCEPT !.open = TRUE, !.bufCapacity = MinBufferLength]
  ELSE LET window == Least(Len(data), MaxBufferLength)
       IN [Empty(kind, data) EXCEPT !.open = TRUE, !.fileLen = Len(data), !.bufLen = window,
             !.bufStart = IntMax,
             !.bufCapacity = IF window > 0 THEN window ELSE MinBufferLength]

\* Not the streams of the user.
Close(b) == IF b.kind = "file" THEN [b EXCEPT !.open = FALSE] ELSE b

File(kind, data) ==
  LET b == Opened(kind, data)
      s == IF b.fileLen > 0 THEN SetPos(b, 0) ELSE b
  IN IF s.bufLen = s.fileLen /\ CanSeek(s) THEN Close(s) ELSE s

Buffered(kind, data) ==
  CASE kind = "memory"  -> Memory(data)
    [] kind = "istream" -> Empty(kind, data)
    [] OTHER            -> File(kind, data)

----------------------------------------------------------------------------
(* What the window shows.                                                  *)

\* SetPos found nothing to swap in and the window, which held all that was read, is
\* gone for good: this is how looking at the end of a stream that cannot seek ends.
Lost(b) == b.kind = "pipe" /\ b.bufLen < b.fileLen

\* A buffer over an empty file has position INT_MAX.
NoInput(b) == b.kind \in {"file", "userFile"} /\ b.fileLen = 0

Window(b) ==
  /\ b.bufPos \in 0..b.bufLen /\ b.bufLen <= Len(b.buf)
  /\ ~NoInput(b) => b.bufStart + b.bufLen <= b.fileLen
  /\ \A i \in 1..b.bufLen : b.buf[i] = b.data[b.bufStart + i]
=============================================================================
