------------------------- MODULE ScannerLoop_proofs -------------------------
(***************************************************************************)
(* The input buffer, the characters of the scanner and the text of a token.*)
(*                                                                         *)
(* A buffer over a piece of memory or a file shows the bytes of its input, *)
(* for every input, every length of the window and every sequence of Read  *)
(* and SetPos.  Of an input in UTF-8 it delivers the characters.           *)
(*                                                                         *)
(* The scanner keeps every kind of buffer so, and in its input: for every  *)
(* grammar and input, behind a byte order mark too.                        *)
(*                                                                         *)
(* The text of a token is inside of its buffer, for every grammar, input,  *)
(* kind of buffer and length of tval.  Of the characters themselves only   *)
(* that they are in a sequence matters.                                    *)
(***************************************************************************)
EXTENDS ScannerLoop, SequenceTheorems, WellFoundedInduction, TLAPS

\* Of some numbers one is the least.
LEMMA FirstOf ==
  ASSUME NEW T, T \subseteq Nat, T # {}
  PROVE  \E x \in T : \A y \in T : x <= y
<1> DEFINE R == {ss \in Nat \X Nat : ss[1] < ss[2]}
<1>1. IsWellFoundedOn(R, Nat)
  BY NatLessThanWellFounded, Zenon DEF OpToRel
<1>2. PICK x \in T : \A y \in T : <<y, x>> \notin R
  BY <1>1, WFMin, Zenon
<1>3. ASSUME NEW y \in T PROVE x <= y
  <2>1. x \in Nat /\ y \in Nat /\ <<y, x>> \in Nat \X Nat
    OBVIOUS
  <2>2. ~(y < x)
    BY <1>2, <2>1
  <2> QED
    BY <2>1, <2>2
<1> QED
  BY <1>3

----------------------------------------------------------------------------
(* The buffer.                                                             *)

\* Made from memory or a stream that can seek, and not from an empty file.
Direct(b) ==
  /\ b \in Buffers /\ b.kind \in {"memory", "file", "userFile"}
  /\ b.fileLen = Len(b.data)
  /\ ~b.exited

\* What is not in the window can be swapped in.
Reachable(b) ==
  IF b.open THEN b.bufCapacity > 0 ELSE b.bufStart = 0 /\ b.bufLen = b.fileLen

Sound(b) ==
  /\ Direct(b) /\ Reachable(b)
  /\ b.bufPos \in 0..b.bufLen /\ b.bufLen <= Len(b.buf)
  /\ b.bufStart + b.bufLen <= b.fileLen
  /\ \A i \in 1..b.bufLen : b.buf[i] = b.data[b.bufStart + i]

\* The invariant says of the window what the runs check of it.
LEMMA SoundWindow == ASSUME NEW b, Sound(b) PROVE Window(b)
  BY DEF Sound, Window

\* The fields of a buffer.
LEMMA Fields ==
  ASSUME NEW b \in Buffers
  PROVE  /\ b.data \in Seq(0..255) /\ b.buf \in Seq(0..255) /\ b.kind \in Kinds
         /\ b.bufCapacity \in Nat /\ b.bufLen \in Nat /\ b.bufPos \in Int /\ b.bufStart \in Nat
         /\ b.fileLen \in Nat /\ b.open \in BOOLEAN /\ b.at \in Nat /\ b.exited \in BOOLEAN
  BY DEF Buffers

\* The lesser of two numbers.
LEMMA LeastOf ==
  ASSUME NEW i \in Nat, NEW j \in Nat
  PROVE  Least(i, j) \in Nat /\ Least(i, j) <= i /\ Least(i, j) <= j
         /\ (Least(i, j) = i \/ Least(i, j) = j)
  BY DEF Least

\* A piece of the input.
LEMMA Piece ==
  ASSUME NEW data \in Seq(0..255), NEW value \in 0..Len(data), NEW n \in Nat
  PROVE  LET read == SubSeq(data, value + 1, Least(value + n, Len(data)))
         IN /\ read \in Seq(0..255)
            /\ Len(read) = Least(n, Len(data) - value)
            /\ \A i \in 1..Len(read) : read[i] = data[value + i]
<1> DEFINE last == Least(value + n, Len(data))
<1>1. Len(data) \in Nat /\ value \in Nat /\ value <= Len(data)
  OBVIOUS
<1>2. last \in Nat /\ last >= value /\ last <= Len(data)
  BY <1>1 DEF Least
<1>3. last - value = Least(n, Len(data) - value)
  BY <1>1 DEF Least
<1> HIDE DEF last
<1> DEFINE read == SubSeq(data, value + 1, last)
<1>4. /\ read \in Seq(0..255) /\ Len(read) = last - value
      /\ \A i \in 1..Len(read) : read[i] = data[value + i]
  <2>1. \A i \in value + 1..last : data[i] \in 0..255
    <3>1. ASSUME NEW i \in value + 1..last PROVE i \in 1..Len(data)
      BY <1>1, <1>2
    <3> QED
      BY <3>1, ElementOfSeq
  <2>2. /\ read \in Seq(0..255)
        /\ Len(read) = IF value + 1 <= last THEN last - (value + 1) + 1 ELSE 0
        /\ \A i \in 1..last - (value + 1) + 1 : read[i] = data[value + 1 + i - 1]
    BY <1>1, <1>2, <2>1, SubSeqProperties
  <2> HIDE DEF read
  <2> QED
    BY <1>1, <1>2, <2>2
<1> QED
  BY <1>3, <1>4 DEF last

\* A sequence in front of the rest of another one.
LEMMA InFront ==
  ASSUME NEW buf \in Seq(0..255), NEW read \in Seq(0..255)
  PROVE  LET new == SubSeq(buf, 1, 0) \o read \o SubSeq(buf, 0 + Len(read) + 1, Len(buf))
         IN /\ new \in Seq(0..255) /\ Len(read) <= Len(new)
            /\ \A i \in 1..Len(read) : new[i] = read[i]
<1> DEFINE rest == SubSeq(buf, 0 + Len(read) + 1, Len(buf))
           none == SubSeq(buf, 1, 0)
<1>1. none \in Seq(0..255) /\ Len(none) = 0
  OBVIOUS
<1>2. rest \in Seq(0..255)
  <2>1. \A i \in 0 + Len(read) + 1..Len(buf) : buf[i] \in 0..255
    BY ElementOfSeq
  <2> QED
    BY <2>1, SubSeqProperties
<1> HIDE DEF none, rest
<1>3. /\ none \o read \in Seq(0..255) /\ Len(none \o read) = Len(read)
      /\ \A i \in 1..Len(read) : (none \o read)[i] = read[i]
  BY <1>1
<1> DEFINE front == none \o read
<1> HIDE DEF front
<1>4. /\ front \o rest \in Seq(0..255) /\ Len(front) <= Len(front \o rest)
      /\ \A i \in 1..Len(front) : (front \o rest)[i] = front[i]
  BY <1>2, <1>3 DEF front
<1> QED
  BY <1>3, <1>4 DEF front, none, rest

\* The fields that seek, fread and SetPos leave alone.
Same(s, b) ==
  /\ s \in Buffers /\ s.data = b.data /\ s.kind = b.kind /\ s.open = b.open
  /\ s.fileLen = b.fileLen /\ s.bufCapacity = b.bufCapacity /\ s.exited = b.exited
  /\ s.utf8 = b.utf8 /\ s.fail = b.fail

Sought(b, value) == [b EXCEPT !.at = value]
Filled(b, new, n, m) == [b EXCEPT !.buf = new, !.bufLen = n, !.at = m]
Placed(b, value, pos) == [b EXCEPT !.bufStart = value, !.bufPos = pos]

LEMMA SoughtFields ==
  ASSUME NEW b \in Buffers, NEW value \in Nat
  PROVE  LET s == Sought(b, value)
         IN Same(s, b) /\ s.buf = b.buf /\ s.at = value
  BY DEF Buffers, Same, Sought

LEMMA FilledFields ==
  ASSUME NEW b \in Buffers, NEW new \in Seq(0..255), NEW n \in Nat, NEW m \in Nat
  PROVE  LET s == Filled(b, new, n, m)
         IN Same(s, b) /\ s.buf = new /\ s.bufLen = n
  BY DEF Buffers, Same, Filled

LEMMA PlacedFields ==
  ASSUME NEW b \in Buffers, NEW value \in Nat, NEW pos \in Int
  PROVE  LET s == Placed(b, value, pos)
         IN /\ Same(s, b) /\ s.buf = b.buf /\ s.bufLen = b.bufLen
            /\ s.bufStart = value /\ s.bufPos = pos
  BY DEF Buffers, Same, Placed

\* Swapping in: the window begins at value, and holds something before the end.
LEMMA SwappedIn ==
  ASSUME NEW b, Direct(b), b.open, b.bufCapacity > 0, NEW value \in 0..b.fileLen
  PROVE  LET s == SwapIn(b, value)
         IN /\ Sound(s) /\ Same(s, b) /\ s.bufStart = value /\ s.bufPos = 0
            /\ s.bufLen = Least(b.bufCapacity, b.fileLen - value)
            /\ s.data = b.data /\ s.kind = b.kind /\ s.open /\ s.fileLen = b.fileLen
<1> DEFINE read == SubSeq(b.data, value + 1, Least(value + b.bufCapacity, Len(b.data)))
           new == SubSeq(b.buf, 1, 0) \o read \o SubSeq(b.buf, 0 + Len(read) + 1, Len(b.buf))
           sought == Sought(b, value)
           f == Filled(sought, new, 0 + Len(read), sought.at + Len(read))
           s == Placed(f, value, 0)
<1>1. /\ b \in Buffers /\ b.kind # "pipe" /\ b.fileLen = Len(b.data) /\ ~b.exited
      /\ b.data \in Seq(0..255) /\ b.buf \in Seq(0..255) /\ b.bufCapacity \in Nat
      /\ b.fileLen \in Nat /\ value \in Nat /\ value \in 0..Len(b.data)
  BY Fields DEF Direct
<1>2. /\ read \in Seq(0..255)
      /\ Len(read) = Least(b.bufCapacity, b.fileLen - value)
      /\ \A i \in 1..Len(read) : read[i] = b.data[value + i]
  <2>1. /\ read \in Seq(0..255)
        /\ Len(read) = Least(b.bufCapacity, Len(b.data) - value)
        /\ \A i \in 1..Len(read) : read[i] = b.data[value + i]
    BY <1>1, Piece
  <2> QED
    BY <1>1, <2>1
<1>3. Same(sought, b) /\ sought.at = value /\ sought.buf = b.buf
  BY <1>1, SoughtFields
<1>4. SwapIn(b, value) = s
  <2>1. FSeek(b, value) = sought
    BY <1>1 DEF FSeek, CanSeek, Sought
  <2>2. Readable(sought, sought.at, b.bufCapacity) = read
    BY <1>3 DEF Readable, Same
  <2> HIDE DEF read, sought
  <2>3. FRead(sought, 0, b.bufCapacity) = f
    BY <1>3, <2>2 DEF FRead, Filled
  <2> HIDE DEF f
  <2> QED
    BY <2>1, <2>3 DEF SwapIn, Placed
<1> HIDE DEF read, sought
<1>5. /\ new \in Seq(0..255) /\ Len(read) <= Len(new)
      /\ \A i \in 1..Len(read) : new[i] = b.data[value + i]
  BY <1>1, <1>2, InFront
<1> HIDE DEF new
<1>6. Len(read) \in Nat /\ value + Len(read) <= b.fileLen
  <2> DEFINE remaining == b.fileLen - value
  <2>1. remaining \in Nat /\ Len(read) = Least(b.bufCapacity, remaining)
    BY <1>1, <1>2
  <2> HIDE DEF remaining
  <2>2. Least(b.bufCapacity, remaining) \in Nat /\ Least(b.bufCapacity, remaining) <= remaining
    BY <1>1, <2>1, LeastOf
  <2> QED
    BY <1>1, <2>1, <2>2 DEF remaining
<1>7. Same(s, b) /\ s.buf = new /\ s.bufLen = Len(read) /\ s.bufStart = value /\ s.bufPos = 0
  <2>1. /\ sought \in Buffers /\ 0 + Len(read) = Len(read)
        /\ 0 + Len(read) \in Nat /\ sought.at + Len(read) \in Nat
    BY <1>1, <1>3, <1>6 DEF Same
  <2>2. Same(f, sought) /\ f.buf = new /\ f.bufLen = 0 + Len(read)
    BY <1>5, <2>1, FilledFields
  <2> HIDE DEF f
  <2>3. f \in Buffers /\ 0 \in Int
    BY <2>2 DEF Same
  <2>4. /\ Same(s, f) /\ s.buf = f.buf /\ s.bufLen = f.bufLen
        /\ s.bufStart = value /\ s.bufPos = 0
    BY <1>1, <2>3, PlacedFields
  <2> HIDE DEF s
  <2> QED
    BY <1>3, <2>1, <2>2, <2>4 DEF Same
<1> HIDE DEF s
<1>8. Sound(s)
  BY <1>1, <1>2, <1>5, <1>6, <1>7 DEF Same, Sound, Direct, Reachable
<1> QED
  BY <1>2, <1>4, <1>7, <1>8 DEF Same

\* The position in the window changes, and nothing else.
LEMMA PositionMoved ==
  ASSUME NEW b, Sound(b), NEW i \in 0..b.bufLen
  PROVE  LET s == [b EXCEPT !.bufPos = i]
         IN Sound(s) /\ Same(s, b) /\ GetPos(s) = b.bufStart + i
<1> DEFINE s == [b EXCEPT !.bufPos = i]
<1>1. b \in Buffers /\ i \in Int
  BY Fields DEF Sound, Direct
<1>2. /\ Same(s, b)
      /\ s.buf = b.buf /\ s.bufLen = b.bufLen /\ s.bufStart = b.bufStart /\ s.bufPos = i
  BY <1>1 DEF Buffers, Same
<1> HIDE DEF s
<1>3. Sound(s)
  BY <1>2 DEF Sound, Direct, Reachable, Same
<1>4. GetPos(s) = b.bufStart + i
  BY <1>1, <1>2, Fields DEF GetPos, Sound, Direct, Same
<1> QED
  BY <1>2, <1>3, <1>4 DEF s

\* SetPos to any position of the input arrives there, and the window is right.
THEOREM SetPosRight ==
  ASSUME NEW b, Sound(b), NEW value \in 0..b.fileLen
  PROVE  LET s == SetPos(b, value)
         IN Sound(s) /\ Same(s, b) /\ GetPos(s) = value
<1>1. /\ b \in Buffers /\ b.kind \notin {"pipe", "istream"}
      /\ b.bufStart \in Nat /\ b.bufLen \in Nat /\ b.fileLen \in Nat /\ value \in Nat
  BY Fields DEF Sound, Direct
<1>2. SetPos(b, value) = MoveTo(b, value)
  BY <1>1 DEF SetPos, CanSeek
<1>3. CASE value >= b.bufStart /\ value < b.bufStart + b.bufLen
  <2>1. MoveTo(b, value) = [b EXCEPT !.bufPos = value - b.bufStart]
    BY <1>1, <1>3 DEF MoveTo
  <2>2. value - b.bufStart \in 0..b.bufLen /\ b.bufStart + (value - b.bufStart) = value
    BY <1>1, <1>3
  <2> QED
    BY <1>2, <2>1, <2>2, PositionMoved
<1>4. CASE ~(value >= b.bufStart /\ value < b.bufStart + b.bufLen) /\ b.open
  <2>1. MoveTo(b, value) = SwapIn(b, value)
    BY <1>1, <1>4 DEF MoveTo
  <2> DEFINE s == SwapIn(b, value)
  <2>2. Sound(s) /\ Same(s, b) /\ s.bufStart = value /\ s.bufPos = 0 /\ s.kind = b.kind
    BY <1>4, SwappedIn DEF Sound, Reachable
  <2>3. GetPos(s) = value
    BY <1>1, <2>2 DEF GetPos
  <2> QED
    BY <1>2, <2>1, <2>2, <2>3
<1>5. CASE ~(value >= b.bufStart /\ value < b.bufStart + b.bufLen) /\ ~b.open
  <2>1. b.bufStart = 0 /\ b.bufLen = b.fileLen /\ value = b.fileLen
    BY <1>1, <1>5 DEF Sound, Reachable
  <2>2. MoveTo(b, value) = [b EXCEPT !.bufPos = b.fileLen - b.bufStart]
    BY <1>1, <1>5 DEF MoveTo
  <2> QED
    BY <1>1, <1>2, <2>1, <2>2, PositionMoved
<1> QED
  BY <1>3, <1>4, <1>5

\* The byte at the position in the window is that of the input.
LEMMA TakeByteRight ==
  ASSUME NEW b, Sound(b), b.bufPos < b.bufLen
  PROVE  LET r == TakeByte(b)
         IN /\ Sound(r.b) /\ Same(r.b, b)
            /\ r.ch = b.data[GetPos(b) + 1] /\ GetPos(r.b) = GetPos(b) + 1
<1>1. /\ b \in Buffers /\ b.kind # "istream"
      /\ b.bufStart \in Nat /\ b.bufLen \in Nat /\ b.bufPos \in 0..b.bufLen
  BY Fields DEF Sound, Direct
<1>2. b.bufPos + 1 \in 0..b.bufLen /\ b.bufPos + 1 \in 1..b.bufLen
  BY <1>1
<1>3. GetPos(b) = b.bufStart + b.bufPos
  BY <1>1 DEF GetPos
<1>4. b.buf[b.bufPos + 1] = b.data[GetPos(b) + 1]
  <2>1. b.buf[b.bufPos + 1] = b.data[b.bufStart + (b.bufPos + 1)]
    BY <1>2 DEF Sound
  <2>2. b.bufStart + (b.bufPos + 1) = GetPos(b) + 1
    BY <1>1, <1>3
  <2> QED
    BY <2>1, <2>2
<1> DEFINE s == [b EXCEPT !.bufPos = b.bufPos + 1]
<1>5. /\ Sound(s) /\ Same(s, b)
      /\ GetPos(s) = b.bufStart + (b.bufPos + 1)
  BY <1>2, PositionMoved
<1>6. TakeByte(b).b = s /\ TakeByte(b).ch = b.buf[b.bufPos + 1]
  BY DEF TakeByte
<1>7. b.bufStart + (b.bufPos + 1) = GetPos(b) + 1
  BY <1>1, <1>3
<1> HIDE DEF s
<1> QED
  BY <1>4, <1>5, <1>6, <1>7

\* Read gives the byte of the input at the position, or EoF behind the last one.
THEOREM ReadByteRight ==
  ASSUME NEW b, Sound(b)
  PROVE  LET r == ReadByte(b)
         IN /\ Sound(r.b) /\ Same(r.b, b)
            /\ GetPos(b) < b.fileLen =>
                 r.ch = b.data[GetPos(b) + 1] /\ GetPos(r.b) = GetPos(b) + 1
            /\ GetPos(b) >= b.fileLen => r.ch = EoF /\ r.b = b
<1>1. /\ b \in Buffers /\ b.kind \notin {"pipe", "istream"}
      /\ b.bufStart \in Nat /\ b.bufLen \in Nat /\ b.bufPos \in 0..b.bufLen /\ b.fileLen \in Nat
  BY Fields DEF Sound, Direct
<1>2. GetPos(b) = b.bufStart + b.bufPos /\ GetPos(b) \in 0..b.fileLen
  BY <1>1 DEF GetPos, Sound
<1>3. CASE b.bufPos < b.bufLen
  <2>1. ReadByte(b) = TakeByte(b)
    BY <1>1, <1>3 DEF ReadByte
  <2>2. GetPos(b) < b.fileLen
    BY <1>1, <1>2, <1>3 DEF Sound
  <2> DEFINE r == TakeByte(b)
  <2>3. /\ Sound(r.b) /\ Same(r.b, b)
        /\ r.ch = b.data[GetPos(b) + 1] /\ GetPos(r.b) = GetPos(b) + 1
    BY <1>3, TakeByteRight
  <2> HIDE DEF r
  <2>4. ~(GetPos(b) >= b.fileLen)
    BY <1>1, <1>2, <2>2
  <2> QED
    BY <2>1, <2>3, <2>4 DEF r
<1>4. CASE ~(b.bufPos < b.bufLen) /\ GetPos(b) < b.fileLen
  <2> DEFINE s == SetPos(b, GetPos(b))
  <2>1. ReadByte(b) = TakeByte(s)
    BY <1>1, <1>4 DEF ReadByte
  <2>2. b.open /\ b.bufCapacity > 0 /\ Direct(b)
    BY <1>1, <1>2, <1>4 DEF Sound, Reachable
  <2>3. s = SwapIn(b, GetPos(b))
    BY <1>1, <1>2, <1>4, <2>2 DEF SetPos, CanSeek, MoveTo
  <2>4. /\ Sound(s) /\ Same(s, b) /\ s.bufStart = GetPos(b) /\ s.bufPos = 0
        /\ s.bufLen = Least(b.bufCapacity, b.fileLen - GetPos(b))
        /\ s.data = b.data /\ s.kind = b.kind /\ s.fileLen = b.fileLen
    BY <1>2, <2>2, <2>3, SwappedIn
  <2>5. GetPos(s) = GetPos(b) /\ s.bufPos < s.bufLen
    BY <1>1, <1>2, <1>4, <2>2, <2>4, Fields DEF GetPos, Least
  <2> HIDE DEF s
  <2> DEFINE r == TakeByte(s)
  <2>6. /\ Sound(r.b) /\ Same(r.b, s)
        /\ r.ch = s.data[GetPos(s) + 1] /\ GetPos(r.b) = GetPos(s) + 1
    BY <2>4, <2>5, TakeByteRight
  <2> HIDE DEF r
  <2>7. Same(r.b, b)
    BY <2>4, <2>6 DEF Same
  <2> QED
    BY <1>1, <1>2, <1>4, <2>1, <2>4, <2>5, <2>6, <2>7 DEF r
<1>5. CASE GetPos(b) >= b.fileLen
  <2>1. ~(b.bufPos < b.bufLen)
    BY <1>1, <1>2, <1>5 DEF Sound
  <2>2. ReadByte(b) = TakeNew(b, b)
    BY <1>1, <1>2, <1>5, <2>1 DEF ReadByte, CanSeek
  <2>3. TakeNew(b, b) = [b |-> b, ch |-> EoF]
    BY <1>1 DEF TakeNew
  <2> QED
    BY <1>1, <1>2, <1>5, <2>2, <2>3 DEF Same
<1> QED
  BY <1>1, <1>2, <1>3, <1>4, <1>5

----------------------------------------------------------------------------
(* A buffer in use.                                                        *)

VARIABLE buffer

\* The constructors over a piece of memory and a file that is not empty.
UseInit ==
  \E data \in Seq(0..255) :
    \/ buffer = Memory(data)
    \/ \E kind \in {"file", "userFile"} : data # <<>> /\ buffer = File(kind, data)

\* Buffer::Read, and SetPos to a position of the input.
UseNext ==
  \/ buffer' = ReadByte(buffer).b
  \/ \E value \in 0..buffer.fileLen : buffer' = SetPos(buffer, value)

UseSpec == UseInit /\ [][UseNext]_buffer

\* The inductive invariant.
Kept == Sound(buffer)

\* A buffer before anything is read.
LEMMA EmptyFields ==
  ASSUME NEW kind \in Kinds, NEW data \in Seq(0..255)
  PROVE  LET e == Empty(kind, data)
         IN /\ e \in Buffers /\ e.data = data /\ e.kind = kind /\ e.bufStart = 0 /\ e.bufPos = 0
            /\ e.buf = <<>> /\ e.bufLen = 0 /\ e.fileLen = 0 /\ e.at = 0
            /\ ~e.open /\ ~e.exited /\ ~e.fail /\ ~e.utf8
  BY DEF Empty, Buffers

\* It is at the beginning of its input.
Begun(b, kind, data) ==
  b.data = data /\ b.kind = kind /\ GetPos(b) = 0 /\ ~b.fail /\ ~b.utf8

\* A buffer over a piece of memory shows all of it.
LEMMA MemorySound ==
  ASSUME NEW data \in Seq(0..255)
  PROVE  Sound(Memory(data)) /\ Begun(Memory(data), "memory", data)
<1> DEFINE b == Memory(data)
<1>1. /\ b \in Buffers /\ b.data = data /\ b.kind = "memory" /\ b.buf = data
      /\ b.bufLen = Len(data) /\ b.fileLen = Len(data) /\ b.bufStart = 0 /\ b.bufPos = 0
      /\ ~b.open /\ ~b.exited /\ ~b.fail /\ ~b.utf8
  <2> DEFINE e == Empty("memory", data)
  <2>1. /\ e \in Buffers /\ e.data = data /\ e.kind = "memory" /\ e.bufStart = 0 /\ e.bufPos = 0
        /\ ~e.open /\ ~e.exited /\ ~e.fail /\ ~e.utf8
    BY EmptyFields DEF Kinds
  <2>2. Memory(data) = [e EXCEPT !.buf = data, !.bufCapacity = Len(data), !.bufLen = Len(data),
                                 !.fileLen = Len(data)]
    BY DEF Memory
  <2> HIDE DEF e
  <2> DEFINE n == Len(data)
             m == [e EXCEPT !.buf = data, !.bufCapacity = n, !.bufLen = n, !.fileLen = n]
  <2>3. n \in Nat
    OBVIOUS
  <2> HIDE DEF n
  <2>4. /\ m \in Buffers /\ m.data = e.data /\ m.kind = e.kind /\ m.buf = data
        /\ m.bufLen = n /\ m.fileLen = n /\ m.bufStart = e.bufStart /\ m.bufPos = e.bufPos
        /\ m.open = e.open /\ m.exited = e.exited /\ m.fail = e.fail /\ m.utf8 = e.utf8
    BY <2>1, <2>3 DEF Buffers
  <2> QED
    BY <2>1, <2>2, <2>4 DEF n
<1> HIDE DEF b
<1>2. Len(data) \in Nat /\ \A i \in 1..Len(data) : data[0 + i] = data[i]
  OBVIOUS
<1>3. Sound(b)
  BY <1>1, <1>2 DEF Sound, Direct, Reachable
<1>4. Begun(b, "memory", data)
  BY <1>1 DEF Begun, GetPos
<1> QED
  BY <1>3, <1>4 DEF b

\* A buffer over a file shows its beginning, and closes a file that fits into it.
LEMMA FileSound ==
  ASSUME NEW kind \in {"file", "userFile"}, NEW data \in Seq(0..255), data # <<>>
  PROVE  Sound(File(kind, data)) /\ Begun(File(kind, data), kind, data)
<1> DEFINE b == Opened(kind, data)
           s == SetPos(b, 0)
<1>1. Len(data) \in Nat /\ Len(data) > 0
  BY EmptySeq
<1>2. Least(Len(data), MaxBufferLength) \in Nat /\ Least(Len(data), MaxBufferLength) > 0
  BY <1>1, LengthsAssumption DEF Least
<1>3. /\ b \in Buffers /\ b.data = data /\ b.kind = kind /\ b.open /\ ~b.exited
      /\ b.fileLen = Len(data) /\ b.bufCapacity = Least(Len(data), MaxBufferLength)
      /\ b.bufStart = IntMax /\ ~b.fail /\ ~b.utf8
  <2> DEFINE e == Empty(kind, data)
             n == Len(data)
             window == Least(Len(data), MaxBufferLength)
             o == [e EXCEPT !.open = TRUE, !.fileLen = n, !.bufLen = window,
                            !.bufStart = IntMax, !.bufCapacity = window]
  <2>1. e \in Buffers /\ e.data = data /\ e.kind = kind /\ ~e.exited /\ ~e.fail /\ ~e.utf8
    BY EmptyFields DEF Kinds
  <2>2. Opened(kind, data) = [e EXCEPT !.open = TRUE, !.fileLen = n, !.bufLen = window,
          !.bufStart = IntMax, !.bufCapacity = IF window > 0 THEN window ELSE MinBufferLength]
    BY DEF Opened
  <2>3. n \in Nat /\ window \in Nat /\ IntMax \in Nat
        /\ (IF window > 0 THEN window ELSE MinBufferLength) = window
    BY <1>1, <1>2 DEF IntMax
  <2> HIDE DEF e, n, window
  <2>4. /\ o \in Buffers /\ o.data = e.data /\ o.kind = e.kind /\ o.open /\ o.exited = e.exited
        /\ o.fileLen = n /\ o.bufCapacity = window /\ o.bufStart = IntMax
        /\ o.fail = e.fail /\ o.utf8 = e.utf8
    BY <2>1, <2>3 DEF Buffers
  <2> QED
    BY <2>1, <2>2, <2>3, <2>4 DEF n, window
<1> HIDE DEF b
<1>4. Direct(b) /\ b.bufCapacity > 0 /\ 0 \in 0..b.fileLen
  BY <1>1, <1>2, <1>3 DEF Direct
<1>5. s = SwapIn(b, 0)
  <2>1. s = MoveTo(b, 0)
    BY <1>1, <1>3 DEF SetPos, CanSeek
  <2>2. ~(0 >= b.bufStart)
    BY <1>3 DEF IntMax
  <2> QED
    BY <1>1, <1>3, <2>1, <2>2 DEF MoveTo
<1>6. /\ Sound(s) /\ s.data = data /\ s.bufStart = 0 /\ s.bufPos = 0 /\ s.kind = kind /\ s.open
      /\ ~s.fail /\ ~s.utf8
  BY <1>3, <1>4, <1>5, SwappedIn DEF Same
<1> HIDE DEF s
<1>7. File(kind, data) = IF s.bufLen = s.fileLen /\ CanSeek(s) THEN Close(s) ELSE s
  <2>1. b.fileLen > 0
    BY <1>1, <1>3
  <2> QED
    BY <2>1 DEF File, b, s
<1>8. Begun(s, kind, data)
  BY <1>6 DEF Begun, GetPos
<1>9. ASSUME s.bufLen = s.fileLen PROVE Sound(Close(s)) /\ Begun(Close(s), kind, data)
  <2> DEFINE c == [s EXCEPT !.open = FALSE]
  <2>1. s \in Buffers
    BY <1>6 DEF Sound, Direct
  <2>2. /\ c \in Buffers /\ c.data = s.data /\ c.kind = s.kind /\ c.exited = s.exited
        /\ c.buf = s.buf /\ c.bufLen = s.bufLen /\ c.bufPos = s.bufPos
        /\ c.bufStart = s.bufStart /\ c.fileLen = s.fileLen /\ c.open = FALSE
        /\ c.fail = s.fail /\ c.utf8 = s.utf8
    BY <2>1 DEF Buffers
  <2>3. Close(s) = IF s.kind = "file" THEN c ELSE s
    BY DEF Close
  <2> HIDE DEF c
  <2>4. Sound(c)
    BY <1>6, <1>9, <2>2 DEF Sound, Direct, Reachable
  <2>5. Begun(c, kind, data)
    BY <1>6, <2>2 DEF Begun, GetPos
  <2> QED
    BY <1>6, <1>8, <2>3, <2>4, <2>5
<1> QED
  BY <1>6, <1>7, <1>8, <1>9

\* The window of a buffer over memory or a file shows the bytes of the input at its place,
\* the position stays in it, and neither Read nor SetPos exits: however long the input is,
\* however short the window, and in whatever order they are called.
THEOREM WindowKept == UseSpec => [](Window(buffer) /\ ~buffer.exited)
<1>1. UseInit => Kept
  BY MemorySound, FileSound DEF UseInit, Kept
<1>2. Kept /\ [UseNext]_buffer => Kept'
  <2> SUFFICES ASSUME Sound(buffer), [UseNext]_buffer PROVE Sound(buffer')
    BY DEF Kept
  <2>1. CASE buffer' = ReadByte(buffer).b
    BY <2>1, ReadByteRight
  <2>2. CASE \E value \in 0..buffer.fileLen : buffer' = SetPos(buffer, value)
    BY <2>2, SetPosRight
  <2>3. CASE UNCHANGED buffer
    BY <2>3
  <2> QED
    BY <2>1, <2>2, <2>3 DEF UseNext
<1>3. Kept => Window(buffer) /\ ~buffer.exited
  BY SoundWindow DEF Kept, Sound, Direct
<1> QED
  BY <1>1, <1>2, <1>3, PTL DEF UseSpec

----------------------------------------------------------------------------
(* The other kinds of buffer.                                              *)

\* A file without a byte, whose position is INT_MAX.
Vacant(b) ==
  /\ b \in Buffers /\ NoInput(b) /\ b.data = <<>> /\ ~b.exited
  /\ b.bufLen = 0 /\ b.bufPos = 0

\* A stream that cannot seek: the window holds all that was read of it, or is lost
\* at its end.
Piped(b) ==
  /\ b \in Buffers /\ b.kind = "pipe" /\ b.open /\ ~b.exited
  /\ 0 < b.bufCapacity /\ b.bufLen <= b.bufCapacity
  /\ b.fileLen <= Len(b.buf) /\ b.at <= Len(b.data)
  /\ b.bufPos \in Nat /\ b.bufStart + b.bufPos <= b.fileLen
  /\ IF b.bufLen < b.fileLen THEN b.bufLen = 0 /\ b.at = Len(b.data)
     ELSE /\ b.bufStart = 0 /\ b.bufLen = b.fileLen /\ b.at = b.fileLen
          /\ \A i \in 1..b.bufLen : b.buf[i] = b.data[i]

Streamed(b) == b \in Buffers /\ b.kind = "istream" /\ b.at <= Len(b.data) /\ ~b.exited

\* What no operation changes.
Alike(s, b) == s.data = b.data /\ s.kind = b.kind /\ s.utf8 = b.utf8

\* Readings written into the middle of a sequence.
Overwrite(buf, read, n) ==
  SubSeq(buf, 1, n) \o read \o SubSeq(buf, n + Len(read) + 1, Len(buf))

IsOverwrite(S, new, buf, read, n) ==
  /\ new \in Seq(S)
  /\ n + Len(read) <= Len(new) /\ Len(buf) <= Len(new)
  /\ \A i \in 1..n : new[i] = buf[i]
  /\ \A i \in 1..Len(read) : new[n + i] = read[i]

LEMMA Overwritten ==
  ASSUME NEW S, NEW buf \in Seq(S), NEW read \in Seq(S), NEW n \in Nat, n <= Len(buf)
  PROVE  IsOverwrite(S, Overwrite(buf, read, n), buf, read, n)
<1> PICK m \in Nat : m = Len(read)
  BY LenProperties
<1> PICK l \in Nat : l = Len(buf)
  BY LenProperties
<1> DEFINE rest == SubSeq(buf, n + m + 1, l)
           front == SubSeq(buf, 1, n)
<1>1. n <= l
  OBVIOUS
<1>2. \A i \in 1..l : buf[i] \in S
  BY ElementOfSeq
<1>3. front \in Seq(S) /\ Len(front) = n /\ \A i \in 1..n : front[i] = buf[i]
  <2>1. \A i \in 1..n : buf[i] \in S
    <3>1. TAKE i \in 1..n
    <3>2. i \in 1..l
      BY <1>1
    <3> QED
      BY <1>2, <3>2
  <2> QED
    BY <1>1, <2>1, SubSeqProperties
<1>4. rest \in Seq(S) /\ Len(rest) = IF n + m + 1 <= l THEN l - (n + m + 1) + 1 ELSE 0
  <2>1. \A i \in n + m + 1..l : buf[i] \in S
    BY <1>1, <1>2
  <2> QED
    BY <1>1, <2>1, SubSeqProperties
<1> PICK h \in Nat : h = Len(rest)
  BY <1>4, LenProperties
<1> HIDE DEF front, rest
<1> DEFINE fr == front \o read
<1>5. /\ fr \in Seq(S) /\ Len(fr) = n + m
      /\ \A i \in 1..n + m : fr[i] = IF i <= n THEN front[i] ELSE read[i - n]
  <2>1. /\ fr \in Seq(S) /\ Len(fr) = Len(front) + Len(read)
        /\ \A i \in 1..Len(front) + Len(read) :
             fr[i] = IF i <= Len(front) THEN front[i] ELSE read[i - Len(front)]
    BY <1>3, ConcatProperties
  <2> HIDE DEF fr
  <2> QED
    BY <1>3, <2>1
<1> HIDE DEF fr
<1> DEFINE new == fr \o rest
<1>6. /\ new \in Seq(S) /\ Len(new) = n + m + h
      /\ \A i \in 1..n + m : new[i] = fr[i]
  <2>1. /\ new \in Seq(S) /\ Len(new) = Len(fr) + Len(rest)
        /\ \A i \in 1..Len(fr) + Len(rest) : new[i] = IF i <= Len(fr) THEN fr[i] ELSE rest[i - Len(fr)]
    BY <1>4, <1>5, ConcatProperties
  <2> HIDE DEF new
  <2> QED
    BY <1>5, <2>1
<1> HIDE DEF new
<1>7. n + m <= Len(new) /\ l <= Len(new)
  BY <1>1, <1>4, <1>6
<1>8. \A i \in 1..n : new[i] = buf[i]
  BY <1>1, <1>3, <1>5, <1>6
<1>9. \A i \in 1..m : new[n + i] = read[i]
  <2>1. TAKE i \in 1..m
  <2>2. n + i \in 1..n + m /\ ~(n + i <= n) /\ n + i - n = i
    BY <1>1
  <2> QED
    BY <1>5, <1>6, <2>2
<1>10. new = Overwrite(buf, read, n)
  BY DEF new, fr, front, rest, Overwrite
<1> QED
  BY <1>6, <1>7, <1>8, <1>9, <1>10 DEF IsOverwrite

\* The piece of the input that fread finds.
PieceOf(data, value, n) == SubSeq(data, value + 1, Least(value + n, Len(data)))

IsPiece(read, data, value, n) ==
  /\ read \in Seq(0..255)
  /\ Len(read) = Least(n, Len(data) - value)
  /\ \A i \in 1..Len(read) : read[i] = data[value + i]

LEMMA PieceRight ==
  ASSUME NEW data \in Seq(0..255), NEW value \in 0..Len(data), NEW n \in Nat
  PROVE  IsPiece(PieceOf(data, value, n), data, value, n)
  BY Piece DEF IsPiece, PieceOf

\* The ways a stream that cannot seek changes its buffer.
Roomy(b, cap) == [b EXCEPT !.bufCapacity = cap]
Counted(b, n) == [b EXCEPT !.fileLen = n]

LEMMA RoomyFields ==
  ASSUME NEW b \in Buffers, NEW cap \in Nat
  PROVE  LET s == Roomy(b, cap)
         IN /\ s \in Buffers /\ Alike(s, b) /\ s.open = b.open /\ s.exited = b.exited
            /\ s.fail = b.fail
            /\ s.bufCapacity = cap /\ s.buf = b.buf /\ s.bufLen = b.bufLen /\ s.bufPos = b.bufPos
            /\ s.bufStart = b.bufStart /\ s.fileLen = b.fileLen /\ s.at = b.at
  BY DEF Buffers, Roomy, Alike

LEMMA CountedFields ==
  ASSUME NEW b \in Buffers, NEW n \in Nat
  PROVE  LET s == Counted(b, n)
         IN /\ s \in Buffers /\ Alike(s, b) /\ s.open = b.open /\ s.exited = b.exited
            /\ s.fail = b.fail
            /\ s.bufCapacity = b.bufCapacity /\ s.buf = b.buf /\ s.bufLen = b.bufLen
            /\ s.bufPos = b.bufPos /\ s.bufStart = b.bufStart /\ s.fileLen = n /\ s.at = b.at
  BY DEF Buffers, Counted, Alike

IsFilled(s, b, new, n, m) ==
  /\ s \in Buffers /\ Alike(s, b) /\ s.open = b.open /\ s.exited = b.exited
  /\ s.fail = b.fail
  /\ s.bufCapacity = b.bufCapacity /\ s.buf = new /\ s.bufLen = n
  /\ s.bufPos = b.bufPos /\ s.bufStart = b.bufStart /\ s.fileLen = b.fileLen /\ s.at = m

LEMMA ReadFields ==
  ASSUME NEW b \in Buffers, NEW new \in Seq(0..255), NEW n \in Nat, NEW m \in Nat
  PROVE  IsFilled(Filled(b, new, n, m), b, new, n, m)
  BY DEF Buffers, Filled, Alike, IsFilled

IsMoved(s, b, value, pos) ==
  /\ s \in Buffers /\ Alike(s, b) /\ s.open = b.open /\ s.exited = b.exited
  /\ s.fail = b.fail
  /\ s.bufCapacity = b.bufCapacity /\ s.buf = b.buf /\ s.bufLen = b.bufLen
  /\ s.bufPos = pos /\ s.bufStart = value /\ s.fileLen = b.fileLen /\ s.at = b.at

LEMMA MovedFields ==
  ASSUME NEW b \in Buffers, NEW value \in Nat, NEW pos \in Int
  PROVE  IsMoved(Placed(b, value, pos), b, value, pos)
  BY DEF Buffers, Placed, Alike, IsMoved

\* fread at the position of the stream, behind what is in the buffer.
IsRead(s, b, i, m) ==
  /\ s \in Buffers /\ Alike(s, b) /\ s.open = b.open /\ s.exited = b.exited
  /\ s.fail = b.fail
  /\ s.bufCapacity = b.bufCapacity /\ s.bufLen = i + m /\ s.at = b.at + m
  /\ s.bufPos = b.bufPos /\ s.bufStart = b.bufStart /\ s.fileLen = b.fileLen
  /\ s.at <= Len(b.data)
  /\ i + m <= Len(s.buf) /\ Len(b.buf) <= Len(s.buf)
  /\ \A k \in 1..i : s.buf[k] = b.buf[k]
  /\ \A k \in 1..m : s.buf[i + k] = b.data[b.at + k]

\* fread gives the bytes at the position of the stream, as many as there are.
LEMMA FReadRight ==
  ASSUME NEW b \in Buffers, b.at <= Len(b.data), NEW i \in Nat, i <= Len(b.buf), NEW n \in Nat
  PROVE  \E m \in Nat : m = Least(n, Len(b.data) - b.at) /\ IsRead(FRead(b, i, n), b, i, m)
<1>1. b.data \in Seq(0..255) /\ b.buf \in Seq(0..255) /\ b.at \in Nat
  BY Fields
<1> PICK l \in Nat : l = Len(b.data)
  BY <1>1, LenProperties
<1> PICK a \in Nat : a = b.at
  BY <1>1
<1> PICK k \in Nat : k = Len(b.buf)
  BY <1>1, LenProperties
<1> PICK data : data = b.data
  OBVIOUS
<1> PICK buf : buf = b.buf
  OBVIOUS
<1> PICK read : read = PieceOf(data, a, n)
  OBVIOUS
<1>2. IsPiece(read, data, a, n)
  <2>1. a \in 0..Len(data) /\ data \in Seq(0..255)
    BY <1>1
  <2> QED
    BY <2>1, PieceRight
<1> PICK m \in Nat : m = Len(read)
  BY <1>2, LenProperties DEF IsPiece
<1> PICK new : new = Overwrite(buf, read, i)
  OBVIOUS
<1>3. IsOverwrite(0..255, new, buf, read, i)
  <2> DEFINE S == 0..255
  <2>1. buf \in Seq(S) /\ read \in Seq(S) /\ i <= Len(buf)
    BY <1>1, <1>2 DEF IsPiece
  <2> HIDE DEF S
  <2>2. IsOverwrite(S, new, buf, read, i)
    BY <2>1, Overwritten
  <2> QED
    BY <2>2 DEF S
<1> PICK im \in Nat : im = i + m
  OBVIOUS
<1> PICK am \in Nat : am = a + m
  OBVIOUS
<1> PICK s : s = Filled(b, new, im, am)
  OBVIOUS
<1>4. FRead(b, i, n) = s
  BY DEF FRead, Filled, Readable, PieceOf, Overwrite
<1>5. IsFilled(s, b, new, im, am)
  BY <1>3, ReadFields DEF IsOverwrite
<1>6. m = Least(n, l - a) /\ a + m <= l
  BY <1>1, <1>2 DEF IsPiece, Least
<1>7. \A j \in 1..m : new[i + j] = data[a + j]
  <2>1. \A j \in 1..m : read[j] = data[a + j]
    BY <1>2, Zenon DEF IsPiece
  <2>2. \A j \in 1..m : new[i + j] = read[j]
    BY <1>3, Zenon DEF IsOverwrite
  <2>3. TAKE j \in 1..m
  <2>4. read[j] = data[a + j] /\ new[i + j] = read[j]
    BY <2>1, <2>2, Zenon
  <2> QED
    BY ONLY <2>4
<1>8. im <= Len(new) /\ k <= Len(new) /\ \A j \in 1..i : new[j] = buf[j]
  BY <1>3 DEF IsOverwrite
<1>9. IsRead(s, b, i, m)
  BY <1>5, <1>6, <1>7, <1>8 DEF IsFilled, IsRead
<1> QED
  BY <1>4, <1>6, <1>9

\* A chunk more, or the end of the stream.
LEMMA ChunkRight ==
  ASSUME NEW b, Piped(b)
  PROVE  LET s == ReadNextStreamChunk(b)
         IN /\ Piped(s) /\ Alike(s, b) /\ s.fail = b.fail
            /\ s.bufPos = b.bufPos /\ s.bufStart = b.bufStart /\ b.at <= s.at
            /\ IF s.bufLen > b.bufLen THEN b.bufLen = b.fileLen /\ b.fileLen < s.fileLen
               ELSE s.bufLen = b.bufLen /\ s.fileLen = b.fileLen /\ s.at = Len(s.data)
<1>1. /\ b.data \in Seq(0..255) /\ b.buf \in Seq(0..255) /\ b \in Buffers
      /\ b.bufCapacity \in Nat /\ b.bufLen \in Nat /\ b.bufPos \in Nat /\ b.bufStart \in Nat
      /\ b.fileLen \in Nat /\ b.at \in Nat /\ Len(b.data) \in Nat /\ Len(b.buf) \in Nat
  BY Fields, LenProperties DEF Piped
<1> DEFINE cap == IF b.bufCapacity = b.bufLen THEN b.bufLen * 2 ELSE b.bufCapacity
           r == WithRoom(b)
<1>2. cap \in Nat /\ b.bufLen < cap
  BY <1>1 DEF Piped
<1>3. /\ r \in Buffers /\ Alike(r, b) /\ r.open = b.open /\ r.exited = b.exited
      /\ r.fail = b.fail
      /\ r.bufCapacity = cap /\ r.buf = b.buf /\ r.bufLen = b.bufLen /\ r.bufPos = b.bufPos
      /\ r.bufStart = b.bufStart /\ r.fileLen = b.fileLen /\ r.at = b.at
  <2>1. CASE b.bufCapacity = b.bufLen
    <3>1. r = Roomy(b, cap)
      BY <2>1 DEF WithRoom, Roomy
    <3> HIDE DEF r, cap
    <3> QED
      BY <1>1, <1>2, <3>1, RoomyFields
  <2>2. CASE b.bufCapacity # b.bufLen
    <3>1. r = b
      BY <2>2 DEF WithRoom
    <3> QED
      BY <1>1, <2>2, <3>1 DEF Alike
  <2> QED
    BY <2>1, <2>2
<1> HIDE DEF r, cap
<1> DEFINE n == r.bufCapacity - r.bufLen
           f == FRead(r, r.bufLen, n)
<1>4. n \in Nat \ {0} /\ n = cap - b.bufLen
  BY <1>1, <1>2, <1>3
<1> HIDE DEF n
<1>5. b.bufLen <= Len(b.buf) /\ b.bufLen <= b.fileLen
  BY <1>1 DEF Piped
<1>6. PICK m \in Nat :
         /\ m = Least(n, Len(b.data) - b.at)
         /\ f \in Buffers /\ Alike(f, b) /\ f.open = b.open /\ f.exited = b.exited
         /\ f.fail = b.fail
         /\ f.bufCapacity = cap /\ f.bufLen = b.bufLen + m /\ f.at = b.at + m
         /\ f.bufPos = b.bufPos /\ f.bufStart = b.bufStart /\ f.fileLen = b.fileLen
         /\ f.at <= Len(b.data)
         /\ b.bufLen + m <= Len(f.buf) /\ Len(b.buf) <= Len(f.buf)
         /\ \A k \in 1..b.bufLen : f.buf[k] = b.buf[k]
         /\ \A k \in 1..m : f.buf[b.bufLen + k] = b.data[b.at + k]
  <2>1. r.at <= Len(r.data) /\ r.bufLen \in Nat /\ r.bufLen <= Len(r.buf) /\ r.data = b.data
    BY <1>1, <1>3, <1>5 DEF Piped, Alike
  <2>2. \E m \in Nat : m = Least(n, Len(r.data) - r.at) /\ IsRead(f, r, r.bufLen, m)
    <3>1. n \in Nat /\ r \in Buffers
      BY <1>3, <1>4
    <3> QED
      BY <2>1, <3>1, FReadRight
  <2> HIDE DEF f
  <2>3. PICK m \in Nat : m = Least(n, Len(b.data) - b.at) /\ IsRead(f, r, b.bufLen, m)
    BY <1>3, <2>1, <2>2
  <2>4. /\ f \in Buffers /\ Alike(f, r) /\ f.open = r.open /\ f.exited = r.exited
        /\ f.fail = r.fail
        /\ f.bufCapacity = r.bufCapacity /\ f.bufLen = b.bufLen + m /\ f.at = r.at + m
        /\ f.bufPos = r.bufPos /\ f.bufStart = r.bufStart /\ f.fileLen = r.fileLen
        /\ f.at <= Len(r.data)
        /\ b.bufLen + m <= Len(f.buf) /\ Len(r.buf) <= Len(f.buf)
    BY <2>3, Zenon DEF IsRead
  <2>5. /\ \A k \in 1..b.bufLen : f.buf[k] = b.buf[k]
        /\ \A k \in 1..m : f.buf[b.bufLen + k] = b.data[b.at + k]
    BY <1>3, <2>1, <2>3, Zenon DEF IsRead
  <2>6. Alike(f, b)
    BY <1>3, <2>4 DEF Alike
  <2> HIDE DEF Alike
  <2> QED
    BY <1>3, <2>1, <2>3, <2>4, <2>5, <2>6
<1> HIDE DEF f
<1> DEFINE s == ReadNextStreamChunk(b)
<1>7. s = IF f.bufLen > r.bufLen THEN Counted(f, f.bufLen) ELSE r
  BY DEF ReadNextStreamChunk, Counted, f, r, n
<1>8. CASE m > 0
  <2> DEFINE c == Counted(f, f.bufLen)
  <2>1. s = c /\ f.bufLen \in Nat
    BY <1>1, <1>3, <1>6, <1>7, <1>8
  <2>2. /\ c \in Buffers /\ Alike(c, f) /\ c.open = f.open /\ c.exited = f.exited
        /\ c.fail = f.fail
        /\ c.bufCapacity = f.bufCapacity /\ c.buf = f.buf /\ c.bufLen = f.bufLen
        /\ c.bufPos = f.bufPos /\ c.bufStart = f.bufStart /\ c.fileLen = f.bufLen /\ c.at = f.at
    BY <1>6, <2>1, CountedFields
  <2> HIDE DEF c, s
  <2>3. b.at < Len(b.data) /\ ~(b.bufLen < b.fileLen)
    BY <1>1, <1>4, <1>6, <1>8 DEF Least, Piped
  <2>4. b.bufStart = 0 /\ b.bufLen = b.fileLen /\ b.at = b.fileLen
        /\ \A i \in 1..b.bufLen : b.buf[i] = b.data[i]
    BY <2>3 DEF Piped
  <2>5. \A i \in 1..b.bufLen + m : f.buf[i] = b.data[i]
    <3>1. TAKE i \in 1..b.bufLen + m
    <3>2. CASE i <= b.bufLen
      BY <1>1, <1>6, <2>4, <3>2
    <3>3. CASE i > b.bufLen
      <4>1. i - b.bufLen \in 1..m /\ b.bufLen + (i - b.bufLen) = i
        BY <1>1, <3>3
      <4>2. f.buf[b.bufLen + (i - b.bufLen)] = b.data[b.at + (i - b.bufLen)]
        BY <1>6, <4>1
      <4> QED
        BY <2>4, <4>1, <4>2
    <3> QED
      BY <1>1, <3>2, <3>3
  <2>6. /\ Len(c.buf) \in Nat /\ c.fileLen <= Len(c.buf) /\ c.bufLen <= c.bufCapacity
        /\ b.fileLen < c.fileLen /\ c.bufLen > b.bufLen /\ c.bufLen = b.bufLen + m
    BY <1>1, <1>2, <1>4, <1>6, <1>8, <2>2, <2>4, Fields, LenProperties DEF Least
  <2>7. Piped(c)
    BY <1>1, <1>2, <1>6, <2>2, <2>4, <2>5, <2>6 DEF Piped, Alike
  <2> QED
    BY <1>1, <1>6, <2>1, <2>2, <2>4, <2>6, <2>7 DEF Alike, s
<1>9. CASE m = 0
  <2>1. s = r
    BY <1>1, <1>3, <1>6, <1>7, <1>9
  <2>2. b.at = Len(b.data)
    BY <1>1, <1>4, <1>6, <1>9 DEF Least, Piped
  <2> HIDE DEF s
  <2>3. Piped(r)
    BY <1>1, <1>2, <1>3 DEF Piped, Alike
  <2> QED
    BY <1>1, <1>3, <2>1, <2>2, <2>3 DEF Alike, s
<1> QED
  BY <1>8, <1>9

\* What the turns of a loop keep holds behind the last of them.
LEMMA TurnsKeep ==
  ASSUME NEW N \in Nat, NEW G, 0 \in G, \A n \in 1..N : n - 1 \in G => n \in G
  PROVE  N \in G
<1> SUFFICES ASSUME N \notin G PROVE FALSE
  OBVIOUS
<1> DEFINE T == {n \in 0..N : n \notin G}
<1>1. PICK x \in T : \A y \in T : x <= y
  <2>1. T \subseteq Nat /\ N \in T
    OBVIOUS
  <2> HIDE DEF T
  <2> QED
    BY <2>1, FirstOf
<1>2. x \in 1..N /\ x - 1 \in 0..N
  BY <1>1
<1>3. x - 1 \notin T
  BY <1>1, <1>2
<1> QED
  BY <1>1, <1>2, <1>3

\* The function that a loop computes exists.
IsRun(f, S, x, N, step) ==
  f \in [0..N -> S] /\ f[0] = x /\ \A n \in 1..N : f[n] = step[f[n - 1]]

LEMMA TurnsExist ==
  ASSUME NEW S, NEW x \in S, NEW N \in Nat, NEW step \in [S -> S]
  PROVE  \E f : IsRun(f, S, x, N, step)
<1> DEFINE Run(m, f) ==
             f \in [0..m -> S] /\ f[0] = x /\ \A n \in 1..m : f[n] = step[f[n - 1]]
           G == {m \in 0..N : \E f : Run(m, f)}
<1>1. 0 \in G
  <2> DEFINE f == [n \in 0..0 |-> x]
  <2>1. Run(0, f)
    OBVIOUS
  <2> HIDE DEF f, Run
  <2>2. \E g : Run(0, g)
    BY <2>1
  <2> QED
    BY <2>2
<1>2. ASSUME NEW n \in 1..N, n - 1 \in G PROVE n \in G
  <2> PICK m \in Nat : m = n - 1
    OBVIOUS
  <2>1. PICK f : Run(m, f)
    BY <1>2
  <2> DEFINE g == [i \in 0..n |-> IF i = n THEN step[f[m]] ELSE f[i]]
  <2>2. f[m] \in S /\ step[f[m]] \in S
    BY <2>1
  <2>3. g \in [0..n -> S] /\ g[0] = x /\ g[n] = step[f[m]] /\ \A i \in 0..m : g[i] = f[i]
    BY <2>1, <2>2
  <2> HIDE DEF g
  <2>4. \A i \in 1..n : g[i] = step[g[i - 1]]
    <3>1. TAKE i \in 1..n
    <3>2. i - 1 \in 0..m /\ g[i - 1] = f[i - 1]
      BY <2>3
    <3>3. CASE i = n
      BY <2>3, <3>2, <3>3
    <3>4. CASE i # n
      <4>1. i \in 1..m /\ i \in 0..m
        BY <3>4
      <4> QED
        BY <2>1, <2>3, <3>2, <4>1
    <3> QED
      BY <3>3, <3>4
  <2>5. Run(n, g)
    BY <2>3, <2>4
  <2> HIDE DEF Run
  <2>6. \E h : Run(n, h)
    BY <2>5
  <2> QED
    BY <2>6
<1>3. N \in G
  <2> HIDE DEF G
  <2> QED
    BY <1>1, <1>2, TurnsKeep
<1> QED
  BY <1>3 DEF IsRun

\* The window of a stream that cannot seek, once it is lost.
LEMMA PipeSwapped ==
  ASSUME NEW b, Piped(b), b.at = Len(b.data), NEW value \in 0..b.fileLen,
         value = b.fileLen \/ b.bufLen < b.fileLen
  PROVE  LET s == SwapIn(b, value)
         IN /\ Piped(s) /\ Alike(s, b) /\ s.fail = b.fail /\ s.fileLen = b.fileLen
            /\ s.bufStart = value /\ s.bufPos = 0 /\ s.bufLen = 0
<1>1. /\ b \in Buffers /\ b.kind = "pipe" /\ b.bufCapacity \in Nat /\ b.at \in Nat
      /\ b.fileLen \in Nat /\ Len(b.data) \in Nat /\ Len(b.buf) \in Nat /\ value \in Nat
      /\ value <= b.fileLen /\ b.bufLen \in Nat /\ b.bufStart \in Nat
  BY Fields, LenProperties DEF Piped
<1> PICK f : f = FRead(b, 0, b.bufCapacity)
  OBVIOUS
<1>2. PICK m \in Nat : m = Least(b.bufCapacity, Len(b.data) - b.at) /\ IsRead(f, b, 0, m)
  <2>1. b.at <= Len(b.data) /\ 0 <= Len(b.buf) /\ 0 \in Nat
    BY <1>1
  <2> QED
    BY <1>1, <2>1, FReadRight
<1>3. m = 0
  BY <1>1, <1>2 DEF Least
<1>4. /\ f \in Buffers /\ Alike(f, b) /\ f.open = b.open /\ f.exited = b.exited
      /\ f.fail = b.fail
      /\ f.bufCapacity = b.bufCapacity /\ f.bufLen = 0 + m /\ f.at = b.at + m
      /\ f.fileLen = b.fileLen /\ Len(b.buf) <= Len(f.buf)
  BY <1>2, Zenon DEF IsRead
<1>5. 0 + m = 0 /\ b.at + m = b.at
  BY <1>1, <1>3
<1> PICK s : s = Placed(f, value, 0)
  OBVIOUS
<1>6. SwapIn(b, value) = s
  BY <1>1 DEF SwapIn, FSeek, CanSeek, Placed
<1>7. /\ s \in Buffers /\ Alike(s, f) /\ s.open = f.open /\ s.exited = f.exited
      /\ s.fail = f.fail
      /\ s.bufCapacity = f.bufCapacity /\ s.buf = f.buf /\ s.bufLen = f.bufLen
      /\ s.bufPos = 0 /\ s.bufStart = value /\ s.fileLen = f.fileLen /\ s.at = f.at
  <2>1. f \in Buffers /\ 0 \in Int
    BY <1>4
  <2>2. IsMoved(s, f, value, 0)
    BY <1>1, <2>1, MovedFields
  <2> QED
    BY <2>2, Zenon DEF IsMoved
<1>8. Len(s.buf) \in Nat
  BY <1>7, Fields, LenProperties
<1>9. Piped(s)
  <2>1. /\ s.kind = "pipe" /\ s.open /\ ~s.exited /\ s.data = b.data
        /\ s.bufCapacity = b.bufCapacity /\ s.fileLen = b.fileLen /\ s.at = b.at
        /\ s.bufLen = 0 /\ s.bufPos = 0 /\ s.bufStart = value /\ Len(b.buf) <= Len(s.buf)
    BY <1>1, <1>4, <1>5, <1>7 DEF Piped, Alike
  <2>2. 0 < b.bufCapacity /\ b.fileLen <= Len(b.buf)
    BY DEF Piped
  <2>3. b.fileLen = 0 => b.at = 0 /\ value = 0
    BY <1>1 DEF Piped
  <2>4. s.bufLen < s.fileLen \/ s.fileLen = 0
    BY <1>1, <2>1
  <2>5. \A i \in 1..s.bufLen : s.buf[i] = s.data[i]
    BY <2>1
  <2>6. s \in Buffers /\ 0 < s.bufCapacity /\ s.bufLen <= s.bufCapacity
        /\ s.fileLen <= Len(s.buf) /\ s.at <= Len(s.data)
        /\ s.bufPos \in Nat /\ s.bufStart + s.bufPos <= s.fileLen
    BY <1>1, <1>7, <1>8, <2>1, <2>2
  <2> QED
    BY <1>1, <2>1, <2>3, <2>4, <2>5, <2>6 DEF Piped
<1> QED
  BY <1>4, <1>5, <1>6, <1>7, <1>9 DEF Alike

\* Chunks are read until the position is in sight, or the stream ends.
LEMMA StreamedTo ==
  ASSUME NEW b, Piped(b), NEW value \in Nat
  PROVE  LET s == StreamTo(b, value)
         IN /\ Piped(s) /\ Alike(s, b) /\ s.fail = b.fail /\ b.fileLen <= s.fileLen
            /\ value < s.fileLen \/ s.at = Len(s.data)
            /\ ~Lost(b) => ~Lost(s)
<1> DEFINE S == {c \in Buffers : /\ Piped(c) /\ Alike(c, b) /\ c.fail = b.fail
                                 /\ b.fileLen <= c.fileLen /\ (~Lost(b) => ~Lost(c))}
           more(c) == IF value >= c.fileLen THEN ReadNextStreamChunk(c) ELSE c
           step == [c \in S |-> more(c)]
           Sight(c) == value < c.fileLen \/ c.at = Len(c.data)
<1>1. /\ b \in Buffers /\ b.data \in Seq(0..255) /\ Len(b.data) \in Nat /\ b \in S
  BY Fields, LenProperties DEF Piped, Alike
<1> PICK N \in Nat : N = Len(b.data) + 1
  BY <1>1
<1>2. \A c \in S : /\ more(c) \in S /\ (Sight(c) => Sight(more(c)))
                   /\ ~Sight(more(c)) => c.fileLen < more(c).fileLen
  <2> TAKE c \in S
  <2>1. /\ c \in Buffers /\ Piped(c) /\ c.fileLen \in Nat /\ b.fileLen \in Nat
        /\ c.at \in Nat /\ Len(c.data) \in Nat
    BY <1>1, Fields, LenProperties
  <2>2. CASE value >= c.fileLen
    <3> PICK s : s = ReadNextStreamChunk(c)
      OBVIOUS
    <3>1. /\ Piped(s) /\ Alike(s, c) /\ s.fail = c.fail /\ c.at <= s.at
          /\ IF s.bufLen > c.bufLen THEN c.bufLen = c.fileLen /\ c.fileLen < s.fileLen
             ELSE s.bufLen = c.bufLen /\ s.fileLen = c.fileLen /\ s.at = Len(s.data)
      BY <2>1, ChunkRight
    <3>2. s \in Buffers /\ s.fileLen \in Nat /\ s.at \in Nat /\ s.at <= Len(s.data)
      BY <3>1, Fields DEF Piped
    <3>3. more(c) = s
      BY <2>2
    <3>4. s \in S
      <4>1. ~Lost(c) => ~Lost(s)
        BY <2>1, <3>1, <3>2, Fields DEF Lost, Piped
      <4> QED
        BY <2>1, <3>1, <3>2, <4>1 DEF Alike
    <3>5. ~Sight(s) => c.fileLen < s.fileLen
      BY <3>1
    <3>6. Sight(c) => Sight(s)
      <4>1. c.at = Len(c.data) => s.at = Len(s.data)
        BY <2>1, <3>1, <3>2 DEF Alike
      <4>2. c.fileLen <= s.fileLen
        BY <2>1, <3>1, <3>2
      <4> QED
        BY <2>1, <3>2, <4>1, <4>2
    <3> QED
      BY <3>3, <3>4, <3>5, <3>6
  <2>3. CASE ~(value >= c.fileLen)
    BY <2>1, <2>3
  <2> QED
    BY <2>2, <2>3
<1>3. step \in [S -> S]
  BY <1>2
<1>4. PICK f : IsRun(f, S, b, N, step)
  <2> HIDE DEF S, step
  <2> QED
    BY <1>1, <1>3, TurnsExist
<1>5. \A c \in S : step[c] = more(c)
  OBVIOUS
<1> HIDE DEF step, S
<1> DEFINE Loop(g) == g = [n \in 0..N |-> IF n = 0 THEN b ELSE more(g[n - 1])]
<1> HIDE DEF more
<1>6. Loop(f)
  <2>1. ASSUME NEW n \in 0..N PROVE f[n] = IF n = 0 THEN b ELSE more(f[n - 1])
    <3>1. CASE n = 0
      BY <1>4, <3>1 DEF IsRun
    <3>2. CASE n # 0
      <4>1. n \in 1..N /\ n - 1 \in 0..N
        BY <3>2
      <4>2. f[n] = step[f[n - 1]] /\ f[n - 1] \in S
        BY <1>4, <4>1 DEF IsRun
      <4> QED
        BY <1>5, <3>2, <4>2
    <3> QED
      BY <3>1, <3>2
  <2> QED
    BY <1>4, <2>1 DEF IsRun
<1>7. PICK g : Loop(g) /\ StreamTo(b, value) = g[N]
  <2> DEFINE h == CHOOSE g : Loop(g)
  <2>1. Loop(h)
    BY <1>6, Zenon
  <2>2. StreamTo(b, value) = h[N]
    BY DEF StreamTo, more
  <2> QED
    BY <2>1, <2>2
<1>8. \A n \in 0..N : g[n] = IF n = 0 THEN b ELSE more(g[n - 1])
  BY <1>7
<1> HIDE DEF Loop
<1> DEFINE G == {n \in 0..N : g[n] \in S /\ (Sight(g[n]) \/ n <= g[n].fileLen)}
<1>9. 0 \in G
  <2>1. g[0] = b /\ b.fileLen \in Nat
    BY <1>1, <1>8, Fields
  <2> QED
    BY <1>1, <2>1
<1>10. ASSUME NEW n \in 1..N, n - 1 \in G PROVE n \in G
  <2> PICK c : c = g[n - 1]
    OBVIOUS
  <2>1. g[n] = more(c) /\ c \in S /\ (Sight(c) \/ n - 1 <= c.fileLen)
    BY <1>8, <1>10
  <2>2. more(c) \in S /\ (Sight(c) => Sight(more(c))) /\ (~Sight(more(c)) => c.fileLen < more(c).fileLen)
    BY <1>2, <2>1
  <2>3. c.fileLen \in Nat /\ more(c).fileLen \in Nat
    BY <2>1, <2>2, Fields DEF S
  <2>4. Sight(more(c)) \/ n <= more(c).fileLen
    <3> HIDE DEF Sight
    <3> QED
      BY <2>1, <2>2, <2>3
  <2> QED
    BY <2>1, <2>2, <2>4
<1>11. N \in G
  <2> HIDE DEF G
  <2> QED
    BY <1>9, <1>10, TurnsKeep
<1> PICK s : s = g[N]
  OBVIOUS
<1>12. /\ Piped(s) /\ Alike(s, b) /\ s.fail = b.fail /\ b.fileLen <= s.fileLen
       /\ (~Lost(b) => ~Lost(s))
       /\ Sight(s) \/ N <= s.fileLen
  BY <1>11 DEF S
<1>13. Sight(s)
  <2> SUFFICES ASSUME ~Sight(s) PROVE FALSE
    OBVIOUS
  <2>1. /\ s.at \in Nat /\ s.fileLen \in Nat /\ s.bufLen \in Nat /\ s.at <= Len(s.data)
        /\ s.data = b.data
    BY <1>12, Fields DEF Piped, Alike
  <2>2. ~(s.bufLen < s.fileLen) /\ s.at = s.fileLen
    BY <1>12 DEF Piped
  <2> QED
    BY <1>1, <1>12, <2>1, <2>2
<1> QED
  BY <1>7, <1>12, <1>13

Good(b) == Sound(b) \/ Vacant(b) \/ Piped(b) \/ Streamed(b)

\* What a buffer becomes by reading and moving about.
Follows(s, b) ==
  /\ Good(s) /\ Alike(s, b)
  /\ b.fileLen <= s.fileLen
  /\ b.fail => s.fail
  /\ NoInput(s) <=> NoInput(b)

\* A place in the input that the buffer was at, or one tellg gave that it failed at.
Seen(b, p) ==
  /\ ~NoInput(b)
  /\ IF b.kind = "istream" THEN p \in Int /\ (b.fail \/ p \in 0..Len(b.data))
     ELSE p \in 0..b.fileLen

\* A byte, or EoF; get of a stream that failed gives what the casts make of it.
IsReading(r, b) ==
  /\ Follows(r.b, b) /\ r.ch \in Int
  /\ NoInput(b) => r.b = b /\ r.ch = EoF

\* What all kinds have in common.
LEMMA GoodTypes ==
  ASSUME NEW b, Good(b)
  PROVE  b \in Buffers /\ ~b.exited /\ b.data \in Seq(0..255) /\ Len(b.data) \in Nat
<1>1. b \in Buffers /\ ~b.exited
  BY DEF Good, Sound, Direct, Vacant, Piped, Streamed
<1> QED
  BY <1>1, Fields, LenProperties

LEMMA FollowsItself == ASSUME NEW b, Good(b) PROVE Follows(b, b)
<1>1. b.fileLen \in Nat
  BY GoodTypes, Fields
<1> QED
  BY <1>1 DEF Follows, Alike

\* Reading and moving about go on.
LEMMA FollowsOn ==
  ASSUME NEW s, NEW r, NEW b, Good(b), Follows(r, b), Follows(s, r)
  PROVE  Follows(s, b)
<1>1. b.fileLen \in Nat /\ r.fileLen \in Nat /\ s.fileLen \in Nat
  BY GoodTypes, Fields DEF Follows
<1> QED
  BY <1>1 DEF Follows, Alike

\* A place stays in sight.
LEMMA SeenLater ==
  ASSUME NEW s, NEW b, Good(b), Follows(s, b), NEW p, Seen(b, p)
  PROVE  Seen(s, p)
<1>1. b.fileLen \in Nat /\ s.fileLen \in Nat
  BY GoodTypes, Fields DEF Follows
<1> QED
  BY <1>1 DEF Follows, Alike, Seen

\* The buffer is at a place.
LEMMA SeenHere ==
  ASSUME NEW b, Good(b)
  PROVE  /\ GetPos(b) \in Int
         /\ ~NoInput(b) => Seen(b, GetPos(b))
<1>1. /\ b \in Buffers /\ b.bufStart \in Nat /\ b.bufPos \in Int /\ b.bufLen \in Nat
      /\ b.fileLen \in Nat /\ b.at \in Nat /\ Len(b.data) \in Nat
  BY GoodTypes, Fields
<1>2. CASE Sound(b)
  <2>1. b.kind # "istream" /\ b.bufPos \in 0..b.bufLen /\ b.bufStart + b.bufLen <= b.fileLen
    BY <1>2 DEF Sound, Direct
  <2> QED
    BY <1>1, <2>1 DEF Seen, GetPos
<1>3. CASE Vacant(b)
  BY <1>1, <1>3 DEF Vacant, NoInput, GetPos
<1>4. CASE Piped(b)
  <2>1. b.kind = "pipe" /\ b.bufPos \in Nat /\ b.bufStart + b.bufPos <= b.fileLen
    BY <1>4 DEF Piped
  <2> QED
    BY <1>1, <2>1 DEF Seen, GetPos
<1>5. CASE Streamed(b)
  <2>1. b.kind = "istream" /\ b.at <= Len(b.data)
    BY <1>5 DEF Streamed
  <2> QED
    BY <1>1, <2>1 DEF Seen, GetPos, Tell
<1> QED
  BY <1>2, <1>3, <1>4, <1>5 DEF Good

\* Memory and files that are not empty.
LEMMA SameFollows == ASSUME NEW b, Sound(b), NEW s, Sound(s), Same(s, b) PROVE Follows(s, b)
<1>1. b.fileLen \in Nat
  BY Fields DEF Sound, Direct
<1> QED
  BY <1>1 DEF Same, Follows, Alike, Good, NoInput

----------------------------------------------------------------------------
(* SetPos.                                                                 *)

IsPlaced(s, b, pos) ==
  /\ s \in Buffers /\ Alike(s, b) /\ s.open = b.open /\ s.exited = b.exited
  /\ s.fail = b.fail
  /\ s.bufCapacity = b.bufCapacity /\ s.buf = b.buf /\ s.bufLen = b.bufLen
  /\ s.bufPos = pos /\ s.bufStart = b.bufStart /\ s.fileLen = b.fileLen /\ s.at = b.at

LEMMA PlaceFields ==
  ASSUME NEW b \in Buffers, NEW i \in Int
  PROVE  IsPlaced([b EXCEPT !.bufPos = i], b, i)
  BY DEF Buffers, Alike, IsPlaced

\* The fields of a std::istream.
IsSought(s, b, at, eof, fail) ==
  /\ s \in Buffers /\ Alike(s, b) /\ s.exited = b.exited /\ s.fileLen = b.fileLen
  /\ s.at = at /\ s.eof = eof /\ s.fail = fail

LEMMA SeekFields ==
  ASSUME NEW b \in Buffers, NEW at \in Nat
  PROVE  IsSought([b EXCEPT !.eof = FALSE, !.at = at], b, at, FALSE, b.fail)
  BY DEF Buffers, Alike, IsSought

\* A stream that cannot seek is read until the position is in sight, and one behind its end
\* leaves the window empty.
LEMMA PipeSetPos ==
  ASSUME NEW b, Piped(b), NEW value \in 0..b.fileLen
  PROVE  /\ Piped(SetPos(b, value)) /\ Alike(SetPos(b, value), b)
         /\ SetPos(b, value).fail = b.fail /\ b.fileLen <= SetPos(b, value).fileLen
         /\ GetPos(SetPos(b, value)) = value
<1>1. /\ b \in Buffers /\ b.kind = "pipe" /\ b.open /\ b.fileLen \in Nat /\ value \in Nat
      /\ value <= b.fileLen
  BY Fields DEF Piped
<1> PICK s : s = IF value >= b.fileLen THEN StreamTo(b, value) ELSE b
  OBVIOUS
<1>2. /\ Piped(s) /\ Alike(s, b) /\ s.fail = b.fail /\ b.fileLen <= s.fileLen
      /\ value < s.fileLen \/ s.at = Len(s.data)
  <2>1. CASE value >= b.fileLen
    BY <1>1, <2>1, StreamedTo
  <2>2. CASE ~(value >= b.fileLen)
    BY <1>1, <2>2 DEF Alike
  <2> QED
    BY <2>1, <2>2
<1>3. SetPos(b, value) = MoveTo(s, value)
  BY <1>1 DEF SetPos, CanSeek
<1>4. /\ s \in Buffers /\ s.kind = "pipe" /\ s.open /\ s.fileLen \in Nat /\ s.bufLen \in Nat
      /\ s.bufStart \in Nat /\ s.at \in Nat /\ Len(s.data) \in Nat /\ value <= s.fileLen
      /\ s.bufCapacity \in Nat
  <2>1. s \in Buffers /\ s.kind = "pipe" /\ s.open
    BY <1>2 DEF Piped
  <2>2. /\ s.fileLen \in Nat /\ s.bufLen \in Nat /\ s.bufStart \in Nat /\ s.at \in Nat
        /\ s.bufCapacity \in Nat /\ s.data \in Seq(0..255)
    BY <2>1, Fields
  <2>3. Len(s.data) \in Nat
    BY <2>2, LenProperties
  <2>4. value <= s.fileLen
    BY <1>1, <1>2, <2>2
  <2> QED
    BY <2>1, <2>2, <2>3, <2>4
<1>5. CASE value >= s.bufStart /\ value < s.bufStart + s.bufLen
  <2> PICK i \in Int : i = value - s.bufStart
    BY <1>1, <1>4
  <2> PICK m : m = [s EXCEPT !.bufPos = i]
    OBVIOUS
  <2>1. MoveTo(s, value) = m
    BY <1>1, <1>4, <1>5 DEF MoveTo
  <2>2. /\ m \in Buffers /\ Alike(m, s) /\ m.open = s.open /\ m.exited = s.exited
        /\ m.fail = s.fail
        /\ m.bufCapacity = s.bufCapacity /\ m.buf = s.buf /\ m.bufLen = s.bufLen
        /\ m.bufPos = i /\ m.bufStart = s.bufStart /\ m.fileLen = s.fileLen /\ m.at = s.at
    BY <1>4, PlaceFields DEF IsPlaced
  <2>3. m.bufPos \in Nat /\ m.bufStart + m.bufPos <= m.fileLen /\ m.bufPos + m.bufStart = value
    BY <1>1, <1>4, <1>5, <2>2
  <2>4. Piped(m)
    BY <1>2, <2>2, <2>3 DEF Piped, Alike
  <2> QED
    BY <1>2, <1>3, <1>4, <2>1, <2>2, <2>3, <2>4 DEF Alike, GetPos
<1>6. CASE ~(value >= s.bufStart /\ value < s.bufStart + s.bufLen)
  <2>1. MoveTo(s, value) = SwapIn(s, value)
    BY <1>1, <1>4, <1>6 DEF MoveTo
  <2>2. s.at = Len(s.data) /\ (value = s.fileLen \/ s.bufLen < s.fileLen)
    BY <1>1, <1>2, <1>4, <1>6 DEF Piped
  <2> PICK w : w = SwapIn(s, value)
    OBVIOUS
  <2>3. /\ Piped(w) /\ Alike(w, s) /\ w.fail = s.fail /\ w.fileLen = s.fileLen
        /\ w.bufStart = value /\ w.bufPos = 0
    <3>1. value \in 0..s.fileLen
      BY <1>1, <1>4
    <3> QED
      BY <1>2, <2>2, <3>1, PipeSwapped
  <2> QED
    BY <1>1, <1>2, <1>3, <1>4, <2>1, <2>3 DEF Alike, GetPos
<1> QED
  BY <1>5, <1>6

\* SetPos of a stream that cannot seek arrives where it is told, and loses its window only
\* at the end of the input: to be told that position is what Peek at the end comes to.
THEOREM PipeSetPosRight ==
  ASSUME NEW b, Piped(b), ~Lost(b), NEW value \in 0..b.fileLen
  PROVE  LET s == SetPos(b, value)
         IN /\ Piped(s) /\ Alike(s, b) /\ GetPos(s) = value
            /\ Lost(s) => value = Len(b.data)
<1>1. /\ b \in Buffers /\ b.kind = "pipe" /\ b.open /\ b.fileLen \in Nat /\ value \in Nat
      /\ b.at = b.fileLen /\ b.fileLen <= Len(b.data) /\ Len(b.data) \in Nat
  BY Fields, LenProperties DEF Piped, Lost
<1> PICK s : s = SetPos(b, value)
  OBVIOUS
<1>2. Piped(s) /\ Alike(s, b) /\ GetPos(s) = value
  BY PipeSetPos
<1> PICK u : u = IF value >= b.fileLen THEN StreamTo(b, value) ELSE b
  OBVIOUS
<1>3. Piped(u) /\ Alike(u, b) /\ ~Lost(u) /\ (value < u.fileLen \/ u.at = Len(u.data))
  <2>1. CASE value >= b.fileLen
    BY <1>1, <2>1, StreamedTo
  <2>2. CASE ~(value >= b.fileLen)
    BY <1>1, <2>2 DEF Alike
  <2> QED
    BY <2>1, <2>2
<1>4. s = MoveTo(u, value)
  BY <1>1 DEF SetPos, CanSeek
<1>5. /\ u \in Buffers /\ u.fileLen \in Nat /\ u.bufLen = u.fileLen /\ u.bufStart = 0
      /\ u.at = u.fileLen /\ u.data = b.data
  BY <1>3, Fields DEF Piped, Lost, Alike
<1>6. ASSUME value # Len(b.data) PROVE ~Lost(s)
  <2>1. value < u.fileLen
    BY <1>1, <1>3, <1>5, <1>6
  <2> PICK i \in Int : i = value - u.bufStart
    BY <1>1, <1>5
  <2>2. s = [u EXCEPT !.bufPos = i]
    BY <1>1, <1>4, <1>5, <2>1 DEF MoveTo
  <2>3. s.bufLen = u.bufLen /\ s.fileLen = u.fileLen
    BY <1>5, <2>2, PlaceFields DEF IsPlaced
  <2> QED
    BY <1>5, <2>3 DEF Lost
<1> QED
  BY <1>2, <1>6

\* istream::seekg.
LEMMA StreamSeek ==
  ASSUME NEW b, Streamed(b), NEW value \in Int, b.fail \/ value \in 0..Len(b.data)
  PROVE  Streamed(Seek(b, value)) /\ Alike(Seek(b, value), b) /\ Seek(b, value).fail = b.fail
         /\ Seek(b, value).fileLen = b.fileLen
<1> PICK at : at = IF b.fail THEN b.at ELSE value
  OBVIOUS
<1>1. b \in Buffers /\ b.at \in Nat /\ Len(b.data) \in Nat
  BY Fields, LenProperties DEF Streamed
<1>2. at \in Nat /\ at <= Len(b.data)
  BY <1>1 DEF Streamed
<1> PICK s : s = [b EXCEPT !.eof = FALSE, !.at = at]
  OBVIOUS
<1>3. Seek(b, value) = s
  BY DEF Seek
<1>4. /\ s \in Buffers /\ Alike(s, b) /\ s.exited = b.exited /\ s.fail = b.fail
      /\ s.fileLen = b.fileLen /\ s.at = at
  BY <1>1, <1>2, SeekFields DEF IsSought
<1> QED
  BY <1>2, <1>3, <1>4 DEF Streamed, Alike

\* Going back to a place the buffer was at.
LEMMA SetPosFollows ==
  ASSUME NEW b, Good(b), NEW p, Seen(b, p)
  PROVE  Follows(SetPos(b, p), b)
<1>1. b \in Buffers /\ b.fileLen \in Nat /\ ~NoInput(b)
  BY GoodTypes, Fields DEF Seen
<1>2. CASE Sound(b)
  <2>1. p \in 0..b.fileLen
    BY <1>2 DEF Sound, Direct, Seen
  <2>2. Sound(SetPos(b, p)) /\ Same(SetPos(b, p), b)
    BY <1>2, <2>1, SetPosRight
  <2> QED
    BY <1>2, <2>2, SameFollows
<1>3. CASE Piped(b)
  <2>1. p \in 0..b.fileLen /\ b.kind = "pipe"
    BY <1>3 DEF Piped, Seen
  <2> PICK s : s = SetPos(b, p)
    OBVIOUS
  <2>2. Piped(s) /\ Alike(s, b) /\ s.fail = b.fail /\ b.fileLen <= s.fileLen
    BY <1>3, <2>1, PipeSetPos
  <2> QED
    BY <2>1, <2>2 DEF Follows, Good, Alike, NoInput
<1>4. CASE Streamed(b)
  <2>1. p \in Int /\ (b.fail \/ p \in 0..Len(b.data)) /\ b.kind = "istream"
    BY <1>4 DEF Streamed, Seen
  <2> PICK s : s = Seek(b, p)
    OBVIOUS
  <2>2. Streamed(s) /\ Alike(s, b) /\ s.fail = b.fail /\ s.fileLen = b.fileLen
    BY <1>4, <2>1, StreamSeek
  <2>3. SetPos(b, p) = s
    BY <2>1 DEF SetPos
  <2> QED
    BY <1>1, <2>1, <2>2, <2>3 DEF Follows, Good, Alike, NoInput
<1>5. CASE Vacant(b)
  BY <1>1, <1>5 DEF Vacant
<1> QED
  BY <1>2, <1>3, <1>4, <1>5 DEF Good

----------------------------------------------------------------------------
(* Read.                                                                   *)

\* The result of a read is a buffer and a number.
Readings == [b : Buffers, ch : Int]

\* A byte of what a stream that cannot seek has in its buffer.
LEMMA PipeTakes ==
  ASSUME NEW b, Piped(b), b.bufStart + b.bufPos < b.fileLen
  PROVE  /\ Piped(TakeByte(b).b) /\ Alike(TakeByte(b).b, b)
         /\ TakeByte(b).b.fail = b.fail /\ TakeByte(b).b.fileLen = b.fileLen
         /\ TakeByte(b).ch \in 0..255 /\ TakeByte(b).ch = b.buf[b.bufPos + 1]
<1>1. /\ b \in Buffers /\ b.bufPos \in Nat /\ b.bufStart \in Nat /\ b.fileLen \in Nat
      /\ b.bufLen \in Nat /\ b.buf \in Seq(0..255) /\ Len(b.buf) \in Nat /\ b.fileLen <= Len(b.buf)
  BY Fields, LenProperties DEF Piped
<1> PICK i \in Int : i = b.bufPos + 1
  BY <1>1
<1> PICK s : s = [b EXCEPT !.bufPos = i]
  OBVIOUS
<1>2. TakeByte(b).b = s /\ TakeByte(b).ch = b.buf[i]
  BY DEF TakeByte
<1>3. IsPlaced(s, b, i)
  BY <1>1, PlaceFields
<1>4. i \in 1..Len(b.buf) /\ b.bufStart + i <= b.fileLen
  BY <1>1
<1>5. b.buf[i] \in 0..255
  BY <1>1, <1>4, ElementOfSeq
<1>6. Piped(s)
  BY <1>1, <1>3, <1>4 DEF Piped, IsPlaced, Alike
<1> QED
  BY <1>2, <1>3, <1>5, <1>6 DEF IsPlaced

\* Reading on behind the window, and in a window that is lost.
LEMMA PipeReads ==
  ASSUME NEW b, Piped(b)
  PROVE  LET r == ReadByte(b)
         IN /\ r \in Readings
            /\ Piped(r.b) /\ Alike(r.b, b) /\ r.b.fail = b.fail /\ b.fileLen <= r.b.fileLen
            /\ b.fileLen = 0 => r.ch \in {EoF, b.data[1]}
<1>1. /\ b \in Buffers /\ b.kind = "pipe" /\ b.open /\ b.bufPos \in Nat /\ b.bufStart \in Nat
      /\ b.fileLen \in Nat /\ b.bufLen \in Nat /\ b.bufStart + b.bufPos <= b.fileLen
  BY Fields DEF Piped
<1>2. GetPos(b) = b.bufPos + b.bufStart
  BY <1>1 DEF GetPos
<1> PICK r : r = ReadByte(b)
  OBVIOUS
<1>3. ASSUME NEW s, Piped(s), Alike(s, b), s.fail = b.fail, b.fileLen <= s.fileLen,
             s.bufStart + s.bufPos < s.fileLen, r = TakeByte(s)
      PROVE  /\ r \in Readings
             /\ Piped(r.b) /\ Alike(r.b, b) /\ r.b.fail = b.fail /\ b.fileLen <= r.b.fileLen
             /\ r.ch = s.buf[s.bufPos + 1]
  <2>1. /\ Piped(r.b) /\ Alike(r.b, s) /\ r.b.fail = s.fail /\ r.b.fileLen = s.fileLen
        /\ r.ch \in 0..255 /\ r.ch = s.buf[s.bufPos + 1]
    BY <1>3, PipeTakes
  <2>2. r = [b |-> r.b, ch |-> r.ch]
    BY <1>3, Zenon DEF TakeByte
  <2>3. r \in Readings
    <3>1. r.b \in Buffers
      BY <2>1, Zenon DEF Piped
    <3>2. r.ch \in Int
      BY <2>1
    <3> QED
      BY ONLY <2>2, <3>1, <3>2 DEF Readings
  <2> QED
    BY <1>3, <2>1, <2>3 DEF Alike
<1>4. CASE b.bufPos < b.bufLen
  <2>1. r = TakeByte(b)
    BY <1>1, <1>4 DEF ReadByte
  <2>2. b.bufStart + b.bufPos < b.fileLen
    BY <1>1, <1>4 DEF Piped
  <2>3. Alike(b, b) /\ b.fileLen <= b.fileLen
    BY <1>1 DEF Alike
  <2> QED
    BY <1>1, <1>3, <2>1, <2>2, <2>3
<1>5. CASE ~(b.bufPos < b.bufLen) /\ GetPos(b) < b.fileLen
  <2> PICK p \in 0..b.fileLen : p = GetPos(b)
    BY <1>1, <1>2
  <2> PICK s : s = SetPos(b, p)
    OBVIOUS
  <2>1. r = TakeByte(s)
    BY <1>1, <1>5 DEF ReadByte
  <2>2. Piped(s) /\ Alike(s, b) /\ s.fail = b.fail /\ b.fileLen <= s.fileLen /\ GetPos(s) = p
    BY PipeSetPos
  <2>3. s.bufStart + s.bufPos < s.fileLen
    <3>1. GetPos(s) = s.bufPos + s.bufStart /\ s.bufPos \in Nat /\ s.bufStart \in Nat
          /\ s.fileLen \in Nat
      BY <1>1, <2>2, Fields DEF GetPos, Alike, Piped
    <3> QED
      BY <1>1, <1>5, <2>2, <3>1
  <2> QED
    BY <1>1, <1>3, <1>5, <2>1, <2>2, <2>3
<1>6. CASE ~(b.bufPos < b.bufLen) /\ ~(GetPos(b) < b.fileLen)
  <2> PICK s : s = ReadNextStreamChunk(b)
    OBVIOUS
  <2>1. r = TakeNew(b, s)
    BY <1>1, <1>6 DEF ReadByte, CanSeek
  <2>2. /\ Piped(s) /\ Alike(s, b) /\ s.fail = b.fail
        /\ s.bufPos = b.bufPos /\ s.bufStart = b.bufStart
        /\ IF s.bufLen > b.bufLen THEN b.bufLen = b.fileLen /\ b.fileLen < s.fileLen
           ELSE s.bufLen = b.bufLen /\ s.fileLen = b.fileLen /\ s.at = Len(s.data)
    BY ChunkRight
  <2>3. s \in Buffers /\ s.fileLen \in Nat /\ s.bufLen \in Nat
    BY <2>2, Fields DEF Piped
  <2>4. CASE s.bufLen > b.bufLen
    <3>1. r = TakeByte(s)
      BY <2>1, <2>4 DEF TakeNew
    <3>2. s.bufStart + s.bufPos < s.fileLen /\ b.fileLen <= s.fileLen
      BY <1>1, <2>2, <2>3, <2>4
    <3>3. /\ r \in Readings
          /\ Piped(r.b) /\ Alike(r.b, b) /\ r.b.fail = b.fail /\ b.fileLen <= r.b.fileLen
          /\ r.ch = s.buf[s.bufPos + 1]
      BY <1>3, <2>2, <3>1, <3>2
    <3>4. ASSUME b.fileLen = 0 PROVE r.ch = b.data[1]
      <4>1. s.bufPos + 1 = 1 /\ 1 \in 1..s.bufLen
        BY <1>1, <2>2, <2>3, <2>4, <3>4
      <4>2. ~(s.bufLen < s.fileLen)
        BY <1>1, <2>2, <2>3, <2>4 DEF Piped
      <4>3. s.buf[1] = s.data[1]
        BY <2>2, <4>1, <4>2 DEF Piped
      <4> QED
        BY <2>2, <3>3, <4>1, <4>3 DEF Alike
    <3> QED
      BY <3>3, <3>4
  <2>5. CASE ~(s.bufLen > b.bufLen)
    <3>1. r = [b |-> s, ch |-> EoF]
      BY <2>1, <2>5 DEF TakeNew
    <3>2. r.b = s /\ r.ch = EoF /\ r \in Readings
      BY <2>3, <3>1 DEF Readings, EoF
    <3> QED
      BY <1>1, <2>2, <2>5, <3>2
  <2> QED
    BY <2>4, <2>5
<1>7. b.fileLen = 0 => ~(b.bufPos < b.bufLen) /\ ~(GetPos(b) < b.fileLen)
  BY <1>1, <1>2 DEF Piped
<1> QED
  BY <1>4, <1>5, <1>6, <1>7

\* Read of a stream that cannot seek gives the byte of the input at the position, or EoF
\* behind the last one, as long as its window was not lost, and does not lose it.
THEOREM PipeReadRight ==
  ASSUME NEW b, Piped(b), ~Lost(b)
  PROVE  LET r == ReadByte(b)
         IN /\ Piped(r.b) /\ ~Lost(r.b) /\ Alike(r.b, b)
            /\ GetPos(b) < Len(b.data) =>
                 r.ch = b.data[GetPos(b) + 1] /\ GetPos(r.b) = GetPos(b) + 1
            /\ GetPos(b) >= Len(b.data) => r.ch = EoF /\ GetPos(r.b) = GetPos(b)
<1>1. /\ b \in Buffers /\ b.kind = "pipe" /\ b.open /\ b.bufPos \in Nat /\ b.bufStart = 0
      /\ b.fileLen \in Nat /\ b.bufLen = b.fileLen /\ b.bufPos <= b.fileLen
      /\ b.at = b.fileLen /\ b.fileLen <= Len(b.data) /\ Len(b.data) \in Nat
  BY Fields, LenProperties DEF Piped, Lost
<1>2. GetPos(b) = b.bufPos
  BY <1>1 DEF GetPos
<1> PICK r : r = ReadByte(b)
  OBVIOUS
<1>3. ASSUME NEW s, Piped(s), ~Lost(s), Alike(s, b), s.bufPos = b.bufPos, s.bufPos < s.fileLen,
             r = TakeByte(s)
      PROVE  /\ Piped(r.b) /\ ~Lost(r.b) /\ Alike(r.b, b) /\ GetPos(b) < Len(b.data)
             /\ r.ch = b.data[GetPos(b) + 1] /\ GetPos(r.b) = GetPos(b) + 1
  <2>1. /\ s \in Buffers /\ s.kind = "pipe" /\ s.bufStart = 0 /\ s.fileLen \in Nat
        /\ s.bufLen = s.fileLen /\ s.data = b.data /\ s.fileLen <= Len(b.data)
        /\ \A i \in 1..s.bufLen : s.buf[i] = s.data[i]
    BY <1>3, Fields DEF Piped, Lost, Alike
  <2>2. Piped(r.b) /\ Alike(r.b, s) /\ r.ch = s.buf[s.bufPos + 1]
    BY <1>1, <1>3, <2>1, PipeTakes
  <2> PICK i \in Nat : i = s.bufPos + 1
    BY <1>1, <1>3
  <2>3. r.b = [s EXCEPT !.bufPos = i]
    BY <1>3 DEF TakeByte
  <2>4. /\ r.b.bufLen = s.bufLen /\ r.b.fileLen = s.fileLen /\ r.b.bufStart = s.bufStart
        /\ r.b.bufPos = i
    BY <2>1, <2>3, PlaceFields DEF IsPlaced
  <2>5. ~Lost(r.b) /\ GetPos(r.b) = i
    BY <2>1, <2>2, <2>4 DEF Lost, GetPos, Alike
  <2>6. r.ch = b.data[i]
    BY <1>1, <1>3, <2>1, <2>2
  <2> QED
    BY <1>1, <1>2, <1>3, <2>1, <2>2, <2>5, <2>6 DEF Alike
<1>4. CASE b.bufPos < b.bufLen
  <2>1. r = TakeByte(b)
    BY <1>1, <1>4 DEF ReadByte
  <2>2. Alike(b, b)
    BY DEF Alike
  <2> QED
    BY <1>1, <1>2, <1>3, <1>4, <2>1, <2>2
<1>5. CASE ~(b.bufPos < b.bufLen)
  <2> PICK s : s = ReadNextStreamChunk(b)
    OBVIOUS
  <2>1. r = TakeNew(b, s)
    BY <1>1, <1>2, <1>5 DEF ReadByte, CanSeek
  <2>2. /\ Piped(s) /\ Alike(s, b) /\ s.bufPos = b.bufPos /\ s.bufStart = b.bufStart
        /\ IF s.bufLen > b.bufLen THEN b.fileLen < s.fileLen
           ELSE s.bufLen = b.bufLen /\ s.fileLen = b.fileLen /\ s.at = Len(s.data)
    BY ChunkRight
  <2>3. s \in Buffers /\ s.fileLen \in Nat /\ s.bufLen \in Nat /\ s.data = b.data
        /\ s.kind = "pipe"
    BY <2>2, Fields DEF Piped, Alike
  <2>4. ~Lost(s)
    BY <1>1, <2>2, <2>3 DEF Lost, Piped
  <2>5. CASE s.bufLen > b.bufLen
    <3>1. r = TakeByte(s)
      BY <2>1, <2>5 DEF TakeNew
    <3>2. s.bufPos < s.fileLen
      BY <1>1, <2>2, <2>3, <2>5
    <3> QED
      BY <1>1, <1>2, <1>3, <2>2, <2>4, <3>1, <3>2
  <2>6. CASE ~(s.bufLen > b.bufLen)
    <3>1. r.b = s /\ r.ch = EoF
      BY <2>1, <2>6 DEF TakeNew
    <3>2. s.at = s.fileLen /\ Len(b.data) = b.fileLen
      BY <1>1, <2>2, <2>3, <2>4, <2>6 DEF Piped, Lost
    <3>3. GetPos(b) = Len(b.data) /\ GetPos(s) = GetPos(b)
      BY <1>1, <1>2, <1>5, <2>2, <2>3, <3>2 DEF GetPos
    <3> QED
      BY <1>1, <2>2, <2>4, <3>1, <3>3
  <2> QED
    BY <2>5, <2>6
<1> QED
  BY <1>4, <1>5

LEMMA FailFields ==
  ASSUME NEW b \in Buffers
  PROVE  IsSought([b EXCEPT !.fail = TRUE], b, b.at, b.eof, TRUE)
  BY DEF Buffers, Alike, IsSought

LEMMA AdvanceFields ==
  ASSUME NEW b \in Buffers, NEW at \in Nat
  PROVE  IsSought([b EXCEPT !.at = at], b, at, b.eof, b.fail)
  BY DEF Buffers, Alike, IsSought

LEMMA EndFields ==
  ASSUME NEW b \in Buffers
  PROVE  IsSought([b EXCEPT !.eof = TRUE, !.fail = TRUE], b, b.at, TRUE, TRUE)
  BY DEF Buffers, Alike, IsSought

\* istream::get.
LEMMA StreamGets ==
  ASSUME NEW b, Streamed(b)
  PROVE  LET r == Get(b)
         IN /\ r \in Readings
            /\ Streamed(r.b) /\ Alike(r.b, b) /\ (b.fail => r.b.fail) /\ r.b.fileLen = b.fileLen
            /\ b.at = 0 /\ ~b.fail => r.ch \in {EoF, b.data[1]}
<1>1. /\ b \in Buffers /\ b.kind = "istream" /\ b.at \in Nat /\ b.at <= Len(b.data)
      /\ b.data \in Seq(0..255) /\ Len(b.data) \in Nat /\ b.fail \in BOOLEAN /\ b.eof \in BOOLEAN
  BY Fields, LenProperties DEF Streamed, Buffers
<1> PICK r : r = Get(b)
  OBVIOUS
<1>2. ASSUME NEW s, NEW ch \in Int, NEW at \in Nat, at <= Len(b.data), NEW eof, NEW fail,
             IsSought(s, b, at, eof, fail), b.fail => fail, r = [b |-> s, ch |-> ch]
      PROVE  /\ r \in Readings
             /\ Streamed(r.b) /\ Alike(r.b, b) /\ (b.fail => r.b.fail) /\ r.b.fileLen = b.fileLen
             /\ r.ch = ch
  BY <1>1, <1>2 DEF Streamed, IsSought, Alike, Readings
<1>3. CASE b.fail \/ b.eof
  <2> PICK s : s = [b EXCEPT !.fail = TRUE]
    OBVIOUS
  <2> PICK ch \in Int : ch = IF b.eof THEN EoF ELSE -1
    BY DEF EoF
  <2>1. r = [b |-> s, ch |-> ch]
    BY <1>3 DEF Get
  <2>2. IsSought(s, b, b.at, b.eof, TRUE)
    BY <1>1, FailFields
  <2>3. /\ r \in Readings
        /\ Streamed(r.b) /\ Alike(r.b, b) /\ (b.fail => r.b.fail) /\ r.b.fileLen = b.fileLen
        /\ r.ch = ch
    BY <1>1, <1>2, <2>1, <2>2
  <2> QED
    BY <1>3, <2>3
<1>4. CASE ~(b.fail \/ b.eof) /\ b.at < Len(b.data)
  <2> PICK at \in Nat : at = b.at + 1
    BY <1>1
  <2> PICK s : s = [b EXCEPT !.at = at]
    OBVIOUS
  <2>1. at \in 1..Len(b.data)
    BY <1>1, <1>4
  <2>2. b.data[at] \in 0..255
    BY <1>1, <2>1, ElementOfSeq
  <2> PICK ch \in Int : ch = b.data[at]
    BY <2>2
  <2>3. r = [b |-> s, ch |-> ch]
    BY <1>4 DEF Get
  <2>4. IsSought(s, b, at, b.eof, b.fail)
    BY <1>1, AdvanceFields
  <2>5. /\ r \in Readings
        /\ Streamed(r.b) /\ Alike(r.b, b) /\ (b.fail => r.b.fail) /\ r.b.fileLen = b.fileLen
        /\ r.ch = ch
    BY <1>2, <2>1, <2>3, <2>4
  <2>6. b.at = 0 => at = 1
    OBVIOUS
  <2> QED
    BY <2>5, <2>6
<1>5. CASE ~(b.fail \/ b.eof) /\ ~(b.at < Len(b.data))
  <2> PICK s : s = [b EXCEPT !.eof = TRUE, !.fail = TRUE]
    OBVIOUS
  <2>1. r = [b |-> s, ch |-> EoF] /\ EoF \in Int
    BY <1>5 DEF Get, EoF
  <2>2. IsSought(s, b, b.at, TRUE, TRUE)
    BY <1>1, EndFields
  <2>3. /\ r \in Readings
        /\ Streamed(r.b) /\ Alike(r.b, b) /\ (b.fail => r.b.fail) /\ r.b.fileLen = b.fileLen
        /\ r.ch = EoF
    BY <1>1, <1>2, <2>1, <2>2
  <2> QED
    BY <2>3
<1> QED
  BY <1>3, <1>4, <1>5

IsPair(r) == \E x, y : r = [b |-> x, ch |-> y]

LEMMA PairOf ==
  ASSUME NEW r, IsPair(r), r.b \in Buffers, r.ch \in Int
  PROVE  r \in Readings
<1>1. PICK x, y : r = [b |-> x, ch |-> y]
  BY DEF IsPair
<1>2. r.b = x /\ r.ch = y
  BY <1>1
<1> QED
  BY ONLY <1>1, <1>2, r.b \in Buffers, r.ch \in Int DEF Readings

\* Read gives a record.
LEMMA ReadByteShape == ASSUME NEW b PROVE IsPair(ReadByte(b))
<1>1. \A s : IsPair(TakeByte(s))
  BY Zenon DEF IsPair, TakeByte
<1>2. \A s : IsPair(TakeNew(b, s))
  <2>1. TAKE s
  <2>2. CASE s.bufLen > b.bufLen
    <3>1. TakeNew(b, s) = TakeByte(s)
      BY <2>2 DEF TakeNew
    <3> QED
      BY <1>1, <3>1, Zenon
  <2>3. CASE ~(s.bufLen > b.bufLen)
    <3>1. TakeNew(b, s) = [b |-> s, ch |-> EoF]
      BY <2>3 DEF TakeNew
    <3> QED
      BY <3>1, Zenon DEF IsPair
  <2> QED
    BY <2>2, <2>3
<1>3. IsPair(Get(b))
  <2>1. CASE b.fail \/ b.eof
    <3>1. Get(b) = [b |-> [b EXCEPT !.fail = TRUE], ch |-> IF b.eof THEN EoF ELSE -1]
      BY <2>1, Zenon DEF Get
    <3> QED
      BY <3>1, Zenon DEF IsPair
  <2>2. CASE ~(b.fail \/ b.eof) /\ b.at < Len(b.data)
    <3>1. Get(b) = [b |-> [b EXCEPT !.at = @ + 1], ch |-> b.data[b.at + 1]]
      BY <2>2, Zenon DEF Get
    <3> QED
      BY <3>1, Zenon DEF IsPair
  <2>3. CASE ~(b.fail \/ b.eof) /\ ~(b.at < Len(b.data))
    <3>1. Get(b) = [b |-> [b EXCEPT !.eof = TRUE, !.fail = TRUE], ch |-> EoF]
      BY <2>3, Zenon DEF Get
    <3> QED
      BY <3>1, Zenon DEF IsPair
  <2> QED
    BY <2>1, <2>2, <2>3
<1> QED
  BY <1>1, <1>2, <1>3, Zenon DEF ReadByte

\* Nothing was read of the buffer yet.
Fresh(b) == NoInput(b) \/ (GetPos(b) = 0 /\ ~b.fail /\ (b.kind = "pipe" => b.fileLen = 0))

\* Reading a byte, from every kind of buffer.
LEMMA ReadByteFollows ==
  ASSUME NEW b, Good(b)
  PROVE  LET r == ReadByte(b)
         IN r \in Readings /\ IsReading(r, b) /\ (Fresh(b) => r.ch \in {EoF, b.data[1]})
<1> PICK r : r = ReadByte(b)
  OBVIOUS
<1>1. /\ IsPair(r) /\ b \in Buffers /\ b.data \in Seq(0..255) /\ Len(b.data) \in Nat
      /\ b.fileLen \in Nat /\ EoF \in Int
  BY ReadByteShape, GoodTypes, Fields DEF EoF
<1>2. CASE Sound(b)
  <2>1. /\ Sound(r.b) /\ Same(r.b, b)
        /\ GetPos(b) < b.fileLen => r.ch = b.data[GetPos(b) + 1]
        /\ GetPos(b) >= b.fileLen => r.ch = EoF /\ r.b = b
    BY <1>2, ReadByteRight
  <2>2. Follows(r.b, b) /\ r.b \in Buffers
    BY <1>2, <2>1, SameFollows DEF Same
  <2>3. b.fileLen = Len(b.data) /\ b.kind \notin {"istream", "pipe"} /\ GetPos(b) \in Nat
    BY <1>2, Fields DEF Sound, Direct, GetPos
  <2>4. r.ch \in Int
    <3>1. CASE GetPos(b) < b.fileLen
      <4>1. GetPos(b) + 1 \in 1..Len(b.data)
        BY <1>1, <2>3, <3>1
      <4>2. b.data[GetPos(b) + 1] \in 0..255
        BY <1>1, <4>1, ElementOfSeq
      <4> QED
        BY <2>1, <3>1, <4>2
    <3>2. CASE ~(GetPos(b) < b.fileLen)
      BY <1>1, <2>1, <2>3, <3>2
    <3> QED
      BY <3>1, <3>2
  <2>5. NoInput(b) => r.b = b /\ r.ch = EoF
    BY <2>1, <2>3 DEF NoInput
  <2>6. Fresh(b) => r.ch \in {EoF, b.data[1]}
    <3>1. GetPos(b) = 0 => GetPos(b) + 1 = 1
      OBVIOUS
    <3>2. GetPos(b) < b.fileLen \/ GetPos(b) >= b.fileLen
      BY <1>1, <2>3
    <3> QED
      BY <2>1, <2>5, <3>1, <3>2 DEF Fresh
  <2> QED
    BY <1>1, <2>2, <2>4, <2>5, <2>6, PairOf DEF IsReading
<1>3. CASE Vacant(b)
  <2>1. /\ b.kind \in {"file", "userFile"} /\ b.fileLen = 0 /\ b.bufPos = 0 /\ b.bufLen = 0
        /\ b.bufStart \in Nat
    BY <1>1, <1>3, Fields DEF Vacant, NoInput
  <2>2. GetPos(b) = b.bufStart /\ ~(GetPos(b) < b.fileLen) /\ ~(b.open /\ ~CanSeek(b))
    BY <2>1 DEF GetPos, CanSeek
  <2>3. r = TakeNew(b, b)
    BY <2>1, <2>2 DEF ReadByte
  <2>4. TakeNew(b, b) = [b |-> b, ch |-> EoF]
    BY <2>1 DEF TakeNew
  <2>5. r.b = b /\ r.ch = EoF
    BY <2>3, <2>4
  <2>6. Follows(r.b, b)
    BY <2>5, FollowsItself
  <2> QED
    BY <1>1, <2>5, <2>6, PairOf DEF IsReading
<1>4. CASE Piped(b)
  <2>1. /\ r \in Readings
        /\ Piped(r.b) /\ Alike(r.b, b) /\ r.b.fail = b.fail /\ b.fileLen <= r.b.fileLen
        /\ b.fileLen = 0 => r.ch \in {EoF, b.data[1]}
    BY <1>4, PipeReads
  <2>2. b.kind = "pipe" /\ r.b.kind = "pipe"
    BY <1>4, <2>1 DEF Piped
  <2>3. ~NoInput(b) /\ ~NoInput(r.b)
    BY <2>2 DEF NoInput
  <2>4. Follows(r.b, b)
    BY <2>1, <2>3 DEF Follows, Good
  <2>5. r.ch \in Int
    BY <2>1, Zenon DEF Readings
  <2> QED
    BY <2>1, <2>2, <2>3, <2>4, <2>5 DEF IsReading, Fresh
<1>5. CASE Streamed(b)
  <2>1. b.kind = "istream"
    BY <1>5 DEF Streamed
  <2>2. r = Get(b)
    BY <2>1 DEF ReadByte
  <2>3. /\ r \in Readings
        /\ Streamed(r.b) /\ Alike(r.b, b) /\ (b.fail => r.b.fail) /\ r.b.fileLen = b.fileLen
        /\ b.at = 0 /\ ~b.fail => r.ch \in {EoF, b.data[1]}
    BY <1>5, <2>2, StreamGets
  <2>4. ~NoInput(b) /\ ~NoInput(r.b)
    BY <2>1, <2>3 DEF NoInput, Alike
  <2>5. Follows(r.b, b)
    BY <1>1, <2>3, <2>4 DEF Follows, Good
  <2>6. r.ch \in Int
    BY <2>3, Zenon DEF Readings
  <2>7. Fresh(b) => b.at = 0 /\ ~b.fail
    BY <2>1, <2>4 DEF Fresh, GetPos, Tell
  <2> QED
    BY <2>3, <2>4, <2>5, <2>6, <2>7 DEF IsReading
<1> QED
  BY <1>2, <1>3, <1>4, <1>5 DEF Good

----------------------------------------------------------------------------
(* Characters of several bytes.                                            *)

LEMMA ReadingOn ==
  ASSUME NEW b, Good(b), NEW r \in Readings, IsReading(r, b), ~NoInput(b)
  PROVE  LET q == ReadByte(r.b) IN q \in Readings /\ Follows(q.b, b) /\ IsReading(q, b)
<1> PICK s : s = r.b
  OBVIOUS
<1> PICK q : q = ReadByte(s)
  OBVIOUS
<1>1. Good(s) /\ Follows(s, b)
  BY DEF IsReading, Follows
<1>2. q \in Readings /\ IsReading(q, s)
  BY <1>1, ReadByteFollows
<1>3. Follows(q.b, b)
  BY <1>1, <1>2, FollowsOn DEF IsReading
<1>4. q.ch \in Int
  BY <1>2, Zenon DEF IsReading
<1> QED
  BY <1>2, <1>3, <1>4 DEF IsReading

\* The turns of the loop that skips bytes that begin no character.
LEMMA ReadStartTurns ==
  ASSUME NEW b, Good(b)
  PROVE  \E g : /\ g[0] = ReadByte(b)
                /\ \A n \in 1..Len(b.data) :
                     g[n] = IF Continuation(g[n - 1].ch) THEN ReadByte(g[n - 1].b) ELSE g[n - 1]
                /\ ReadStart(b) = g[Len(b.data)]
                /\ ReadStart(b) \in Readings /\ IsReading(ReadStart(b), b)
<1> DEFINE S == {r \in Readings : IsReading(r, b)}
           next(r) == IF Continuation(r.ch) THEN ReadByte(r.b) ELSE r
           step == [r \in S |-> next(r)]
           first == ReadByte(b)
<1> PICK N \in Nat : N = Len(b.data)
  BY GoodTypes
<1>1. first \in S
  BY ReadByteFollows
<1>2. \A r \in S : next(r) \in S
  <2> TAKE r \in S
  <2>1. CASE Continuation(r.ch)
    <3>1. ~NoInput(b)
      <4>1. ~Continuation(EoF)
        BY DEF Continuation, EoF
      <4> QED
        BY <2>1, <4>1 DEF IsReading
    <3> QED
      BY <2>1, <3>1, ReadingOn
  <2>2. CASE ~Continuation(r.ch)
    BY <2>2
  <2> QED
    BY <2>1, <2>2
<1>3. step \in [S -> S]
  BY <1>2
<1>4. \A r \in S : step[r] = next(r)
  OBVIOUS
<1> HIDE DEF S, step, first
<1>5. PICK f : IsRun(f, S, first, N, step)
  BY <1>1, <1>3, TurnsExist
<1> DEFINE Loop(g) == g = [n \in 0..N |-> IF n = 0 THEN first ELSE next(g[n - 1])]
<1> HIDE DEF next
<1>6. Loop(f)
  <2>1. ASSUME NEW n \in 0..N PROVE f[n] = IF n = 0 THEN first ELSE next(f[n - 1])
    <3>1. CASE n = 0
      BY <1>5, <3>1 DEF IsRun
    <3>2. CASE n # 0
      <4>1. n \in 1..N /\ n - 1 \in 0..N
        BY <3>2
      <4>2. f[n] = step[f[n - 1]] /\ f[n - 1] \in S
        BY <1>5, <4>1 DEF IsRun
      <4> QED
        BY <1>4, <3>2, <4>2
    <3> QED
      BY <3>1, <3>2
  <2> QED
    BY <1>5, <2>1 DEF IsRun
<1>7. PICK g : Loop(g) /\ ReadStart(b) = g[N]
  <2> DEFINE h == CHOOSE g : Loop(g)
  <2>1. Loop(h)
    BY <1>6, Zenon
  <2>2. ReadStart(b) = h[N]
    BY DEF ReadStart, next, first
  <2> QED
    BY <2>1, <2>2
<1>8. \A n \in 0..N : g[n] = IF n = 0 THEN first ELSE next(g[n - 1])
  BY <1>7
<1> HIDE DEF Loop
<1> DEFINE G == {n \in 0..N : g[n] \in S}
<1>9. 0 \in G
  BY <1>1, <1>8
<1>10. \A n \in 1..N : n - 1 \in G => n \in G
  BY <1>2, <1>8
<1>11. N \in G
  <2> HIDE DEF G
  <2> QED
    BY <1>9, <1>10, TurnsKeep
<1>12. ReadStart(b) \in Readings /\ IsReading(ReadStart(b), b)
  BY <1>7, <1>11 DEF S
<1>13. g[0] = first /\ \A n \in 1..N : g[n] = next(g[n - 1])
  BY <1>8
<1> QED
  BY <1>7, <1>12, <1>13 DEF next, first

\* The bytes that begin no character are skipped.
LEMMA ReadStartFollows ==
  ASSUME NEW b, Good(b)
  PROVE  LET r == ReadStart(b) IN r \in Readings /\ IsReading(r, b)
  BY ReadStartTurns

LEMMA LeadBitsInt ==
  ASSUME NEW ch \in Int, NEW n \in 1..3
  PROVE  LeadBits(ch, n) \in Int
<1> DEFINE d == CASE n = 1 -> 32 [] n = 2 -> 16 [] n = 3 -> 8
<1>1. d \in Nat \ {0}
  OBVIOUS
<1> HIDE DEF d
<1>2. ch % d \in Int
  BY <1>1
<1> QED
  BY <1>2 DEF LeadBits, d

LEMMA PairNumber ==
  ASSUME NEW r \in Readings, NEW ch \in Int
  PROVE  LET q == [r EXCEPT !.ch = ch] IN q \in Readings /\ q.b = r.b /\ q.ch = ch
  BY DEF Readings

\* The reads behind the first one, one after the other.
LEMMA JoinedTurns ==
  ASSUME NEW b, Good(b), NEW r \in Readings, Follows(r.b, b), NEW m \in 1..3
  PROVE  \E g : /\ g[0] \in Readings /\ g[0].b = r.b /\ g[0].ch = LeadBits(r.ch, m)
                /\ \A n \in 1..m : g[n] = Join(g[n - 1], ReadByte(g[n - 1].b))
                /\ Joined(r, m) = g[m]
                /\ Joined(r, m) \in Readings /\ Follows(Joined(r, m).b, b)
<1> DEFINE S == {q \in Readings : Follows(q.b, b)}
           next(q) == Join(q, ReadByte(q.b))
           step == [q \in S |-> next(q)]
           first == [r EXCEPT !.ch = LeadBits(@, m)]
<1>1. first \in S /\ first.b = r.b /\ first.ch = LeadBits(r.ch, m)
  <2> PICK ch : ch = LeadBits(r.ch, m)
    OBVIOUS
  <2>1. r.ch \in Int
    BY Zenon DEF Readings
  <2>2. ch \in Int
    BY <2>1, LeadBitsInt
  <2> PICK q : q = [r EXCEPT !.ch = ch]
    OBVIOUS
  <2>3. q \in Readings /\ q.b = r.b /\ q.ch = ch
    BY <2>2, PairNumber
  <2> QED
    BY <2>3
<1>2. \A q \in S : next(q) \in S
  <2> TAKE q \in S
  <2> PICK s : s = q.b
    OBVIOUS
  <2> PICK y : y = ReadByte(s)
    OBVIOUS
  <2>1. Good(s) /\ Follows(s, b)
    BY DEF Follows
  <2>2. y \in Readings /\ IsReading(y, s)
    BY <2>1, ReadByteFollows
  <2>3. Follows(y.b, b) /\ y.b \in Buffers
    <3>1. Follows(y.b, s)
      BY <2>2 DEF IsReading
    <3>2. Good(y.b)
      BY <3>1 DEF Follows
    <3> QED
      BY <2>1, <3>1, <3>2, FollowsOn, GoodTypes
  <2> PICK ch : ch = q.ch * 64 + (y.ch % 64)
    OBVIOUS
  <2>4. ch \in Int
    <3>1. q.ch \in Int /\ y.ch \in Int
      BY <2>2, Zenon DEF Readings
    <3> QED
      BY <3>1
  <2>5. next(q) = [b |-> y.b, ch |-> ch]
    BY DEF Join
  <2> HIDE DEF next
  <2>6. next(q) \in Readings /\ next(q).b = y.b
    BY <2>3, <2>4, <2>5 DEF Readings
  <2> QED
    BY <2>3, <2>6
<1>3. step \in [S -> S]
  BY <1>2
<1>4. \A q \in S : step[q] = next(q)
  OBVIOUS
<1> HIDE DEF S, step, first
<1>5. PICK f : IsRun(f, S, first, m, step)
  <2>1. m \in Nat
    OBVIOUS
  <2> QED
    BY <1>1, <1>3, <2>1, TurnsExist
<1> DEFINE Loop(g) == g = [n \in 0..m |-> IF n = 0 THEN first ELSE next(g[n - 1])]
<1> HIDE DEF next
<1>6. Loop(f)
  <2>1. ASSUME NEW n \in 0..m PROVE f[n] = IF n = 0 THEN first ELSE next(f[n - 1])
    <3>1. CASE n = 0
      BY <1>5, <3>1 DEF IsRun
    <3>2. CASE n # 0
      <4>1. n \in 1..m /\ n - 1 \in 0..m
        BY <3>2
      <4>2. f[n] = step[f[n - 1]] /\ f[n - 1] \in S
        BY <1>5, <4>1 DEF IsRun
      <4> QED
        BY <1>4, <3>2, <4>2
    <3> QED
      BY <3>1, <3>2
  <2> QED
    BY <1>5, <2>1 DEF IsRun
<1>7. PICK g : Loop(g) /\ Joined(r, m) = g[m]
  <2> DEFINE h == CHOOSE g : Loop(g)
  <2>1. Loop(h)
    BY <1>6, Zenon
  <2>2. Joined(r, m) = h[m]
    BY DEF Joined, next, first
  <2> QED
    BY <2>1, <2>2
<1>8. \A n \in 0..m : g[n] = IF n = 0 THEN first ELSE next(g[n - 1])
  BY <1>7
<1> HIDE DEF Loop
<1> DEFINE G == {n \in 0..m : g[n] \in S}
<1>9. 0 \in G
  BY <1>1, <1>8
<1>10. \A n \in 1..m : n - 1 \in G => n \in G
  BY <1>2, <1>8
<1>11. m \in G
  <2>1. m \in Nat
    OBVIOUS
  <2> HIDE DEF G
  <2> QED
    BY <1>9, <1>10, <2>1, TurnsKeep
<1>12. Joined(r, m) \in Readings /\ Follows(Joined(r, m).b, b)
  BY <1>7, <1>11 DEF S
<1>13. g[0] = first /\ \A n \in 1..m : g[n] = next(g[n - 1])
  BY <1>8
<1>14. g[0] \in Readings /\ g[0].b = r.b /\ g[0].ch = LeadBits(r.ch, m)
  BY <1>1, <1>13, Zenon DEF S
<1> QED
  BY <1>7, <1>12, <1>13, <1>14 DEF next

\* The bytes behind the first one are read.
LEMMA JoinedFollows ==
  ASSUME NEW b, Good(b), NEW r \in Readings, Follows(r.b, b), NEW m \in 1..3
  PROVE  LET q == Joined(r, m) IN q \in Readings /\ Follows(q.b, b)
  BY JoinedTurns

\* Read, of either class.
LEMMA ReadFollows ==
  ASSUME NEW b, Good(b)
  PROVE  LET r == Read(b)
         IN /\ r \in Readings /\ IsReading(r, b)
            /\ Fresh(b) /\ ~b.utf8 => r.ch \in {EoF, b.data[1]}
<1> PICK r : r = ReadStart(b)
  OBVIOUS
<1>1. r \in Readings /\ IsReading(r, b)
  BY ReadStartFollows
<1>2. LET q == Character(r) IN q \in Readings /\ IsReading(q, b)
  <2>1. CASE r.ch < 128 \/ r.ch = EoF
    BY <1>1, <2>1 DEF Character
  <2>2. CASE ~(r.ch < 128 \/ r.ch = EoF)
    <3> PICK m : m = Trailing(r.ch)
      OBVIOUS
    <3>1. m \in 1..3
      BY DEF Trailing
    <3> PICK q : q = Joined(r, m)
      OBVIOUS
    <3>2. q \in Readings /\ Follows(q.b, b)
      BY <1>1, <3>1, JoinedFollows DEF IsReading
    <3>3. q.ch \in Int
      BY <3>2, Zenon DEF Readings
    <3>4. ~NoInput(b)
      BY <1>1, <2>2 DEF IsReading
    <3>5. Character(r) = q
      BY <2>2 DEF Character
    <3> QED
      BY <3>2, <3>3, <3>4, <3>5 DEF IsReading
  <2> QED
    BY <2>1, <2>2
<1>3. CASE b.utf8
  BY <1>2, <1>3 DEF Read, ReadCharacter
<1>4. CASE ~b.utf8
  BY <1>4, ReadByteFollows DEF Read
<1> QED
  BY <1>3, <1>4

----------------------------------------------------------------------------
(* What a character of several bytes is read as.                           *)

\* The bytes of a character in UTF-8: 0aaaaaaa, 110aaaaa 10bbbbbb, 1110aaaa 10bbbbbb
\* 10cccccc or 11110aaa 10bbbbbb 10cccccc 10dddddd.
Encodes(bytes, ch) ==
  \/ ch \in 0..127 /\ bytes = <<ch>>
  \/ \E x \in 0..31, y \in 0..63 : ch = x * 64 + y /\ bytes = <<192 + x, 128 + y>>
  \/ \E x \in 0..15, y, z \in 0..63 :
       ch = (x * 64 + y) * 64 + z /\ bytes = <<224 + x, 128 + y, 128 + z>>
  \/ \E w \in 0..7, x, y, z \in 0..63 :
       /\ ch = ((w * 64 + x) * 64 + y) * 64 + z
       /\ bytes = <<240 + w, 128 + x, 128 + y, 128 + z>>

\* They come next in the input.
ComesNext(b, bytes) ==
  \A i \in 1..Len(bytes) : GetPos(b) + i <= Len(b.data) /\ b.data[GetPos(b) + i] = bytes[i]

\* c[n] is what is made of c[0] and n bytes, which lie behind place p.
Joins(c, m, data, p) == \A n \in 1..m : c[n] = c[n - 1] * 64 + (data[p + n] % 64)

\* Everything read so far was there, and what is next can be read.
Live(b) ==
  \/ Sound(b)
  \/ Piped(b) /\ ~Lost(b)
  \/ Streamed(b) /\ ~b.fail /\ ~b.eof

\* A byte read is the next one of the input.
LEMMA NextByte ==
  ASSUME NEW b, Live(b), GetPos(b) < Len(b.data)
  PROVE  LET r == ReadByte(b)
         IN /\ r \in Readings /\ Live(r.b) /\ Alike(r.b, b)
            /\ r.ch = b.data[GetPos(b) + 1] /\ GetPos(r.b) = GetPos(b) + 1
<1> PICK r : r = ReadByte(b)
  OBVIOUS
<1>1. Good(b)
  BY DEF Live, Good
<1>2. r \in Readings
  BY <1>1, ReadByteFollows
<1>3. CASE Sound(b)
  <2>1. b.fileLen = Len(b.data)
    BY <1>3 DEF Sound, Direct
  <2> QED
    BY <1>2, <1>3, <2>1, ReadByteRight DEF Live, Same, Alike
<1>4. CASE Piped(b) /\ ~Lost(b)
  BY <1>2, <1>4, PipeReadRight DEF Live
<1>5. CASE Streamed(b) /\ ~b.fail /\ ~b.eof
  <2>1. b \in Buffers /\ b.kind = "istream" /\ b.at \in Nat
    BY <1>5, Fields DEF Streamed
  <2>2. GetPos(b) = b.at
    BY <1>5, <2>1 DEF GetPos, Tell
  <2> PICK at \in Nat : at = b.at + 1
    BY <2>1
  <2> PICK s : s = [b EXCEPT !.at = at]
    OBVIOUS
  <2> PICK ch : ch = b.data[at]
    OBVIOUS
  <2>3. r = [b |-> s, ch |-> ch]
    BY <1>5, <2>1, <2>2 DEF ReadByte, Get
  <2>4. IsSought(s, b, at, b.eof, b.fail)
    BY <2>1, AdvanceFields
  <2>5. Streamed(s) /\ ~s.fail /\ ~s.eof /\ Alike(s, b) /\ s.kind = "istream" /\ s.at = at
    <3>1. at <= Len(b.data)
      BY <1>1, <2>1, <2>2, GoodTypes
    <3> QED
      BY <1>5, <2>1, <2>4, <3>1 DEF IsSought, Streamed, Alike
  <2>6. GetPos(s) = at
    BY <2>5 DEF GetPos, Tell
  <2>7. r.b = s /\ r.ch = ch
    BY <2>3
  <2>8. Live(s)
    BY <2>5 DEF Live
  <2> QED
    BY <1>2, <2>2, <2>5, <2>6, <2>7, <2>8
<1> QED
  BY <1>3, <1>4, <1>5 DEF Live

\* A byte is joined to those read.
LEMMA JoinedByte ==
  ASSUME NEW q \in Readings, Live(q.b), GetPos(q.b) < Len(q.b.data)
  PROVE  LET s == Join(q, ReadByte(q.b))
         IN /\ s \in Readings /\ Live(s.b) /\ Alike(s.b, q.b) /\ GetPos(s.b) = GetPos(q.b) + 1
            /\ s.ch = q.ch * 64 + (q.b.data[GetPos(q.b) + 1] % 64)
<1> PICK c : c = q.b
  OBVIOUS
<1> PICK r : r = ReadByte(c)
  OBVIOUS
<1>1. /\ r \in Readings /\ Live(r.b) /\ Alike(r.b, c)
      /\ r.ch = c.data[GetPos(c) + 1] /\ GetPos(r.b) = GetPos(c) + 1
  BY NextByte
<1> PICK ch : ch = q.ch * 64 + (r.ch % 64)
  OBVIOUS
<1>2. Join(q, r) = [b |-> r.b, ch |-> ch]
  BY DEF Join
<1>3. ch \in Int /\ r.b \in Buffers
  <2>1. q.ch \in Int /\ r.ch \in Int /\ r.b \in Buffers
    BY <1>1, Zenon DEF Readings
  <2> QED
    BY <2>1
<1>4. Join(q, r) \in Readings /\ Join(q, r).b = r.b /\ Join(q, r).ch = ch
  BY <1>2, <1>3 DEF Readings
<1> QED
  BY <1>1, <1>4

\* Six bits, and the two that mark them.
LEMMA SixBits == ASSUME NEW x \in 0..63 PROVE (128 + x) % 64 = x
  OBVIOUS

\* What LeadBits leaves.
LEMMA LeadDivisor ==
  \A ch : LeadBits(ch, 1) = ch % 32 /\ LeadBits(ch, 2) = ch % 16 /\ LeadBits(ch, 3) = ch % 8
<1>1. 1 # 2 /\ 1 # 3 /\ 2 # 3
  OBVIOUS
<1> QED
  BY <1>1, Zenon DEF LeadBits

\* The first byte of several says how many follow, and what is left of it.
LEMMA LeadOfTwo ==
  ASSUME NEW x \in 0..31, NEW h, h = 192 + x
  PROVE  h \in 192..255 /\ Trailing(h) = 1 /\ LeadBits(h, 1) = x
<1>1. h \in 192..255 /\ Trailing(h) = 1 /\ h % 32 = x
  BY DEF Trailing
<1> QED
  BY ONLY <1>1, LeadDivisor

LEMMA LeadOfThree ==
  ASSUME NEW x \in 0..15, NEW h, h = 224 + x
  PROVE  h \in 192..255 /\ Trailing(h) = 2 /\ LeadBits(h, 2) = x
<1>1. h \in 192..255 /\ Trailing(h) = 2 /\ h % 16 = x
  BY DEF Trailing
<1> QED
  BY ONLY <1>1, LeadDivisor

LEMMA LeadOfFour ==
  ASSUME NEW x \in 0..7, NEW h, h = 240 + x
  PROVE  h \in 192..255 /\ Trailing(h) = 3 /\ LeadBits(h, 3) = x
<1>1. h \in 192..255 /\ Trailing(h) = 3 /\ h % 8 = x
  BY DEF Trailing
<1> QED
  BY ONLY <1>1, LeadDivisor

\* A byte that begins a character is not skipped.
LEMMA StartByte ==
  ASSUME NEW b, Live(b), GetPos(b) < Len(b.data), ~Continuation(b.data[GetPos(b) + 1])
  PROVE  ReadStart(b) = ReadByte(b)
<1> PICK r : r = ReadByte(b)
  OBVIOUS
<1>1. Good(b) /\ ~Continuation(r.ch)
  BY NextByte DEF Live, Good
<1> PICK N \in Nat : N = Len(b.data)
  BY <1>1, GoodTypes
<1>2. PICK g : /\ g[0] = r
               /\ \A n \in 1..N :
                    g[n] = IF Continuation(g[n - 1].ch) THEN ReadByte(g[n - 1].b) ELSE g[n - 1]
               /\ ReadStart(b) = g[N]
  BY <1>1, ReadStartTurns
<1> DEFINE G == {n \in 0..N : g[n] = r}
<1>3. 0 \in G
  BY <1>2
<1>4. ASSUME NEW n \in 1..N, n - 1 \in G PROVE n \in G
  <2>1. g[n - 1] = r
    BY <1>4
  <2>2. g[n] = r
    BY <1>1, <1>2, <2>1
  <2> QED
    BY <2>2
<1>5. N \in G
  <2> HIDE DEF G
  <2> QED
    BY <1>3, <1>4, TurnsKeep
<1> QED
  BY <1>2, <1>5

\* Reading the bytes behind the first one, one after the other.
LEMMA JoinedBytes ==
  ASSUME NEW r \in Readings, Live(r.b), NEW m \in 1..3, GetPos(r.b) + m <= Len(r.b.data),
         NEW c, c[0] = LeadBits(r.ch, m), Joins(c, m, r.b.data, GetPos(r.b))
  PROVE  LET q == Joined(r, m)
         IN q.ch = c[m] /\ Live(q.b) /\ Alike(q.b, r.b) /\ GetPos(q.b) = GetPos(r.b) + m
<1> PICK s : s = r.b
  OBVIOUS
<1> PICK data : data = s.data
  OBVIOUS
<1>1. Good(s) /\ Follows(s, s)
  BY FollowsItself DEF Live, Good
<1> PICK l \in Nat : l = Len(data)
  BY <1>1, GoodTypes
<1> PICK p \in Int : p = GetPos(s)
  BY <1>1, SeenHere
<1>2. PICK g : /\ g[0] \in Readings /\ g[0].b = s /\ g[0].ch = c[0]
               /\ \A n \in 1..m : g[n] = Join(g[n - 1], ReadByte(g[n - 1].b))
               /\ Joined(r, m) = g[m]
  <2>1. Good(r.b) /\ Follows(r.b, r.b)
    BY <1>1
  <2>2. \E g : /\ g[0] \in Readings /\ g[0].b = r.b /\ g[0].ch = LeadBits(r.ch, m)
               /\ \A n \in 1..m : g[n] = Join(g[n - 1], ReadByte(g[n - 1].b))
               /\ Joined(r, m) = g[m]
               /\ Joined(r, m) \in Readings /\ Follows(Joined(r, m).b, r.b)
    BY ONLY <2>1, r \in Readings, m \in 1..3, JoinedTurns
  <2> QED
    BY <2>2
<1> DEFINE K(n) == /\ g[n] \in Readings /\ Live(g[n].b) /\ Alike(g[n].b, s)
                   /\ GetPos(g[n].b) = p + n /\ g[n].ch = c[n]
           G == {n \in 0..m : K(n)}
<1>3. K(0)
  BY <1>2 DEF Alike
<1>4. ASSUME NEW n \in 1..m, K(n - 1) PROVE K(n)
  <2> PICK k : k = n - 1
    OBVIOUS
  <2> PICK q : q = g[k]
    OBVIOUS
  <2>1. q \in Readings /\ Live(q.b) /\ Alike(q.b, s) /\ GetPos(q.b) = p + k /\ q.ch = c[k]
    BY <1>4
  <2>2. q.b.data = data
    BY <2>1 DEF Alike
  <2>3. GetPos(q.b) < l /\ GetPos(q.b) + 1 = p + n
    BY <2>1
  <2> PICK q1 : q1 = Join(q, ReadByte(q.b))
    OBVIOUS
  <2>4. /\ q1 \in Readings /\ Live(q1.b) /\ Alike(q1.b, q.b) /\ GetPos(q1.b) = GetPos(q.b) + 1
        /\ q1.ch = q.ch * 64 + (q.b.data[GetPos(q.b) + 1] % 64)
    <3>1. GetPos(q.b) < Len(q.b.data)
      BY <2>2, <2>3
    <3> QED
      BY ONLY <2>1, <3>1, q1 = Join(q, ReadByte(q.b)), JoinedByte
  <2>5. g[n] = q1
    BY <1>2
  <2>6. Alike(q1.b, s)
    BY <2>1, <2>4 DEF Alike
  <2>7. GetPos(q1.b) = p + n
    BY <2>3, <2>4
  <2>8. q1.ch = c[n]
    <3>1. q1.ch = c[k] * 64 + (data[p + n] % 64)
      BY ONLY <2>1, <2>2, <2>3, <2>4
    <3>2. c[n] = c[k] * 64 + (data[p + n] % 64)
      BY DEF Joins
    <3> QED
      BY ONLY <3>1, <3>2
  <2> QED
    BY ONLY <2>4, <2>5, <2>6, <2>7, <2>8
<1>5. m \in G
  <2>1. 0 \in G
    BY <1>3
  <2>2. \A n \in 1..m : n - 1 \in G => n \in G
    <3> HIDE DEF K
    <3> QED
      BY <1>4
  <2>3. m \in Nat
    OBVIOUS
  <2> HIDE DEF G
  <2> QED
    BY <2>1, <2>2, <2>3, TurnsKeep
<1> QED
  BY <1>2, <1>5

\* A character of several bytes, of which h is the first.
LEMMA LongCharacter ==
  ASSUME NEW b, Live(b), b.utf8, NEW h \in 192..255, h = b.data[GetPos(b) + 1],
         NEW m \in 1..3, m = Trailing(h), GetPos(b) + 1 + m <= Len(b.data),
         NEW c, c[0] = LeadBits(h, m), Joins(c, m, b.data, GetPos(b) + 1)
  PROVE  LET r == Read(b)
         IN r.ch = c[m] /\ Live(r.b) /\ Alike(r.b, b) /\ GetPos(r.b) = GetPos(b) + 1 + m
<1>1. Good(b)
  BY DEF Live, Good
<1> PICK l \in Nat : l = Len(b.data)
  BY <1>1, GoodTypes
<1> PICK p \in Int : p = GetPos(b)
  BY <1>1, SeenHere
<1>2. GetPos(b) < Len(b.data)
  BY p + 1 + m <= l
<1>3. ~Continuation(h) /\ ~(h < 128 \/ h = EoF)
  BY ONLY h \in 192..255 DEF Continuation, EoF
<1> PICK r : r = ReadByte(b)
  OBVIOUS
<1>4. r \in Readings /\ Live(r.b) /\ Alike(r.b, b) /\ r.ch = h /\ GetPos(r.b) = p + 1
  BY <1>2, NextByte
<1>5. ReadStart(b) = r
  BY <1>2, <1>3, StartByte
<1>6. Read(b) = Joined(r, m)
  BY <1>3, <1>4, <1>5, Zenon DEF Read, ReadCharacter, Character
<1> PICK q : q = Joined(r, m)
  OBVIOUS
<1>7. q.ch = c[m] /\ Live(q.b) /\ Alike(q.b, r.b) /\ GetPos(q.b) = p + 1 + m
  <2>1. r.b.data = b.data
    BY <1>4 DEF Alike
  <2>2. /\ GetPos(r.b) + m <= Len(r.b.data) /\ Joins(c, m, r.b.data, GetPos(r.b))
        /\ c[0] = LeadBits(r.ch, m)
    BY <1>4, <2>1
  <2>3. q.ch = c[m] /\ Live(q.b) /\ Alike(q.b, r.b) /\ GetPos(q.b) = GetPos(r.b) + m
    BY ONLY <1>4, <2>2, m \in 1..3, q = Joined(r, m), JoinedBytes
  <2> QED
    BY <1>4, <2>3
<1>8. Alike(q.b, b)
  BY <1>4, <1>7 DEF Alike
<1> QED
  BY <1>6, <1>7, <1>8

\* UTF8Buffer::Read gives the character whose bytes come next, and is behind them then:
\* whatever the buffer is over and wherever its window ends.
THEOREM CharacterRight ==
  ASSUME NEW b, Live(b), b.utf8, NEW ch, NEW bytes, Encodes(bytes, ch), ComesNext(b, bytes)
  PROVE  LET r == Read(b)
         IN r.ch = ch /\ GetPos(r.b) = GetPos(b) + Len(bytes) /\ Live(r.b) /\ Alike(r.b, b)
<1> PICK r : r = Read(b)
  OBVIOUS
<1> PICK data : data = b.data
  OBVIOUS
<1>1. Good(b) /\ GetPos(b) \in Int
  BY SeenHere DEF Live, Good
<1> PICK l \in Nat : l = Len(data)
  BY <1>1, GoodTypes
<1> PICK p \in Int : p = GetPos(b)
  BY <1>1
<1>2. \A i \in 1..Len(bytes) : p + i <= l /\ data[p + i] = bytes[i]
  BY DEF ComesNext
<1>8. ASSUME NEW m \in 1..3, Len(bytes) = m + 1
      PROVE  /\ p + 1 + m <= Len(data) /\ data[p + 1] = bytes[1]
             /\ \A n \in 1..m : data[p + 1 + n] = bytes[n + 1]
  <2>1. ASSUME NEW n \in 0..m PROVE p + 1 + n <= l /\ data[p + 1 + n] = bytes[n + 1]
    <3>1. n + 1 \in 1..Len(bytes) /\ p + 1 + n = p + (n + 1)
      BY <1>8
    <3> QED
      BY <1>2, <3>1
  <2> QED
    BY <2>1
<1> DEFINE Right == r.ch = ch /\ GetPos(r.b) = p + Len(bytes) /\ Live(r.b) /\ Alike(r.b, b)
<1>3. ASSUME ch \in 0..127, bytes = <<ch>> PROVE Right
  <2>1. Len(bytes) = 1 /\ bytes[1] = ch
    BY <1>3
  <2>2. p < l /\ data[p + 1] = ch
    BY <1>2, <2>1
  <2>3. ~Continuation(ch) /\ ch < 128
    BY ONLY <1>3 DEF Continuation
  <2> PICK s : s = ReadByte(b)
    OBVIOUS
  <2>4. Live(s.b) /\ Alike(s.b, b) /\ s.ch = ch /\ GetPos(s.b) = p + 1
    <3>1. GetPos(b) < Len(b.data)
      BY <2>2
    <3> QED
      BY <2>2, <3>1, NextByte
  <2>5. ReadStart(b) = s
    <3>1. GetPos(b) < Len(b.data) /\ ~Continuation(b.data[GetPos(b) + 1])
      BY <2>2, <2>3
    <3> QED
      BY <3>1, StartByte
  <2>6. r = s
    BY <2>3, <2>4, <2>5, Zenon DEF Read, ReadCharacter, Character
  <2> QED
    BY <2>1, <2>4, <2>6
<1>4. ASSUME NEW x \in 0..31, NEW y \in 0..63, ch = x * 64 + y, bytes = <<192 + x, 128 + y>>
      PROVE  Right
  <2>1. Len(bytes) = 2 /\ bytes[1] = 192 + x /\ bytes[2] = 128 + y
    BY <1>4
  <2>2. p + 1 + 1 <= Len(data) /\ data[p + 1] = 192 + x /\ data[p + 1 + 1] = 128 + y
    BY <1>8, <2>1
  <2> PICK h : h = 192 + x
    OBVIOUS
  <2>3. h \in 192..255 /\ 1 = Trailing(h) /\ LeadBits(h, 1) = x
    BY ONLY x \in 0..31, h = 192 + x, LeadOfTwo
  <2> DEFINE c == [n \in 0..1 |-> IF n = 0 THEN x ELSE ch]
  <2>4. c[0] = x /\ c[1] = ch
    OBVIOUS
  <2> HIDE DEF c
  <2>5. Joins(c, 1, data, p + 1)
    <3>1. data[p + 1 + 1] % 64 = y
      BY ONLY <2>2, y \in 0..63, SixBits, SMTT(30)
    <3> QED
      BY ONLY <1>4, <2>4, <3>1 DEF Joins
  <2>6. r.ch = c[1] /\ Live(r.b) /\ Alike(r.b, b) /\ GetPos(r.b) = p + 1 + 1
    <3> PICK m \in 1..3 : m = 1
      OBVIOUS
    <3>1. /\ h \in 192..255 /\ h = b.data[GetPos(b) + 1] /\ m = Trailing(h)
          /\ GetPos(b) + 1 + m <= Len(b.data)
          /\ c[0] = LeadBits(h, m) /\ Joins(c, m, b.data, GetPos(b) + 1)
      BY <2>2, <2>3, <2>4, <2>5, SMTT(30)
    <3>2. r.ch = c[m] /\ Live(r.b) /\ Alike(r.b, b) /\ GetPos(r.b) = GetPos(b) + 1 + m
      BY ONLY <3>1, m \in 1..3, Live(b), b.utf8, r = Read(b), LongCharacter, ZenonT(60)
    <3> QED
      BY <3>2
  <2> QED
    BY <2>1, <2>4, <2>6
<1>5. ASSUME NEW x \in 0..15, NEW y \in 0..63, NEW z \in 0..63,
             ch = (x * 64 + y) * 64 + z, bytes = <<224 + x, 128 + y, 128 + z>>
      PROVE  Right
  <2>1. Len(bytes) = 3 /\ bytes[1] = 224 + x /\ bytes[2] = 128 + y /\ bytes[3] = 128 + z
    BY <1>5
  <2>2. /\ p + 1 + 2 <= Len(data) /\ data[p + 1] = 224 + x
        /\ data[p + 1 + 1] = 128 + y /\ data[p + 1 + 2] = 128 + z
    BY <1>8, <2>1
  <2> PICK h : h = 224 + x
    OBVIOUS
  <2>3. h \in 192..255 /\ 2 = Trailing(h) /\ LeadBits(h, 2) = x
    BY ONLY x \in 0..15, h = 224 + x, LeadOfThree
  <2> PICK d : d = x * 64 + y
    OBVIOUS
  <2> DEFINE c == [n \in 0..2 |-> IF n = 0 THEN x ELSE IF n = 1 THEN d ELSE ch]
  <2>4. c[0] = x /\ c[1] = d /\ c[2] = ch
    OBVIOUS
  <2> HIDE DEF c
  <2>5. Joins(c, 2, data, p + 1)
    <3>1. data[p + 1 + 1] % 64 = y /\ data[p + 1 + 2] % 64 = z
      <4>1. (128 + y) % 64 = y /\ (128 + z) % 64 = z
        BY ONLY y \in 0..63, z \in 0..63, SixBits, SMTT(30)
      <4> QED
        BY ONLY <2>2, <4>1, SMTT(30)
    <3>2. c[1] = c[0] * 64 + (data[p + 1 + 1] % 64) /\ c[2] = c[1] * 64 + (data[p + 1 + 2] % 64)
      <4>1. ch = d * 64 + z
        BY <1>5
      <4> QED
        BY ONLY <2>4, <3>1, <4>1, d = x * 64 + y
    <3> QED
      BY ONLY <3>2 DEF Joins
  <2>6. r.ch = c[2] /\ Live(r.b) /\ Alike(r.b, b) /\ GetPos(r.b) = p + 1 + 2
    <3> PICK m \in 1..3 : m = 2
      OBVIOUS
    <3>1. /\ h \in 192..255 /\ h = b.data[GetPos(b) + 1] /\ m = Trailing(h)
          /\ GetPos(b) + 1 + m <= Len(b.data)
          /\ c[0] = LeadBits(h, m) /\ Joins(c, m, b.data, GetPos(b) + 1)
      BY <2>2, <2>3, <2>4, <2>5, SMTT(30)
    <3>2. r.ch = c[m] /\ Live(r.b) /\ Alike(r.b, b) /\ GetPos(r.b) = GetPos(b) + 1 + m
      BY ONLY <3>1, m \in 1..3, Live(b), b.utf8, r = Read(b), LongCharacter, ZenonT(60)
    <3> QED
      BY <3>2
  <2> QED
    BY <2>1, <2>4, <2>6
<1>6. ASSUME NEW w \in 0..7, NEW x \in 0..63, NEW y \in 0..63, NEW z \in 0..63,
             ch = ((w * 64 + x) * 64 + y) * 64 + z,
             bytes = <<240 + w, 128 + x, 128 + y, 128 + z>>
      PROVE  Right
  <2>1. /\ Len(bytes) = 4 /\ bytes[1] = 240 + w /\ bytes[2] = 128 + x
        /\ bytes[3] = 128 + y /\ bytes[4] = 128 + z
    BY <1>6
  <2>2. /\ p + 1 + 3 <= Len(data) /\ data[p + 1] = 240 + w
        /\ data[p + 1 + 1] = 128 + x /\ data[p + 1 + 2] = 128 + y /\ data[p + 1 + 3] = 128 + z
    <3>1. /\ p + 1 + 3 <= Len(data) /\ data[p + 1] = bytes[1]
          /\ \A n \in 1..3 : data[p + 1 + n] = bytes[n + 1]
      BY <1>8, <2>1
    <3>2. data[p + 1 + 1] = bytes[2] /\ data[p + 1 + 2] = bytes[3] /\ data[p + 1 + 3] = bytes[4]
      BY <3>1
    <3> QED
      BY ONLY <2>1, <3>1, <3>2
  <2> PICK h : h = 240 + w
    OBVIOUS
  <2>3. h \in 192..255 /\ 3 = Trailing(h) /\ LeadBits(h, 3) = w
    BY ONLY w \in 0..7, h = 240 + w, LeadOfFour
  <2> PICK d : d = w * 64 + x
    OBVIOUS
  <2> PICK e : e = d * 64 + y
    OBVIOUS
  <2> DEFINE c == [n \in 0..3 |-> IF n = 0 THEN w ELSE IF n = 1 THEN d ELSE IF n = 2 THEN e ELSE ch]
  <2>4. c[0] = w /\ c[1] = d /\ c[2] = e /\ c[3] = ch
    OBVIOUS
  <2> HIDE DEF c
  <2>5. Joins(c, 3, data, p + 1)
    <3>1. data[p + 1 + 1] % 64 = x /\ data[p + 1 + 2] % 64 = y /\ data[p + 1 + 3] % 64 = z
      <4>1. (128 + x) % 64 = x /\ (128 + y) % 64 = y /\ (128 + z) % 64 = z
        BY ONLY x \in 0..63, y \in 0..63, z \in 0..63, SixBits, SMTT(30)
      <4> QED
        BY ONLY <2>2, <4>1, SMTT(30)
    <3>2. /\ c[1] = c[0] * 64 + (data[p + 1 + 1] % 64)
          /\ c[2] = c[1] * 64 + (data[p + 1 + 2] % 64)
          /\ c[3] = c[2] * 64 + (data[p + 1 + 3] % 64)
      <4>1. ch = e * 64 + z
        BY <1>6
      <4> QED
        BY ONLY <2>4, <3>1, <4>1, d = w * 64 + x, e = d * 64 + y
    <3> QED
      BY ONLY <3>2 DEF Joins
  <2>6. r.ch = c[3] /\ Live(r.b) /\ Alike(r.b, b) /\ GetPos(r.b) = p + 1 + 3
    <3> PICK m \in 1..3 : m = 3
      OBVIOUS
    <3>1. /\ h \in 192..255 /\ h = b.data[GetPos(b) + 1] /\ m = Trailing(h)
          /\ GetPos(b) + 1 + m <= Len(b.data)
          /\ c[0] = LeadBits(h, m) /\ Joins(c, m, b.data, GetPos(b) + 1)
      BY <2>2, <2>3, <2>4, <2>5, SMTT(30)
    <3>2. r.ch = c[m] /\ Live(r.b) /\ Alike(r.b, b) /\ GetPos(r.b) = GetPos(b) + 1 + m
      BY ONLY <3>1, m \in 1..3, Live(b), b.utf8, r = Read(b), LongCharacter, ZenonT(60)
    <3> QED
      BY <3>2
  <2> QED
    BY <2>1, <2>4, <2>6
<1>7. Right
  <2> HIDE DEF Right
  <2>1. CASE \E x \in 0..31, y \in 0..63 : ch = x * 64 + y /\ bytes = <<192 + x, 128 + y>>
    BY <1>4, <2>1, Zenon
  <2>2. CASE \E x \in 0..15, y, z \in 0..63 :
               ch = (x * 64 + y) * 64 + z /\ bytes = <<224 + x, 128 + y, 128 + z>>
    BY <1>5, <2>2, Zenon
  <2>3. CASE \E w \in 0..7, x, y, z \in 0..63 :
               /\ ch = ((w * 64 + x) * 64 + y) * 64 + z
               /\ bytes = <<240 + w, 128 + x, 128 + y, 128 + z>>
    BY <1>6, <2>3, Zenon
  <2>4. CASE ch \in 0..127 /\ bytes = <<ch>>
    BY <1>3, <2>4
  <2> QED
    BY <2>1, <2>2, <2>3, <2>4, Zenon DEF Encodes
<1> QED
  BY <1>7

----------------------------------------------------------------------------
(* Peek, and the end of a line.                                            *)

\* Peek goes back to where it was.
LEMMA PeekFollows ==
  ASSUME NEW b, Good(b), ~NoInput(b)
  PROVE  LET r == Peek(b) IN Follows(r.b, b)
<1> PICK r : r = Read(b)
  OBVIOUS
<1> PICK p : p = GetPos(b)
  OBVIOUS
<1>1. Follows(r.b, b) /\ r \in Readings
  BY ReadFollows DEF IsReading
<1>2. Seen(r.b, p) /\ Good(r.b)
  BY <1>1, SeenHere, SeenLater DEF Follows
<1> PICK s : s = SetPos(r.b, p)
  OBVIOUS
<1>3. Follows(s, b)
  BY <1>1, <1>2, SetPosFollows, FollowsOn
<1>4. Peek(b) = [r EXCEPT !.b = s]
  BY DEF Peek
<1>5. [r EXCEPT !.b = s].b = s
  BY <1>1 DEF Readings
<1> QED
  BY <1>3, <1>4, <1>5

\* The character after an isolated '\r' is looked at.
LEMMA UniformEolFollows ==
  ASSUME NEW b, Good(b)
  PROVE  LET r == UniformEol(Read(b))
         IN /\ IsReading(r, b)
            /\ Fresh(b) /\ ~b.utf8 /\ r.ch = 239 => b.data[1] = 239
<1> PICK r : r = Read(b)
  OBVIOUS
<1>1. /\ r \in Readings /\ IsReading(r, b)
      /\ Fresh(b) /\ ~b.utf8 => r.ch \in {EoF, b.data[1]}
  BY ReadFollows
<1>2. CASE r.ch = CR
  <2>1. ~NoInput(b) /\ ~NoInput(r.b) /\ Good(r.b) /\ Follows(r.b, b)
    BY <1>1, <1>2 DEF IsReading, CR, EoF, Follows
  <2> PICK n : n = Peek(r.b)
    OBVIOUS
  <2>2. Follows(n.b, b)
    BY <2>1, PeekFollows, FollowsOn
  <2>3. UniformEol(r) = [b |-> n.b, ch |-> IF n.ch # EOL THEN EOL ELSE CR]
    BY <1>2 DEF UniformEol
  <2> QED
    BY <2>1, <2>2, <2>3 DEF IsReading, EOL, CR
<1>3. CASE r.ch # CR
  BY <1>1, <1>3 DEF UniformEol, EoF
<1> QED
  BY <1>2, <1>3

----------------------------------------------------------------------------
(* The constructors of every kind.                                         *)

IsOpened(o, e, n, len, start, cap) ==
  /\ o \in Buffers /\ Alike(o, e) /\ o.open /\ o.exited = e.exited /\ o.fail = e.fail
  /\ o.buf = e.buf /\ o.bufPos = e.bufPos /\ o.at = e.at
  /\ o.fileLen = n /\ o.bufLen = len /\ o.bufStart = start /\ o.bufCapacity = cap

LEMMA OpenFields ==
  ASSUME NEW e \in Buffers, NEW n \in Nat, NEW len \in Nat, NEW start \in Nat, NEW cap \in Nat
  PROVE  IsOpened([e EXCEPT !.open = TRUE, !.fileLen = n, !.bufLen = len, !.bufStart = start,
                            !.bufCapacity = cap], e, n, len, start, cap)
  BY DEF Buffers, Alike, IsOpened

LEMMA ShutFields ==
  ASSUME NEW b \in Buffers
  PROVE  LET c == [b EXCEPT !.open = FALSE]
         IN /\ c \in Buffers /\ Alike(c, b) /\ c.exited = b.exited /\ c.fileLen = b.fileLen
            /\ c.bufLen = b.bufLen /\ c.bufPos = b.bufPos
  BY DEF Buffers, Alike

\* A file without a byte.
LEMMA VacantFile ==
  ASSUME NEW kind \in {"file", "userFile"}
  PROVE  LET f == File(kind, <<>>) IN Vacant(f) /\ f.kind = kind /\ ~f.utf8
<1> PICK e : e = Empty(kind, <<>>)
  OBVIOUS
<1>1. /\ e \in Buffers /\ e.data = <<>> /\ e.kind = kind /\ e.bufPos = 0 /\ ~e.exited /\ ~e.utf8
  <2>1. kind \in Kinds /\ <<>> \in Seq(0..255)
    BY DEF Kinds
  <2> QED
    BY <2>1, EmptyFields
<1> PICK b : b = Opened(kind, <<>>)
  OBVIOUS
<1>2. /\ b \in Buffers /\ b.data = <<>> /\ b.kind = kind /\ b.bufPos = 0 /\ b.bufLen = 0
      /\ b.fileLen = 0 /\ ~b.exited /\ ~b.utf8
  <2> PICK z \in Nat : z = 0
    OBVIOUS
  <2> PICK n : n = Len(<<>>)
    OBVIOUS
  <2> PICK window : window = Least(n, MaxBufferLength)
    OBVIOUS
  <2>1. n = z /\ window = z
    BY LengthsAssumption DEF Least
  <2> PICK cap \in Nat : cap = MinBufferLength
    BY LengthsAssumption
  <2> PICK start \in Nat : start = IntMax
    BY DEF IntMax
  <2> PICK o : o = [e EXCEPT !.open = TRUE, !.fileLen = z, !.bufLen = z, !.bufStart = start,
                             !.bufCapacity = cap]
    OBVIOUS
  <2>2. b = o
    <3>1. b = [e EXCEPT !.open = TRUE, !.fileLen = n, !.bufLen = window, !.bufStart = IntMax,
                        !.bufCapacity = IF window > 0 THEN window ELSE MinBufferLength]
      BY DEF Opened
    <3>2. (IF window > 0 THEN window ELSE MinBufferLength) = cap
      BY <2>1
    <3> QED
      BY <2>1, <3>1, <3>2
  <2>3. IsOpened(o, e, z, z, start, cap)
    BY <1>1, OpenFields
  <2> QED
    BY <1>1, <2>2, <2>3 DEF IsOpened, Alike
<1>3. File(kind, <<>>) \in {b, Close(b)}
  BY <1>2 DEF File
<1>4. Close(b) = IF kind = "file" THEN [b EXCEPT !.open = FALSE] ELSE b
  BY <1>2 DEF Close
<1> PICK c : c = [b EXCEPT !.open = FALSE]
  OBVIOUS
<1>5. /\ c \in Buffers /\ Alike(c, b) /\ c.exited = b.exited /\ c.fileLen = b.fileLen
      /\ c.bufLen = b.bufLen /\ c.bufPos = b.bufPos
  BY <1>2, ShutFields
<1>6. \A f \in {b, c} : Vacant(f) /\ f.kind = kind /\ ~f.utf8
  BY <1>2, <1>5 DEF Vacant, NoInput, Alike
<1> QED
  BY <1>3, <1>4, <1>6

LEMMA PipeFields ==
  ASSUME NEW e \in Buffers, NEW cap \in Nat
  PROVE  IsOpened([e EXCEPT !.open = TRUE, !.bufCapacity = cap],
                  e, e.fileLen, e.bufLen, e.bufStart, cap)
  BY DEF Buffers, Alike, IsOpened

LEMMA PipeBegins ==
  ASSUME NEW b \in Buffers, b.kind = "pipe", b.open, ~b.exited, 0 < b.bufCapacity, b.bufLen = 0,
         b.fileLen = 0, b.bufPos = 0, b.bufStart = 0, b.at = 0, b.buf = <<>>
  PROVE  Piped(b)
<1>1. Len(b.data) \in Nat /\ Len(b.buf) = 0 /\ b.bufCapacity \in Nat
  BY Fields, LenProperties
<1>2. \A i \in 1..b.bufLen : b.buf[i] = b.data[i]
  OBVIOUS
<1> QED
  BY <1>1, <1>2 DEF Piped

\* A stream that cannot seek, of which nothing was read.
LEMMA PipeFile ==
  ASSUME NEW data \in Seq(0..255)
  PROVE  LET f == File("pipe", data)
         IN Piped(f) /\ Begun(f, "pipe", data) /\ f.fileLen = 0
<1> PICK e : e = Empty("pipe", data)
  OBVIOUS
<1>1. /\ e \in Buffers /\ e.data = data /\ e.kind = "pipe" /\ e.bufStart = 0 /\ e.bufPos = 0
      /\ e.buf = <<>> /\ e.bufLen = 0 /\ e.fileLen = 0 /\ e.at = 0
      /\ ~e.open /\ ~e.exited /\ ~e.fail /\ ~e.utf8
  BY EmptyFields DEF Kinds
<1> PICK cap \in Nat : cap = MinBufferLength /\ 0 < cap
  BY LengthsAssumption
<1> PICK b : b = [e EXCEPT !.open = TRUE, !.bufCapacity = cap]
  OBVIOUS
<1>2. Opened("pipe", data) = b
  BY DEF Opened
<1>3. IsOpened(b, e, e.fileLen, e.bufLen, e.bufStart, cap)
  BY <1>1, PipeFields
<1>4. /\ b \in Buffers /\ b.data = data /\ b.kind = "pipe" /\ b.open /\ ~b.exited /\ ~b.fail
      /\ ~b.utf8 /\ b.buf = <<>> /\ b.bufPos = 0 /\ b.at = 0 /\ b.fileLen = 0
      /\ b.bufLen = 0 /\ b.bufStart = 0 /\ 0 < b.bufCapacity
  BY ONLY <1>1, <1>3, 0 < cap DEF IsOpened, Alike
<1>5. File("pipe", data) = b
  <2>1. ~CanSeek(b) /\ ~(b.fileLen > 0)
    BY ONLY <1>4 DEF CanSeek
  <2> QED
    BY <1>2, <2>1, Zenon DEF File
<1>6. Piped(b)
  BY ONLY <1>4, PipeBegins
<1>7. Begun(b, "pipe", data)
  BY ONLY <1>4 DEF Begun, GetPos
<1> QED
  BY <1>4, <1>5, <1>6, <1>7

\* The scanner begins with a buffer it can read.
LEMMA BufferedRight ==
  ASSUME NEW kind \in Kinds, NEW data \in Seq(0..255)
  PROVE  LET b == Buffered(kind, data)
         IN Good(b) /\ Fresh(b) /\ ~b.utf8 /\ b.kind = kind /\ b.data = data
<1> PICK b : b = Buffered(kind, data)
  OBVIOUS
<1>1. CASE kind = "memory"
  <2>1. b = Memory(data)
    BY <1>1 DEF Buffered
  <2> QED
    BY <1>1, <2>1, MemorySound DEF Good, Fresh, Begun
<1>2. CASE kind = "istream"
  <2>1. b = Empty(kind, data)
    BY <1>2 DEF Buffered
  <2>2. /\ b \in Buffers /\ b.data = data /\ b.kind = kind /\ b.at = 0
        /\ ~b.exited /\ ~b.fail /\ ~b.utf8
    BY <2>1, EmptyFields
  <2>3. Len(b.data) \in Nat
    BY <2>2, LenProperties
  <2> QED
    BY <1>2, <2>2, <2>3 DEF Good, Fresh, Streamed, GetPos, Tell
<1>3. CASE kind = "pipe"
  <2>1. b = File(kind, data)
    BY <1>3 DEF Buffered
  <2> QED
    BY <1>3, <2>1, PipeFile DEF Good, Fresh, Begun
<1>4. CASE kind \in {"file", "userFile"} /\ data # <<>>
  <2>1. b = File(kind, data)
    BY <1>4 DEF Buffered
  <2>2. Sound(b) /\ Begun(b, kind, data)
    BY <1>4, <2>1, FileSound
  <2> QED
    BY <1>4, <2>2 DEF Good, Fresh, Begun
<1>5. CASE kind \in {"file", "userFile"} /\ data = <<>>
  <2>1. b = File(kind, <<>>)
    BY <1>5 DEF Buffered
  <2>2. Vacant(b) /\ b.kind = kind /\ ~b.utf8
    BY <1>5, <2>1, VacantFile
  <2> QED
    BY <1>5, <2>2 DEF Good, Fresh, Vacant
<1> QED
  BY <1>1, <1>2, <1>3, <1>4, <1>5 DEF Kinds

\* UTF8Buffer takes over the fields.
LEMMA Utf8Fields ==
  ASSUME NEW b \in Buffers
  PROVE  LET u == UTF8Buffer(b)
         IN /\ u \in Buffers /\ u.data = b.data /\ u.kind = b.kind /\ u.open = b.open
            /\ u.exited = b.exited /\ u.fail = b.fail /\ u.fileLen = b.fileLen
            /\ u.buf = b.buf /\ u.bufCapacity = b.bufCapacity /\ u.bufLen = b.bufLen
            /\ u.bufPos = b.bufPos /\ u.bufStart = b.bufStart /\ u.at = b.at
  BY DEF Buffers, UTF8Buffer

\* The other class reads the same bytes.
LEMMA Utf8Good ==
  ASSUME NEW b, Good(b)
  PROVE  Good(UTF8Buffer(b)) /\ UTF8Buffer(b).kind = b.kind /\ UTF8Buffer(b).data = b.data
         /\ (NoInput(UTF8Buffer(b)) <=> NoInput(b))
<1> PICK u : u = UTF8Buffer(b)
  OBVIOUS
<1>1. /\ u \in Buffers /\ u.data = b.data /\ u.kind = b.kind /\ u.open = b.open
      /\ u.exited = b.exited /\ u.fail = b.fail /\ u.fileLen = b.fileLen
      /\ u.buf = b.buf /\ u.bufCapacity = b.bufCapacity /\ u.bufLen = b.bufLen
      /\ u.bufPos = b.bufPos /\ u.bufStart = b.bufStart /\ u.at = b.at
  BY GoodTypes, Utf8Fields
<1>2. CASE Sound(b)
  BY <1>1, <1>2 DEF Good, Sound, Direct, Reachable, NoInput
<1>3. CASE Vacant(b)
  BY <1>1, <1>3 DEF Good, Vacant, NoInput
<1>4. CASE Piped(b)
  BY <1>1, <1>4 DEF Good, Piped, NoInput
<1>5. CASE Streamed(b)
  BY <1>1, <1>5 DEF Good, Streamed, NoInput
<1> QED
  BY <1>2, <1>3, <1>4, <1>5 DEF Good

\* Which windows are right.
LEMMA GoodWindow ==
  ASSUME NEW b, Good(b), b.kind # "istream", ~Lost(b)
  PROVE  Window(b)
<1>1. /\ b \in Buffers /\ b.bufLen \in Nat /\ b.bufStart \in Nat /\ b.fileLen \in Nat
      /\ b.bufPos \in Int /\ Len(b.buf) \in Nat
  BY GoodTypes, Fields, LenProperties
<1>2. CASE Sound(b)
  BY <1>2, SoundWindow
<1>3. CASE Vacant(b)
  BY <1>1, <1>3 DEF Vacant, Window
<1>4. CASE Piped(b)
  <2>1. ~(b.bufLen < b.fileLen)
    BY <1>4 DEF Lost, Piped
  <2>2. /\ b.bufStart = 0 /\ b.bufLen = b.fileLen /\ b.fileLen <= Len(b.buf)
        /\ b.bufPos \in Nat /\ b.bufStart + b.bufPos <= b.fileLen
        /\ \A i \in 1..b.bufLen : b.buf[i] = b.data[i]
    BY <1>4, <2>1 DEF Piped
  <2>3. \A i \in 1..b.bufLen : b.buf[i] = b.data[b.bufStart + i]
    BY <1>1, <2>2
  <2> QED
    BY <1>1, <2>2, <2>3 DEF Window
<1>5. CASE Streamed(b)
  BY <1>5 DEF Streamed
<1> QED
  BY <1>2, <1>3, <1>4, <1>5 DEF Good

----------------------------------------------------------------------------
(* The characters of the scanner.                                          *)

Cursors ==
  [b : Buffers, ch : Int, valCh : Int, pos : Int, line : Nat, col : Nat, oldEols : Nat]

\* NextCh can be called.
Ready(c) ==
  /\ c \in Cursors /\ Good(c.b)
  /\ c.oldEols > 0 => Seen(c.b, c.pos)

\* The scanner can go back to its character.
Sane(c) == Ready(c) /\ IF NoInput(c.b) THEN c.ch = EoF ELSE Seen(c.b, c.pos)

\* What becomes of a cursor.
Advances(n, c) == Sane(n) /\ Follows(n.b, c.b) /\ c.line <= n.line

CursorAt(n, b, ch, val, pos, line, col, old) ==
  /\ n \in Cursors
  /\ n.b = b /\ n.ch = ch /\ n.valCh = val /\ n.pos = pos /\ n.line = line /\ n.col = col
  /\ n.oldEols = old

LEMMA CursorTypes ==
  ASSUME NEW c \in Cursors
  PROVE  /\ c.b \in Buffers /\ c.ch \in Int /\ c.valCh \in Int /\ c.pos \in Int
         /\ c.line \in Nat /\ c.col \in Nat /\ c.oldEols \in Nat
  BY DEF Cursors

LEMMA CasedFields ==
  ASSUME NEW c \in Cursors, NEW low \in Int
  PROVE  CursorAt([c EXCEPT !.valCh = c.ch, !.ch = low],
                  c.b, low, c.ch, c.pos, c.line, c.col, c.oldEols)
  BY DEF Cursors, CursorAt

LEMMA ValFields ==
  ASSUME NEW c \in Cursors
  PROVE  CursorAt([c EXCEPT !.valCh = c.ch],
                  c.b, c.ch, c.ch, c.pos, c.line, c.col, c.oldEols)
  BY DEF Cursors, CursorAt

LEMMA EolFields ==
  ASSUME NEW c \in Cursors, NEW ch \in Int, NEW old \in Nat
  PROVE  CursorAt([c EXCEPT !.ch = ch, !.oldEols = old],
                  c.b, ch, c.valCh, c.pos, c.line, c.col, old)
  BY DEF Cursors, CursorAt

LEMMA MovedCursor ==
  ASSUME NEW c \in Cursors, NEW b \in Buffers, NEW ch \in Int, NEW pos \in Int, NEW line \in Nat,
         NEW col \in Nat
  PROVE  CursorAt([c EXCEPT !.b = b, !.ch = ch, !.pos = pos, !.line = line, !.col = col],
                  b, ch, c.valCh, pos, line, col, c.oldEols)
  BY DEF Cursors, CursorAt

LEMMA BufferCursor ==
  ASSUME NEW c \in Cursors, NEW b \in Buffers
  PROVE  CursorAt([c EXCEPT !.b = b], b, c.ch, c.valCh, c.pos, c.line, c.col, c.oldEols)
  BY DEF Cursors, CursorAt

LEMMA LineCursor ==
  ASSUME NEW c \in Cursors, NEW line \in Nat, NEW col \in Nat
  PROVE  CursorAt([c EXCEPT !.line = line, !.col = col],
                  c.b, c.ch, c.valCh, c.pos, line, col, c.oldEols)
  BY DEF Cursors, CursorAt

\* Case does not matter for EoF and the first byte of a mark.
LEMMA CasedRight ==
  ASSUME NEW c \in Cursors
  PROVE  LET n == Cased(c)
         IN /\ n \in Cursors /\ n.b = c.b /\ n.pos = c.pos /\ n.line = c.line /\ n.col = c.col
            /\ n.oldEols = c.oldEols
            /\ n.ch = EoF <=> c.ch = EoF
            /\ n.ch = 239 <=> c.ch = 239
<1> PICK low : low = LowerCase(c.ch)
  OBVIOUS
<1>1. low \in Int /\ (low = EoF <=> c.ch = EoF) /\ (low = 239 <=> c.ch = 239)
  BY CursorTypes DEF LowerCase, EoF
<1> PICK n : n = Cased(c)
  OBVIOUS
<1>2. \/ n = [c EXCEPT !.valCh = c.ch, !.ch = low]
      \/ n = [c EXCEPT !.valCh = c.ch]
  BY DEF Cased
<1>3. \/ CursorAt(n, c.b, low, c.ch, c.pos, c.line, c.col, c.oldEols)
      \/ CursorAt(n, c.b, c.ch, c.ch, c.pos, c.line, c.col, c.oldEols)
  <2>1. CASE n = [c EXCEPT !.valCh = c.ch, !.ch = low]
    <3>1. low \in Int
      BY <1>1
    <3> QED
      BY ONLY <2>1, <3>1, c \in Cursors, CasedFields
  <2>2. CASE n = [c EXCEPT !.valCh = c.ch]
    BY ONLY <2>2, c \in Cursors, ValFields
  <2> QED
    BY <1>2, <2>1, <2>2
<1> QED
  BY ONLY <1>1, <1>3, n = Cased(c) DEF CursorAt

\* NextCh can be called again behind NextCh.
LEMMA NextChRight ==
  ASSUME NEW c, Ready(c)
  PROVE  LET n == NextCh(c)
         IN /\ Advances(n, c)
            /\ Fresh(c.b) /\ ~c.b.utf8 /\ c.oldEols = 0 /\ n.ch = 239 => c.b.data[1] = 239
<1>1. /\ c \in Cursors /\ Good(c.b) /\ c.b \in Buffers /\ c.pos \in Int /\ c.line \in Nat
      /\ c.col \in Nat /\ c.oldEols \in Nat
  BY CursorTypes DEF Ready
<1>2. CASE c.oldEols > 0
  <2> PICK old \in Nat : old = c.oldEols - 1
    BY <1>1, <1>2
  <2> PICK eol \in Int : eol = EOL
    BY DEF EOL
  <2> PICK m : m = [c EXCEPT !.ch = eol, !.oldEols = old]
    OBVIOUS
  <2>1. CursorAt(m, c.b, eol, c.valCh, c.pos, c.line, c.col, old)
    BY <1>1, EolFields
  <2> PICK n : n = Cased(m)
    OBVIOUS
  <2>2. n \in Cursors /\ n.b = m.b /\ n.pos = m.pos /\ n.line = m.line
    BY <2>1, CasedRight DEF CursorAt
  <2>3. NextCh(c) = n
    BY <1>2 DEF NextCh
  <2>4. n.b = c.b /\ n.pos = c.pos /\ n.line = c.line /\ c.line <= n.line /\ Seen(c.b, c.pos)
    BY <1>1, <1>2, <2>1, <2>2 DEF CursorAt, Ready
  <2>5. Sane(n)
    BY <1>1, <2>2, <2>4 DEF Sane, Ready, Seen
  <2> QED
    BY <1>1, <1>2, <2>3, <2>4, <2>5, FollowsItself DEF Advances
<1>3. CASE ~(c.oldEols > 0)
  <2> PICK r : r = UniformEol(Read(c.b))
    OBVIOUS
  <2>1. /\ IsReading(r, c.b)
        /\ Fresh(c.b) /\ ~c.b.utf8 /\ r.ch = 239 => c.b.data[1] = 239
    BY <1>1, UniformEolFollows
  <2> PICK p \in Int : p = GetPos(c.b)
    BY <1>1, SeenHere
  <2> PICK line \in Nat : line = (IF r.ch = EOL THEN c.line + 1 ELSE c.line) /\ c.line <= line
    BY <1>1
  <2> PICK col \in Nat : col = IF r.ch = EOL THEN 0 ELSE c.col + 1
    BY <1>1
  <2> PICK m : m = [c EXCEPT !.b = r.b, !.ch = r.ch, !.pos = p, !.line = line, !.col = col]
    OBVIOUS
  <2>2. Moved(c, r) = m
    BY DEF Moved
  <2>3. Follows(r.b, c.b) /\ Good(r.b) /\ r.b \in Buffers /\ r.ch \in Int
    BY <2>1, GoodTypes DEF IsReading, Follows
  <2>4. CursorAt(m, r.b, r.ch, c.valCh, p, line, col, c.oldEols)
    BY <1>1, <2>3, MovedCursor
  <2> PICK n : n = Cased(m)
    OBVIOUS
  <2>5. /\ n \in Cursors /\ n.b = m.b /\ n.pos = m.pos /\ n.line = m.line
        /\ n.oldEols = m.oldEols
        /\ n.ch = EoF <=> m.ch = EoF
        /\ n.ch = 239 <=> m.ch = 239
    BY <2>4, CasedRight DEF CursorAt
  <2>6. NextCh(c) = n
    BY <1>3, <2>2 DEF NextCh
  <2>7. /\ n.b = r.b /\ n.pos = p /\ n.line = line /\ n.oldEols = c.oldEols
        /\ n.ch = EoF <=> r.ch = EoF
        /\ n.ch = 239 <=> r.ch = 239
    BY ONLY <2>4, <2>5 DEF CursorAt
  <2>8. NoInput(n.b) => n.ch = EoF
    BY <2>1, <2>3, <2>7 DEF IsReading, Follows
  <2>9. ~NoInput(n.b) => Seen(n.b, n.pos)
    <3>1. ~NoInput(r.b) => Seen(c.b, p)
      BY <1>1, <2>3, SeenHere DEF Follows
    <3> QED
      BY <1>1, <2>3, <2>7, <3>1, SeenLater
  <2>10. Sane(n)
    BY <1>1, <1>3, <2>3, <2>5, <2>7, <2>8, <2>9 DEF Sane, Ready
  <2> QED
    BY <2>1, <2>3, <2>6, <2>7, <2>10 DEF Advances
<1> QED
  BY <1>2, <1>3

LEMMA AdvancesOn ==
  ASSUME NEW c, NEW n, NEW m, Ready(c), Advances(n, c), Advances(m, n)
  PROVE  Advances(m, c)
<1>1. c.line \in Nat /\ n.line \in Nat /\ m.line \in Nat
  BY CursorTypes DEF Advances, Sane, Ready
<1>2. Follows(m.b, c.b)
  BY FollowsOn DEF Advances, Ready
<1> QED
  BY <1>1, <1>2 DEF Advances

LEMMA AdvancesItself == ASSUME NEW c, Sane(c) PROVE Advances(c, c)
<1>1. c.line \in Nat
  BY CursorTypes DEF Sane, Ready
<1> QED
  BY <1>1, FollowsItself DEF Advances, Sane, Ready

\* Back to a place that was seen.
LEMMA ReturnRight ==
  ASSUME NEW c, Ready(c), NEW p, Seen(c.b, p), NEW l \in Nat, NEW k \in Nat
  PROVE  LET n == Return(c, p, l, k)
         IN Sane(n) /\ Follows(n.b, c.b) /\ n.line = l /\ n.col = k
<1> PICK s : s = SetPos(c.b, p)
  OBVIOUS
<1> PICK g : g = [c EXCEPT !.b = s]
  OBVIOUS
<1>1. c \in Cursors /\ Good(c.b)
  BY DEF Ready
<1>2. Follows(s, c.b) /\ Good(s) /\ s \in Buffers
  BY <1>1, SetPosFollows, GoodTypes DEF Follows
<1>3. CursorAt(g, s, c.ch, c.valCh, c.pos, c.line, c.col, c.oldEols)
  BY <1>1, <1>2, BufferCursor
<1>4. g \in Cursors /\ g.b = s /\ g.pos = c.pos /\ g.oldEols = c.oldEols
  BY ONLY <1>3 DEF CursorAt
<1>5. Ready(g)
  BY <1>1, <1>2, <1>4, SeenLater DEF Ready
<1> PICK m : m = NextCh(g)
  OBVIOUS
<1>6. Sane(m) /\ Follows(m.b, g.b)
  BY <1>5, NextChRight DEF Advances
<1> PICK n : n = [m EXCEPT !.line = l, !.col = k]
  OBVIOUS
<1>7. CursorAt(n, m.b, m.ch, m.valCh, m.pos, l, k, m.oldEols)
  BY <1>6, LineCursor DEF Sane, Ready
<1>8. Return(c, p, l, k) = n
  BY DEF Return, Goto
<1>9. n \in Cursors /\ n.b = m.b /\ n.ch = m.ch /\ n.pos = m.pos /\ n.line = l /\ n.col = k
      /\ n.oldEols = m.oldEols
  BY ONLY <1>7 DEF CursorAt
<1>10. Sane(n)
  BY <1>6, <1>9 DEF Sane, Ready
<1>11. Follows(n.b, c.b)
  BY <1>1, <1>2, <1>4, <1>6, <1>9, FollowsOn
<1> QED
  BY <1>8, <1>9, <1>10, <1>11

\* The byte order mark was none.
Stopped(c) == c \in Cursors /\ c.b.data[1] = 239 /\ \E g : Good(g) /\ c.b = Exit(g)

LEMMA ExitFields ==
  ASSUME NEW b \in Buffers
  PROVE  LET s == Exit(b)
         IN /\ s \in Buffers /\ Alike(s, b) /\ s.exited /\ s.fileLen = b.fileLen
            /\ s.buf = b.buf /\ s.bufLen = b.bufLen /\ s.bufPos = b.bufPos
            /\ s.bufStart = b.bufStart
  BY DEF Buffers, Alike, Exit

\* The buffer exited, and is otherwise what it was.
LEMMA StoppedFields ==
  ASSUME NEW c, Stopped(c)
  PROVE  /\ c \in Cursors /\ c.b.exited /\ c.b.data[1] = 239
         /\ c.b.kind # "istream" /\ ~Lost(c.b) => Window(c.b)
<1> PICK g : Good(g) /\ c.b = Exit(g)
  BY DEF Stopped
<1> PICK s : s = Exit(g)
  OBVIOUS
<1>1. /\ s \in Buffers /\ Alike(s, g) /\ s.exited /\ s.fileLen = g.fileLen
      /\ s.buf = g.buf /\ s.bufLen = g.bufLen /\ s.bufPos = g.bufPos
      /\ s.bufStart = g.bufStart
  BY GoodTypes, ExitFields
<1>2. s.kind # "istream" /\ ~Lost(s) => Window(g)
  BY <1>1, GoodWindow DEF Lost, Alike
<1>3. Window(g) => Window(s)
  BY <1>1 DEF Window, Alike, NoInput
<1> QED
  BY <1>1, <1>2, <1>3 DEF Stopped

\* The cursor before the first character.
LEMMA StartReady ==
  ASSUME NEW b, Good(b)
  PROVE  LET c == Start(b) IN Ready(c) /\ c.b = b /\ c.oldEols = 0 /\ c.line = 1
<1>1. b \in Buffers
  BY GoodTypes
<1> QED
  BY <1>1 DEF Ready, Start, Cursors

\* The scanner begins behind the byte order mark, or stops at one that is none.
LEMMA ScannerRight ==
  ASSUME NEW b, Good(b), Fresh(b), ~b.utf8
  PROVE  LET c == Scanner(b)
         IN c.b.kind = b.kind /\ c.b.data = b.data /\ (Sane(c) \/ Stopped(c))
<1> PICK c0 : c0 = Start(b)
  OBVIOUS
<1> PICK c : c = NextCh(c0)
  OBVIOUS
<1>1. Ready(c0) /\ c0.b = b /\ c0.oldEols = 0
  BY StartReady
<1>2. Advances(c, c0) /\ (c.ch = 239 => b.data[1] = 239)
  BY <1>1, NextChRight
<1>3. Sane(c) /\ Ready(c) /\ Follows(c.b, b)
  BY <1>1, <1>2 DEF Advances, Sane
<1>4. CASE c.ch # 239
  <2>1. Scanner(b) = c
    BY <1>4 DEF Scanner
  <2> QED
    BY <1>3, <2>1 DEF Follows, Alike
<1>5. CASE c.ch = 239
  <2> PICK c1 : c1 = NextCh(c)
    OBVIOUS
  <2> PICK c2 : c2 = NextCh(c1)
    OBVIOUS
  <2>1. Scanner(b) = Marked(c1, c2)
    BY <1>5 DEF Scanner
  <2>2. Sane(c1) /\ Ready(c1) /\ Advances(c1, c)
    BY <1>3, NextChRight DEF Advances, Sane
  <2>3. Sane(c2) /\ Ready(c2) /\ Advances(c2, c1)
    BY <2>2, NextChRight DEF Advances, Sane
  <2>4. c2.b.kind = b.kind /\ c2.b.data = b.data /\ Good(c2.b) /\ c2 \in Cursors
    <3>1. Follows(c1.b, c.b) /\ Follows(c2.b, c1.b)
      BY <2>2, <2>3 DEF Advances
    <3> QED
      BY <1>3, <2>3, <3>1 DEF Follows, Alike, Ready
  <2>5. ASSUME c1.ch # 187 \/ c2.ch # 191
        PROVE  LET i == Marked(c1, c2)
               IN i.b.kind = b.kind /\ i.b.data = b.data /\ Stopped(i)
    <3> PICK s : s = Exit(c2.b)
      OBVIOUS
    <3> PICK i : i = [c2 EXCEPT !.b = s]
      OBVIOUS
    <3>1. Marked(c1, c2) = i
      BY <2>5 DEF Marked, Illegal
    <3>2. s \in Buffers /\ Alike(s, c2.b)
      BY <2>4, GoodTypes, ExitFields
    <3>3. CursorAt(i, s, c2.ch, c2.valCh, c2.pos, c2.line, c2.col, c2.oldEols)
      BY <2>4, <3>2, BufferCursor
    <3>4. i \in Cursors /\ i.b = s
      BY ONLY <3>3 DEF CursorAt
    <3>5. i.b.kind = b.kind /\ i.b.data = b.data
      BY <2>4, <3>2, <3>4 DEF Alike
    <3>6. b.data[1] = 239
      BY <1>2, <1>5
    <3>7. \E g : Good(g) /\ i.b = Exit(g)
      BY <2>4, <3>4
    <3>8. Stopped(i)
      BY <3>4, <3>5, <3>6, <3>7 DEF Stopped
    <3> QED
      BY <3>1, <3>5, <3>8
  <2>6. ASSUME ~(c1.ch # 187 \/ c2.ch # 191)
        PROVE  LET n == Marked(c1, c2)
               IN n.b.kind = b.kind /\ n.b.data = b.data /\ Sane(n)
    <3> PICK u : u = UTF8Buffer(c2.b)
      OBVIOUS
    <3> PICK zero \in Nat : zero = 0
      OBVIOUS
    <3> PICK m : m = [c2 EXCEPT !.b = u, !.col = zero]
      OBVIOUS
    <3> PICK n : n = NextCh(m)
      OBVIOUS
    <3>1. Marked(c1, c2) = n
      BY <2>6 DEF Marked
    <3>2. Good(u) /\ u.kind = c2.b.kind /\ u.data = c2.b.data /\ u \in Buffers
          /\ u.fileLen = c2.b.fileLen /\ u.fail = c2.b.fail
      BY <2>4, Utf8Good, GoodTypes, Utf8Fields
    <3>3. m \in Cursors /\ m.b = u /\ m.pos = c2.pos /\ m.oldEols = c2.oldEols
      <4>1. \A v \in Buffers, k \in Nat :
              LET x == [c2 EXCEPT !.b = v, !.col = k]
              IN x \in Cursors /\ x.b = v /\ x.pos = c2.pos /\ x.oldEols = c2.oldEols
        BY ONLY <2>4 DEF Cursors
      <4> QED
        BY <3>2, <4>1
    <3>4. Ready(m)
      BY <2>3, <3>2, <3>3 DEF Ready, Seen, NoInput
    <3>5. Sane(n) /\ Follows(n.b, u)
      <4>1. Advances(n, m)
        BY <3>4, NextChRight
      <4> QED
        BY ONLY <3>3, <4>1 DEF Advances
    <3> QED
      BY <2>4, <3>1, <3>2, <3>5 DEF Follows, Alike
  <2> QED
    BY <2>1, <2>5, <2>6
<1> QED
  BY <1>4, <1>5

----------------------------------------------------------------------------
(* The text of a token.                                                    *)

Texts(S, T) == [tval : Seq(S), tlen : T, tvalLength : Nat \ {0}]

\* A text and its capacity.
Held(x) ==
  /\ \E S, T : x \in Texts(S, T)
  /\ Len(x.tval) <= x.tvalLength

Within(x) == x.tlen \in 0..Len(x.tval)

\* While the automaton runs the length counts the characters read, and the
\* context and the last end recognized are among them.
Matched ==
  /\ Within(txt)
  /\ apx \in 0..txt.tlen
  /\ rec.chars \in 0..txt.tlen
  /\ grammar \in DOMAIN Grammar /\ state \in DOMAIN gr.states

\* Behind the cut at case_0 the text is still held, with the last end recognized.
Failing ==
  /\ Within(txt)
  /\ rec.chars \in 0..Len(txt.tval)

\* The automaton has not delivered the token it is at.
InToken == {"matching", "cutting", "failing"}

IInv ==
  /\ grammar \in DOMAIN Grammar
  /\ Held(txt)
  /\ ~skewed => Within(txt)
  /\ pc = "matching" => Matched
  /\ pc \in {"cutting", "failing"} => Failing

\* A sequence stays one when an element is put in front of the rest.
LEMMA Joined3 ==
  ASSUME NEW S, NEW s \in Seq(S), NEW n \in 0..Len(s), NEW ch
  PROVE  LET j == SubSeq(s, 1, n) \o <<ch>> \o SubSeq(s, n + 2, Len(s))
         IN /\ j \in Seq(S \cup {ch})
            /\ Len(j) = IF n = Len(s) THEN n + 1 ELSE Len(s)
<1> DEFINE T == S \cup {ch}
           front == SubSeq(s, 1, n)
           rest == SubSeq(s, n + 2, Len(s))
<1>1. Len(s) \in Nat /\ n \in Nat /\ n <= Len(s)
  OBVIOUS
<1>2. \A i \in 1..Len(s) : s[i] \in T
  BY ElementOfSeq
<1>3. front \in Seq(T) /\ Len(front) = n
  <2>1. \A i \in 1..n : s[i] \in T
    BY <1>1, <1>2
  <2> HIDE DEF T
  <2> QED
    BY <1>1, <2>1, SubSeqProperties
<1>4. rest \in Seq(T) /\ Len(rest) = IF n + 2 <= Len(s) THEN Len(s) - (n + 2) + 1 ELSE 0
  <2>1. \A i \in n + 2..Len(s) : s[i] \in T
    BY <1>1, <1>2
  <2> HIDE DEF T
  <2> QED
    BY <1>1, <2>1, SubSeqProperties
<1>5. <<ch>> \in Seq(T) /\ Len(<<ch>>) = 1
  OBVIOUS
<1> HIDE DEF T, front, rest
<1>6. front \o <<ch>> \in Seq(T) /\ Len(front \o <<ch>>) = n + 1
  BY <1>1, <1>3, <1>5, ConcatProperties
<1> DEFINE fc == front \o <<ch>>
<1> HIDE DEF fc
<1>7. fc \o rest \in Seq(T) /\ Len(fc \o rest) = n + 1 + Len(rest)
  BY <1>1, <1>4, <1>6, ConcatProperties DEF fc
<1>8. n + 1 + Len(rest) = IF n = Len(s) THEN n + 1 ELSE Len(s)
  <2>1. CASE n = Len(s)
    BY <1>1, <1>4, <2>1
  <2>2. CASE n # Len(s)
    <3>1. n + 1 <= Len(s)
      BY <1>1, <2>2
    <3>2. Len(rest) = Len(s) - (n + 1)
      BY <1>1, <1>4, <3>1
    <3> QED
      BY <1>1, <2>2, <3>2
  <2> QED
    BY <2>1, <2>2
<1> DEFINE j == SubSeq(s, 1, n) \o <<ch>> \o SubSeq(s, n + 2, Len(s))
<1>9. j = fc \o rest
  BY DEF front, rest, fc
<1> HIDE DEF j
<1>10. j \in Seq(T) /\ Len(j) = IF n = Len(s) THEN n + 1 ELSE Len(s)
  BY <1>7, <1>8, <1>9
<1> QED
  BY <1>10 DEF j, T

\* The three ways a text is changed.
Doubled(x, l, v) == [x EXCEPT !.tvalLength = l, !.tval = v]
Longer(x, n, v) == [x EXCEPT !.tlen = n, !.tval = v]
Shortened(x, n) == [x EXCEPT !.tlen = n]

LEMMA DoubledFields ==
  ASSUME NEW S, NEW T, NEW x \in Texts(S, T), NEW l \in Nat \ {0}, NEW v \in Seq(S)
  PROVE  LET y == Doubled(x, l, v)
         IN y \in Texts(S, T) /\ y.tval = v /\ y.tlen = x.tlen /\ y.tvalLength = l
  BY DEF Texts, Doubled

LEMMA LongerFields ==
  ASSUME NEW S, NEW T, NEW x \in Texts(S, T), NEW n \in T, NEW v \in Seq(S)
  PROVE  LET y == Longer(x, n, v)
         IN y \in Texts(S, T) /\ y.tval = v /\ y.tlen = n /\ y.tvalLength = x.tvalLength
  BY DEF Texts, Longer

LEMMA CutFields ==
  ASSUME NEW S, NEW T, NEW x \in Texts(S, T), NEW n \in T
  PROVE  LET y == Shortened(x, n)
         IN y \in Texts(S, T) /\ y.tval = x.tval /\ y.tlen = n /\ y.tvalLength = x.tvalLength
  BY DEF Texts, Shortened

\* Texts over more characters, and of more lengths.
LEMMA MoreTexts ==
  ASSUME NEW S, NEW T, NEW x \in Texts(S, T), NEW ch, NEW n
  PROVE  x \in Texts(S \cup {ch}, T \cup {n})
<1>1. x.tval \in Seq(S \cup {ch})
  <2>1. x.tval \in Seq(S)
    BY DEF Texts
  <2>2. \A i \in 1..Len(x.tval) : x.tval[i] \in S \cup {ch}
    BY <2>1, ElementOfSeq
  <2>3. Len(x.tval) \in Nat /\ x.tval = SubSeq(x.tval, 1, Len(x.tval))
    BY <2>1, SubSeqFull, LenProperties
  <2> QED
    BY <2>2, <2>3, SubSeqProperties
<1> DEFINE C == S \cup {ch}
<1> HIDE DEF C
<1> QED
  BY <1>1 DEF Texts, C

\* Doubling makes room for one character more, and keeps those there are.
LEMMA GrownRight ==
  ASSUME NEW x, Held(x), Within(x)
  PROVE  LET g == Grown(x)
         IN Held(g) /\ Within(g) /\ g.tlen = x.tlen /\ g.tlen < g.tvalLength
<1> PICK S, T : x \in Texts(S, T)
  BY DEF Held
<1> DEFINE v == SubSeq(x.tval, 1, x.tlen)
           l == x.tvalLength * 2
           d == Doubled(x, l, v)
<1>1. x.tval \in Seq(S) /\ x.tvalLength \in Nat \ {0}
  BY DEF Texts
<1>2. /\ x.tlen \in Nat /\ x.tlen <= Len(x.tval) /\ Len(x.tval) \in Nat
      /\ Len(x.tval) <= x.tvalLength
  BY <1>1, LenProperties DEF Held, Within
<1>3. v \in Seq(S) /\ Len(v) = x.tlen
  <2>1. \A i \in 1..x.tlen : x.tval[i] \in S
    BY <1>1, <1>2, ElementOfSeq
  <2> QED
    BY <1>2, <2>1, SubSeqProperties
<1>4. l \in Nat \ {0} /\ x.tvalLength < l
  BY <1>1
<1>5. CASE x.tlen >= x.tvalLength
  <2>1. Grown(x) = d
    BY <1>5 DEF Grown, Doubled
  <2> HIDE DEF v, l
  <2>2. d \in Texts(S, T) /\ d.tval = v /\ d.tlen = x.tlen /\ d.tvalLength = l
    BY <1>3, <1>4, DoubledFields
  <2> HIDE DEF d
  <2>3. Held(d) /\ Within(d) /\ d.tlen < d.tvalLength
    BY <1>1, <1>2, <1>3, <1>4, <2>2 DEF Held, Within
  <2> QED
    BY <2>1, <2>2, <2>3
<1>6. CASE ~(x.tlen >= x.tvalLength)
  BY <1>1, <1>2, <1>6 DEF Grown
<1> QED
  BY <1>5, <1>6

\* A character is added behind the text.
LEMMA AppendedRight ==
  ASSUME NEW x, Held(x), Within(x), x.tlen < x.tvalLength, NEW ch
  PROVE  LET a == Appended(x, ch)
         IN Held(a) /\ Within(a) /\ a.tlen = x.tlen + 1
<1> PICK S, T : x \in Texts(S, T)
  BY DEF Held
<1> DEFINE v == SubSeq(x.tval, 1, x.tlen) \o <<ch>> \o SubSeq(x.tval, x.tlen + 2, Len(x.tval))
           n == x.tlen + 1
           C == S \cup {ch}
           L == T \cup {n}
           a == Longer(x, n, v)
<1>1. x.tval \in Seq(S) /\ x.tvalLength \in Nat \ {0}
  BY DEF Texts
<1>2. /\ x.tlen \in 0..Len(x.tval) /\ x.tlen \in Nat /\ Len(x.tval) \in Nat
      /\ Len(x.tval) <= x.tvalLength
  BY <1>1, LenProperties DEF Held, Within
<1>3. v \in Seq(C) /\ Len(v) = IF x.tlen = Len(x.tval) THEN x.tlen + 1 ELSE Len(x.tval)
  BY <1>1, <1>2, Joined3
<1>4. Appended(x, ch) = a
  BY DEF Appended, Longer
<1>5. x \in Texts(C, L) /\ n \in L
  BY MoreTexts
<1> HIDE DEF v, C, L
<1>6. a \in Texts(C, L) /\ a.tval = v /\ a.tlen = n /\ a.tvalLength = x.tvalLength
  BY <1>3, <1>5, LongerFields
<1> HIDE DEF a
<1>7. Len(v) \in Nat /\ n <= Len(v) /\ Len(v) <= x.tvalLength
  BY <1>1, <1>2, <1>3
<1>8. Held(a) /\ Within(a) /\ a.tlen = x.tlen + 1
  BY <1>2, <1>6, <1>7 DEF Held, Within
<1> QED
  BY <1>4, <1>8

LEMMA AddedRight ==
  ASSUME NEW x, Held(x), Within(x), NEW c
  PROVE  LET a == AddedText(x, c)
         IN Held(a) /\ Within(a) /\ a.tlen = IF c.ch = EoF THEN x.tlen ELSE x.tlen + 1
<1> DEFINE g == Grown(x)
<1>1. Held(g) /\ Within(g) /\ g.tlen = x.tlen /\ g.tlen < g.tvalLength
  BY GrownRight
<1> HIDE DEF g
<1>2. CASE c.ch = EoF
  BY <1>1, <1>2 DEF AddedText, g
<1>3. CASE c.ch # EoF
  <2> DEFINE a == Appended(g, c.valCh)
  <2>1. Held(a) /\ Within(a) /\ a.tlen = g.tlen + 1
    BY <1>1, AppendedRight
  <2>2. AddedText(x, c) = a
    BY <1>3 DEF AddedText, g
  <2> HIDE DEF a
  <2> QED
    BY <1>1, <1>3, <2>1, <2>2
<1> QED
  BY <1>2, <1>3

\* Another length, and the same buffer.
LEMMA CutRight ==
  ASSUME NEW x, Held(x), NEW n
  PROVE  LET y == Shortened(x, n)
         IN Held(y) /\ y.tlen = n /\ y.tval = x.tval
<1> PICK S, T : x \in Texts(S, T)
  BY DEF Held
<1> DEFINE C == S \cup {n}
           L == T \cup {n}
           y == Shortened(x, n)
<1>1. x \in Texts(C, L) /\ n \in L
  BY MoreTexts
<1> HIDE DEF C, L
<1>2. y \in Texts(C, L) /\ y.tval = x.tval /\ y.tlen = n /\ y.tvalLength = x.tvalLength
  BY <1>1, CutFields
<1> HIDE DEF y
<1>3. Held(y)
  BY <1>2 DEF Held
<1> QED
  BY <1>2, <1>3 DEF y

\* What a text holds is a sequence.
LEMMA HeldLength == ASSUME NEW x, Held(x) PROVE Len(x.tval) \in Nat
<1> PICK S, T : x \in Texts(S, T)
  BY DEF Held
<1> QED
  BY LenProperties DEF Texts

\* The arc that is taken exists, is entered by the character, and leads to a state.
LEMMA FirstArcRight ==
  ASSUME grammar \in DOMAIN Grammar, state \in DOMAIN gr.states, Arcs # {}
  PROVE  in.ch \in FirstArc.syms /\ FirstArc.to \in DOMAIN gr.states /\ in.ch # EoF
<1> DEFINE Steps == [syms : SUBSET Codes, to : DOMAIN gr.states, context : BOOLEAN]
<1>1. here.arcs \in Seq(Steps)
  BY GrammarAssumption DEF gr, here
<1> HIDE DEF Steps
<1>2. Arcs \in SUBSET Nat /\ Arcs \subseteq 1..Len(here.arcs)
  BY <1>1 DEF Arcs
<1>3. \E i \in Arcs : \A j \in Arcs : i <= j
  BY <1>2, FirstOf
<1> DEFINE k == CHOOSE i \in Arcs : \A j \in Arcs : i <= j
<1>4. k \in Arcs
  BY <1>3
<1> HIDE DEF k
<1>5. FirstArc = here.arcs[k] /\ here.arcs[k] \in Steps
  BY <1>1, <1>2, <1>4, ElementOfSeq DEF FirstArc, k
<1>6. in.ch \in here.arcs[k].syms
  BY <1>4 DEF Arcs
<1>7. /\ here.arcs[k].syms \subseteq 0..(EoF - 1)
      /\ here.arcs[k].to \in DOMAIN gr.states
  BY <1>5 DEF Steps, Codes
<1>8. EoF \notin 0..(EoF - 1)
  BY DEF EoF
<1> QED
  BY <1>5, <1>6, <1>7, <1>8

----------------------------------------------------------------------------

LEMMA IInvInit == Init => IInv
<1> SUFFICES ASSUME Init PROVE IInv
  OBVIOUS
<1>1. txt = [tval |-> <<>>, tlen |-> 0, tvalLength |-> TvalLength] /\ TvalLength \in Nat \ {0}
  BY ScannerAssumption DEF Init
<1>2. Held(txt) /\ Within(txt)
  <2>1. txt.tval = <<>> /\ txt.tlen = 0 /\ txt.tvalLength = TvalLength
    BY <1>1
  <2>2. <<>> \in Seq({}) /\ Len(<<>>) = 0
    OBVIOUS
  <2>3. txt \in Texts({}, {0})
    BY <1>1, <2>2 DEF Texts
  <2>4. Len(txt.tval) <= txt.tvalLength /\ Within(txt)
    BY <1>1, <2>1, <2>2 DEF Within
  <2> QED
    BY <2>3, <2>4 DEF Held
<1> QED
  BY <1>2 DEF Init, IInv

\* What leaves text and automaton alone, and does not start one.
LEMMA Elsewhere ==
  ASSUME IInv, UNCHANGED <<grammar, txt, skewed>>, pc' \notin InToken
  PROVE  IInv'
  BY DEF IInv, InToken

LEMMA StartTokenStep ==
  ASSUME IInv, StartToken
  PROVE  IInv'
<1> DEFINE e == EmptyText
<1>1. Held(e) /\ e.tlen = 0 /\ e.tval = txt.tval
  BY CutRight DEF EmptyText, Shortened, IInv
<1>2. Within(e)
  <2>1. Len(e.tval) \in Nat
    BY <1>1, HeldLength
  <2> QED
    BY <1>1, <2>1 DEF Within
<1>3. txt' = AddedText(e, in) /\ apx' = 0 /\ rec' = Unrecognized /\ UNCHANGED <<grammar, skewed>>
  BY DEF StartToken
<1> HIDE DEF e
<1>4. Held(txt') /\ Within(txt') /\ txt'.tlen = IF in.ch = EoF THEN e.tlen ELSE e.tlen + 1
  BY <1>1, <1>2, <1>3, AddedRight
<1>5. apx' \in 0..txt'.tlen /\ rec'.chars \in 0..txt'.tlen
  BY <1>1, <1>3, <1>4 DEF Unrecognized
<1>6. pc' = "matching" => state' \in DOMAIN gr'.states
  <2>1. CASE in.ch # EoF /\ in.ch \in DOMAIN gr.start
    BY <1>3, <2>1, GrammarAssumption DEF StartToken, IInv, gr
  <2>2. CASE ~(in.ch # EoF /\ in.ch \in DOMAIN gr.start)
    BY <2>2 DEF StartToken, Deliver, At
  <2> QED
    BY <2>1, <2>2
<1>7. pc' \notin {"cutting", "failing"}
  BY DEF StartToken, Deliver, At
<1> QED
  BY <1>3, <1>4, <1>5, <1>6, <1>7 DEF IInv, Matched

LEMMA MatchingStep ==
  ASSUME IInv, Matching
  PROVE  IInv'
<1>1. Matched /\ Held(txt) /\ Within(txt)
  BY DEF IInv, Matching, Matched
<1>2. in.ch # EoF /\ FirstArc.to \in DOMAIN gr.states
  BY <1>1, FirstArcRight DEF Matching, Matched
<1>3. txt' = AddedText(txt, in) /\ apx' = Apx(FirstArc) /\ rec' = Recognized
      /\ state' = FirstArc.to /\ UNCHANGED <<grammar, skewed>>
  BY DEF Matching
<1>4. Held(txt') /\ Within(txt') /\ txt'.tlen = txt.tlen + 1
  BY <1>1, <1>2, <1>3, AddedRight
<1>5. txt.tlen \in Nat /\ apx \in Nat /\ apx <= txt.tlen
      /\ rec.chars \in Nat /\ rec.chars <= txt.tlen
  BY <1>1, HeldLength DEF Matched, Within
<1>6. apx' \in 0..txt'.tlen
  BY <1>3, <1>4, <1>5 DEF Apx
<1>7. rec'.chars \in 0..txt'.tlen
  <2>1. Recognized.chars = txt.tlen \/ Recognized.chars = rec.chars
    BY DEF Recognized
  <2> QED
    BY <1>3, <1>4, <1>5, <2>1
<1>8. pc' \notin {"cutting", "failing"}
  BY DEF Matching, At
<1> QED
  BY <1>1, <1>2, <1>3, <1>4, <1>6, <1>7, <1>8 DEF IInv, Matched, gr

LEMMA AcceptStep ==
  ASSUME IInv, Accept
  PROVE  IInv'
<1>1. Matched /\ Held(txt) /\ UNCHANGED <<grammar, skewed>>
  BY DEF IInv, Accept, AtEnd
<1>2. pc' \notin InToken
  BY DEF Accept, Deliver, At, InToken
<1>3. Held(txt') /\ Within(txt')
  <2>1. CASE CtxEnd
    <3>1. txt' = [txt EXCEPT !.tlen = txt.tlen - apx]
      BY <2>1 DEF Accept, CutContext
    <3>2. Held(txt') /\ txt'.tlen = txt.tlen - apx /\ txt'.tval = txt.tval
      BY <1>1, <3>1, CutRight DEF Shortened
    <3>3. Len(txt.tval) \in Nat
      BY <1>1, HeldLength
    <3> QED
      BY <1>1, <3>2, <3>3 DEF Matched, Within
  <2>2. CASE ~CtxEnd
    BY <1>1, <2>2 DEF Accept, Matched
  <2> QED
    BY <2>1, <2>2
<1> QED
  BY <1>1, <1>2, <1>3 DEF IInv, InToken

LEMMA CutStep ==
  ASSUME IInv, Cut
  PROVE  IInv'
<1>1. Matched /\ Held(txt) /\ rec' = Recognized /\ here.endOf = NoToken
      /\ UNCHANGED <<grammar, skewed>>
  BY DEF IInv, Cut, AtEnd
<1>2. txt' = [txt EXCEPT !.tlen = txt.tlen - apx] /\ pc' # "matching"
  BY DEF Cut, CutContext, At
<1>3. Held(txt') /\ txt'.tlen = txt.tlen - apx /\ txt'.tval = txt.tval
  BY <1>1, <1>2, CutRight DEF Shortened
<1>4. Len(txt.tval) \in Nat
  BY <1>1, HeldLength
<1>5. Within(txt') /\ rec.chars \in 0..Len(txt'.tval)
  BY <1>1, <1>3, <1>4 DEF Matched, Within
<1>6. rec' = rec
  BY <1>1 DEF Recognized
<1> QED
  BY <1>1, <1>2, <1>3, <1>5, <1>6 DEF IInv, Failing

LEMMA FallbackStep ==
  ASSUME IInv, Fallback
  PROVE  IInv'
<1>1. Failing /\ Held(txt) /\ UNCHANGED grammar
  <2>1. CASE pc = "matching"
    <3>1. Matched /\ Held(txt) /\ UNCHANGED grammar
      BY <2>1 DEF IInv, Fallback, Fails, AtEnd
    <3>2. Len(txt.tval) \in Nat
      BY <3>1, HeldLength
    <3> QED
      BY <3>1, <3>2 DEF Matched, Failing, Within
  <2>2. CASE pc # "matching"
    BY <2>2 DEF IInv, Fallback, Fails, AtEnd
  <2> QED
    BY <2>1, <2>2
<1>2. pc' \notin InToken
  BY DEF Fallback, Deliver, At, InToken
<1>3. CASE rec.kind # NoSym
  <2>1. txt' = [txt EXCEPT !.tlen = rec.end - t.pos]
    BY <1>3 DEF Fallback, CutBack
  <2>2. Held(txt') /\ txt'.tval = txt.tval
    BY <1>1, <2>1, CutRight DEF Shortened
  <2>3. ~skewed' => txt'.tlen = rec.chars
    BY <1>3 DEF Fallback
  <2>4. ~skewed' => Within(txt')
    BY <1>1, <2>2, <2>3 DEF Failing, Within
  <2> QED
    BY <1>1, <1>2, <2>2, <2>4 DEF IInv, InToken
<1>4. CASE rec.kind = NoSym
  BY <1>1, <1>2, <1>4 DEF Fallback, IInv, Failing, InToken
<1> QED
  BY <1>3, <1>4

LEMMA SkipTextStep ==
  ASSUME IInv, SkipText
  PROVE  IInv'
<1>1. CASE pc = "cutting"
  BY <1>1 DEF IInv, SkipText, At, Failing, Within
<1>2. CASE pc # "cutting"
  BY <1>2, Elsewhere DEF SkipText, At, InToken
<1> QED
  BY <1>1, <1>2

LEMMA IInvNext == IInv /\ [Next]_vars => IInv'
<1> SUFFICES ASSUME IInv, [Next]_vars PROVE IInv'
  OBVIOUS
<1>1. CASE SkipBlank
  BY <1>1, Elsewhere DEF SkipBlank, At, InToken
<1>2. CASE Comment
  <2>1. pc' \notin InToken
    BY <1>2 DEF Comment, At, InToken
  <2> QED
    BY <1>2, <2>1, Elsewhere DEF Comment
<1>3. CASE CommentStop
  <2>1. pc' \notin InToken
    BY <1>3 DEF CommentStop, CloseLevel, GoOn, Restart, At, InToken
  <2> QED
    BY <1>3, <2>1, Elsewhere DEF CommentStop, InComment
<1>4. CASE CommentStart
  <2>1. pc' \notin InToken
    BY <1>4 DEF CommentStart, Nest, GoOn, At, InToken
  <2> QED
    BY <1>4, <2>1, Elsewhere DEF CommentStart, InComment
<1>5. CASE CommentBody
  BY <1>5, Elsewhere DEF CommentBody, InComment, GoOn, At, InToken
<1>6. CASE CommentUnclosed
  BY <1>6, Elsewhere DEF CommentUnclosed, InComment, InToken
<1>7. CASE StartToken
  BY <1>7, StartTokenStep
<1>8. CASE Matching
  BY <1>8, MatchingStep
<1>9. CASE Accept
  BY <1>9, AcceptStep
<1>10. CASE Fallback
  BY <1>10, FallbackStep
<1>11. CASE SkipText
  BY <1>11, SkipTextStep
<1>12. CASE Cut
  BY <1>12, CutStep
<1>13. CASE Finished \/ UNCHANGED vars
  BY <1>13 DEF Finished, vars, IInv, Matched, Failing, gr
<1> QED
  BY <1>1, <1>2, <1>3, <1>4, <1>5, <1>6, <1>7, <1>8, <1>9, <1>10, <1>11, <1>12, <1>13 DEF Next

\* AddCh and the two places that cut a token stay within tval: for every grammar and
\* input, every kind and window of the buffer, and every length that tval has at first.
THEOREM TextStaysWithin == Spec => []TextWithin
<1>1. IInv => TextWithin
  BY DEF IInv, Held, Within, TextWithin
<1> QED
  BY <1>1, IInvInit, IInvNext, PTL DEF Spec

----------------------------------------------------------------------------
(* The invariant of the loop.                                              *)

PlacesSeen == [pos : Int, line : Nat, col : Nat]
Recognitions == [kind : Recognizable, end : Int, chars : Nat]
CommentsTried == [index : Nat, level : Nat, pos0 : Int, line0 : Nat, col0 : Nat]
Positions ==
  {"skipping", "opening", "comment", "returning", "ended", "stopped"} \cup InToken

\* The buffer and the characters.  Without input there is only the end of it.
Scans ==
  /\ in.b.kind \in InputKinds /\ in.b.data \in Seq(0..255)
  /\ IF pc = "stopped" THEN Stopped(in) /\ delivered = <<>> ELSE Sane(in)
  /\ pc \in {"opening", "comment", "returning"} \cup InToken => ~NoInput(in.b)

\* What is gone back to was seen, and a comment goes on behind its beginning.
Behind ==
  /\ pc \in InToken => Seen(in.b, t.pos)
  /\ pc = "comment" => com.line0 <= in.line /\ com.level > 0

Delivers ==
  /\ \E S : delivered \in Seq(S)
  /\ Len(delivered) <= MaxTokens
  /\ pc \in InToken => Len(delivered) < MaxTokens

Typed ==
  /\ txt.tlen \in Int /\ t \in PlacesSeen /\ rec \in Recognitions /\ apx \in Nat /\ left \in Int
  /\ com \in CommentsTried /\ pc \in Positions /\ skewed \in BOOLEAN

SInv == IInv /\ Scans /\ Behind /\ Delivers /\ Typed

LEMMA SInvInit == Init => SInv
<1> SUFFICES ASSUME Init PROVE SInv
  OBVIOUS
<1>1. IInv
  BY IInvInit
<1>2. PICK kind \in InputKinds, data \in Inputs[grammar] : in = Scanner(Buffered(kind, data))
  BY DEF Init
<1>3. kind \in Kinds /\ data \in Seq(0..255)
  BY <1>2, ScannerAssumption DEF Init
<1> PICK b : b = Buffered(kind, data)
  OBVIOUS
<1>4. Good(b) /\ Fresh(b) /\ ~b.utf8 /\ b.kind = kind /\ b.data = data
  BY <1>3, BufferedRight
<1>5. in.b.kind = kind /\ in.b.data = data /\ (Sane(in) \/ Stopped(in))
  BY <1>2, <1>4, ScannerRight
<1>6. Sane(in) => ~in.b.exited
  BY GoodTypes DEF Sane, Ready
<1>7. Stopped(in) => in.b.exited
  BY StoppedFields
<1>8. pc = IF in.b.exited THEN "stopped" ELSE "skipping"
  BY DEF Init
<1>9. Scans /\ Behind
  BY <1>3, <1>5, <1>6, <1>7, <1>8 DEF Scans, Behind, Init, InToken
<1>10. Delivers
  <2>1. delivered = <<>> /\ delivered \in Seq({}) /\ Len(delivered) = 0
    BY DEF Init
  <2> QED
    BY <1>8, <2>1, ScannerAssumption DEF Delivers, InToken
<1>11. Typed
  <2>1. txt.tlen \in Int /\ apx \in Nat /\ left \in Int /\ skewed \in BOOLEAN
    <3>1. txt.tlen = 0 /\ apx = 0 /\ left = 0 /\ skewed = FALSE
      <4>1. txt = [tval |-> <<>>, tlen |-> 0, tvalLength |-> TvalLength]
        BY DEF Init
      <4> QED
        BY <4>1 DEF Init
    <3>2. skewed \in BOOLEAN
      BY <3>1, Zenon
    <3>3. txt.tlen \in Int /\ apx \in Nat /\ left \in Int
      BY <3>1
    <3> QED
      BY <3>2, <3>3
  <2>2. t \in PlacesSeen
    BY DEF Init, PlacesSeen
  <2>3. rec \in Recognitions
    <3>1. NoSym \in Recognizable
      BY DEF Recognizable
    <3>2. rec = [kind |-> NoSym, end |-> 0, chars |-> 0]
      BY DEF Init
    <3> QED
      BY ONLY <3>1, <3>2 DEF Recognitions
  <2>4. com \in CommentsTried
    BY DEF Init, CommentsTried
  <2>5. pc \in Positions
    BY <1>8 DEF Positions, InToken
  <2> QED
    BY ONLY <2>1, <2>2, <2>3, <2>4, <2>5 DEF Typed
<1> QED
  BY <1>1, <1>9, <1>10, <1>11 DEF SInv

----------------------------------------------------------------------------
(* One step of the loop.                                                   *)

\* The scanner is at a character.
LEMMA Here ==
  ASSUME SInv, pc # "stopped"
  PROVE  /\ Sane(in) /\ Ready(in) /\ Good(in.b) /\ ~in.b.exited
         /\ in \in Cursors /\ in.line \in Nat /\ in.col \in Nat /\ in.pos \in Int
         /\ in.ch # EoF => ~NoInput(in.b)
         /\ ~NoInput(in.b) => Seen(in.b, in.pos)
<1>1. Sane(in)
  BY DEF SInv, Scans
<1> QED
  BY <1>1, CursorTypes, GoodTypes DEF Sane, Ready

\* The scanner goes on in its input.
LEMMA GoesOn ==
  ASSUME SInv, pc # "stopped", Sane(in'), Follows(in'.b, in.b),
         NEW place \in Positions \ {"stopped"}, At(place),
         NoInput(in.b) => place \in {"skipping", "ended"}
  PROVE  Scans' /\ pc' = place /\ \A p : Seen(in.b, p) => Seen(in'.b, p)
<1>1. ~in'.b.exited
  BY GoodTypes DEF Follows
<1>2. pc' = place
  BY <1>1 DEF At
<1>3. in'.b.kind = in.b.kind /\ in'.b.data = in.b.data /\ (NoInput(in'.b) <=> NoInput(in.b))
  BY DEF Follows, Alike
<1>4. Scans'
  BY <1>2, <1>3 DEF SInv, Scans, Positions, InToken
<1>5. \A p : Seen(in.b, p) => Seen(in'.b, p)
  <2>1. Good(in.b)
    BY Here
  <2> QED
    BY <2>1, SeenLater
<1> QED
  BY <1>2, <1>4, <1>5

\* A step that has nothing to do with a token.
LEMMA NotInToken ==
  ASSUME SInv, UNCHANGED <<grammar, txt, t, rec, apx, delivered, skewed>>, left' \in Int,
         com' \in CommentsTried, pc' \in Positions, pc' \in InToken => pc \in InToken
  PROVE  Delivers' /\ Typed'
<1>1. Delivers'
  BY DEF SInv, Delivers, InToken
<1>2. Typed'
  BY DEF SInv, Typed, Recognitions, Recognizable, gr
<1> QED
  BY <1>1, <1>2

Lasts == Scans' /\ Behind' /\ Delivers' /\ Typed'

\* EoF is neither ignored nor the beginning of a comment.
LEMMA IgnoredInput ==
  ASSUME grammar \in DOMAIN Grammar, Ignored(in.ch)
  PROVE  in.ch # EoF
<1>1. gr.ignored \subseteq Codes
  BY GrammarAssumption DEF gr
<1>2. EoF \notin Codes /\ EoF # Blank
  BY DEF Codes, EoF, Blank
<1> QED
  BY <1>1, <1>2 DEF Ignored

LEMMA CandidateInput ==
  ASSUME grammar \in DOMAIN Grammar, Candidates # {}
  PROVE  InTurn \in Nat /\ InTurn \in DOMAIN gr.comments /\ in.ch # EoF
<1>1. /\ DOMAIN gr.comments \subseteq Nat
      /\ \A i \in DOMAIN gr.comments :
           gr.comments[i].start \in Seq(Codes) /\ Len(gr.comments[i].start) \in {1, 2}
  BY GrammarAssumption DEF gr
<1>2. Candidates \subseteq Nat
  BY <1>1 DEF Candidates
<1>3. InTurn \in Candidates
  <2>1. \E i \in Candidates : \A j \in Candidates : i <= j
    BY <1>2, FirstOf
  <2> DEFINE i == CHOOSE i \in Candidates : \A j \in Candidates : i <= j
  <2>2. i \in Candidates
    BY <2>1, Zenon
  <2> QED
    BY <2>2 DEF InTurn
<1>4. InTurn \in DOMAIN gr.comments /\ gr.comments[InTurn].start[1] = in.ch
  BY <1>3 DEF Candidates
<1>5. gr.comments[InTurn].start[1] \in Codes
  <2>1. 1 \in 1..Len(gr.comments[InTurn].start)
    BY <1>1, <1>4
  <2> QED
    BY <1>1, <1>4, <2>1, ElementOfSeq
<1> QED
  <2>1. EoF \notin Codes
    BY DEF Codes, EoF
  <2>2. InTurn \in Nat
    BY <1>2, <1>3
  <2>3. in.ch # EoF
    BY ONLY <1>4, <1>5, <2>1
  <2> QED
    BY <1>4, <2>2, <2>3

LEMMA SkipBlankLasts == ASSUME SInv, SkipBlank PROVE Lasts
<1>1. in' = NextCh(in) /\ At("skipping") /\ pc = "skipping" /\ Ignored(in.ch)
      /\ UNCHANGED <<grammar, txt, t, state, rec, apx, left, com, delivered, skewed>>
  BY DEF SkipBlank
<1>2. Sane(in') /\ Follows(in'.b, in.b)
  BY <1>1, Here, NextChRight DEF Advances
<1>3. Scans' /\ pc' = "skipping"
  BY <1>1, <1>2, GoesOn DEF Positions, InToken
<1>4. Behind'
  BY <1>3 DEF Behind, InToken
<1> QED
  BY <1>1, <1>3, <1>4, NotInToken DEF Lasts, SInv, Typed, Positions, InToken

LEMMA CommentTypes ==
  ASSUME NEW i \in Nat, NEW n \in Nat, NEW p \in Int, NEW l \in Nat, NEW k \in Nat
  PROVE  LET c == [index |-> i, level |-> n, pos0 |-> p, line0 |-> l, col0 |-> k]
         IN c \in CommentsTried /\ c.level = n /\ c.line0 = l
  BY DEF CommentsTried

LEMMA CommentLasts == ASSUME SInv, Comment PROVE Lasts
<1>1. /\ pc \in {"opening", "skipping"} /\ Candidates # {}
      /\ UNCHANGED <<grammar, txt, t, state, rec, apx, left, delivered, skewed>>
      /\ com' = [index |-> InTurn, level |-> 1, pos0 |-> in.pos, line0 |-> in.line, col0 |-> in.col]
  BY DEF Comment, BehindBlanks
<1>2. InTurn \in Nat /\ in.ch # EoF
  BY <1>1, CandidateInput DEF SInv, IInv
<1>3. /\ Sane(in) /\ Ready(in) /\ Good(in.b) /\ in.line \in Nat /\ in.col \in Nat /\ in.pos \in Int
      /\ ~NoInput(in.b) /\ Seen(in.b, in.pos)
  BY <1>1, <1>2, Here
<1>4. com' \in CommentsTried /\ com'.level = 1 /\ com'.line0 = in.line
  <2>1. 1 \in Nat
    OBVIOUS
  <2> QED
    BY <1>1, <1>2, <1>3, <2>1, CommentTypes
<1> PICK c1 : c1 = NextCh(in)
  OBVIOUS
<1>5. Advances(c1, in) /\ Ready(c1) /\ Follows(c1.b, in.b)
  BY <1>3, NextChRight DEF Advances, Sane
<1>6. \/ in' = c1 /\ At("comment")
      \/ in' = NextCh(c1) /\ At("comment")
      \/ in' = Return(c1, in.pos, in.line, in.col) /\ At("opening")
  BY DEF Comment, BackFromComment
<1>7. ASSUME Advances(in', in), At("comment") PROVE Scans' /\ Behind' /\ pc' = "comment"
  <2>1. Scans' /\ pc' = "comment"
    BY <1>1, <1>3, <1>7, GoesOn DEF Advances, Positions, InToken
  <2> QED
    BY <1>4, <1>7, <2>1 DEF Behind, Advances, InToken
<1>8. ASSUME in' = Return(c1, in.pos, in.line, in.col), At("opening")
      PROVE  Scans' /\ Behind' /\ pc' = "opening"
  <2>1. Seen(c1.b, in.pos)
    BY <1>3, <1>5, SeenLater
  <2>2. Sane(in') /\ Follows(in'.b, c1.b)
    BY <1>3, <1>5, <1>8, <2>1, ReturnRight
  <2>3. Follows(in'.b, in.b)
    BY <1>3, <1>5, <2>2, FollowsOn
  <2>4. Scans' /\ pc' = "opening"
    BY <1>1, <1>3, <1>8, <2>2, <2>3, GoesOn DEF Positions, InToken
  <2> QED
    BY <2>4 DEF Behind, InToken
<1>9. Scans' /\ Behind' /\ pc' \in {"comment", "opening"}
  <2>1. in' = NextCh(c1) => Advances(in', in)
    <3>1. Advances(NextCh(c1), c1)
      BY <1>5, NextChRight
    <3> QED
      BY <1>3, <1>5, <3>1, AdvancesOn
  <2> QED
    BY <1>5, <1>6, <1>7, <1>8, <2>1
<1> QED
  BY <1>1, <1>4, <1>9, NotInToken DEF Lasts, SInv, Typed, Positions, InToken

\* In a comment: the character that decides on a delimiter.
LEMMA DecidingRight ==
  ASSUME SInv, pc = "comment", NEW d
  PROVE  Advances(Deciding(d), in)
<1>1. Sane(in) /\ Ready(in)
  BY Here
<1> QED
  BY <1>1, AdvancesItself, NextChRight DEF Deciding

\* The scanner is in a comment.
LEMMA InCommentFacts ==
  ASSUME SInv, pc = "comment"
  PROVE  /\ Ready(in) /\ ~NoInput(in.b) /\ in.line \in Nat
         /\ com \in CommentsTried /\ com.index \in Nat /\ com.level \in Nat /\ com.pos0 \in Int
         /\ com.line0 \in Nat /\ com.col0 \in Nat /\ com.line0 <= in.line /\ com.level > 0
  BY Here DEF SInv, Scans, Behind, Typed, CommentsTried

\* The comment goes on.
LEMMA GoesOnInComment ==
  ASSUME SInv, pc = "comment", Advances(in', in), At("comment"),
         UNCHANGED <<grammar, txt, t, state, rec, apx, left, delivered, skewed>>,
         com' \in CommentsTried, com'.line0 = com.line0, com'.level > 0
  PROVE  Lasts
<1>1. Scans' /\ pc' = "comment"
  BY InCommentFacts, GoesOn DEF Advances, Positions, InToken
<1>2. Behind'
  <2>1. com'.line0 <= in'.line
    <3>1. in'.line \in Nat
      BY CursorTypes DEF Advances, Sane, Ready
    <3> QED
      BY <3>1, InCommentFacts DEF Advances
  <2> QED
    BY <1>1, <2>1 DEF Behind, InToken
<1> QED
  BY <1>1, <1>2, NotInToken DEF Lasts, SInv, Typed, Positions, InToken

LEMMA LevelFields ==
  ASSUME NEW c \in CommentsTried, NEW n \in Nat
  PROVE  LET d == [c EXCEPT !.level = n]
         IN d \in CommentsTried /\ d.level = n /\ d.line0 = c.line0
  BY DEF CommentsTried

LEMMA IndexFields ==
  ASSUME NEW c \in CommentsTried
  PROVE  [c EXCEPT !.index = 0] \in CommentsTried
  BY DEF CommentsTried

LEMMA GoOnLasts ==
  ASSUME SInv, pc = "comment", NEW c, Advances(c, in), GoOn(c),
         UNCHANGED <<grammar, txt, t, state, rec, apx, left, delivered, skewed>>
  PROVE  Lasts
  BY InCommentFacts, GoesOnInComment DEF GoOn

LEMMA NestLasts ==
  ASSUME SInv, pc = "comment", NEW c, Advances(c, in), Nest(c),
         UNCHANGED <<grammar, txt, t, state, rec, apx, left, delivered, skewed>>
  PROVE  Lasts
<1> PICK n \in Nat : n = com.level + 1 /\ n > 0
  BY InCommentFacts
<1>1. com' = [com EXCEPT !.level = n] /\ in' = NextCh(c) /\ At("comment")
  BY DEF Nest
<1>2. com' \in CommentsTried /\ com'.level = n /\ com'.line0 = com.line0
  BY <1>1, InCommentFacts, LevelFields
<1>3. Advances(in', in)
  <2>1. Ready(c) /\ Ready(in)
    BY InCommentFacts DEF Advances, Sane
  <2> QED
    BY <1>1, <2>1, NextChRight, AdvancesOn
<1> QED
  BY <1>1, <1>2, <1>3, GoesOnInComment

\* The ends of line of a comment are a number that is not negative.
LEMMA OldEolsRight ==
  ASSUME SInv, pc = "comment", NEW c, Advances(c, in)
  PROVE  Ready(OldEols(c)) /\ OldEols(c).b = c.b
<1>1. /\ c \in Cursors /\ Sane(c) /\ Ready(c) /\ c.line \in Nat /\ in.line <= c.line
      /\ ~NoInput(c.b)
  BY InCommentFacts, CursorTypes DEF Advances, Sane, Ready, Follows
<1> PICK old \in Nat : old = c.line - com.line0
  BY <1>1, InCommentFacts
<1> PICK o : o = [c EXCEPT !.oldEols = old]
  OBVIOUS
<1>2. OldEols(c) = o
  BY DEF OldEols
<1>3. o \in Cursors /\ o.b = c.b /\ o.pos = c.pos
  <2>1. \A n \in Nat : LET x == [c EXCEPT !.oldEols = n]
                       IN x \in Cursors /\ x.b = c.b /\ x.pos = c.pos
    BY ONLY <1>1 DEF Cursors
  <2> QED
    BY <2>1
<1>4. Ready(o)
  BY <1>1, <1>3 DEF Ready, Sane
<1> QED
  BY <1>2, <1>3, <1>4

\* Behind a closing delimiter.
LEMMA CloseLevelLasts ==
  ASSUME SInv, pc = "comment", NEW c, Advances(c, in), CloseLevel(c),
         UNCHANGED <<grammar, txt, t, state, rec, apx, left, delivered, skewed>>
  PROVE  Lasts
<1>1. Ready(c) /\ Ready(in) /\ Good(in.b) /\ Follows(c.b, in.b)
  BY InCommentFacts DEF Advances, Sane, Ready
<1>2. CASE com.level = 1
  <2> PICK o : o = OldEols(c)
    OBVIOUS
  <2>1. in' = NextCh(o) /\ com' = [com EXCEPT !.index = 0] /\ At("skipping")
    BY <1>2 DEF CloseLevel, Restart
  <2>2. Ready(o) /\ o.b = c.b
    BY OldEolsRight
  <2>3. Sane(in') /\ Follows(in'.b, c.b)
    BY <2>1, <2>2, NextChRight DEF Advances
  <2>4. Follows(in'.b, in.b)
    BY <1>1, <2>3, FollowsOn
  <2>5. Scans' /\ pc' = "skipping"
    BY <2>1, <2>3, <2>4, GoesOn DEF Positions, InToken
  <2>6. Behind'
    BY <2>5 DEF Behind, InToken
  <2>7. com' \in CommentsTried
    BY <2>1, InCommentFacts, IndexFields
  <2> QED
    BY <2>5, <2>6, <2>7, NotInToken DEF Lasts, SInv, Typed, Positions, InToken
<1>3. CASE com.level # 1
  <2> PICK n \in Nat : n = com.level - 1 /\ n > 0
    BY <1>3, InCommentFacts
  <2>1. com' = [com EXCEPT !.level = n] /\ in' = NextCh(c) /\ At("comment")
    BY <1>3 DEF CloseLevel
  <2>2. com' \in CommentsTried /\ com'.level = n /\ com'.line0 = com.line0
    BY <2>1, InCommentFacts, LevelFields
  <2>3. Advances(in', in)
    BY <1>1, <2>1, NextChRight, AdvancesOn
  <2> QED
    BY <2>1, <2>2, <2>3, GoesOnInComment
<1> QED
  BY <1>2, <1>3

LEMMA CommentStopLasts == ASSUME SInv, CommentStop PROVE Lasts
<1>1. /\ pc = "comment"
      /\ UNCHANGED <<grammar, txt, t, state, rec, apx, left, delivered, skewed>>
  BY DEF CommentStop, InComment
<1> PICK c : c = Deciding(current.stop)
  OBVIOUS
<1>2. Advances(c, in) /\ (CloseLevel(c) \/ GoOn(c))
  BY <1>1, DecidingRight DEF CommentStop
<1> QED
  BY <1>1, <1>2, CloseLevelLasts, GoOnLasts

LEMMA CommentStartLasts == ASSUME SInv, CommentStart PROVE Lasts
<1>1. /\ pc = "comment"
      /\ UNCHANGED <<grammar, txt, t, state, rec, apx, left, delivered, skewed>>
  BY DEF CommentStart, InComment
<1> PICK c : c = Deciding(current.stop)
  OBVIOUS
<1>2. Advances(c, in) /\ (Nest(c) \/ GoOn(c))
  BY <1>1, DecidingRight DEF CommentStart
<1> QED
  BY <1>1, <1>2, NestLasts, GoOnLasts

LEMMA CommentBodyLasts == ASSUME SInv, CommentBody PROVE Lasts
<1>1. /\ pc = "comment" /\ GoOn(NextCh(in))
      /\ UNCHANGED <<grammar, txt, t, state, rec, apx, left, delivered, skewed>>
  BY DEF CommentBody, InComment
<1>2. Advances(NextCh(in), in)
  BY <1>1, InCommentFacts, NextChRight
<1> QED
  BY <1>1, <1>2, GoOnLasts

LEMMA CommentUnclosedLasts == ASSUME SInv, CommentUnclosed PROVE Lasts
<1>1. /\ pc = "comment" /\ pc' = "opening" /\ UNCHANGED <<in, com>>
      /\ UNCHANGED <<grammar, txt, t, state, rec, apx, left, delivered, skewed>>
  BY DEF CommentUnclosed, InComment
<1>2. Scans'
  BY <1>1, InCommentFacts DEF SInv, Scans
<1>3. Behind'
  BY <1>1 DEF Behind, InToken
<1> QED
  BY <1>1, <1>2, <1>3, NotInToken DEF Lasts, SInv, Typed, Positions, InToken

\* A character more of the text, unless it is the last.
LEMMA AddedChRight ==
  ASSUME SInv, pc # "stopped"
  PROVE  Advances(AddedCh(in), in)
<1>1. Sane(in) /\ Ready(in)
  BY Here
<1> QED
  BY <1>1, AdvancesItself, NextChRight DEF AddedCh

\* A token more.
LEMMA AppendFields ==
  ASSUME NEW S, NEW s \in Seq(S), NEW x
  PROVE  Append(s, x) \in Seq(S \cup {x}) /\ Len(Append(s, x)) = Len(s) + 1
<1> DEFINE T == S \cup {x}
<1>1. s \in Seq(T)
  <2>1. \A i \in 1..Len(s) : s[i] \in T
    BY ElementOfSeq
  <2>2. Len(s) \in Nat /\ s = SubSeq(s, 1, Len(s))
    BY SubSeqFull, LenProperties
  <2> HIDE DEF T
  <2> QED
    BY <2>1, <2>2, SubSeqProperties
<1>2. x \in T
  OBVIOUS
<1> HIDE DEF T
<1> QED
  BY <1>1, <1>2, AppendProperties DEF T

\* The token is delivered: what follows is blanks, the characters to skip, or nothing.
LEMMA DeliverRight ==
  ASSUME SInv, pc # "stopped", Sane(in'), Follows(in'.b, in.b), NEW token, Deliver(token),
         Len(delivered) < MaxTokens,
         NoInput(in.b) => token.kind = EofSym
  PROVE  Scans' /\ Behind' /\ Delivers' /\ com' \in CommentsTried /\ pc' \in Positions
<1> PICK place : place = IF token.kind = EofSym THEN "ended"
                         ELSE IF left' > 0 THEN "returning" ELSE "skipping"
  OBVIOUS
<1>1. /\ delivered' = Append(delivered, token)
      /\ com' = [com EXCEPT !.index = 0]
      /\ At(place)
  BY DEF Deliver
<1>2. place \in {"ended", "returning", "skipping"} /\ (NoInput(in.b) => place = "ended")
  OBVIOUS
<1>3. Scans' /\ pc' = place
  BY <1>1, <1>2, GoesOn DEF Positions, InToken
<1>4. Behind'
  BY <1>2, <1>3 DEF Behind, InToken
<1>5. Delivers'
  <2>1. PICK S : delivered \in Seq(S)
    BY DEF SInv, Delivers, InToken
  <2> PICK n \in Nat : n = Len(delivered)
    BY <2>1, LenProperties
  <2>2. delivered' \in Seq(S \cup {token}) /\ Len(delivered') = n + 1
    BY <1>1, <2>1, AppendFields
  <2>3. \E T : delivered' \in Seq(T)
    BY <2>2
  <2>4. Len(delivered') <= MaxTokens
    BY <2>2, ScannerAssumption
  <2> QED
    BY <1>2, <1>3, <2>3, <2>4 DEF Delivers, InToken
<1>6. com' \in CommentsTried
  BY <1>1, IndexFields DEF SInv, Typed
<1> QED
  BY <1>2, <1>3, <1>4, <1>5, <1>6 DEF Positions, InToken

\* The text that begins a token has at most one character.
LEMMA BeginText ==
  ASSUME SInv
  PROVE  AddedText(EmptyText, in).tlen \in Nat
<1> PICK e : e = EmptyText
  OBVIOUS
<1>1. Held(e) /\ e.tlen = 0 /\ e.tval = txt.tval
  BY CutRight DEF EmptyText, Shortened, SInv, IInv
<1>2. Within(e)
  <2>1. Len(e.tval) \in Nat
    BY <1>1, HeldLength
  <2> QED
    BY <1>1, <2>1 DEF Within
<1>3. AddedText(e, in).tlen = IF in.ch = EoF THEN e.tlen ELSE e.tlen + 1
  BY <1>1, <1>2, AddedRight
<1> QED
  BY <1>1, <1>3

LEMMA PlaceTypes ==
  ASSUME SInv, pc # "stopped"
  PROVE  /\ Place \in PlacesSeen /\ Place.pos = in.pos
         /\ Unrecognized \in Recognitions
<1>1. in.pos \in Int /\ in.line \in Nat /\ in.col \in Nat
  BY Here
<1>2. NoSym \in Recognizable /\ 0 \in Nat
  BY DEF Recognizable
<1> QED
  BY <1>1, <1>2 DEF Place, PlacesSeen, Unrecognized, Recognitions

LEMMA StartTokenTypes ==
  ASSUME SInv, StartToken, com' \in CommentsTried, pc' \in Positions
  PROVE  Typed'
<1>1. /\ t' = Place /\ rec' = Unrecognized /\ apx' = 0 /\ left' = 0 /\ pc # "stopped"
      /\ txt' = AddedText(EmptyText, in) /\ UNCHANGED <<grammar, skewed>>
  BY DEF StartToken, BehindBlanks
<1>2. txt'.tlen \in Int
  BY <1>1, BeginText
<1>3. t' \in PlacesSeen /\ rec' \in Recognitions
  BY <1>1, PlaceTypes
<1>4. rec' \in Recognitions'
  BY <1>1, <1>3 DEF Recognitions, Recognizable, gr
<1>5. skewed' \in BOOLEAN
  BY <1>1 DEF SInv, Typed
<1>6. apx' \in Nat /\ left' \in Int
  BY <1>1
<1>7. com' \in CommentsTried' /\ pc' \in Positions' /\ t' \in PlacesSeen'
  BY <1>3 DEF CommentsTried, Positions, PlacesSeen
<1> QED
  BY <1>2, <1>4, <1>5, <1>6, <1>7 DEF Typed

LEMMA StartTokenLasts == ASSUME SInv, StartToken PROVE Lasts
<1>1. /\ pc # "stopped" /\ Len(delivered) < MaxTokens
      /\ t' = Place /\ txt' = AddedText(EmptyText, in)
      /\ in' = AddedCh(in) /\ UNCHANGED grammar
  BY DEF StartToken, BehindBlanks
<1>2. Sane(in') /\ Follows(in'.b, in.b)
  BY <1>1, AddedChRight DEF Advances
<1>3. CASE in.ch = EoF
  <2> PICK token : token = Token(EofSym, Place, txt')
    OBVIOUS
  <2>1. Deliver(token) /\ token.kind = EofSym
    BY <1>3 DEF StartToken, Token
  <2>2. Scans' /\ Behind' /\ Delivers' /\ com' \in CommentsTried /\ pc' \in Positions
    BY <1>1, <1>2, <2>1, DeliverRight
  <2> QED
    BY <2>2, StartTokenTypes DEF Lasts
<1>4. CASE in.ch # EoF /\ in.ch \in DOMAIN gr.start
  <2>1. At("matching") /\ UNCHANGED <<com, delivered>> /\ ~NoInput(in.b)
    BY <1>1, <1>4, Here DEF StartToken
  <2>2. Scans' /\ pc' = "matching" /\ \A p : Seen(in.b, p) => Seen(in'.b, p)
    BY <1>1, <1>2, <2>1, GoesOn DEF Positions, InToken
  <2>3. Seen(in'.b, t'.pos)
    <3>1. Seen(in.b, in.pos) /\ t'.pos = in.pos
      BY <1>1, <2>1, Here, PlaceTypes
    <3> QED
      BY <2>2, <3>1
  <2>4. Behind'
    BY <2>2, <2>3 DEF Behind, InToken
  <2>5. Delivers'
    BY <1>1, <2>1 DEF SInv, Delivers, InToken
  <2>6. com' \in CommentsTried /\ pc' \in Positions
    BY <2>1, <2>2 DEF SInv, Typed, Positions, InToken
  <2> QED
    BY <2>2, <2>4, <2>5, <2>6, StartTokenTypes DEF Lasts
<1>5. CASE in.ch # EoF /\ in.ch \notin DOMAIN gr.start
  <2> PICK token : token = Token(NoSym, Place, txt')
    OBVIOUS
  <2>1. Deliver(token) /\ ~NoInput(in.b)
    BY <1>1, <1>5, Here DEF StartToken
  <2>2. Scans' /\ Behind' /\ Delivers' /\ com' \in CommentsTried /\ pc' \in Positions
    BY <1>1, <1>2, <2>1, DeliverRight
  <2> QED
    BY <2>2, StartTokenTypes DEF Lasts
<1> QED
  BY <1>3, <1>4, <1>5

\* recKind and recEnd.
LEMMA RecognizedTypes ==
  ASSUME SInv, pc = "matching"
  PROVE  Recognized \in Recognitions
<1>1. Matched /\ rec \in Recognitions /\ in.pos \in Int
  BY Here DEF SInv, IInv, Typed
<1>2. txt.tlen \in Nat /\ here.endOf \in Recognizable
  <2>1. Len(txt.tval) \in Nat
    BY HeldLength DEF SInv, IInv
  <2> QED
    BY <1>1, <2>1 DEF Matched, Within, here, Recognizable
<1>3. [kind |-> here.endOf, end |-> in.pos, chars |-> txt.tlen] \in Recognitions
  BY <1>1, <1>2 DEF Recognitions
<1> QED
  BY <1>1, <1>3 DEF Recognized

LEMMA MatchingLasts == ASSUME SInv, Matching PROVE Lasts
<1>1. /\ pc = "matching" /\ Arcs # {} /\ rec' = Recognized /\ apx' = Apx(FirstArc)
      /\ txt' = AddedText(txt, in) /\ in' = AddedCh(in) /\ At("matching")
      /\ UNCHANGED <<grammar, t, left, com, delivered, skewed>>
  BY DEF Matching
<1>2. Sane(in') /\ Follows(in'.b, in.b) /\ ~NoInput(in.b)
  BY <1>1, AddedChRight DEF Advances, SInv, Scans, InToken
<1>3. Scans' /\ pc' = "matching" /\ \A p : Seen(in.b, p) => Seen(in'.b, p)
  BY <1>1, <1>2, GoesOn DEF Positions, InToken
<1>4. Behind'
  <2>1. Seen(in'.b, t.pos)
    BY <1>1, <1>3 DEF SInv, Behind, InToken
  <2> QED
    BY <1>1, <1>3, <2>1 DEF Behind, InToken
<1>5. Delivers'
  BY <1>1 DEF SInv, Delivers, InToken
<1>6. txt'.tlen \in Int
  <2>1. Held(txt) /\ Within(txt) /\ txt.tlen \in Int
    BY <1>1 DEF SInv, IInv, Matched, Typed
  <2>2. txt'.tlen = IF in.ch = EoF THEN txt.tlen ELSE txt.tlen + 1
    BY <1>1, <2>1, AddedRight
  <2> QED
    BY <2>1, <2>2
<1>7. rec' \in Recognitions'
  BY <1>1, RecognizedTypes DEF Recognitions, Recognizable, gr
<1>8. apx' \in Nat
  <2>1. apx \in Nat
    BY DEF SInv, Typed
  <2> QED
    BY <1>1, <2>1 DEF Apx
<1>9. t' \in PlacesSeen' /\ left' \in Int /\ com' \in CommentsTried' /\ pc' \in Positions'
      /\ skewed' \in BOOLEAN
  BY <1>1, <1>3 DEF SInv, Typed, PlacesSeen, CommentsTried, Positions, InToken
<1>10. Typed'
  BY <1>6, <1>7, <1>8, <1>9 DEF Typed
<1> QED
  BY <1>3, <1>4, <1>5, <1>10 DEF Lasts

\* Behind a token: the scanner stays where it is, or goes back to the token's first character.
LEMMA BehindToken ==
  ASSUME SInv, pc \in InToken, in' = in \/ in' = Return(in, t.pos, t.line, t.col)
  PROVE  Sane(in') /\ Follows(in'.b, in.b) /\ ~NoInput(in.b) /\ Len(delivered) < MaxTokens
<1>1. Sane(in) /\ Ready(in) /\ Good(in.b)
  BY Here DEF InToken
<1>2. Seen(in.b, t.pos) /\ t.line \in Nat /\ t.col \in Nat /\ ~NoInput(in.b)
      /\ Len(delivered) < MaxTokens
  BY DEF SInv, Scans, Behind, Delivers, Typed, PlacesSeen
<1>3. CASE in' = in
  BY <1>1, <1>2, <1>3, FollowsItself
<1>4. CASE in' = Return(in, t.pos, t.line, t.col)
  BY <1>1, <1>2, <1>4, ReturnRight
<1> QED
  BY <1>3, <1>4

LEMMA CutLength ==
  ASSUME NEW x, Held(x), NEW n
  PROVE  [x EXCEPT !.tlen = n].tlen = n
  BY CutRight DEF Shortened

\* Accept and Fallback, whether they go back or not.
LEMMA EndOfToken ==
  ASSUME SInv, pc \in InToken, rec' \in Recognitions, UNCHANGED <<grammar, t, state, apx>>,
         in' = in \/ in' = Return(in, t.pos, t.line, t.col),
         NEW token, Deliver(token), txt'.tlen \in Int, left' \in Int, skewed' \in BOOLEAN
  PROVE  Lasts
<1>2. Sane(in') /\ Follows(in'.b, in.b) /\ ~NoInput(in.b) /\ Len(delivered) < MaxTokens
  BY BehindToken
<1>3. Scans' /\ Behind' /\ Delivers' /\ com' \in CommentsTried /\ pc' \in Positions
  <2>1. pc # "stopped"
    BY DEF InToken
  <2> QED
    BY <1>2, <2>1, DeliverRight
<1>4. rec' \in Recognitions'
  BY DEF Recognitions, Recognizable, gr
<1>5. t' \in PlacesSeen' /\ apx' \in Nat /\ com' \in CommentsTried' /\ pc' \in Positions'
  BY <1>3 DEF SInv, Typed, PlacesSeen, CommentsTried, Positions, InToken
<1>6. Typed'
  BY <1>4, <1>5 DEF Typed
<1> QED
  BY <1>3, <1>6 DEF Lasts

\* Where the switch comes to the end of a token.
LEMMA AtEndRight ==
  ASSUME SInv, AtEnd
  PROVE  pc \in InToken /\ rec' \in Recognitions /\ UNCHANGED <<grammar, t, state, apx>>
  BY RecognizedTypes DEF AtEnd, InToken

LEMMA FailsRight ==
  ASSUME SInv, Fails
  PROVE  pc \in InToken /\ rec' \in Recognitions /\ UNCHANGED <<grammar, t, state, apx>>
<1>1. CASE AtEnd
  BY <1>1, AtEndRight
<1>2. CASE pc = "failing" /\ UNCHANGED <<grammar, t, state, rec, apx>>
  BY <1>2 DEF InToken, SInv, Typed
<1> QED
  BY <1>1, <1>2 DEF Fails

LEMMA AcceptLasts == ASSUME SInv, Accept PROVE Lasts
<1>1. AtEnd /\ UNCHANGED skewed /\ Held(txt) /\ txt.tlen \in Int /\ apx \in Nat /\ left \in Int
      /\ skewed \in BOOLEAN
  BY DEF Accept, SInv, IInv, Typed
<1> PICK token : token = Token(KindOf(here.endOf, txt'), t, txt')
  OBVIOUS
<1>2. Deliver(token)
  BY DEF Accept
<1>3. CASE CtxEnd
  <2> PICK n \in Int : n = txt.tlen - apx
    BY <1>1
  <2>1. txt' = [txt EXCEPT !.tlen = n] /\ in' = Return(in, t.pos, t.line, t.col) /\ left' = txt'.tlen
    BY <1>3 DEF Accept, CutContext, SetScannerBehindT
  <2>2. txt'.tlen = n
    BY <1>1, <2>1, CutLength
  <2> QED
    BY <1>1, <1>2, <2>1, <2>2, AtEndRight, EndOfToken
<1>4. CASE ~CtxEnd
  <2>1. UNCHANGED <<txt, in, left>>
    BY <1>4 DEF Accept
  <2> QED
    BY <1>1, <1>2, <2>1, AtEndRight, EndOfToken
<1> QED
  BY <1>3, <1>4

LEMMA FallbackLasts == ASSUME SInv, Fallback PROVE Lasts
<1>1. Fails /\ Held(txt) /\ txt.tlen \in Int /\ left \in Int
      /\ rec.end \in Int /\ t.pos \in Int /\ skewed' \in BOOLEAN
  <2>1. skewed' \in BOOLEAN
    BY DEF Fallback
  <2> QED
    BY <2>1 DEF Fallback, SInv, IInv, Typed, Recognitions, PlacesSeen
<1> PICK token : token = Token(rec.kind, t, txt')
  OBVIOUS
<1>2. Deliver(token)
  BY DEF Fallback
<1>3. CASE rec.kind # NoSym
  <2> PICK n \in Int : n = rec.end - t.pos
    BY <1>1
  <2>1. txt' = [txt EXCEPT !.tlen = n] /\ in' = Return(in, t.pos, t.line, t.col) /\ left' = txt'.tlen
    BY <1>3 DEF Fallback, CutBack, SetScannerBehindT
  <2>2. txt'.tlen = n
    BY <1>1, <2>1, CutLength
  <2> QED
    BY <1>1, <1>2, <2>1, <2>2, FailsRight, EndOfToken
<1>4. CASE rec.kind = NoSym
  <2>1. UNCHANGED <<txt, in, left>>
    BY <1>4 DEF Fallback
  <2> QED
    BY <1>1, <1>2, <2>1, FailsRight, EndOfToken
<1> QED
  BY <1>3, <1>4

LEMMA CutLasts == ASSUME SInv, Cut PROVE Lasts
<1> PICK place \in {"cutting", "failing"} : place = IF left' > 0 THEN "cutting" ELSE "failing"
  OBVIOUS
<1>1. /\ AtEnd /\ At(place) /\ UNCHANGED <<com, delivered, skewed>>
      /\ in' = Return(in, t.pos, t.line, t.col) /\ left' = txt'.tlen
  BY DEF Cut, SetScannerBehindT
<1>2. pc \in InToken /\ rec' \in Recognitions /\ UNCHANGED <<grammar, t, state, apx>>
  BY <1>1, AtEndRight
<1>3. Sane(in') /\ Follows(in'.b, in.b) /\ ~NoInput(in.b) /\ Len(delivered) < MaxTokens
  BY <1>1, <1>2, BehindToken
<1>4. Scans' /\ pc' = place /\ \A p : Seen(in.b, p) => Seen(in'.b, p)
  <2>1. pc # "stopped"
    BY <1>2 DEF InToken
  <2> QED
    BY <1>1, <1>3, <2>1, GoesOn DEF Positions, InToken
<1>5. Behind' /\ Delivers'
  <2>1. Seen(in'.b, t'.pos)
    BY <1>2, <1>4 DEF SInv, Behind
  <2>2. Behind'
    BY <1>4, <2>1 DEF Behind
  <2>3. Delivers'
    BY <1>1, <1>3 DEF SInv, Delivers
  <2> QED
    BY <2>2, <2>3
<1>6. txt'.tlen \in Int
  <2>1. Held(txt) /\ txt.tlen \in Int /\ apx \in Nat
    BY DEF SInv, IInv, Typed
  <2> PICK n \in Int : n = txt.tlen - apx
    BY <2>1
  <2>2. txt' = [txt EXCEPT !.tlen = n]
    BY DEF Cut, CutContext
  <2> QED
    BY <2>1, <2>2, CutLength
<1>7. rec' \in Recognitions'
  BY <1>2 DEF Recognitions, Recognizable, gr
<1>8. t' \in PlacesSeen' /\ apx' \in Nat /\ com' \in CommentsTried' /\ pc' \in Positions'
      /\ skewed' \in BOOLEAN
  BY <1>1, <1>2, <1>4 DEF SInv, Typed, PlacesSeen, CommentsTried, Positions, InToken
<1>9. Typed'
  BY <1>1, <1>6, <1>7, <1>8 DEF Typed
<1> QED
  BY <1>4, <1>5, <1>9 DEF Lasts

LEMMA SkipTextLasts == ASSUME SInv, SkipText PROVE Lasts
<1> PICK place \in {"returning", "cutting", "failing", "skipping"} :
           place = IF left > 1 THEN pc ELSE IF pc = "cutting" THEN "failing" ELSE "skipping"
  BY DEF SkipText
<1>1. /\ pc \in {"returning", "cutting"} /\ in' = NextCh(in) /\ left' = left - 1 /\ At(place)
      /\ UNCHANGED <<grammar, txt, t, state, rec, apx, com, delivered, skewed>>
  BY DEF SkipText
<1>2. Sane(in') /\ Follows(in'.b, in.b) /\ ~NoInput(in.b)
  BY <1>1, Here, NextChRight DEF Advances, SInv, Scans, InToken
<1>3. Scans' /\ pc' = place /\ \A p : Seen(in.b, p) => Seen(in'.b, p)
  BY <1>1, <1>2, GoesOn DEF Positions, InToken
<1>4. pc' \in InToken => pc \in InToken
  BY <1>1, <1>3 DEF InToken
<1>5. Behind'
  <2>1. pc' \in InToken => Seen(in'.b, t.pos)
    BY <1>3, <1>4 DEF SInv, Behind
  <2>2. pc' # "comment"
    BY <1>3
  <2> QED
    BY <1>1, <2>1, <2>2 DEF Behind
<1>6. left' \in Int
  BY <1>1 DEF SInv, Typed
<1>7. com' \in CommentsTried /\ pc' \in Positions
  BY <1>1, <1>3 DEF SInv, Typed, Positions, InToken
<1> QED
  BY <1>1, <1>3, <1>4, <1>5, <1>6, <1>7, NotInToken DEF Lasts

LEMMA SInvNext == SInv /\ [Next]_vars => SInv'
<1> SUFFICES ASSUME SInv, [Next]_vars PROVE SInv'
  OBVIOUS
<1>1. IInv'
  BY IInvNext DEF SInv
<1>2. ASSUME Lasts PROVE SInv'
  BY <1>1, <1>2 DEF SInv, Lasts
<1>3. CASE SkipBlank
  BY <1>2, <1>3, SkipBlankLasts
<1>4. CASE Comment
  BY <1>2, <1>4, CommentLasts
<1>5. CASE CommentStop
  BY <1>2, <1>5, CommentStopLasts
<1>6. CASE CommentStart
  BY <1>2, <1>6, CommentStartLasts
<1>7. CASE CommentBody
  BY <1>2, <1>7, CommentBodyLasts
<1>8. CASE CommentUnclosed
  BY <1>2, <1>8, CommentUnclosedLasts
<1>9. CASE StartToken
  BY <1>2, <1>9, StartTokenLasts
<1>10. CASE Matching
  BY <1>2, <1>10, MatchingLasts
<1>11. CASE Accept
  BY <1>2, <1>11, AcceptLasts
<1>12. CASE Fallback
  BY <1>2, <1>12, FallbackLasts
<1>13. CASE SkipText
  BY <1>2, <1>13, SkipTextLasts
<1>14. CASE Cut
  BY <1>2, <1>14, CutLasts
<1>15. CASE Finished \/ UNCHANGED vars
  <2>1. UNCHANGED vars
    BY <1>15 DEF Finished
  <2>2. Scans' /\ Behind' /\ Delivers'
    BY <2>1 DEF vars, SInv, Scans, Behind, Delivers
  <2>3. Typed'
    BY <2>1 DEF vars, SInv, Typed, Recognitions, Recognizable, gr
  <2> QED
    BY <1>1, <2>2, <2>3 DEF SInv
<1> QED
  BY <1>3, <1>4, <1>5, <1>6, <1>7, <1>8, <1>9, <1>10, <1>11, <1>12, <1>13, <1>14,
     <1>15 DEF Next

\* The variables of the scanner have their types: columns and lines are not negative, the
\* token recognized last is one the automaton has, no more than MaxTokens are delivered.
THEOREM ScannerTypes == Spec => []TypeOK
<1>1. SInv => TypeOK
  <2> SUFFICES ASSUME SInv PROVE TypeOK
    OBVIOUS
  <2>1. in \in Cursors
    BY StoppedFields DEF SInv, Scans, Sane, Ready
  <2>2. in.ch \in Int /\ in.pos \in Int /\ in.line \in Nat /\ in.col \in Nat /\ in.oldEols \in Nat
    BY <2>1, CursorTypes
  <2>3. txt.tvalLength \in Nat
    BY DEF SInv, IInv, Held, Texts
  <2>4. t \in Places
    BY DEF SInv, Typed, PlacesSeen, Places
  <2>5. com \in [index : Nat, level : Nat, pos0 : Int, line0 : Int, col0 : Int]
    BY DEF SInv, Typed, CommentsTried
  <2> QED
    BY <2>2, <2>3, <2>4, <2>5
    DEF TypeOK, SInv, IInv, Scans, Delivers, Typed, Recognitions, Positions, InToken, InToken
<1> QED
  BY <1>1, SInvInit, SInvNext, PTL DEF Spec

\* SetPos of a buffer of any kind, called by Peek, by the comments and by
\* SetScannerBehindT, stays inside of the input: the only exit is that of a byte order
\* mark that is none.
THEOREM StaysInBounds == Spec => []InBounds
<1>1. SInv => InBounds
  <2>1. Sane(in) => ~in.b.exited
    BY GoodTypes DEF Sane, Ready
  <2> QED
    BY <2>1, StoppedFields DEF SInv, Scans, InBounds
<1> QED
  BY <1>1, SInvInit, SInvNext, PTL DEF Spec

\* The window of every kind of buffer that has one shows the bytes of the input at its
\* place, through all the reading ahead and going back of the scanner, UTF-8 or not.
THEOREM WindowStaysRight == Spec => []WindowRight
<1>1. SInv => WindowRight
  <2>1. Sane(in) => (in.b.kind # "istream" /\ ~Lost(in.b) => Window(in.b))
    BY GoodWindow DEF Sane, Ready
  <2> QED
    BY <2>1, StoppedFields DEF SInv, Scans, WindowRight
<1> QED
  BY <1>1, SInvInit, SInvNext, PTL DEF Spec
=============================================================================
