-------------------------- MODULE TokenHeap_proofs --------------------------
(***************************************************************************)
(* For blocks, tokens and texts of any size: the current token and those   *)
(* behind it are never freed, no two areas of the heap overlap, and the    *)
(* parser gets the tokens in their order.                                  *)
(*                                                                         *)
(* The inductive invariant adds to the type: areas are taken in the order  *)
(* of the tokens, upwards in each block (HeapOrder), the tokens from the   *)
(* current one on are linked one to the next (ListOrder), and t points to  *)
(* nothing older than the current token's block until Peek is called       *)
(* (ParserOrder).                                                          *)
(***************************************************************************)
EXTENDS TokenHeap, TLAPS

HeapRecords == [first : Nat, last : Nat, top : Nat]

\* a was taken from the heap before b.
Before(a, b) == a.block < b.block \/ (a.block = b.block /\ a.at + a.size <= b.at)

\* a was taken from the heap h.
TakenFrom(a, h) ==
  /\ a.block < h.last \/ (a.block = h.last /\ a.at + a.size <= h.top)
  /\ a.at + a.size <= BlockSize

HeapOrder ==
  /\ heap.first <= heap.last /\ heap.top <= BlockSize
  /\ heap.first <= CurrentBlock
  /\ \A i \in 0..made :
       /\ Before(token[i].self, token[i].text)
       /\ TakenFrom(token[i].self, heap) /\ TakenFrom(token[i].text, heap)
  /\ \A i, j \in 0..made : i < j => Before(token[i].text, token[j].self)

ListOrder ==
  /\ tokens <= pt
  /\ \A i \in 0..made :
       tokens <= i => token[i].next = (IF i = made THEN Null ELSE i + 1)

ParserOrder ==
  /\ la = Dummy \/ la = tokens
  /\ pc = "getting" => t = Dummy
  /\ pc \in {"peeking", "pragma peeking"} => peeked
  /\ (pc \in {"parsing", "pragma"} /\ t # Dummy /\ ~peeked)
       => heap.first <= token[t].self.block

IInv == TypeOK /\ HeapOrder /\ ListOrder /\ ParserOrder

(***************************************************************************)
(* Areas.                                                                  *)
(***************************************************************************)

LEMMA BeforeTransitive ==
  ASSUME NEW a \in Areas, NEW b \in Areas, NEW c \in Areas,
         Before(a, b), Before(b, c)
  PROVE  Before(a, c)
  BY DEF Before, Areas

LEMMA BeforeApart ==
  ASSUME NEW a \in Areas, NEW b \in Areas, Before(a, b)
  PROVE  ~Overlap(a, b) /\ ~Overlap(b, a)
  BY DEF Before, Overlap, Areas

(* What is taken next comes after what was taken.                          *)
LEMMA TakenBefore ==
  ASSUME NEW h \in HeapRecords, NEW a \in Areas, NEW b \in Areas, TakenFrom(a, h),
         b.block > h.last \/ (b.block = h.last /\ b.at >= h.top)
  PROVE  Before(a, b)
  BY DEF Before, TakenFrom, Areas, HeapRecords

(***************************************************************************)
(* Room keeps the block of the current token, and makes room: either at    *)
(* the top of the last block or at the bottom of a new one.                *)
(***************************************************************************)

LEMMA RoomMade ==
  ASSUME NEW h \in HeapRecords, NEW size \in Nat, size <= BlockSize,
         CurrentBlock \in Nat, h.first <= CurrentBlock, CurrentBlock <= h.last
  PROVE  LET r == Room(h, size)
         IN  /\ r \in HeapRecords
             /\ h.first <= r.first /\ r.first <= CurrentBlock
             /\ \/ r.last = h.last /\ r.top = h.top
                \/ r.last = h.last + 1 /\ r.top = 0
             /\ r.top + size <= BlockSize
<1>1. CASE h.top + size >= BlockSize
  <2>1. Room(h, size) = [first |-> CurrentBlock, last |-> h.last + 1, top |-> 0]
    BY <1>1 DEF Room, CreateHeapBlock, FirstKept, HeapRecords
  <2> QED
    BY <2>1, SizesAssumption DEF HeapRecords
<1>2. CASE ~(h.top + size >= BlockSize)
  <2>1. Room(h, size) = h
    BY <1>2 DEF Room
  <2> QED
    BY <1>2, <2>1, SizesAssumption DEF HeapRecords
<1> QED
  BY <1>1, <1>2

LEMMA TakeMade ==
  ASSUME NEW h \in HeapRecords, NEW size \in Nat
  PROVE  /\ Take(h, size) \in HeapRecords
         /\ Take(h, size).first = h.first
         /\ Take(h, size).last = h.last
         /\ Take(h, size).top = h.top + size
  BY DEF Take, HeapRecords

(* Where NextToken puts a token and its text.                              *)
LEMMA Places ==
  ASSUME IInv, NEW size \in TextSizes, ~TooLong(size)
  PROVE  LET h1 == WithToken
             h2 == WithText(size)
             h3 == Take(h2, size)
             self == Area(h1.last, h1.top, TokenSize)
             text == Area(h2.last, h2.top, size)
         IN  /\ self \in Areas /\ text \in Areas /\ h3 \in HeapRecords
             /\ heap.first <= h3.first /\ h3.first <= CurrentBlock
             /\ h3.first <= h3.last /\ h3.top <= BlockSize
             /\ Before(self, text)
             /\ TakenFrom(self, h3) /\ TakenFrom(text, h3)
             /\ self.block > heap.last \/ (self.block = heap.last /\ self.at >= heap.top)
             /\ h3.last > heap.last \/ (h3.last = heap.last /\ h3.top >= heap.top)
<1> DEFINE h1 == WithToken
           h1t == Take(h1, TokenSize)
           h2 == WithText(size)
           h3 == Take(h2, size)
           self == Area(h1.last, h1.top, TokenSize)
           text == Area(h2.last, h2.top, size)
<1>1. /\ size \in Nat /\ size <= BlockSize /\ TokenSize \in Nat /\ TokenSize <= BlockSize
      /\ BlockSize \in Nat
  BY SizesAssumption DEF TooLong
<1>2. /\ heap \in HeapRecords /\ CurrentBlock \in Nat
      /\ heap.first <= CurrentBlock /\ CurrentBlock <= heap.last
  <2>1. token[tokens].self \in Areas /\ tokens \in 0..made
    BY DEF IInv, TypeOK, Tokens
  <2>2. TakenFrom(token[tokens].self, heap)
    BY <2>1 DEF IInv, HeapOrder
  <2> QED
    BY <2>1, <2>2 DEF IInv, TypeOK, HeapOrder, HeapRecords, CurrentBlock, TakenFrom, Areas
<1>3. /\ h1 \in HeapRecords
      /\ heap.first <= h1.first /\ h1.first <= CurrentBlock
      /\ \/ h1.last = heap.last /\ h1.top = heap.top
         \/ h1.last = heap.last + 1 /\ h1.top = 0
      /\ h1.top + TokenSize <= BlockSize
  BY <1>1, <1>2, RoomMade DEF WithToken
<1>4. /\ h1t \in HeapRecords /\ h1t.first = h1.first /\ h1t.last = h1.last
      /\ h1t.top = h1.top + TokenSize
  <2> HIDE DEF h1
  <2> QED BY <1>1, <1>3, TakeMade
<1>5. /\ h2 \in HeapRecords
      /\ h1t.first <= h2.first /\ h2.first <= CurrentBlock
      /\ \/ h2.last = h1t.last /\ h2.top = h1t.top
         \/ h2.last = h1t.last + 1 /\ h2.top = 0
      /\ h2.top + size <= BlockSize
  <2>1. h2 = Room(h1t, size)
    BY DEF WithText
  <2>2. CurrentBlock <= h1t.last
    BY <1>2, <1>3, <1>4 DEF HeapRecords
  <2>3. h1t.first <= CurrentBlock
    BY <1>3, <1>4
  <2> HIDE DEF h1t, h2, h1
  <2> QED BY <1>1, <1>2, <1>4, <2>1, <2>2, <2>3, RoomMade
<1>6. /\ h3 \in HeapRecords /\ h3.first = h2.first /\ h3.last = h2.last
      /\ h3.top = h2.top + size
  <2> HIDE DEF h2
  <2> QED BY <1>1, <1>5, TakeMade
<1> HIDE DEF h1, h1t, h2, h3
<1>7. /\ self \in Areas /\ self.block = h1.last /\ self.at = h1.top /\ self.size = TokenSize
      /\ text \in Areas /\ text.block = h2.last /\ text.at = h2.top /\ text.size = size
  BY <1>1, <1>3, <1>5 DEF Area, Areas, HeapRecords
<1> HIDE DEF self, text
<1>8. /\ h3 \in HeapRecords
      /\ heap.first <= h3.first /\ h3.first <= CurrentBlock
      /\ h3.first <= h3.last /\ h3.top <= BlockSize
  BY <1>1, <1>2, <1>3, <1>4, <1>5, <1>6 DEF HeapRecords
<1>9. Before(self, text)
  BY <1>1, <1>3, <1>4, <1>5, <1>7 DEF Before, HeapRecords
<1>10. TakenFrom(self, h3) /\ TakenFrom(text, h3)
  BY <1>1, <1>3, <1>4, <1>5, <1>6, <1>7 DEF TakenFrom, HeapRecords
<1>11. /\ self.block > heap.last \/ (self.block = heap.last /\ self.at >= heap.top)
       /\ h3.last > heap.last \/ (h3.last = heap.last /\ h3.top >= heap.top)
  BY <1>1, <1>2, <1>3, <1>4, <1>5, <1>6, <1>7 DEF HeapRecords
<1>12. /\ self \in Areas /\ text \in Areas /\ h3 \in HeapRecords
       /\ heap.first <= h3.first /\ h3.first <= CurrentBlock
       /\ h3.first <= h3.last /\ h3.top <= BlockSize
       /\ Before(self, text)
       /\ TakenFrom(self, h3) /\ TakenFrom(text, h3)
       /\ self.block > heap.last \/ (self.block = heap.last /\ self.at >= heap.top)
       /\ h3.last > heap.last \/ (h3.last = heap.last /\ h3.top >= heap.top)
  BY <1>7, <1>8, <1>9, <1>10, <1>11
<1> QED
  BY <1>12 DEF h1, h2, h3, self, text

(***************************************************************************)
(* A token more: what NextToken does to the tokens and the heap, whichever *)
(* token it is linked behind.                                              *)
(***************************************************************************)

LEMMA TokenMade ==
  ASSUME IInv, NEW kind \in Kinds, NEW size \in TextSizes, ~TooLong(size),
         NEW before \in {None} \cup 0..made, NextToken(kind, size, before)
  PROVE  /\ heap' \in HeapRecords
         /\ made' = made + 1 /\ made \in Nat
         /\ token' \in [0..made' -> Tokens]
         /\ \A i \in 0..made :
              /\ token'[i].self = token[i].self /\ token'[i].text = token[i].text
              /\ token'[i].kind = token[i].kind
              /\ token'[i].next = IF i = before THEN made + 1 ELSE token[i].next
         /\ token'[made + 1].next = Null /\ token'[made + 1].kind = kind
         /\ heap.first <= heap'.first /\ heap'.first <= CurrentBlock
         /\ heap'.first <= heap'.last /\ heap'.top <= BlockSize
         /\ \A i \in 0..made' :
              /\ Before(token'[i].self, token'[i].text)
              /\ TakenFrom(token'[i].self, heap') /\ TakenFrom(token'[i].text, heap')
         /\ \A i, j \in 0..made' : i < j => Before(token'[i].text, token'[j].self)
<1> DEFINE h1 == WithToken
           h2 == WithText(size)
           h3 == Take(h2, size)
           self == Area(h1.last, h1.top, TokenSize)
           text == Area(h2.last, h2.top, size)
           new == [kind |-> kind, next |-> Null, self |-> self, text |-> text]
<1>1. /\ self \in Areas /\ text \in Areas /\ h3 \in HeapRecords
      /\ heap.first <= h3.first /\ h3.first <= CurrentBlock
      /\ h3.first <= h3.last /\ h3.top <= BlockSize
      /\ Before(self, text)
      /\ TakenFrom(self, h3) /\ TakenFrom(text, h3)
      /\ self.block > heap.last \/ (self.block = heap.last /\ self.at >= heap.top)
      /\ h3.last > heap.last \/ (h3.last = heap.last /\ h3.top >= heap.top)
  BY Places
<1>2. /\ heap' = h3 /\ made' = made + 1
      /\ token' = [i \in 0..(made + 1) |->
            IF i > made THEN new
            ELSE IF i = before
            THEN [kind |-> token[i].kind, next |-> made + 1,
                  self |-> token[i].self, text |-> token[i].text]
            ELSE token[i]]
  BY DEF NextToken
<1>3. /\ made \in Nat /\ heap \in HeapRecords
      /\ \A i \in 0..made : token[i] \in Tokens
  BY DEF IInv, TypeOK, HeapRecords
<1> HIDE DEF h1, h2, h3, self, text
<1>4. new \in Tokens /\ new.self = self /\ new.text = text /\ new.next = Null
      /\ new.kind = kind
  BY <1>1 DEF Tokens, Null
<1>5. token'[made + 1] = new
  BY <1>2, <1>3
<1> HIDE DEF new
<1>6. ASSUME NEW i \in 0..made
      PROVE  /\ token'[i] \in Tokens
             /\ token'[i].self = token[i].self /\ token'[i].text = token[i].text
             /\ token'[i].kind = token[i].kind
             /\ token'[i].next = IF i = before THEN made + 1 ELSE token[i].next
  <2>1. CASE i = before
    <3>1. token'[i] = [kind |-> token[i].kind, next |-> made + 1,
                       self |-> token[i].self, text |-> token[i].text]
      BY <2>1, <1>2, <1>3
    <3> QED BY <2>1, <3>1, <1>3 DEF Tokens
  <2>2. CASE i # before
    <3>1. token'[i] = token[i]
      BY <2>2, <1>2, <1>3
    <3> QED BY <2>2, <3>1, <1>3
  <2> QED BY <2>1, <2>2
<1>7. token' \in [0..made' -> Tokens]
  <2>1. \A i \in 0..made' : token'[i] \in Tokens
    BY <1>2, <1>3, <1>4, <1>5, <1>6
  <2>2. token' = [i \in 0..made' |-> token'[i]]
    BY <1>2
  <2> QED BY <2>1, <2>2
<1>8. ASSUME NEW a \in Areas, TakenFrom(a, heap)
      PROVE  Before(a, self) /\ TakenFrom(a, h3)
  <2>1. Before(a, self)
    BY <1>1, <1>3, <1>8, TakenBefore
  <2>2. TakenFrom(a, h3)
    BY <1>1, <1>3, <1>8 DEF TakenFrom, HeapRecords, Areas
  <2> QED BY <2>1, <2>2
<1>9. \A i \in 0..made :
        /\ token[i].self \in Areas /\ token[i].text \in Areas
        /\ Before(token[i].self, token[i].text)
        /\ TakenFrom(token[i].self, heap) /\ TakenFrom(token[i].text, heap)
  BY <1>3 DEF IInv, HeapOrder, Tokens
<1>10. ASSUME NEW i \in 0..made'
       PROVE  /\ Before(token'[i].self, token'[i].text)
              /\ TakenFrom(token'[i].self, heap') /\ TakenFrom(token'[i].text, heap')
  <2>1. CASE i \in 0..made
    BY <2>1, <1>2, <1>6, <1>8, <1>9
  <2>2. CASE i = made + 1
    BY <2>2, <1>1, <1>2, <1>4, <1>5
  <2> QED BY <1>2, <1>3, <2>1, <2>2
<1>11. ASSUME NEW i \in 0..made', NEW j \in 0..made', i < j
       PROVE  Before(token'[i].text, token'[j].self)
  <2>1. CASE j \in 0..made
    <3>1. i \in 0..made /\ Before(token[i].text, token[j].self)
      BY <1>3, <1>11, <2>1 DEF IInv, HeapOrder
    <3> QED BY <2>1, <3>1, <1>6
  <2>2. CASE j = made + 1
    <3>1. i \in 0..made
      BY <1>2, <1>3, <1>11, <2>2
    <3> QED BY <2>2, <3>1, <1>4, <1>5, <1>6, <1>8, <1>9
  <2> QED BY <1>2, <1>3, <2>1, <2>2
<1>12. heap.first <= heap'.first /\ heap'.first <= CurrentBlock
       /\ heap'.first <= heap'.last /\ heap'.top <= BlockSize /\ heap' \in HeapRecords
  BY <1>1, <1>2
<1>13. token'[made + 1].next = Null /\ token'[made + 1].kind = kind
  BY <1>4, <1>5
<1>14. made' = made + 1
  BY <1>2
<1>15. \A i \in 0..made :
         /\ token'[i].self = token[i].self /\ token'[i].text = token[i].text
         /\ token'[i].kind = token[i].kind
         /\ token'[i].next = IF i = before THEN made + 1 ELSE token[i].next
  BY <1>6
<1>16. \A i, j \in 0..made' : i < j => Before(token'[i].text, token'[j].self)
  BY <1>11
<1>17. \A i \in 0..made' :
         /\ Before(token'[i].self, token'[i].text)
         /\ TakenFrom(token'[i].self, heap') /\ TakenFrom(token'[i].text, heap')
  BY <1>10
<1> QED
  BY ONLY <1>3, <1>7, <1>12, <1>13, <1>14, <1>15, <1>16, <1>17, Zenon

(***************************************************************************)
(* The invariant is inductive.                                             *)
(***************************************************************************)

LEMMA InitInv == HeapInit => IInv
<1> SUFFICES ASSUME HeapInit PROVE IInv
  OBVIOUS
<1> DEFINE first == [kind |-> "normal", next |-> Null,
                     self |-> Area(0, 0, TokenSize), text |-> NoText]
<1>1. /\ first \in Tokens /\ first.next = Null
      /\ first.self \in Areas /\ first.self.block = 0 /\ first.self.at = 0
      /\ first.self.size = TokenSize
      /\ first.text \in Areas /\ first.text.block = 0 /\ first.text.at = TokenSize
      /\ first.text.size = 0
  BY SizesAssumption DEF Tokens, Areas, Area, NoText, Kinds, Null
<1>2. made = 0 /\ 0..made = {0} /\ token = [i \in {0} |-> first]
  BY DEF HeapInit
<1> HIDE DEF first
<1>3. token[0] = first /\ token \in [0..made -> Tokens]
  BY <1>1, <1>2
<1>4. /\ heap \in HeapRecords /\ heap.first = 0 /\ heap.last = 0 /\ heap.top = TokenSize
      /\ tokens = 0 /\ pt = 0 /\ t = Dummy /\ la = Dummy /\ copied = 0
      /\ pc = "parsing"
  BY SizesAssumption DEF HeapInit, HeapRecords
<1>5. peeked \in BOOLEAN
  BY Zenon DEF HeapInit
<1>6. TypeOK
  BY <1>2, <1>3, <1>4, <1>5 DEF TypeOK, ControlPoints, HeapRecords
<1>7. HeapOrder
  <2>1. ASSUME NEW i \in 0..made
        PROVE  /\ Before(token[i].self, token[i].text)
               /\ TakenFrom(token[i].self, heap) /\ TakenFrom(token[i].text, heap)
    <3>1. i = 0
      BY <1>2
    <3>2. Before(first.self, first.text)
      BY <1>1, SizesAssumption DEF Before
    <3>3. TakenFrom(first.self, heap) /\ TakenFrom(first.text, heap)
      BY <1>1, <1>4, SizesAssumption DEF TakenFrom
    <3> QED BY <1>3, <3>1, <3>2, <3>3
  <2>2. \A i, j \in 0..made : i < j => Before(token[i].text, token[j].self)
    BY <1>2
  <2>3. heap.first <= CurrentBlock /\ heap.first <= heap.last /\ heap.top <= BlockSize
    BY <1>1, <1>3, <1>4, SizesAssumption DEF CurrentBlock
  <2> QED BY <2>1, <2>2, <2>3 DEF HeapOrder
<1>8. ListOrder
  BY <1>1, <1>2, <1>3, <1>4 DEF ListOrder
<1>9. ParserOrder
  BY <1>4 DEF ParserOrder
<1> QED
  BY <1>6, <1>7, <1>8, <1>9 DEF IInv

LEMMA ExitStep ==
  ASSUME IInv, Exit
  PROVE  IInv'
<1>1. /\ heap' = heap /\ made' = made /\ token' = token /\ tokens' = tokens /\ pt' = pt
      /\ t' = t /\ la' = la /\ copied' = copied /\ peeked' = peeked /\ pc' = "stopped"
  BY DEF Exit, parserVars
<1>2. TypeOK' /\ ListOrder'
  BY <1>1 DEF IInv, TypeOK, ControlPoints, ListOrder
<1>3. HeapOrder'
  BY <1>1 DEF IInv, HeapOrder, CurrentBlock, TakenFrom
<1>4. ParserOrder'
  BY <1>1 DEF IInv, ParserOrder
<1> QED
  BY <1>2, <1>3, <1>4 DEF IInv

(* Scan makes the token it delivers.                                       *)
LEMMA ScanNewStep ==
  ASSUME IInv, NEW kind \in Kinds, NEW size \in TextSizes, ScanNew(kind, size)
  PROVE  IInv'
<1>1. CASE TooLong(size)
  BY <1>1, ExitStep DEF ScanNew
<1>2. CASE ~TooLong(size)
  <2>1. /\ NextToken(kind, size, None)
        /\ tokens' = made' /\ pt' = made' /\ la' = made'
        /\ t' = la /\ peeked' = FALSE /\ copied' = copied
        /\ pc' = IF IsPragma(kind) THEN "pragma" ELSE "parsing"
    BY <1>2 DEF ScanNew, Recognize
  <2>2. /\ heap' \in HeapRecords
        /\ made' = made + 1 /\ made \in Nat
        /\ token' \in [0..made' -> Tokens]
        /\ \A i \in 0..made : token'[i].self = token[i].self
        /\ token'[made + 1].next = Null
        /\ heap'.first <= CurrentBlock
        /\ heap'.first <= heap'.last /\ heap'.top <= BlockSize
        /\ \A i \in 0..made' :
             /\ Before(token'[i].self, token'[i].text)
             /\ TakenFrom(token'[i].self, heap') /\ TakenFrom(token'[i].text, heap')
        /\ \A i, j \in 0..made' : i < j => Before(token'[i].text, token'[j].self)
    BY <1>2, <2>1, TokenMade
  <2>3. TypeOK'
    <3>1. peeked' \in BOOLEAN
      BY <2>1, Zenon
    <3>2. pc' \in ControlPoints
      BY <2>1 DEF ControlPoints
    <3> QED BY <2>1, <2>2, <3>1, <3>2 DEF IInv, TypeOK, HeapRecords
  <2>4. HeapOrder'
    <3>1. /\ tokens \in 0..made' /\ tokens < made' /\ made' \in 0..made'
          /\ token'[tokens].self \in Areas /\ token'[tokens].text \in Areas
          /\ token'[made'].self \in Areas
      BY <2>2 DEF IInv, TypeOK, Tokens
    <3>2. Before(token'[tokens].self, token'[made'].self)
      <4>1. /\ Before(token'[tokens].self, token'[tokens].text)
            /\ Before(token'[tokens].text, token'[made'].self)
        BY <2>2, <3>1
      <4> QED BY <3>1, <4>1, BeforeTransitive
    <3>3. token'[tokens].self.block = CurrentBlock
      BY <2>2 DEF IInv, TypeOK, CurrentBlock
    <3>4. heap'.first <= CurrentBlock'
      <4>1. CurrentBlock' = token'[made'].self.block
        BY <2>1 DEF CurrentBlock
      <4>2. /\ token'[made'].self.block \in Nat /\ token'[tokens].self.block \in Nat
            /\ heap'.first \in Nat
        BY <2>2, <3>1 DEF Areas, HeapRecords
      <4>3. token'[tokens].self.block <= token'[made'].self.block
        BY <3>2, <4>2 DEF Before
      <4>4. heap'.first <= token'[tokens].self.block
        BY <2>2, <3>3
      <4> QED BY <4>1, <4>2, <4>3, <4>4
    <3> QED BY <2>2, <3>4 DEF HeapOrder, TakenFrom
  <2>5. ListOrder'
    BY <2>1, <2>2 DEF ListOrder
  <2>6. ParserOrder'
    <3>1. la # Dummy => la = tokens /\ tokens \in 0..made
      BY DEF IInv, ParserOrder, TypeOK
    <3>2. t' # Dummy => heap'.first <= token'[t'].self.block
      BY <2>1, <2>2, <3>1 DEF CurrentBlock
    <3>3. pc' \in {"parsing", "pragma"}
      BY <2>1
    <3> QED BY <2>1, <3>2, <3>3 DEF ParserOrder
  <2> QED BY <2>3, <2>4, <2>5, <2>6 DEF IInv
<1> QED
  BY <1>1, <1>2

(* The token behind the current one was made after it.                     *)
LEMMA SuccessorNewer ==
  ASSUME IInv, NEW i \in 0..made, tokens <= i, token[i].next # Null
  PROVE  /\ token[i].next = i + 1 /\ i + 1 \in 0..made
         /\ token[i].self.block <= token[i + 1].self.block
<1>1. token[i].next = i + 1 /\ i + 1 \in 0..made /\ made \in Nat
  BY DEF IInv, ListOrder, TypeOK
<1>2. /\ token[i].self \in Areas /\ token[i].text \in Areas
      /\ token[i + 1].self \in Areas
  BY <1>1 DEF IInv, TypeOK, Tokens
<1>3. Before(token[i].self, token[i].text) /\ Before(token[i].text, token[i + 1].self)
  BY <1>1 DEF IInv, HeapOrder
<1>4. Before(token[i].self, token[i + 1].self)
  BY <1>2, <1>3, BeforeTransitive
<1> QED
  BY <1>1, <1>2, <1>4 DEF Before, Areas

(* Scan delivers a token Peek made.                                        *)
LEMMA ScanPeekedStep ==
  ASSUME IInv, ScanPeeked
  PROVE  IInv'
<1>1. /\ tokens' = token[tokens].next /\ pt' = tokens' /\ la' = tokens'
      /\ t' = la /\ peeked' = FALSE /\ copied' = copied
      /\ pc' = IF IsPragma(token[tokens'].kind) THEN "pragma" ELSE "parsing"
      /\ heap' = heap /\ made' = made /\ token' = token
  BY DEF ScanPeeked, Recognize, Successor
<1>2. /\ tokens' = tokens + 1 /\ tokens' \in 0..made /\ tokens \in 0..made
      /\ token[tokens].self.block <= token[tokens'].self.block
  <2>1. tokens \in 0..made /\ tokens <= tokens /\ token[tokens].next # Null
    BY DEF ScanPeeked, Successor, IInv, TypeOK
  <2> QED BY <1>1, <2>1, SuccessorNewer
<1>3. TypeOK'
  <2>1. peeked' \in BOOLEAN
    BY <1>1, Zenon
  <2> QED BY <1>1, <1>2, <2>1 DEF IInv, TypeOK, ControlPoints
<1>4. /\ heap.first \in Nat /\ token[tokens].self.block \in Nat
      /\ token[tokens'].self.block \in Nat
      /\ heap.first <= token[tokens].self.block
  BY <1>2 DEF IInv, TypeOK, HeapOrder, CurrentBlock, Tokens, Areas
<1>5. HeapOrder'
  BY <1>1, <1>2, <1>4 DEF IInv, HeapOrder, CurrentBlock, TakenFrom
<1>6. ListOrder'
  BY <1>1, <1>2 DEF IInv, ListOrder
<1>7. ParserOrder'
  <2>1. la # Dummy => la = tokens
    BY DEF IInv, ParserOrder
  <2>2. pc' \in {"parsing", "pragma"}
    BY <1>1
  <2> QED BY <1>1, <1>4, <2>1, <2>2 DEF ParserOrder
<1> QED
  BY <1>3, <1>5, <1>6, <1>7 DEF IInv

LEMMA AfterPragmaStep ==
  ASSUME IInv, AfterPragma
  PROVE  IInv'
<1>1. CASE Exit
  BY <1>1, ExitStep
<1>2. CASE ~Exit
  <2>1. /\ copied' = (IF t = Dummy THEN copied ELSE t)
        /\ t' = Dummy /\ la' = Dummy /\ pc' = "getting"
        /\ heap' = heap /\ made' = made /\ token' = token /\ tokens' = tokens /\ pt' = pt
        /\ peeked' = peeked
    BY <1>2 DEF AfterPragma, CopiedToken
  <2>2. TypeOK' /\ ListOrder'
    BY <2>1 DEF IInv, TypeOK, ControlPoints, ListOrder
  <2>3. HeapOrder'
    BY <2>1 DEF IInv, HeapOrder, CurrentBlock, TakenFrom
  <2>4. ParserOrder'
    BY <2>1 DEF ParserOrder
  <2> QED
    BY <2>2, <2>3, <2>4 DEF IInv
<1> QED
  BY <1>1, <1>2

(* A token of either kind takes the loop of Peek on, or ends it.           *)
LEMMA AfterPeekPlace ==
  ASSUME NEW kind
  PROVE  AfterPeek(kind) \in ControlPoints /\ AfterPeek(kind) # "getting"
  BY DEF AfterPeek, Caller, PeekLoop, ControlPoints

(* Peek makes a token, and links it behind the one it looked at last.      *)
LEMMA PeekNewStep ==
  ASSUME IInv, NEW kind \in Kinds, NEW size \in TextSizes, PeekNew(kind, size)
  PROVE  IInv'
<1>1. CASE TooLong(size)
  BY <1>1, ExitStep DEF PeekNew
<1>2. CASE ~TooLong(size)
  <2>1. /\ NextToken(kind, size, pt)
        /\ pt' = made' /\ tokens' = tokens /\ la' = la /\ t' = t
        /\ peeked' = TRUE /\ copied' = copied
        /\ pc' = AfterPeek(kind)
        /\ token[pt].next = Null
    BY <1>2 DEF PeekNew, parserVars
  <2>0. pc' \in ControlPoints /\ pc' # "getting"
    BY <2>1, AfterPeekPlace
  <2>2. pt = made
    BY <2>1 DEF IInv, ListOrder, TypeOK, Null
  <2>3. /\ heap' \in HeapRecords
        /\ made' = made + 1 /\ made \in Nat
        /\ token' \in [0..made' -> Tokens]
        /\ \A i \in 0..made :
             /\ token'[i].self = token[i].self
             /\ token'[i].next = IF i = made THEN made + 1 ELSE token[i].next
        /\ token'[made + 1].next = Null
        /\ heap'.first <= CurrentBlock
        /\ heap'.first <= heap'.last /\ heap'.top <= BlockSize
        /\ \A i \in 0..made' :
             /\ Before(token'[i].self, token'[i].text)
             /\ TakenFrom(token'[i].self, heap') /\ TakenFrom(token'[i].text, heap')
        /\ \A i, j \in 0..made' : i < j => Before(token'[i].text, token'[j].self)
    <3>1. pt \in {None} \cup 0..made
      BY DEF IInv, TypeOK
    <3>2. NextToken(kind, size, pt)
      BY <2>1
    <3>3. /\ heap' \in HeapRecords
          /\ made' = made + 1 /\ made \in Nat
          /\ token' \in [0..made' -> Tokens]
          /\ \A i \in 0..made :
               /\ token'[i].self = token[i].self
               /\ token'[i].next = IF i = pt THEN made + 1 ELSE token[i].next
          /\ token'[made + 1].next = Null
          /\ heap'.first <= CurrentBlock
          /\ heap'.first <= heap'.last /\ heap'.top <= BlockSize
      BY <1>2, <3>1, <3>2, TokenMade, SMTT(60)
    <3>4. /\ \A i \in 0..made' :
               /\ Before(token'[i].self, token'[i].text)
               /\ TakenFrom(token'[i].self, heap') /\ TakenFrom(token'[i].text, heap')
          /\ \A i, j \in 0..made' : i < j => Before(token'[i].text, token'[j].self)
      BY <1>2, <3>1, <3>2, TokenMade, SMTT(60)
    <3> QED BY <2>2, <3>3, <3>4
  <2>4. TypeOK'
    <3>1. peeked' \in BOOLEAN
      BY <2>1, Zenon
    <3> QED BY <2>0, <2>1, <2>3, <3>1 DEF IInv, TypeOK, HeapRecords
  <2>5. HeapOrder'
    <3>1. tokens \in 0..made
      BY DEF IInv, TypeOK
    <3>2. CurrentBlock' = CurrentBlock
      BY <2>1, <2>3, <3>1 DEF CurrentBlock
    <3> QED BY <2>3, <3>2 DEF HeapOrder, TakenFrom
  <2>6. ListOrder'
    <3>1. tokens \in 0..made /\ tokens' <= pt'
      BY <2>1, <2>3 DEF IInv, TypeOK
    <3>2. ASSUME NEW i \in 0..made', tokens <= i
          PROVE  token'[i].next = (IF i = made' THEN Null ELSE i + 1)
      <4>1. CASE i = made + 1
        BY <4>1, <2>3
      <4>2. CASE i \in 0..made
        <5>1. token[i].next = (IF i = made THEN Null ELSE i + 1)
          BY <3>2, <4>2 DEF IInv, ListOrder
        <5> QED BY <2>3, <4>2, <5>1
      <4> QED BY <2>3, <4>1, <4>2
    <3> QED BY <2>1, <3>1, <3>2 DEF ListOrder
  <2>7. ParserOrder'
    BY <2>0, <2>1 DEF IInv, ParserOrder
  <2> QED BY <2>4, <2>5, <2>6, <2>7 DEF IInv
<1> QED
  BY <1>1, <1>2

LEMMA PeekKnownStep ==
  ASSUME IInv, PeekKnown
  PROVE  IInv'
<1>1. /\ pt' = token[pt].next /\ peeked' = TRUE
      /\ pc' = AfterPeek(token[pt'].kind)
      /\ heap' = heap /\ made' = made /\ token' = token /\ tokens' = tokens
      /\ t' = t /\ la' = la /\ copied' = copied
  BY DEF PeekKnown, parserVars
<1>0. pc' \in ControlPoints /\ pc' # "getting"
  BY <1>1, AfterPeekPlace
<1>2. pt' \in 0..made /\ tokens <= pt'
  <2>1. pt \in 0..made /\ tokens <= pt /\ token[pt].next # Null /\ tokens \in 0..made
    BY DEF PeekKnown, IInv, TypeOK, ListOrder
  <2> QED BY <1>1, <2>1, SuccessorNewer
<1>3. TypeOK'
  <2>1. peeked' \in BOOLEAN
    BY <1>1, Zenon
  <2> QED BY <1>0, <1>1, <1>2, <2>1 DEF IInv, TypeOK
<1>4. HeapOrder'
  BY <1>1 DEF IInv, HeapOrder, CurrentBlock, TakenFrom
<1>5. ListOrder'
  BY <1>1, <1>2 DEF IInv, ListOrder
<1>6. ParserOrder'
  BY <1>0, <1>1 DEF IInv, ParserOrder
<1> QED
  BY <1>3, <1>4, <1>5, <1>6 DEF IInv

LEMMA ResetPeekStep ==
  ASSUME IInv, ResetPeek \/ UNCHANGED heapVars
  PROVE  IInv'
<1>1. /\ pt' \in {pt, tokens}
      /\ heap' = heap /\ made' = made /\ token' = token /\ tokens' = tokens
      /\ t' = t /\ la' = la /\ copied' = copied /\ peeked' = peeked /\ pc' = pc
  BY DEF ResetPeek, heapVars, parserVars
<1>2. TypeOK' /\ ListOrder'
  BY <1>1 DEF IInv, TypeOK, ListOrder
<1>3. HeapOrder'
  BY <1>1 DEF IInv, HeapOrder, CurrentBlock, TakenFrom
<1>4. ParserOrder'
  BY <1>1 DEF IInv, ParserOrder
<1> QED
  BY <1>2, <1>3, <1>4 DEF IInv

LEMMA StepInv == IInv /\ [HeapNext]_heapVars => IInv'
  BY ScanNewStep, ScanPeekedStep, AfterPragmaStep, PeekNewStep, PeekKnownStep,
     ResetPeekStep DEF HeapNext

LEMMA HeapInvariance == HeapSpec => []IInv
  BY InitInv, StepInv, PTL DEF HeapSpec

(***************************************************************************)
(* Theorems.                                                               *)
(***************************************************************************)

(* The heap's bounds, the list and the parser's pointers keep their types. *)
THEOREM TokenHeapTypes == HeapSpec => []TypeOK
<1>1. IInv => TypeOK
  BY DEF IInv
<1> QED
  BY <1>1, HeapInvariance, PTL

LEMMA SelfLive ==
  ASSUME IInv, NEW i \in 0..made, heap.first <= token[i].self.block
  PROVE  Live(i)
<1>1. token[i].self \in Areas /\ token[i].text \in Areas /\ heap \in HeapRecords
  BY DEF IInv, TypeOK, Tokens, HeapRecords
<1>2. /\ Before(token[i].self, token[i].text)
      /\ TakenFrom(token[i].self, heap) /\ TakenFrom(token[i].text, heap)
  BY DEF IInv, HeapOrder
<1> QED
  BY <1>1, <1>2 DEF Live, Before, TakenFrom, Areas, HeapRecords

(* What Scan and Peek will still deliver is never freed.                   *)
THEOREM ListNeverFreed == HeapSpec => []ListLive
<1>1. ASSUME IInv, NEW i \in tokens..made
      PROVE  Live(i)
  <2>1. tokens \in 0..made /\ i \in 0..made /\ made \in Nat
    BY <1>1 DEF IInv, TypeOK
  <2>2. /\ token[tokens].self \in Areas /\ token[tokens].text \in Areas
        /\ token[i].self \in Areas /\ heap \in HeapRecords
    BY <1>1, <2>1 DEF IInv, TypeOK, Tokens, HeapRecords
  <2>3. token[tokens].self.block <= token[i].self.block
    <3>1. CASE i = tokens
      BY <2>2, <3>1 DEF Areas
    <3>2. CASE tokens < i
      <4>1. /\ Before(token[tokens].self, token[tokens].text)
            /\ Before(token[tokens].text, token[i].self)
        BY <1>1, <2>1, <3>2 DEF IInv, HeapOrder
      <4>2. Before(token[tokens].self, token[i].self)
        BY <2>2, <4>1, BeforeTransitive
      <4> QED BY <2>2, <4>2 DEF Before, Areas
    <3> QED BY <1>1, <2>1, <3>1, <3>2
  <2>4. heap.first <= token[i].self.block
    BY <1>1, <2>2, <2>3 DEF IInv, HeapOrder, CurrentBlock, HeapRecords, Areas
  <2> QED BY <1>1, <2>1, <2>4, SelfLive
<1>2. IInv => ListLive
  BY <1>1 DEF ListLive
<1> QED
  BY <1>2, HeapInvariance, PTL

(* t can be read until Peek is called.                                     *)
THEOREM RecognizedNotFreed == HeapSpec => []RecognizedLive
<1>1. IInv => RecognizedLive
  <2> SUFFICES ASSUME IInv, pc \in {"parsing", "pragma"}, t # Dummy, ~peeked
               PROVE  Live(t)
    BY DEF RecognizedLive
  <2>1. t \in 0..made /\ heap.first <= token[t].self.block
    BY DEF IInv, TypeOK, ParserOrder
  <2> QED BY <2>1, SelfLive
<1> QED
  BY <1>1, HeapInvariance, PTL

(* No two tokens or texts share memory, nor reach the block's link.        *)
THEOREM AreasApart == HeapSpec => []NoOverlap
<1>1. IInv => NoOverlap
  <2> SUFFICES ASSUME IInv PROVE NoOverlap
    OBVIOUS
  <2>1. \A i \in 0..made : token[i].self \in Areas /\ token[i].text \in Areas
    BY DEF IInv, TypeOK, Tokens
  <2>2. ASSUME NEW i \in 0..made
        PROVE  /\ token[i].self.at + token[i].self.size <= BlockSize
               /\ token[i].text.at + token[i].text.size <= BlockSize
               /\ ~Overlap(token[i].self, token[i].text)
    BY <2>1, BeforeApart DEF IInv, HeapOrder, TakenFrom
  <2>3. ASSUME NEW i \in 0..made, NEW j \in 0..(i - 1),
               NEW a \in {token[i].self, token[i].text}
        PROVE  ~Overlap(a, token[j].self) /\ ~Overlap(a, token[j].text)
    <3>1. j \in 0..made /\ j < i /\ a \in Areas
      BY <2>1, <2>3 DEF IInv, TypeOK
    <3>2. Before(token[j].text, a)
      <4>1. Before(token[j].text, token[i].self) /\ Before(token[i].self, token[i].text)
        BY <2>3, <3>1 DEF IInv, HeapOrder
      <4> QED BY <2>1, <3>1, <4>1, BeforeTransitive
    <3>3. Before(token[j].self, a)
      <4>1. Before(token[j].self, token[j].text)
        BY <3>1 DEF IInv, HeapOrder
      <4> QED BY <2>1, <3>1, <3>2, <4>1, BeforeTransitive
    <3> QED BY <2>1, <3>1, <3>2, <3>3, BeforeApart
  <2>4. heap.top <= BlockSize
    BY DEF IInv, HeapOrder
  <2> QED BY <2>2, <2>3, <2>4 DEF NoOverlap
<1> QED
  BY <1>1, HeapInvariance, PTL

(* The scanner and Parser::Get implement TokenStream.                      *)
THEOREM TokensInOrder == HeapSpec => InOrder
<1>1. HeapInit => Stream!StreamInit
  BY DEF HeapInit, Stream!StreamInit, Dummy
<1>2. ASSUME IInv, [HeapNext]_heapVars
      PROVE  [Stream!StreamNext]_(Stream!streamVars)
  <2> USE DEF Stream!StreamNext, Stream!streamVars
  <2>0. /\ la # Dummy => la \in 0..made
        /\ tokens \in 0..made /\ pt \in 0..made /\ made \in Nat
    BY <1>2 DEF IInv, TypeOK
  <2>1. CASE Exit
    BY <2>1 DEF Exit, parserVars
  <2>2. ASSUME NEW kind \in Kinds, NEW size \in TextSizes, ScanNew(kind, size)
        PROVE  Stream!Deliver \/ Exit
    <3>1. CASE TooLong(size)
      BY <2>2, <3>1 DEF ScanNew
    <3>2. CASE ~TooLong(size)
      <4>1. /\ made' = made + 1 /\ tokens' = made' /\ pt' = made' /\ la' = made'
            /\ t' = la /\ copied' = copied /\ token[tokens].next = Null
        BY <2>2, <3>2 DEF ScanNew, Recognize, NextToken, Successor
      <4>2. tokens = made
        BY <1>2, <2>0, <4>1 DEF IInv, ListOrder, Null
      <4> QED BY <2>0, <4>1, <4>2 DEF Stream!Deliver, Dummy
    <3> QED BY <3>1, <3>2
  <2>3. CASE ScanPeeked
    <3>1. /\ tokens' = token[tokens].next /\ pt' = tokens' /\ la' = tokens'
          /\ t' = la /\ copied' = copied /\ token[tokens].next # Null
      BY <2>3 DEF ScanPeeked, Recognize, Successor
    <3>2. tokens' = tokens + 1
      BY <1>2, <2>0, <3>1, SuccessorNewer
    <3> QED BY <2>0, <3>1, <3>2 DEF Stream!Deliver, Dummy
  <2>4. CASE AfterPragma
    <3>1. CASE ~Exit
      <4>1. /\ copied' = (IF t = Dummy THEN copied ELSE t)
            /\ t' = Dummy /\ la' = Dummy /\ tokens' = tokens /\ pt' = pt
        BY <2>4, <3>1 DEF AfterPragma, CopiedToken
      <4> QED
        BY <4>1 DEF Stream!Drop
    <3> QED
      BY <2>1, <3>1
  <2>5. ASSUME NEW kind \in Kinds, NEW size \in TextSizes, PeekNew(kind, size)
        PROVE  Stream!Look \/ Exit
    <3>1. CASE TooLong(size)
      BY <2>5, <3>1 DEF PeekNew
    <3>2. CASE ~TooLong(size)
      <4>1. /\ made' = made + 1 /\ tokens' = tokens /\ pt' = made' /\ la' = la
            /\ t' = t /\ copied' = copied /\ token[pt].next = Null
        BY <2>5, <3>2 DEF PeekNew, NextToken, parserVars
      <4>2. pt = made
        BY <1>2, <2>0, <4>1 DEF IInv, ListOrder, Null
      <4> QED BY <4>1, <4>2 DEF Stream!Look
    <3> QED BY <3>1, <3>2
  <2>6. CASE PeekKnown
    <3>1. /\ pt' = token[pt].next /\ token[pt].next # Null /\ tokens' = tokens
          /\ t' = t /\ la' = la /\ copied' = copied
      BY <2>6 DEF PeekKnown, parserVars
    <3>2. tokens <= pt
      BY <1>2 DEF IInv, ListOrder
    <3>3. pt' = pt + 1
      BY <1>2, <2>0, <3>1, <3>2, SuccessorNewer
    <3> QED BY <3>1, <3>3 DEF Stream!Look
  <2>7. CASE ResetPeek
    BY <2>7 DEF ResetPeek, parserVars, Stream!LookAgain
  <2>8. CASE UNCHANGED heapVars
    BY <2>8 DEF heapVars
  <2> QED
    BY <1>2, <2>1, <2>2, <2>3, <2>4, <2>5, <2>6, <2>7, <2>8 DEF HeapNext
<1> QED
  BY <1>1, <1>2, HeapInvariance, PTL DEF HeapSpec, InOrder, Stream!StreamSpec
=============================================================================
