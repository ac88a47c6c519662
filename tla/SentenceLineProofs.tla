------------------------- MODULE SentenceLineProofs -------------------------
(***************************************************************************)
(* Theorems about SentenceLine: for every buffer size, all lengths of      *)
(* sentences, every content of the memory at power-on and every noise on   *)
(* the line, one sentence received as a whole puts the framer in step.     *)
(***************************************************************************)
EXTENDS SentenceLine, TLAPS

(* The framer follows, or has given up on, a sentence that is intact so    *)
(* far; what it remembers of an earlier '*' is unknown until the '*' of    *)
(* this one arrives.                                                       *)
Following ==
  \/ ~MsgInStarted /\ MsgCheckSumStartPos = SIZE_MAX
  \/ /\ MsgInStarted /\ MsgInPos = sent /\ sent < BufLen
     /\ sent >= Len(sentence) - 2 => MsgCheckSumStartPos = Len(sentence) - 3

(* The framer is in step with the sentence: it has all of it so far, and   *)
(* remembers no '*' but that of this sentence.                             *)
InStep ==
  IF sent < BufLen
  THEN /\ MsgInStarted /\ MsgInPos = sent
       /\ \A k \in 0 .. sent - 1 : MsgInBuf[k] = sentence[k + 1]
       /\ MsgCheckSumStartPos = IF sent >= Len(sentence) - 2
                                THEN Len(sentence) - 3 ELSE SIZE_MAX
  ELSE ~MsgInStarted /\ MsgCheckSumStartPos = SIZE_MAX

IInv ==
  /\ LineTypeOK
  /\ intact /\ sent > 0 => Following
  /\ lastIntact /\ sent = 0 => MsgCheckSumStartPos = SIZE_MAX
  /\ lastIntact /\ intact /\ sent > 0 => InStep

-----------------------------------------------------------------------------
LEMMA SentenceFacts ==
  ASSUME NEW n \in Lengths
  PROVE  /\ n \in Nat /\ n >= 4
         /\ Sentence(n) \in Seq(Byte)
         /\ Len(Sentence(n)) = n
         /\ Sentence(n)[1] = "start"
         /\ Sentence(n)[n - 2] = "star"
         /\ \A k \in 2 .. n : k # n - 2 => Sentence(n)[k] = "other"
  <1>1. n \in Nat /\ n >= 4
    BY LineAssumption
  <1>2. \A k \in 1 .. n : Sentence(n)[k] =
          CASE k = 1 -> "start" [] k = n - 2 -> "star" [] OTHER -> "other"
    BY DEF Sentence
  <1>3. \A k \in 1 .. n : Sentence(n)[k] \in Byte
    BY <1>2 DEF Byte
  <1>4. Sentence(n) \in [1 .. n -> Byte]
    BY <1>3 DEF Sentence
  <1>5. Sentence(n) \in Seq(Byte) /\ Len(Sentence(n)) = n
    BY <1>1, <1>4
  <1>6. 1 \in 1 .. n /\ n - 2 \in 1 .. n /\ n - 2 # 1
    BY <1>1
  <1>7. \A k \in 2 .. n : k \in 1 .. n /\ k # 1
    BY <1>1
  <1> QED
    BY <1>1, <1>2, <1>5, <1>6, <1>7

(* What TypeOK says of the sentence being sent. *)
LEMMA LineFacts ==
  ASSUME LineTypeOK
  PROVE  /\ Len(sentence) \in Nat /\ Len(sentence) >= 4
         /\ sent \in Nat /\ sent < Len(sentence)
         /\ sent = 0 => sentence[sent + 1] = "start"
         /\ sent + 1 = Len(sentence) - 2 => sentence[sent + 1] = "star"
         /\ sent > 0 /\ sent + 1 # Len(sentence) - 2
              => sentence[sent + 1] = "other"
         /\ sentence \in Seq(Byte)
         /\ BufLen \in Nat /\ BufLen >= 3
         /\ SIZE_MAX \in Nat /\ SIZE_MAX >= BufLen + 3
         /\ MsgInPos \in Nat /\ MsgCheckSumStartPos \in Nat
  <1>1. PICK n \in Lengths : sentence = Sentence(n)
    BY DEF LineTypeOK
  <1>2. /\ n \in Nat /\ n >= 4 /\ Len(sentence) = n
        /\ sent \in Nat /\ sent < n
        /\ BufLen \in Nat /\ BufLen >= 3
        /\ SIZE_MAX \in Nat /\ SIZE_MAX >= BufLen + 3
        /\ MsgInPos \in Nat /\ MsgCheckSumStartPos \in Nat
    BY <1>1, SentenceFacts, FramerAssumption DEF LineTypeOK, TypeOK, Index
  <1> QED
    BY <1>1, <1>2, SentenceFacts

-----------------------------------------------------------------------------
LEMMA ConstantFacts ==
  /\ BufLen \in Nat /\ BufLen >= 3
  /\ SIZE_MAX \in Nat /\ SIZE_MAX >= BufLen + 3
  /\ Pos \subseteq Index /\ 0 \in Pos /\ 1 \in Pos /\ SIZE_MAX \in Index
  BY FramerAssumption DEF Pos, Index

(* A sum of two size_t is one; near the buffer nothing wraps. *)
LEMMA PlusFacts ==
  ASSUME NEW x \in Index, NEW y \in {1, 3}
  PROVE  /\ Plus(x, y) \in Index
         /\ x + y <= SIZE_MAX => Plus(x, y) = x + y
  BY ConstantFacts DEF Plus, Index

LEMMA WritesType ==
  ASSUME TypeOK, NEW b \in Byte
  PROVE  /\ NewCheckSumStartPos(b) \in Index
         /\ Writes(b) \subseteq Index
         /\ BufferAfter(b) \in [Pos -> Cell]
  <1>1. MsgInPos \in Index /\ Plus(MsgInPos, 1) \in Index
    BY PlusFacts DEF TypeOK
  <1> QED
    BY <1>1 DEF Writes, BufferAfter, NewCheckSumStartPos, TypeOK, Cell

(* The string that the handler gets. *)
LEMMA HandedType ==
  ASSUME NEW buf \in [Pos -> Cell], NEW n \in Nat, n <= BufLen
  PROVE  [k \in 1 .. n |-> buf[k - 1]] \in Seq(Cell)
  <1>1. \A k \in 1 .. n : k - 1 \in Pos
    BY ConstantFacts DEF Pos
  <1>2. [k \in 1 .. n |-> buf[k - 1]] \in [1 .. n -> Cell]
    BY <1>1
  <1> QED
    BY <1>2

(* Every iteration of parseMessage keeps the types. *)
LEMMA ReadType ==
  ASSUME TypeOK, NEW b \in Byte, Read(b)
  PROVE  TypeOK'
  <1>0. None \in Seq(Cell)
    BY DEF None
  <1>1. CASE ReadStart
    <2>1. 0 \in Pos /\ 0 \in Index /\ 1 \in Index /\ "start" \in Cell
      BY ConstantFacts DEF Byte, Cell
    <2> QED
      BY <1>0, <1>1, <2>1 DEF ReadStart, TypeOK
  <1>2. CASE ReadNoise
    BY <1>0, <1>2 DEF ReadNoise, TypeOK
  <1>3. CASE ReadByte(b)
    <2>1. MsgInBuf' \in [Pos -> Cell] /\ written' \subseteq Index
      BY <1>3, WritesType DEF ReadByte
    <2>2. handed' \in Seq(Cell)
      <3>1. MsgInPos + 1 \in Nat /\ MsgInPos + 1 <= BufLen
        BY <1>3, ConstantFacts DEF ReadByte, Pos
      <3>2. [k \in 1 .. MsgInPos + 1 |-> MsgInBuf'[k - 1]] \in Seq(Cell)
        BY <2>1, <3>1, HandedType
      <3> QED
        BY <1>0, <1>3, <3>2 DEF ReadByte
    <2>3. MsgInPos' \in Index /\ MsgInStarted' \in BOOLEAN
      <3>1. 0 \in Index /\ MsgInPos + 1 \in Index
        BY <1>3, ConstantFacts DEF ReadByte, Pos, Index
      <3>2. CASE SentenceEnds(b)
        BY <1>3, <3>1, <3>2 DEF ReadByte
      <3>3. CASE ~SentenceEnds(b)
        BY <1>3, <3>1, <3>3 DEF ReadByte
      <3> QED
        BY <3>2, <3>3
    <2>4. MsgCheckSumStartPos' \in Index
      BY <1>3, ConstantFacts, WritesType DEF ReadByte, CheckSumAfter
    <2> QED
      BY <2>1, <2>2, <2>3, <2>4 DEF TypeOK
  <1>4. CASE StrayByte(b)
    <2>1. MsgInBuf' \in [Pos -> Cell] /\ written' \subseteq Index
      BY <1>4, WritesType DEF StrayByte
    <2>2. [k \in 1 .. BufLen |-> MsgInBuf'[k - 1]] \in Seq(Cell)
      BY <2>1, ConstantFacts, HandedType
    <2> QED
      BY <1>0, <1>4, <2>1, <2>2 DEF StrayByte, TypeOK
  <1> QED
    BY <1>1, <1>2, <1>3, <1>4 DEF Read

(* One iteration, with the cursor in the buffer. *)
LEMMA ReadInBuffer ==
  ASSUME TypeOK, InBuffer, NEW b \in Byte, Read(b)
  PROVE  /\ InBuffer'
         /\ \A i \in written' : i < BufLen \/ (i = BufLen /\ Len(handed') = BufLen)
  <1>1. CASE ReadStart
    BY <1>1, ConstantFacts DEF ReadStart, InBuffer
  <1>2. CASE ReadNoise
    BY <1>2 DEF ReadNoise, InBuffer
  <1>3. CASE ReadByte(b)
    <2>1. /\ MsgInPos \in Nat /\ MsgInPos < BufLen
          /\ Plus(MsgInPos, 1) = MsgInPos + 1
      <3>1. MsgInPos \in Nat /\ MsgInPos < BufLen
        BY <1>3, ConstantFacts DEF ReadByte, Pos
      <3>2. MsgInPos + 1 <= SIZE_MAX
        BY <3>1, ConstantFacts
      <3> QED
        BY <3>1, <3>2, PlusFacts DEF TypeOK
    <2>2. InBuffer'
      BY <1>3, <2>1, ConstantFacts DEF ReadByte, SentenceEnds, InBuffer
    <2>3. ASSUME NEW i \in written', ~(i < BufLen)
          PROVE  i = BufLen /\ Len(handed') = BufLen
      <3>1. i \in {MsgInPos, MsgInPos + 1} /\ (i # MsgInPos => FullMessage(b))
        BY <1>3, <2>1, <2>3 DEF ReadByte, Writes
      <3>2. FullMessage(b) /\ i = MsgInPos + 1 /\ i = BufLen
        BY <2>1, <2>3, <3>1, ConstantFacts
      <3>3. handed' = [k \in 1 .. BufLen |-> MsgInBuf'[k - 1]]
        BY <1>3, <3>2 DEF ReadByte
      <3> QED
        BY <3>2, <3>3, ConstantFacts
    <2> QED
      BY <2>2, <2>3
  <1>4. CASE StrayByte(b)
    BY <1>4, ConstantFacts DEF StrayByte, InBuffer, Pos, TypeOK, Index
  <1> QED
    BY <1>1, <1>2, <1>3, <1>4 DEF Read

LEMMA TransferType ==
  ASSUME TypeOK, NEW b \in Byte, NEW ok \in BOOLEAN, Transfer(b, ok)
  PROVE  TypeOK'
  <1>1. ASSUME NEW c \in Byte, Read(c) PROVE TypeOK'
    BY <1>1, ReadType
  <1>2. CASE /\ handed' = None /\ written' = {}
             /\ UNCHANGED << MsgInStarted, MsgInPos, MsgCheckSumStartPos, MsgInBuf >>
    BY <1>2 DEF TypeOK, None
  <1> QED
    BY <1>1, <1>2 DEF Transfer

(* The cursor in a sentence that fits in the buffer so far. *)
LEMMA CursorFacts ==
  ASSUME LineTypeOK, MsgInPos = sent, sent < BufLen
  PROVE  /\ MsgInPos \in Pos /\ Plus(MsgInPos, 1) = sent + 1
         /\ \A c \in Nat : c <= BufLen => c # SIZE_MAX /\ Plus(c, 3) = c + 3
  <1>1. sent \in Nat /\ MsgInPos \in Index
    BY LineFacts DEF LineTypeOK, TypeOK
  <1>2. MsgInPos \in Pos /\ MsgInPos + 1 <= SIZE_MAX
    BY <1>1, ConstantFacts DEF Pos
  <1>3. ASSUME NEW c \in Nat, c <= BufLen
        PROVE  c \in Index /\ c # SIZE_MAX /\ c + 3 <= SIZE_MAX
    BY <1>3, ConstantFacts DEF Index
  <1> QED
    BY <1>1, <1>2, <1>3, PlusFacts

(* The effect on the framer of the next byte of an intact sentence. *)
LEMMA NextByte ==
  ASSUME IInv, intact, Read(sentence[sent + 1])
  PROVE  /\ sent + 1 < Len(sentence) =>
              \/ ~MsgInStarted' /\ MsgCheckSumStartPos' = SIZE_MAX
              \/ /\ MsgInStarted' /\ MsgInPos' = sent + 1 /\ sent + 1 < BufLen
                 /\ sent + 1 >= Len(sentence) - 2
                      => MsgCheckSumStartPos' = Len(sentence) - 3
         /\ sent + 1 = Len(sentence) => MsgCheckSumStartPos' = SIZE_MAX
  <1>1. LineTypeOK
    BY DEF IInv
  <1>2. CASE sent = 0
    <2>1. ReadStart
      BY <1>1, <1>2, LineFacts DEF Read
    <2>2. MsgInStarted' /\ MsgInPos' = 1
      BY <2>1 DEF ReadStart
    <2>3. Len(sentence) \in Nat /\ Len(sentence) >= 4 /\ BufLen \in Nat /\ BufLen >= 3
      BY <1>1, LineFacts
    <2>4. /\ 1 = sent + 1 /\ sent + 1 < BufLen
          /\ ~(sent + 1 >= Len(sentence) - 2) /\ sent + 1 # Len(sentence)
      BY <1>2, <2>3
    <2> QED
      BY <2>2, <2>4
  <1>3. CASE sent > 0 /\ ~MsgInStarted
    <2>1. sentence[sent + 1] # "start"
      BY <1>1, <1>3, LineFacts
    <2>2. ReadNoise
      BY <1>3, <2>1 DEF Read, ReadByte, StrayByte
    <2>3. MsgCheckSumStartPos = SIZE_MAX
      BY <1>3 DEF IInv, Following
    <2> QED
      BY <1>3, <2>2, <2>3 DEF ReadNoise
  <1>4. CASE sent > 0 /\ MsgInStarted
    <2> DEFINE b == sentence[sent + 1]
               c == NewCheckSumStartPos(b)
    <2>1. b # "start" /\ (b = "star" <=> sent + 1 = Len(sentence) - 2)
      BY <1>1, <1>4, LineFacts
    <2>2. /\ MsgInPos = sent /\ sent < BufLen
          /\ sent >= Len(sentence) - 2 => MsgCheckSumStartPos = Len(sentence) - 3
      BY <1>4, <1>1, LineFacts DEF IInv, Following
    <2>3. ReadByte(b)
      BY <1>1, <1>4, <2>1, <2>2, CursorFacts DEF Read, ReadNoise, StrayByte
    <2>4. sent + 1 >= Len(sentence) - 2 => c = Len(sentence) - 3
      BY <2>1, <2>2, <1>1, LineFacts DEF NewCheckSumStartPos
    <2>5. sent + 1 = Len(sentence) => FullMessage(b)
      <3> HAVE sent + 1 = Len(sentence)
      <3>1. c = Len(sentence) - 3 /\ c \in Nat /\ c <= BufLen
        BY <2>2, <2>4, <1>1, LineFacts
      <3>2. Plus(c, 3) = c + 3 /\ c # SIZE_MAX /\ Plus(MsgInPos, 1) = sent + 1
        BY <1>1, <2>2, <3>1, CursorFacts
      <3> QED
        BY <1>1, <3>1, <3>2, LineFacts DEF FullMessage
    <2>6. IF FullMessage(b) \/ sent + 1 >= BufLen
          THEN ~MsgInStarted' /\ MsgCheckSumStartPos' = SIZE_MAX
          ELSE MsgInStarted' /\ MsgInPos' = sent + 1 /\ MsgCheckSumStartPos' = c
      <3>1. Plus(MsgInPos, 1) = sent + 1
        BY <1>1, <2>2, CursorFacts
      <3> QED
        BY <1>4, <2>2, <2>3, <3>1 DEF ReadByte, SentenceEnds, CheckSumAfter
    <2> QED
      BY <2>4, <2>5, <2>6, <1>1, LineFacts
  <1> QED
    BY <1>1, <1>2, <1>3, <1>4, LineFacts

(* The effect of the next byte of an intact sentence that follows another. *)
LEMMA NextByteInStep ==
  ASSUME IInv, intact, lastIntact, Read(sentence[sent + 1])
  PROVE  /\ handed' = IF sent + 1 = Len(sentence) /\ Len(sentence) <= BufLen
                      THEN sentence ELSE None
         /\ sent + 1 < Len(sentence) =>
              IF sent + 1 < BufLen
              THEN /\ MsgInStarted' /\ MsgInPos' = sent + 1
                   /\ \A k \in 0 .. sent : MsgInBuf'[k] = sentence[k + 1]
                   /\ MsgCheckSumStartPos' = IF sent + 1 >= Len(sentence) - 2
                                             THEN Len(sentence) - 3 ELSE SIZE_MAX
              ELSE ~MsgInStarted' /\ MsgCheckSumStartPos' = SIZE_MAX
  <1>1. LineTypeOK /\ MsgInBuf \in [Pos -> Cell]
    BY DEF IInv, LineTypeOK, TypeOK
  <1>2. CASE sent = 0
    <2>1. ReadStart
      BY <1>1, <1>2, LineFacts DEF Read
    <2>2. MsgCheckSumStartPos = SIZE_MAX
      BY <1>2 DEF IInv
    <2>3. \A k \in 0 .. sent : MsgInBuf'[k] = sentence[k + 1]
      <3>1. 0 \in Pos /\ sentence[1] = "start"
        BY <1>1, <1>2, LineFacts DEF Pos
      <3>2. MsgInBuf'[0] = "start"
        BY <2>1, <3>1, <1>1 DEF ReadStart
      <3> QED
        BY <3>1, <3>2, <1>2
    <2>4. MsgInStarted' /\ MsgInPos' = 1 /\ handed' = None
          /\ MsgCheckSumStartPos' = SIZE_MAX
      BY <2>1, <2>2 DEF ReadStart
    <2>5. Len(sentence) \in Nat /\ Len(sentence) >= 4 /\ BufLen \in Nat /\ BufLen >= 3
      BY <1>1, LineFacts
    <2>6. /\ 1 = sent + 1 /\ sent + 1 < BufLen
          /\ ~(sent + 1 >= Len(sentence) - 2) /\ sent + 1 # Len(sentence)
      BY <1>2, <2>5
    <2> QED
      BY <2>3, <2>4, <2>6
  <1>3. CASE sent > 0 /\ sent >= BufLen
    <2>1. ~MsgInStarted /\ MsgCheckSumStartPos = SIZE_MAX
      BY <1>1, <1>3, LineFacts DEF IInv, InStep
    <2>2. sentence[sent + 1] # "start"
      BY <1>1, <1>3, LineFacts
    <2>3. ReadNoise
      BY <2>1, <2>2 DEF Read, ReadByte, StrayByte
    <2> QED
      BY <1>1, <1>3, <2>1, <2>3, LineFacts DEF ReadNoise
  <1>4. CASE sent > 0 /\ sent < BufLen
    <2> DEFINE b == sentence[sent + 1]
               c == NewCheckSumStartPos(b)
    <2>1. /\ MsgInStarted /\ MsgInPos = sent
          /\ \A k \in 0 .. sent - 1 : MsgInBuf[k] = sentence[k + 1]
          /\ MsgCheckSumStartPos = IF sent >= Len(sentence) - 2
                                   THEN Len(sentence) - 3 ELSE SIZE_MAX
      BY <1>4, <1>1, LineFacts DEF IInv, InStep
    <2>2. b # "start" /\ (b = "star" <=> sent + 1 = Len(sentence) - 2)
      BY <1>1, <1>4, LineFacts
    <2>3. ReadByte(b)
      BY <1>1, <1>4, <2>1, <2>2, CursorFacts DEF Read, ReadNoise, StrayByte
    <2>4. c = IF sent + 1 >= Len(sentence) - 2 THEN Len(sentence) - 3 ELSE SIZE_MAX
      BY <2>1, <2>2, <1>1, LineFacts DEF NewCheckSumStartPos
    <2>5. FullMessage(b) <=> sent + 1 = Len(sentence)
      <3>1. Plus(MsgInPos, 1) = sent + 1
        BY <1>1, <1>4, <2>1, CursorFacts
      <3>2. CASE sent + 1 >= Len(sentence) - 2
        <4>1. c = Len(sentence) - 3 /\ c \in Nat /\ c <= BufLen
          BY <2>4, <3>2, <1>1, <1>4, LineFacts
        <4>2. Plus(c, 3) = c + 3 /\ c # SIZE_MAX
          BY <1>1, <1>4, <2>1, <4>1, CursorFacts
        <4> QED
          BY <1>1, <3>1, <4>1, <4>2, LineFacts DEF FullMessage
      <3>3. CASE ~(sent + 1 >= Len(sentence) - 2)
        BY <1>1, <2>4, <3>3, LineFacts DEF FullMessage
      <3> QED
        BY <3>2, <3>3
    <2>6. MsgInBuf' = BufferAfter(b)
      BY <2>3 DEF ReadByte
    <2>7. \A k \in 0 .. sent : MsgInBuf'[k] = sentence[k + 1]
      <3>1. \A k \in 0 .. sent : k \in Pos /\ k # sent + 1
        BY <1>1, <1>4, LineFacts DEF Pos
      <3>2. \A k \in 0 .. sent : k # sent => k \in 0 .. sent - 1
        BY <1>1, LineFacts
      <3>3. Writes(b) \subseteq {sent, sent + 1}
        BY <1>1, <1>4, <2>1, CursorFacts DEF Writes
      <3>4. sentence[sent + 1] = b
        OBVIOUS
      <3>5. ASSUME NEW k \in 0 .. sent PROVE MsgInBuf'[k] = sentence[k + 1]
        <4>1. CASE k = sent
          BY <2>1, <2>6, <3>1, <4>1 DEF BufferAfter
        <4>2. CASE k # sent
          <5>1. k \notin Writes(b) /\ k # MsgInPos /\ k \in Pos
            BY <2>1, <3>1, <3>3, <4>2
          <5> QED
            BY <2>1, <2>6, <3>2, <4>2, <5>1 DEF BufferAfter
        <4> QED
          BY <4>1, <4>2
      <3> QED
        BY <3>5
    <2>8. sent + 1 = Len(sentence) => handed' = sentence
      <3> HAVE sent + 1 = Len(sentence)
      <3>1. handed' = [k \in 1 .. sent + 1 |-> MsgInBuf'[k - 1]]
        BY <2>1, <2>3, <2>5 DEF ReadByte
      <3>2. \A k \in 1 .. sent + 1 : MsgInBuf'[k - 1] = sentence[k]
        BY <2>7, <1>1, LineFacts
      <3>3. sentence = [k \in 1 .. Len(sentence) |-> sentence[k]]
        BY <1>1, LineFacts
      <3> QED
        BY <3>1, <3>2, <3>3
    <2>9. sent + 1 # Len(sentence) => handed' = None
      BY <2>3, <2>5 DEF ReadByte
    <2>10. IF FullMessage(b) \/ sent + 1 >= BufLen
           THEN ~MsgInStarted' /\ MsgCheckSumStartPos' = SIZE_MAX
           ELSE MsgInStarted' /\ MsgInPos' = sent + 1 /\ MsgCheckSumStartPos' = c
      <3>1. Plus(MsgInPos, 1) = sent + 1
        BY <1>1, <1>4, <2>1, CursorFacts
      <3> QED
        BY <2>1, <2>3, <3>1 DEF ReadByte, SentenceEnds, CheckSumAfter
    <2> QED
      BY <2>4, <2>5, <2>7, <2>8, <2>9, <2>10, <1>1, <1>4, LineFacts
  <1> QED
    BY <1>1, <1>2, <1>3, <1>4, LineFacts

-----------------------------------------------------------------------------
LEMMA InitIInv == LineInit => IInv
  <1> SUFFICES ASSUME LineInit PROVE IInv
    OBVIOUS
  <1>1. PICK n \in Lengths : sentence = Sentence(n) /\ sent \in 0 .. n - 1
    BY DEF LineInit
  <1>2. Len(sentence) = n
    BY <1>1, SentenceFacts
  <1>3. TypeOK
    <2>1. None \in Seq(Cell)
      BY DEF None
    <2> QED
      BY <2>1 DEF LineInit, Init, TypeOK, Byte, Cell
  <1>4. intact \in BOOLEAN /\ lastIntact \in BOOLEAN /\ ~lastIntact
        /\ (intact => sent = 0)
    BY DEF LineInit
  <1>5. LineTypeOK
    BY <1>1, <1>2, <1>3, <1>4 DEF LineTypeOK
  <1>6. ~(intact /\ sent > 0)
    BY <1>4
  <1> QED
    BY <1>4, <1>5, <1>6 DEF IInv

LEMMA SendByteIInv ==
  ASSUME IInv, NEW ok \in BOOLEAN, SendByte(ok)
  PROVE  IInv'
  <1>1. LineTypeOK
    BY DEF IInv
  <1>2. sentence[sent + 1] \in Byte
    BY <1>1, LineFacts DEF Byte
  <1>3. LineTypeOK'
    <2>1. TypeOK'
      BY <1>1, <1>2, TransferType DEF SendByte, LineTypeOK
    <2> QED
      BY <1>1, <2>1, LineFacts DEF SendByte, LineTypeOK
  <1>4. sent' = sent + 1 /\ sent' > 0 /\ sentence' = sentence
        /\ lastIntact' = lastIntact /\ intact' = ok /\ sent + 1 < Len(sentence)
    BY <1>1, LineFacts DEF SendByte
  <1>5. ASSUME ok PROVE intact /\ Read(sentence[sent + 1])
    BY <1>5 DEF SendByte, Transfer
  <1>6. ok => Following'
    BY <1>4, <1>5, NextByte DEF Following
  <1>7. ok /\ lastIntact => InStep'
    BY <1>1, <1>4, <1>5, NextByteInStep, LineFacts DEF InStep
  <1> QED
    BY <1>1, <1>3, <1>4, <1>6, <1>7, LineFacts DEF IInv

LEMMA SendLastIInv ==
  ASSUME IInv, NEW ok \in BOOLEAN, SendLast(ok)
  PROVE  IInv'
  <1>1. LineTypeOK
    BY DEF IInv
  <1>2. sentence[sent + 1] \in Byte
    BY <1>1, LineFacts DEF Byte
  <1>3. PICK n \in Lengths : sentence' = Sentence(n)
    BY DEF SendLast
  <1>4. LineTypeOK'
    <2>1. TypeOK'
      BY <1>1, <1>2, TransferType DEF SendLast, LineTypeOK
    <2>2. Len(sentence') = n /\ n \in Nat /\ n >= 4
      BY <1>3, SentenceFacts
    <2> QED
      BY <1>3, <2>1, <2>2 DEF SendLast, LineTypeOK
  <1>5. sent' = 0 /\ lastIntact' = ok /\ sent + 1 = Len(sentence)
    BY DEF SendLast
  <1>6. ASSUME ok PROVE MsgCheckSumStartPos' = SIZE_MAX
    BY <1>5, <1>6, NextByte DEF SendLast, Transfer
  <1> QED
    BY <1>4, <1>5, <1>6 DEF IInv

LEMMA NextIInv == IInv /\ [LineNext]_allVars => IInv'
  <1> SUFFICES ASSUME IInv, [LineNext]_allVars PROVE IInv'
    OBVIOUS
  <1>1. CASE UNCHANGED allVars
    BY <1>1 DEF allVars, framerVars, lineVars, IInv, LineTypeOK, TypeOK, Following, InStep
  <1> QED
    BY <1>1, SendByteIInv, SendLastIInv DEF LineNext

(* Whatever is on the line: a framer with its cursor in the buffer never   *)
(* writes outside of it, but for the zero behind a sentence that fills it. *)
THEOREM WritesStayInBuffer == LineSpec => WritesInBuffer
  <1> DEFINE A ==
        InBuffer =>
          /\ InBuffer'
          /\ \A i \in written' : i < BufLen \/ (i = BufLen /\ Len(handed') = BufLen)
  <1>1. ASSUME IInv, LineNext PROVE A
    <2>1. LineTypeOK /\ TypeOK
      BY <1>1 DEF IInv, LineTypeOK
    <2>2. PICK ok \in BOOLEAN : Transfer(sentence[sent + 1], ok)
      <3>1. sent \in Nat /\ Len(sentence) \in Nat
        BY <2>1, LineFacts
      <3> QED
        BY <1>1, <3>1 DEF LineNext, SendByte, SendLast
    <2>3. sentence[sent + 1] \in Byte
      BY <2>1, LineFacts DEF Byte
    <2>4. ASSUME NEW c \in Byte, Read(c) PROVE A
      BY <2>1, <2>4, ReadInBuffer
    <2>5. CASE /\ handed' = None /\ written' = {}
               /\ UNCHANGED << MsgInStarted, MsgInPos, MsgCheckSumStartPos, MsgInBuf >>
      BY <2>5 DEF InBuffer
    <2> QED
      BY <2>2, <2>3, <2>4, <2>5 DEF Transfer
  <1>2. IInv /\ [LineNext]_allVars => [A]_framerVars
    BY <1>1 DEF allVars
  <1> QED
    BY <1>2, InitIInv, NextIInv, PTL DEF LineSpec, WritesInBuffer

(* After one sentence that arrives as a whole, the framer is in step. *)
THEOREM OneSentenceIsEnough == LineSpec => BackInStep
  <1> DEFINE A ==
        /\ lastIntact
        /\ IF sent + 1 < Len(sentence) THEN intact' ELSE lastIntact'
        => handed' = IF sent + 1 = Len(sentence) /\ Len(sentence) <= BufLen
                     THEN sentence ELSE None
  <1>1. ASSUME IInv, LineNext PROVE A
    <2> SUFFICES ASSUME lastIntact,
                        IF sent + 1 < Len(sentence) THEN intact' ELSE lastIntact'
                 PROVE  handed' = IF sent + 1 = Len(sentence) /\ Len(sentence) <= BufLen
                                  THEN sentence ELSE None
      OBVIOUS
    <2>1. PICK ok \in BOOLEAN : SendByte(ok) \/ SendLast(ok)
      BY <1>1 DEF LineNext
    <2>2. ok /\ Transfer(sentence[sent + 1], ok)
      <3>1. sent \in Nat /\ Len(sentence) \in Nat
        BY <1>1, LineFacts DEF IInv
      <3>2. CASE SendByte(ok)
        BY <3>2 DEF SendByte
      <3>3. CASE SendLast(ok)
        BY <3>1, <3>3 DEF SendLast
      <3> QED
        BY <2>1, <3>2, <3>3
    <2>3. intact /\ Read(sentence[sent + 1])
      BY <2>2 DEF Transfer
    <2> QED
      BY <1>1, <2>3, NextByteInStep
  <1>2. IInv /\ [LineNext]_allVars => [A]_allVars
    BY <1>1
  <1> QED
    BY <1>2, InitIInv, NextIInv, PTL DEF LineSpec, BackInStep
=============================================================================
