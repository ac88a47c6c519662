---------------------------- MODULE StreamToN183 ----------------------------
(***************************************************************************)
(* The class StreamToN183 (src/src/nmea/StreamToN183.h, StreamToN183.cpp): *)
(* it reads bytes from the serial port (Serial1) or from the Bluetooth GPS *)
(* and calls a handler with each complete sentence.  A byte only matters   *)
(* as the start of a sentence ('$', '!'), as the start of the checksum     *)
(* ('*') or as any other byte.                                             *)
(***************************************************************************)
EXTENDS Integers, Sequences

CONSTANTS
  BufLen,   \* MAX_NMEA0183_MSG_BUF_LEN
  SIZE_MAX  \* the largest size_t; as the position of '*': none so far

Index == 0 .. SIZE_MAX
Pos == 0 .. BufLen - 1

ASSUME FramerAssumption ==
  /\ BufLen \in Nat /\ BufLen >= 3
  /\ SIZE_MAX \in Nat /\ SIZE_MAX >= BufLen + 3

VARIABLES
  MsgInStarted,        \* in the middle of a sentence
  MsgInPos,            \* where the next byte goes
  MsgCheckSumStartPos, \* where the last '*' was put
  MsgInBuf,            \* what is in the buffer, by position
  handed,              \* the sentence the handler was just called with
  written              \* history: the indices of MsgInBuf just written to

framerVars ==
  << MsgInStarted, MsgInPos, MsgCheckSumStartPos, MsgInBuf, handed, written >>

Byte == {"start", "star", "other"}
Cell == Byte \cup {"zero"}
None == << >>

TypeOK ==
  /\ MsgInStarted \in BOOLEAN
  /\ MsgInPos \in Index
  /\ MsgCheckSumStartPos \in Index
  /\ MsgInBuf \in [Pos -> Cell]
  /\ handed \in Seq(Cell)
  /\ written \subseteq Index

(* The constructor leaves the members as the heap had them.  (What is in   *)
(* the buffer plays no part until it is overwritten.)                      *)
Init ==
  /\ MsgInStarted \in BOOLEAN
  /\ MsgInPos \in Index
  /\ MsgCheckSumStartPos \in Index
  /\ MsgInBuf = [p \in Pos |-> "other"]
  /\ handed = None
  /\ written = {}

-----------------------------------------------------------------------------
(* The iteration of parseMessage that reads a start byte. *)
ReadStart ==
  /\ MsgInStarted' = TRUE
  /\ MsgInPos' = 1
  /\ MsgInBuf' = [MsgInBuf EXCEPT ![0] = "start"]
  /\ handed' = None
  /\ written' = {0}
  /\ UNCHANGED MsgCheckSumStartPos

(* A byte between sentences is skipped. *)
ReadNoise ==
  /\ ~MsgInStarted
  /\ handed' = None
  /\ written' = {}
  /\ UNCHANGED << MsgInStarted, MsgInPos, MsgCheckSumStartPos, MsgInBuf >>

(* The sum of two size_t. *)
Plus(x, y) == IF x + y > SIZE_MAX THEN x + y - (SIZE_MAX + 1) ELSE x + y

(* What the iteration that reads byte b in a sentence compares. *)
NewCheckSumStartPos(b) == IF b = "star" THEN MsgInPos ELSE MsgCheckSumStartPos

FullMessage(b) ==
  /\ NewCheckSumStartPos(b) # SIZE_MAX
  /\ Plus(NewCheckSumStartPos(b), 3) = Plus(MsgInPos, 1)

(* Whether the iteration that reads b ends the sentence: b completes it,   *)
(* or fills the buffer.  (SentenceEndsOnlyComplete: a faulty variant.)     *)
SentenceEndsOnlyComplete(b) == FullMessage(b)
SentenceEnds(b) == FullMessage(b) \/ Plus(MsgInPos, 1) >= BufLen

(* Where the last '*' is after b (CheckSumKept: a faulty variant). *)
CheckSumKept(b) == NewCheckSumStartPos(b)
CheckSumAfter(b) == IF SentenceEnds(b) THEN SIZE_MAX ELSE NewCheckSumStartPos(b)

(* That iteration puts b at the cursor and, when b completes the sentence, *)
(* the terminating zero behind it, before the length is tested.            *)
Writes(b) == {MsgInPos} \cup IF FullMessage(b) THEN {Plus(MsgInPos, 1)} ELSE {}
BufferAfter(b) ==
  [p \in Pos |-> IF p = MsgInPos THEN b
                 ELSE IF p \in Writes(b) THEN "zero" ELSE MsgInBuf[p]]

(* The iteration that reads any other byte in a sentence; loop() calls the *)
(* handler when the sentence is complete.  The zero of a sentence that     *)
(* fills the buffer goes to MsgInBuf[BufLen], behind it, which changes     *)
(* nothing: there is padding, or MsgInPos, which is set right after.       *)
ReadByte(b) ==
  /\ MsgInStarted /\ MsgInPos \in Pos
  /\ MsgInBuf' = BufferAfter(b)
  /\ handed' = IF FullMessage(b)
               THEN [k \in 1 .. MsgInPos + 1 |-> MsgInBuf'[k - 1]] ELSE None
  /\ written' = Writes(b)
  /\ MsgInStarted' = ~SentenceEnds(b)
  /\ MsgInPos' = IF SentenceEnds(b) THEN 0 ELSE MsgInPos + 1
  /\ MsgCheckSumStartPos' = CheckSumAfter(b)

(* The same iteration with a cursor beyond the buffer: b overwrites other  *)
(* memory, possibly the other members, which then hold anything; and the   *)
(* handler may get what happens to be in the buffer.                       *)
StrayByte(b) ==
  /\ MsgInStarted /\ MsgInPos \notin Pos
  /\ MsgInBuf' = BufferAfter(b)
  /\ handed' \in {None, [k \in 1 .. BufLen |-> MsgInBuf'[k - 1]]}
  /\ written' = Writes(b)
  /\ MsgInStarted' \in BOOLEAN
  /\ MsgInPos' \in Index
  /\ MsgCheckSumStartPos' \in Index

Read(b) ==
  \/ b = "start" /\ ReadStart
  \/ b # "start" /\ ReadNoise
  \/ b # "start" /\ ReadByte(b)
  \/ b # "start" /\ StrayByte(b)

Next == \E b \in Byte : Read(b)

Spec == Init /\ [][Next]_framerVars

-----------------------------------------------------------------------------
(* The next byte of a sentence goes into the buffer. *)
InBuffer == MsgInStarted => MsgInPos < BufLen

(* Once the cursor is in the buffer, which every start byte brings about,  *)
(* it stays there whatever is read, and nothing is written outside but the *)
(* zero of a sentence that fills the buffer, right behind it               *)
(* (StreamToN183.cpp:31-48).                                               *)
WritesInBuffer ==
  [][ InBuffer =>
        /\ InBuffer'
        /\ \A i \in written' : i < BufLen \/ (i = BufLen /\ Len(handed') = BufLen)
    ]_framerVars
=============================================================================
