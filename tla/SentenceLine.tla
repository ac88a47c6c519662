---------------------------- MODULE SentenceLine ----------------------------
(***************************************************************************)
(* A NMEA0183 talker on the line that StreamToN183 reads.  The talker      *)
(* sends sentences: a start byte, a body, '*' and two checksum digits.     *)
(* A Noisy line may drop or garble any byte, and the gateway may be        *)
(* switched on in the middle of a sentence.                                *)
(***************************************************************************)
EXTENDS StreamToN183

CONSTANTS
  Lengths,  \* the lengths of sentences
  Noisy     \* whether the line drops and garbles bytes

ASSUME LineAssumption ==
  /\ Lengths \subseteq {n \in Nat : n >= 4}
  /\ Noisy \in BOOLEAN

VARIABLES
  sentence,   \* the sentence the talker is sending
  sent,       \* how many bytes of it were sent
  intact,     \* all of those arrived
  lastIntact  \* the sentence before it arrived as a whole

lineVars == << sentence, sent, intact, lastIntact >>
allVars == << framerVars, lineVars >>

(* The sentence of length n. *)
Sentence(n) ==
  [k \in 1 .. n |-> CASE k = 1 -> "start" [] k = n - 2 -> "star" [] OTHER -> "other"]

LineTypeOK ==
  /\ TypeOK
  /\ sentence \in {Sentence(n) : n \in Lengths}
  /\ sent \in 0 .. Len(sentence) - 1
  /\ intact \in BOOLEAN
  /\ lastIntact \in BOOLEAN

LineInit ==
  /\ Init
  /\ \E n \in Lengths : sentence = Sentence(n) /\ sent \in 0 .. n - 1
  /\ intact = (sent = 0)
  /\ lastIntact = FALSE

(* What the talker sends as byte b reaches the framer, or arrives as some  *)
(* other byte, or does not arrive.  ok: the sentence is still intact.      *)
Transfer(b, ok) ==
  \/ Read(b) /\ ok = intact
  \/ Noisy /\ ~ok /\ \E c \in Byte \ {b} : Read(c)
  \/ Noisy /\ ~ok /\ handed' = None /\ written' = {}
     /\ UNCHANGED << MsgInStarted, MsgInPos, MsgCheckSumStartPos, MsgInBuf >>

SendByte(ok) ==
  /\ sent + 1 < Len(sentence)
  /\ Transfer(sentence[sent + 1], ok)
  /\ sent' = sent + 1
  /\ intact' = ok
  /\ UNCHANGED << sentence, lastIntact >>

SendLast(ok) ==
  /\ sent + 1 = Len(sentence)
  /\ Transfer(sentence[sent + 1], ok)
  /\ lastIntact' = ok
  /\ \E n \in Lengths : sentence' = Sentence(n)
  /\ sent' = 0
  /\ intact' = TRUE

LineNext == \E ok \in BOOLEAN : SendByte(ok) \/ SendLast(ok)

LineSpec == LineInit /\ [][LineNext]_allVars

-----------------------------------------------------------------------------
(* Whatever the framer went through before, one sentence that arrives as a *)
(* whole is enough to get it back in step: the next one is handed over     *)
(* complete, when its last byte arrives, and nothing is handed over before *)
(* (StreamToN183.cpp:22-48; a sentence longer than the buffer is ignored). *)
BackInStep ==
  [][ /\ lastIntact
      /\ IF sent + 1 < Len(sentence) THEN intact' ELSE lastIntact'
      => handed' = IF sent + 1 = Len(sentence) /\ Len(sentence) <= BufLen
                   THEN sentence ELSE None ]_allVars
=============================================================================
