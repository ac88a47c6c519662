-------------------------- MODULE RoutePagesProofs --------------------------
(***************************************************************************)
(* What RoutePages makes of every route: the messages announce it as a     *)
(* whole and in order, and there are no more of them than it takes.  The   *)
(* recursive functions of RoutePages are reasoned about by their least     *)
(* counterexample.                                                         *)
(***************************************************************************)
EXTENDS RoutePages, FiniteSetTheorems, SequenceTheorems, WellFoundedInduction, TLAPS

-----------------------------------------------------------------------------
(* A set of natural numbers has a least element; up to a bound, it has a   *)
(* greatest.                                                               *)
LEMMA LeastElement ==
  ASSUME NEW T, T \subseteq Nat, T # {}
  PROVE  \E n \in T : \A m \in T : n <= m
<1>1. PICK n \in T : \A m \in T : ~ (<<m, n>> \in OpToRel(<, Nat))
  BY NatLessThanWellFounded, WFMin
<1>2. ASSUME NEW m \in T, m < n  PROVE <<m, n>> \in OpToRel(<, Nat)
  <2>1. <<m, n>> \in Nat \X Nat /\ <<m, n>>[1] < <<m, n>>[2]
    BY <1>2
  <2>. QED  BY ONLY <2>1 DEF OpToRel
<1>3. n \in Nat /\ \A m \in T : m \in Nat
  OBVIOUS
<1>4. \A m \in T : ~ (m < n)
  BY <1>1, <1>2
<1>. QED  BY <1>3, <1>4

LEMMA GreatestElement ==
  ASSUME NEW T, T \subseteq Nat, T # {}, NEW top \in Nat, \A n \in T : n <= top
  PROVE  \E n \in T : \A m \in T : m <= n
<1>. DEFINE U == {top - n : n \in T}
<1>1. U \subseteq Nat /\ U # {}
  <2>1. \A n \in T : n \in Nat /\ n <= top
    OBVIOUS
  <2>2. \A n \in T : top - n \in Nat
    BY <2>1
  <2>. QED  BY <2>2
<1>2. PICK u \in U : \A v \in U : u <= v
  BY <1>1, LeastElement
<1>3. PICK n \in T : u = top - n
  BY <1>2
<1>4. ASSUME NEW m \in T  PROVE m <= n
  <2>1. top - m \in U
    OBVIOUS
  <2>2. u <= top - m
    BY <1>2, <2>1
  <2>. QED  BY <1>3, <2>2
<1>. QED  BY <1>3, <1>4

(* What holds of 0 and fails for some number fails for a first one.        *)
LEMMA FirstFailure ==
  ASSUME NEW T, T \subseteq Nat, T # {}, 0 \notin T
  PROVE  \E n \in T : n \in Nat /\ n # 0 /\ n - 1 \in Nat /\ n - 1 \notin T
<1>1. PICK n \in T : \A m \in T : n <= m
  BY LeastElement
<1>2. n \in Nat /\ n # 0
  BY <1>1
<1>3. n - 1 \in Nat /\ ~ (n <= n - 1)
  BY <1>2
<1>. QED  BY <1>1, <1>2, <1>3

-----------------------------------------------------------------------------
(* A route with a waypoint to start from, all of whose waypoints fit in an *)
(* empty message; and one without waypoints.                               *)
Announceable(r) ==
  /\ r.takes \in Seq(1 .. Room)
  /\ r.origin \in Nat
  /\ r.origin <= Size(r)

(* The recursive functions of RoutePages are defined for every route and   *)
(* all messages.                                                           *)
LEMMA BytesDef ==
  ASSUME NEW r, Size(r) \in Nat
  PROVE  Bytes(r) = [k \in 0 .. Size(r) |-> IF k = 0 THEN 0 ELSE Bytes(r)[k - 1] + r.takes[k]]
<1>. DEFINE Good(n, g) == g = [k \in 0 .. n |-> IF k = 0 THEN 0 ELSE g[k - 1] + r.takes[k]]
            Bad == {n \in Nat : ~ \E g : Good(n, g)}
<1>1. Bad = {}
  <2>. SUFFICES ASSUME Bad # {}  PROVE FALSE
    OBVIOUS
  <2>1. Good(0, [k \in 0 .. 0 |-> 0])
    OBVIOUS
  <2>2. 0 \notin Bad
    BY <2>1
  <2>3. PICK n \in Bad : n \in Nat /\ n # 0 /\ n - 1 \in Nat /\ n - 1 \notin Bad
    BY <2>2, FirstFailure
  <2>4. PICK g : Good(n - 1, g)
    BY <2>3
  <2>5. Good(n, [k \in 0 .. n |-> IF k = n THEN g[n - 1] + r.takes[n] ELSE g[k]])
    BY <2>3, <2>4
  <2>. QED  BY <2>3, <2>5
<1>2. \E g : Good(Size(r), g)
  BY <1>1
<1>. QED  BY <1>2 DEF Bytes

LEMMA MadeDef ==
  ASSUME NEW r, Len(Slots(r)) \in Nat
  PROVE  Made(r) = [k \in 0 .. Len(Slots(r)) |->
                      IF k = 0 THEN NewMessage(<< >>, 0)
                      ELSE AppendWaypoint(r, Made(r)[k - 1], Slots(r)[k])]
<1>. DEFINE Good(n, g) ==
              g = [k \in 0 .. n |-> IF k = 0 THEN NewMessage(<< >>, 0)
                                    ELSE AppendWaypoint(r, g[k - 1], Slots(r)[k])]
            Bad == {n \in Nat : ~ \E g : Good(n, g)}
<1>1. Bad = {}
  <2>. SUFFICES ASSUME Bad # {}  PROVE FALSE
    OBVIOUS
  <2>1. Good(0, [k \in 0 .. 0 |-> NewMessage(<< >>, 0)])
    OBVIOUS
  <2>2. 0 \notin Bad
    BY <2>1
  <2>3. PICK n \in Bad : n \in Nat /\ n # 0 /\ n - 1 \in Nat /\ n - 1 \notin Bad
    BY <2>2, FirstFailure
  <2>4. PICK g : Good(n - 1, g)
    BY <2>3
  <2>5. Good(n, [k \in 0 .. n |-> IF k = n THEN AppendWaypoint(r, g[n - 1], Slots(r)[n]) ELSE g[k]])
    BY <2>3, <2>4
  <2>. QED  BY <2>3, <2>5
<1>2. \E g : Good(Len(Slots(r)), g)
  BY <1>1
<1>. QED  BY <1>2 DEF Made

LEMMA AnnouncedByDef ==
  ASSUME NEW messages, Len(messages) \in Nat
  PROVE  AnnouncedBy(messages) =
           [k \in 0 .. Len(messages) |->
              IF k = 0 THEN << >> ELSE AnnouncedBy(messages)[k - 1] \o messages[k].slots]
<1>. DEFINE Good(n, g) ==
              g = [k \in 0 .. n |-> IF k = 0 THEN << >> ELSE g[k - 1] \o messages[k].slots]
            Bad == {n \in Nat : ~ \E g : Good(n, g)}
<1>1. Bad = {}
  <2>. SUFFICES ASSUME Bad # {}  PROVE FALSE
    OBVIOUS
  <2>1. Good(0, [k \in 0 .. 0 |-> << >>])
    OBVIOUS
  <2>2. 0 \notin Bad
    BY <2>1
  <2>3. PICK n \in Bad : n \in Nat /\ n # 0 /\ n - 1 \in Nat /\ n - 1 \notin Bad
    BY <2>2, FirstFailure
  <2>4. PICK g : Good(n - 1, g)
    BY <2>3
  <2>. DEFINE last == g[n - 1] \o messages[n].slots
              h == [k \in 0 .. n |-> IF k = n THEN last ELSE g[k]]
  <2>5. Good(n, h)
    <3>1. \A k \in 0 .. n - 1 : h[k] = g[k]
      BY <2>3
    <3>2. \A k \in 0 .. n : h[k] = IF k = 0 THEN << >> ELSE h[k - 1] \o messages[k].slots
      <4>. TAKE k \in 0 .. n
      <4>1. CASE k = n
        <5>1. g[n - 1] = h[k - 1]
          BY <2>3, <3>1, <4>1
        <5>2. h[k] = last
          <6>. HIDE DEF last
          <6>. QED  BY <4>1
        <5>. QED  BY <2>3, <4>1, <5>1, <5>2
      <4>2. CASE k = 0
        BY <2>3, <2>4, <4>2
      <4>3. CASE k # n /\ k # 0
        <5>1. k \in 0 .. n - 1 /\ k - 1 \in 0 .. n - 1
          BY <2>3, <4>3
        <5>2. h[k] = g[k] /\ h[k - 1] = g[k - 1]
          BY <3>1, <5>1
        <5>3. g[k] = g[k - 1] \o messages[k].slots
          BY <2>4, <4>3, <5>1
        <5>. QED  BY <4>3, <5>2, <5>3
      <4>. QED  BY <4>1, <4>2, <4>3
    <3>. QED  BY <3>2
  <2>. QED  BY <2>3, <2>5
<1>2. \E g : Good(Len(messages), g)
  BY <1>1
<1>. QED  BY <1>2 DEF AnnouncedBy

-----------------------------------------------------------------------------
(* The slots to announce, and the room taken by the first k of them.       *)
Count(r) == Size(r) - r.origin

Weight(r, k) == Bytes(r)[r.origin + k]

LEMMA SlotsFacts ==
  ASSUME NEW r, Announceable(r)
  PROVE  /\ Size(r) \in Nat /\ r.origin \in Nat /\ Count(r) \in Nat
         /\ Slots(r) \in Seq(Nat) /\ Len(Slots(r)) = Count(r)
         /\ \A k \in 1 .. Count(r) : Slots(r)[k] = r.origin + k - 1
<1>1. Size(r) \in Nat /\ r.origin \in Nat /\ Count(r) \in Nat
  BY DEF Announceable, Size, Count
<1>2. Slots(r) = [k \in 1 .. Count(r) |-> r.origin + k - 1]
  BY DEF Slots, Count
<1>3. \A k \in 1 .. Count(r) : r.origin + k - 1 \in Nat
  BY <1>1
<1>. QED  BY <1>1, <1>2, <1>3

(* Every slot takes some of the room, and no more than there is.           *)
LEMMA WeightFacts ==
  ASSUME NEW r, Announceable(r)
  PROVE  /\ \A k \in 0 .. Count(r) : Weight(r, k) \in Nat
         /\ \A k \in 0 .. Count(r) - 1 :
              /\ r.takes[r.origin + k + 1] \in 1 .. Room
              /\ Weight(r, k + 1) = Weight(r, k) + r.takes[r.origin + k + 1]
<1>1. /\ Size(r) \in Nat /\ r.origin \in Nat /\ Size(r) = r.origin + Count(r) /\ Room \in Nat
      /\ Count(r) \in Nat
  BY SlotsFacts, PagesAssumption DEF Count
<1>2. \A k \in 1 .. Size(r) : r.takes[k] \in 1 .. Room
  <2>1. r.takes \in Seq(1 .. Room)
    BY DEF Announceable
  <2>. QED  BY <2>1, ElementOfSeq DEF Size
<1>3. /\ Bytes(r)[0] = 0
      /\ \A k \in 1 .. Size(r) : Bytes(r)[k] = Bytes(r)[k - 1] + r.takes[k]
  BY <1>1, BytesDef
<1>4. \A k \in 0 .. Size(r) : Bytes(r)[k] \in Nat
  <2>. DEFINE Bad == {k \in Nat : k <= Size(r) /\ Bytes(r)[k] \notin Nat}
  <2>. SUFFICES ASSUME Bad # {}  PROVE FALSE
    BY <1>1
  <2>1. 0 \notin Bad
    BY <1>3
  <2>2. PICK k \in Bad : k \in Nat /\ k # 0 /\ k - 1 \in Nat /\ k - 1 \notin Bad
    BY <2>1, FirstFailure
  <2>3. k \in 1 .. Size(r) /\ Bytes(r)[k - 1] \in Nat
    BY <1>1, <2>2
  <2>4. Bytes(r)[k] \in Nat
    BY <1>2, <1>3, <2>3
  <2>. QED  BY <2>2, <2>4
<1>5. ASSUME NEW k \in 0 .. Count(r)  PROVE Weight(r, k) \in Nat
  BY <1>1, <1>4 DEF Weight
<1>6. ASSUME NEW k \in 0 .. Count(r) - 1
      PROVE  /\ r.takes[r.origin + k + 1] \in 1 .. Room
             /\ Weight(r, k + 1) = Weight(r, k) + r.takes[r.origin + k + 1]
  <2>1. /\ r.origin + k + 1 \in 1 .. Size(r)
        /\ r.origin + (k + 1) = r.origin + k + 1
        /\ (r.origin + k + 1) - 1 = r.origin + k
    BY <1>1
  <2>. QED  BY <1>2, <1>3, <2>1 DEF Weight
<1>. QED  BY <1>5, <1>6

LEMMA WeightGrows ==
  ASSUME NEW r, Announceable(r), NEW i \in 0 .. Count(r), NEW j \in 0 .. Count(r), i <= j
  PROVE  Weight(r, i) <= Weight(r, j)
<1>1. Count(r) \in Nat /\ Room \in Nat
  BY SlotsFacts, PagesAssumption
<1>. DEFINE Bad == {d \in Nat : i + d <= Count(r) /\ ~ (Weight(r, i) <= Weight(r, i + d))}
<1>2. Bad = {}
  <2>. SUFFICES ASSUME Bad # {}  PROVE FALSE
    OBVIOUS
  <2>1. i + 0 = i /\ Weight(r, i) \in Nat
    BY <1>1, WeightFacts
  <2>2. 0 \notin Bad
    BY <2>1
  <2>3. PICK d \in Bad : d \in Nat /\ d # 0 /\ d - 1 \in Nat /\ d - 1 \notin Bad
    BY <2>2, FirstFailure
  <2>4. i + (d - 1) \in 0 .. Count(r) - 1 /\ (i + (d - 1)) + 1 = i + d
    BY <1>1, <2>3
  <2>5. Weight(r, i) <= Weight(r, i + (d - 1))
    BY <1>1, <2>3, <2>4
  <2>6. /\ Weight(r, i + d) = Weight(r, i + (d - 1)) + r.takes[r.origin + (i + (d - 1)) + 1]
        /\ r.takes[r.origin + (i + (d - 1)) + 1] \in 1 .. Room
    BY <2>4, WeightFacts
  <2>7. i + (d - 1) \in 0 .. Count(r)
    BY <1>1, <2>4
  <2>8. Weight(r, i + (d - 1)) \in Nat
    BY <2>7, WeightFacts
  <2>9. Weight(r, i) <= Weight(r, i + d)
    BY <1>1, <2>1, <2>5, <2>6, <2>8
  <2>. QED  BY <2>3, <2>9
<1>3. j - i \in Nat /\ i + (j - i) = j /\ j <= Count(r)
  BY <1>1
<1>4. j - i \notin Bad
  BY <1>2
<1>. QED  BY <1>3, <1>4

-----------------------------------------------------------------------------
(* The first k slots spread over messages: each message has the slots from *)
(* its start to the start of the next one; they fit in it, and together    *)
(* with the slot behind them they would not.                               *)
Message == [start : Nat, slots : Seq(Nat)]

End(messages, k, j) == IF j < Len(messages) THEN messages[j + 1].start ELSE k

Holds(r, messages, k, j) ==
  /\ messages[j].start \in 0 .. k
  /\ End(messages, k, j) \in messages[j].start .. k
  /\ k # 0 => messages[j].start < End(messages, k, j)
  /\ messages[j].slots = [q \in 1 .. End(messages, k, j) - messages[j].start |->
                            r.origin + messages[j].start + q - 1]
  /\ Weight(r, End(messages, k, j)) - Weight(r, messages[j].start) <= Room
  /\ j < Len(messages) =>
       Weight(r, End(messages, k, j) + 1) - Weight(r, messages[j].start) > Room

Spread(r, messages, k) ==
  /\ messages \in Seq(Message)
  /\ messages # << >>
  /\ messages[1].start = 0
  /\ k = 0 => Len(messages) = 1
  /\ \A j \in 1 .. Len(messages) : Holds(r, messages, k, j)

LEMMA SpreadGrows ==
  ASSUME NEW r, Announceable(r), NEW k \in 0 .. Count(r) - 1,
         NEW sent \in Seq(Message), NEW message \in Message,
         Spread(r, Append(sent, message), k),
         Weight(r, k + 1) - Weight(r, message.start) <= Room
  PROVE  Spread(r, Append(sent, [message EXCEPT !.slots = Append(@, r.origin + k)]), k + 1)
<1>. DEFINE ms == Append(sent, message)
            grown == [message EXCEPT !.slots = Append(@, r.origin + k)]
            msn == Append(sent, grown)
            L == Len(sent) + 1
<1>1. r.origin \in Nat /\ Count(r) \in Nat /\ k \in Nat
  BY SlotsFacts
<1>2. /\ message.start \in Nat /\ message.slots \in Seq(Nat)
      /\ grown \in Message /\ grown.start = message.start
      /\ grown.slots = Append(message.slots, r.origin + k)
  <2>1. message.start \in Nat /\ message.slots \in Seq(Nat)
    BY DEF Message
  <2>2. r.origin + k \in Nat
    BY <1>1
  <2>3. Append(message.slots, r.origin + k) \in Seq(Nat)
    BY <2>1, <2>2, AppendProperties
  <2>. QED  BY <2>1, <2>3 DEF Message
<1>. HIDE DEF grown
<1>3. /\ L \in Nat /\ ms \in Seq(Message) /\ Len(ms) = L /\ ms[L] = message
      /\ \A j \in 1 .. L - 1 : ms[j] = sent[j]
  BY AppendProperties
<1>4. /\ msn \in Seq(Message) /\ msn # << >> /\ Len(msn) = L /\ msn[L] = grown
      /\ \A j \in 1 .. L - 1 : msn[j] = sent[j]
  BY <1>2, AppendProperties
<1>5. Spread(r, ms, k)
  OBVIOUS
<1>. HIDE DEF ms, msn, L
<1>6. \A j \in 1 .. L : msn[j].start = ms[j].start
  BY <1>2, <1>3, <1>4
<1>7. msn[1].start = 0
  <2>1. 1 \in 1 .. L
    BY <1>3, <1>5 DEF Spread, Holds, L
  <2>. QED  BY <1>5, <1>6, <2>1 DEF Spread
<1>8. ASSUME NEW j \in 1 .. L - 1  PROVE Holds(r, msn, k + 1, j)
  <2>1. j \in 1 .. L /\ j + 1 \in 1 .. L /\ j \in Nat
    BY <1>3
  <2>2. k # 0
    BY <1>3, <1>5, <2>1 DEF Spread
  <2>3. End(msn, k + 1, j) = End(ms, k, j)
    BY <1>3, <1>4, <1>6, <2>1 DEF End
  <2>4. msn[j] = ms[j]
    BY <1>3, <1>4
  <2>5. Holds(r, ms, k, j)
    BY <1>3, <1>5, <2>1 DEF Spread
  <2>. QED  BY <1>1, <1>3, <1>4, <2>1, <2>2, <2>3, <2>4, <2>5 DEF Holds
<1>9. Holds(r, msn, k + 1, L)
  <2>1. /\ message.start \in 0 .. k
        /\ message.slots = [q \in 1 .. k - message.start |-> r.origin + message.start + q - 1]
    <3>1. L \in 1 .. Len(ms) /\ ~ (L < Len(ms))
      BY <1>3 DEF L
    <3>2. Holds(r, ms, k, L) /\ End(ms, k, L) = k
      BY <1>5, <3>1 DEF Spread, End
    <3>. QED  BY <1>3, <3>2 DEF Holds
  <2>2. End(msn, k + 1, L) = k + 1 /\ ~ (L < Len(msn))
    BY <1>3, <1>4 DEF End
  <2>3. grown.slots = [q \in 1 .. (k + 1) - message.start |-> r.origin + message.start + q - 1]
    <3>. DEFINE list == message.slots
                m == message.start
    <3>1. list \in Seq(Nat) /\ m \in Nat /\ m <= k
      BY <1>2, <2>1
    <3>2. Len(list) = k - m /\ \A q \in 1 .. k - m : list[q] = r.origin + m + q - 1
      BY <1>1, <2>1, <3>1
    <3>3. /\ grown.slots \in Seq(Nat) /\ Len(grown.slots) = Len(list) + 1
          /\ grown.slots[Len(list) + 1] = r.origin + k
          /\ \A q \in 1 .. Len(list) : grown.slots[q] = list[q]
      BY <1>1, <1>2, AppendProperties
    <3>. HIDE DEF list, m
    <3>4. k - m + 1 = (k + 1) - m /\ r.origin + k = r.origin + m + (k - m + 1) - 1
      BY <1>1, <3>1
    <3>5. \A q \in 1 .. (k + 1) - m : q \in 1 .. k - m \/ q = k - m + 1
      BY <1>1, <3>1
    <3>6. \A q \in 1 .. (k + 1) - m : grown.slots[q] = r.origin + m + q - 1
      BY <3>2, <3>3, <3>4, <3>5
    <3>7. grown.slots = [q \in 1 .. (k + 1) - m |-> grown.slots[q]]
      BY <3>2, <3>3, <3>4
    <3>8. grown.slots = [q \in 1 .. (k + 1) - m |-> r.origin + m + q - 1]
      BY <3>6, <3>7
    <3>. QED  BY <3>8 DEF m
  <2>4. msn[L].start = message.start /\ msn[L].slots = grown.slots
    BY <1>2, <1>4
  <2>5. message.start < k + 1 /\ message.start \in 0 .. k + 1
    BY <1>1, <2>1
  <2>6. k + 1 \in message.start .. k + 1
    BY <1>1, <2>5
  <2>. QED  BY <2>2, <2>3, <2>4, <2>5, <2>6 DEF Holds
<1>10. k + 1 # 0
  BY <1>1
<1>11. \A j \in 1 .. L : j = L \/ j \in 1 .. L - 1
  BY <1>3
<1>12. Spread(r, msn, k + 1)
  BY <1>4, <1>7, <1>8, <1>9, <1>10, <1>11 DEF Spread
<1>. QED  BY <1>12 DEF msn, grown

LEMMA SpreadNext ==
  ASSUME NEW r, Announceable(r), NEW k \in 0 .. Count(r) - 1,
         NEW ms \in Seq(Message), Spread(r, ms, k),
         Weight(r, k + 1) - Weight(r, ms[Len(ms)].start) > Room
  PROVE  Spread(r, Append(ms, [start |-> k, slots |-> << r.origin + k >>]), k + 1)
<1>. DEFINE next == [start |-> k, slots |-> << r.origin + k >>]
            msn == Append(ms, next)
            L == Len(ms)
<1>1. r.origin \in Nat /\ Count(r) \in Nat /\ k \in Nat /\ Room \in Nat
  BY SlotsFacts, PagesAssumption
<1>2. next \in Message /\ next.start = k /\ next.slots = << r.origin + k >>
  <2>1. r.origin + k \in Nat
    BY <1>1
  <2>. QED  BY <1>1, <2>1 DEF Message
<1>. HIDE DEF next
<1>3. /\ msn \in Seq(Message) /\ msn # << >> /\ Len(msn) = L + 1 /\ msn[L + 1] = next
      /\ \A j \in 1 .. L : msn[j] = ms[j]
  BY <1>2, AppendProperties
<1>4. L \in Nat /\ L >= 1
  BY DEF Spread
<1>. HIDE DEF msn
<1>5. /\ Weight(r, k) \in Nat /\ r.takes[r.origin + k + 1] \in 1 .. Room
      /\ Weight(r, k + 1) = Weight(r, k) + r.takes[r.origin + k + 1]
  BY <1>1, WeightFacts
<1>6. k # 0
  <2>. SUFFICES ASSUME k = 0  PROVE FALSE
    OBVIOUS
  <2>1. ms[L].start = k
    BY DEF Spread
  <2>. QED  BY <1>1, <1>5, <2>1
<1>7. ASSUME NEW j \in 1 .. L  PROVE Holds(r, msn, k + 1, j)
  <2>1. Holds(r, ms, k, j)
    BY DEF Spread
  <2>2. j < Len(msn) /\ End(msn, k + 1, j) = msn[j + 1].start
    BY <1>3, <1>4 DEF End
  <2>3. End(msn, k + 1, j) = End(ms, k, j)
    <3>1. CASE j = L
      BY <1>2, <1>3, <1>4, <2>2, <3>1 DEF End
    <3>2. CASE j # L
      <4>1. j + 1 \in 1 .. L /\ j < L
        BY <1>4, <3>2
      <4>. QED  BY <1>3, <2>2, <4>1 DEF End
    <3>. QED  BY <3>1, <3>2
  <2>4. Weight(r, End(ms, k, j) + 1) - Weight(r, ms[j].start) > Room
    <3>1. CASE j = L
      BY <1>4, <3>1 DEF End
    <3>2. CASE j # L
      BY <1>4, <2>1, <3>2 DEF Holds
    <3>. QED  BY <3>1, <3>2
  <2>5. msn[j] = ms[j]
    BY <1>3
  <2>6. /\ ms[j].start \in 0 .. k + 1
        /\ End(ms, k, j) \in ms[j].start .. k + 1
        /\ ms[j].start < End(ms, k, j)
    <3>1. ms[j].start \in 0 .. k /\ End(ms, k, j) \in ms[j].start .. k
      BY <2>1 DEF Holds
    <3>2. ms[j].start < End(ms, k, j)
      BY <1>6, <2>1 DEF Holds
    <3>. QED  BY <1>1, <3>1, <3>2
  <2>7. /\ ms[j].slots = [q \in 1 .. End(ms, k, j) - ms[j].start |->
                            r.origin + ms[j].start + q - 1]
        /\ Weight(r, End(ms, k, j)) - Weight(r, ms[j].start) <= Room
    BY <2>1 DEF Holds
  <2>. QED  BY <2>3, <2>4, <2>5, <2>6, <2>7 DEF Holds
<1>8. Holds(r, msn, k + 1, L + 1)
  <2>1. End(msn, k + 1, L + 1) = k + 1 /\ ~ (L + 1 < Len(msn))
    BY <1>3, <1>4 DEF End
  <2>2. next.slots = [q \in 1 .. (k + 1) - k |-> r.origin + k + q - 1]
    BY <1>1, <1>2
  <2>3. Weight(r, k + 1) - Weight(r, k) <= Room
    BY <1>1, <1>5
  <2>. QED  BY <1>1, <1>2, <1>3, <2>1, <2>2, <2>3 DEF Holds
<1>9. msn[1].start = 0
  BY <1>3, <1>4 DEF Spread
<1>10. \A j \in 1 .. L + 1 : j = L + 1 \/ j \in 1 .. L
  BY <1>4
<1>11. k + 1 # 0
  BY <1>1
<1>12. Spread(r, msn, k + 1)
  BY <1>3, <1>7, <1>8, <1>9, <1>10, <1>11 DEF Spread
<1>. QED  BY <1>12 DEF msn, next

-----------------------------------------------------------------------------
(* The loop spreads the slots it has seen; it knows the room used in the   *)
(* message being made.                                                     *)
MadeState == [sent : Seq(Message), message : Message, used : Nat]

MadeRight(r, made, k) ==
  /\ made \in MadeState
  /\ made.used = Weight(r, k) - Weight(r, made.message.start)
  /\ Spread(r, Sent(made), k)

LEMMA LoopStarts ==
  ASSUME NEW r, Announceable(r)
  PROVE  MadeRight(r, NewMessage(<< >>, 0), 0)
<1>. DEFINE first == [start |-> 0, slots |-> << >>]
            ms == Append(<< >>, first)
<1>1. Count(r) \in Nat /\ r.origin \in Nat /\ Weight(r, 0) \in Nat /\ Room \in Nat
  BY SlotsFacts, WeightFacts, PagesAssumption
<1>2. first \in Message /\ << >> \in Seq(Message)
  BY DEF Message
<1>3. ms \in Seq(Message) /\ ms # << >> /\ Len(ms) = 1 /\ ms[1] = first
  BY <1>2, AppendProperties
<1>. HIDE DEF ms
<1>4. Holds(r, ms, 0, 1)
  <2>1. End(ms, 0, 1) = 0 /\ ~ (1 < Len(ms))
    BY <1>3 DEF End
  <2>2. ms[1].start = 0 /\ ms[1].slots = << >>
    BY <1>3
  <2>3. << >> = [q \in 1 .. 0 - 0 |-> r.origin + 0 + q - 1]
    OBVIOUS
  <2>. QED  BY <1>1, <2>1, <2>2, <2>3 DEF Holds
<1>5. \A j \in 1 .. Len(ms) : j = 1
  BY <1>3
<1>6. Spread(r, ms, 0)
  BY <1>3, <1>4, <1>5 DEF Spread
<1>7. /\ NewMessage(<< >>, 0) = [sent |-> << >>, message |-> first, used |-> 0]
      /\ Sent(NewMessage(<< >>, 0)) = ms
  BY DEF NewMessage, Sent, ms
<1>8. NewMessage(<< >>, 0) \in MadeState
  <2>1. \A sent \in Seq(Message), message \in Message :
          [sent |-> sent, message |-> message, used |-> 0] \in MadeState
    BY DEF MadeState
  <2>. HIDE DEF first
  <2>2. [sent |-> << >>, message |-> first, used |-> 0] \in MadeState
    BY <1>2, <2>1
  <2>. QED  BY <1>7, <2>2
<1>9. 0 = Weight(r, 0) - Weight(r, 0)
  BY <1>1
<1>. QED  BY <1>6, <1>7, <1>8, <1>9 DEF MadeRight

LEMMA LoopKeeps ==
  ASSUME NEW r, Announceable(r), NEW k \in 0 .. Count(r) - 1, NEW made, MadeRight(r, made, k)
  PROVE  MadeRight(r, AppendWaypoint(r, made, r.origin + k), k + 1)
<1>. DEFINE i == r.origin + k
            t == r.takes[i + 1]
            sent == made.sent
            message == made.message
            a == message.start
<1>1. r.origin \in Nat /\ Count(r) \in Nat /\ k \in Nat /\ Room \in Nat
  BY SlotsFacts, PagesAssumption
<1>2. /\ sent \in Seq(Message) /\ message \in Message /\ made.used \in Nat
      /\ made = [sent |-> sent, message |-> message, used |-> made.used]
      /\ a \in Nat /\ message.slots \in Seq(Nat)
  BY DEF MadeRight, MadeState, Message
<1>3. /\ Weight(r, k) \in Nat /\ t \in 1 .. Room /\ Weight(r, k + 1) = Weight(r, k) + t
      /\ i \in Nat
  BY <1>1, WeightFacts
<1>4. Spread(r, Append(sent, message), k) /\ made.used = Weight(r, k) - Weight(r, a)
  BY DEF MadeRight, Sent
<1>5. Weight(r, a) \in Nat
  <2>. DEFINE ms == Append(sent, message)
              L == Len(sent) + 1
  <2>1. ms \in Seq(Message) /\ Len(ms) = L /\ ms[L] = message /\ L \in Nat /\ L >= 1
    BY <1>2, AppendProperties
  <2>. HIDE DEF ms, L
  <2>2. Holds(r, ms, k, L)
    BY <1>4, <2>1 DEF Spread, ms
  <2>3. a \in 0 .. k
    BY <2>1, <2>2 DEF Holds
  <2>4. a \in 0 .. Count(r)
    BY <1>1, <2>3
  <2>. QED  BY <2>4, WeightFacts
<1>6. CASE Fits(r, made, i)
  <2>. DEFINE grown == [message EXCEPT !.slots = Append(@, i)]
  <2>1. AppendWaypoint(r, made, i) = [sent |-> sent, message |-> grown, used |-> made.used + t]
    BY <1>2, <1>6 DEF AppendWaypoint, AppendTo
  <2>2. Weight(r, k + 1) - Weight(r, a) <= Room /\ made.used + t = Weight(r, k + 1) - Weight(r, a)
    <3>1. made.used + t <= Room
      BY <1>6 DEF Fits
    <3>. HIDE DEF t, a
    <3>. QED  BY <1>1, <1>2, <1>3, <1>4, <1>5, <3>1
  <2>3. grown \in Message /\ grown.start = a
    <3>1. Append(message.slots, i) \in Seq(Nat)
      BY <1>2, <1>3, AppendProperties
    <3>. QED  BY <1>2, <3>1 DEF Message
  <2>4. Spread(r, Append(sent, grown), k + 1)
    BY <1>2, <1>4, <2>2, SpreadGrows
  <2>5. made.used + t \in Nat
    BY <1>2, <1>3
  <2>. HIDE DEF grown, t
  <2>. QED  BY <1>2, <2>1, <2>2, <2>3, <2>4, <2>5 DEF MadeRight, MadeState, Sent
<1>7. CASE ~ Fits(r, made, i)
  <2>. DEFINE next == [start |-> k, slots |-> << i >>]
              ms == Append(sent, message)
  <2>1. k = i - r.origin /\ Append(<< >>, i) = << i >> /\ 0 + t = t /\ t <= Room
    BY <1>1, <1>3
  <2>2. AppendTo(r, NewMessage(ms, k), i) = [sent |-> ms, message |-> next, used |-> t]
    <3>1. Fits(r, NewMessage(ms, k), i)
      BY <2>1 DEF Fits, NewMessage
    <3>. QED  BY <2>1, <3>1 DEF AppendTo, NewMessage
  <2>3. AppendWaypoint(r, made, i) = [sent |-> ms, message |-> next, used |-> t]
    BY <1>7, <2>1, <2>2 DEF AppendWaypoint, Sent
  <2>4. ms \in Seq(Message) /\ ms[Len(ms)] = message
    BY <1>2, AppendProperties
  <2>5. Weight(r, k + 1) - Weight(r, a) > Room
    <3>1. ~ (made.used + t <= Room)
      BY <1>7 DEF Fits
    <3>. HIDE DEF t, a
    <3>. QED  BY <1>1, <1>2, <1>3, <1>4, <1>5, <3>1
  <2>6. Spread(r, Append(ms, next), k + 1)
    BY <1>4, <2>4, <2>5, SpreadNext
  <2>7. next \in Message /\ next.start = k
    BY <1>1, <1>3 DEF Message
  <2>8. t \in Nat /\ t = Weight(r, k + 1) - Weight(r, k)
    BY <1>1, <1>3
  <2>. HIDE DEF next, ms, t
  <2>. QED  BY <2>3, <2>4, <2>6, <2>7, <2>8 DEF MadeRight, MadeState, Sent
<1>. QED  BY <1>6, <1>7

(* The messages for a route of more than one waypoint, or of none.         *)
LEMMA PagesSpread ==
  ASSUME NEW r, Announceable(r), Size(r) # 1
  PROVE  Spread(r, Pages(r), Count(r))
<1>1. Count(r) \in Nat /\ Len(Slots(r)) = Count(r) /\ r.origin \in Nat
  BY SlotsFacts
<1>2. /\ Made(r)[0] = NewMessage(<< >>, 0)
      /\ \A k \in 1 .. Count(r) :
           Made(r)[k] = AppendWaypoint(r, Made(r)[k - 1], Slots(r)[k])
  BY <1>1, MadeDef
<1>. DEFINE Bad == {k \in Nat : k <= Count(r) /\ ~ MadeRight(r, Made(r)[k], k)}
<1>3. Bad = {}
  <2>. SUFFICES ASSUME Bad # {}  PROVE FALSE
    OBVIOUS
  <2>1. 0 \notin Bad
    BY <1>2, LoopStarts
  <2>2. PICK k \in Bad : k \in Nat /\ k # 0 /\ k - 1 \in Nat /\ k - 1 \notin Bad
    BY <2>1, FirstFailure
  <2>3. /\ k \in 1 .. Count(r) /\ k - 1 \in 0 .. Count(r) - 1 /\ (k - 1) + 1 = k
        /\ r.origin + (k - 1) = r.origin + k - 1 /\ k - 1 <= Count(r)
    BY <1>1, <2>2
  <2>4. MadeRight(r, Made(r)[k - 1], k - 1)
    BY <2>2, <2>3
  <2>5. MadeRight(r, AppendWaypoint(r, Made(r)[k - 1], r.origin + (k - 1)), (k - 1) + 1)
    BY <2>3, <2>4, LoopKeeps
  <2>6. Slots(r)[k] = r.origin + (k - 1)
    BY <2>3, SlotsFacts
  <2>7. MadeRight(r, Made(r)[k], k)
    BY <1>2, <2>3, <2>5, <2>6
  <2>. QED  BY <2>2, <2>7
<1>4. MadeRight(r, Made(r)[Count(r)], Count(r))
  BY <1>1, <1>3
<1>. QED  BY <1>1, <1>4 DEF MadeRight, Pages

-----------------------------------------------------------------------------
(* Messages that the slots are spread over announce them in order.         *)
LEMMA PartsJoin ==
  ASSUME NEW e, NEW a \in Nat, NEW b \in Nat, a <= b
  PROVE  [q \in 1 .. a |-> e[q - 1]] \o [q \in 1 .. b - a |-> e[a + q - 1]]
           = [q \in 1 .. b |-> e[q - 1]]
<1>. DEFINE S == {e[i] : i \in 0 .. b}
            s == [q \in 1 .. a |-> e[q - 1]]
            t == [q \in 1 .. b - a |-> e[a + q - 1]]
            u == [q \in 1 .. b |-> e[q - 1]]
<1>1. b - a \in Nat
  OBVIOUS
<1>2. /\ \A q \in 1 .. a : e[q - 1] \in S
      /\ \A q \in 1 .. b - a : e[a + q - 1] \in S
      /\ \A q \in 1 .. b : e[q - 1] \in S
  <2>1. /\ \A q \in 1 .. b : q - 1 \in 0 .. b
        /\ \A q \in 1 .. a : q - 1 \in 0 .. b
        /\ \A q \in 1 .. b - a : a + q - 1 \in 0 .. b
    OBVIOUS
  <2>. QED  BY <2>1
<1>. HIDE DEF S
<1>3. /\ s \in Seq(S) /\ Len(s) = a /\ \A q \in 1 .. a : s[q] = e[q - 1]
      /\ t \in Seq(S) /\ Len(t) = b - a /\ \A q \in 1 .. b - a : t[q] = e[a + q - 1]
      /\ u \in Seq(S) /\ Len(u) = b /\ \A q \in 1 .. b : u[q] = e[q - 1]
  BY <1>1, <1>2
<1>. HIDE DEF s, t, u
<1>4. /\ s \o t \in Seq(S) /\ Len(s \o t) = b
      /\ \A q \in 1 .. b : (s \o t)[q] = IF q <= a THEN s[q] ELSE t[q - a]
  <2>1. s \in Seq(S) /\ t \in Seq(S) /\ Len(s) = a /\ Len(t) = b - a
    BY <1>3
  <2>2. /\ s \o t \in Seq(S) /\ Len(s \o t) = Len(s) + Len(t)
        /\ \A q \in 1 .. Len(s) + Len(t) :
             (s \o t)[q] = IF q <= Len(s) THEN s[q] ELSE t[q - Len(s)]
    BY <2>1, ConcatProperties
  <2>3. Len(s) + Len(t) = b
    BY <2>1
  <2>. QED  BY <2>1, <2>2, <2>3
<1>5. ASSUME NEW q \in 1 .. b  PROVE (s \o t)[q] = u[q]
  <2>1. CASE q <= a
    <3>1. q \in 1 .. a
      BY <2>1
    <3>. QED  BY <1>3, <1>4, <2>1, <3>1
  <2>2. CASE ~ (q <= a)
    <3>1. q - a \in 1 .. b - a /\ a + (q - a) - 1 = q - 1
      BY <2>2
    <3>. QED  BY <1>3, <1>4, <2>2, <3>1
  <2>. QED  BY <2>1, <2>2
<1>6. s \o t = u
  BY <1>3, <1>4, <1>5, SeqEqual
<1>. QED  BY <1>6 DEF s, t, u

LEMMA SlotsJoin ==
  ASSUME NEW o \in Nat, NEW a \in Nat, NEW b \in Nat, a <= b
  PROVE  [q \in 1 .. a |-> o + q - 1] \o [q \in 1 .. b - a |-> o + a + q - 1]
           = [q \in 1 .. b |-> o + q - 1]
<1>. DEFINE e == [i \in 0 .. b |-> o + i]
<1>1. [q \in 1 .. a |-> o + q - 1] = [q \in 1 .. a |-> e[q - 1]]
  OBVIOUS
<1>2. [q \in 1 .. b - a |-> o + a + q - 1] = [q \in 1 .. b - a |-> e[a + q - 1]]
  OBVIOUS
<1>3. [q \in 1 .. b |-> o + q - 1] = [q \in 1 .. b |-> e[q - 1]]
  OBVIOUS
<1>4. [q \in 1 .. a |-> e[q - 1]] \o [q \in 1 .. b - a |-> e[a + q - 1]]
        = [q \in 1 .. b |-> e[q - 1]]
  BY PartsJoin
<1>. QED  BY <1>1, <1>2, <1>3, <1>4, Zenon

LEMMA AnnouncedSteps ==
  ASSUME NEW ms, Len(ms) \in Nat
  PROVE  /\ AnnouncedBy(ms)[0] = << >>
         /\ \A j \in 1 .. Len(ms) :
              AnnouncedBy(ms)[j] = AnnouncedBy(ms)[j - 1] \o ms[j].slots
<1>. DEFINE A == AnnouncedBy(ms)
            joined(j) == A[j - 1] \o ms[j].slots
<1>1. A = [k \in 0 .. Len(ms) |-> IF k = 0 THEN << >> ELSE joined(k)]
  BY AnnouncedByDef
<1>2. A[0] = << >> /\ \A j \in 1 .. Len(ms) : A[j] = joined(j)
  <2>. HIDE DEF A, joined
  <2>. QED  BY <1>1
<1>. QED  BY <1>2

LEMMA SpreadAnnounces ==
  ASSUME NEW r, Announceable(r), NEW ms, Spread(r, ms, Count(r))
  PROVE  /\ AnnouncedBy(ms)[Len(ms)] = Slots(r)
         /\ \A j \in 1 .. Len(ms) :
              AnnouncedBy(ms)[j - 1] = [q \in 1 .. ms[j].start |-> r.origin + q - 1]
<1>. DEFINE L == Len(ms)
            N == Count(r)
            Part(b) == [q \in 1 .. b |-> r.origin + q - 1]
<1>1. L \in Nat /\ L >= 1 /\ N \in Nat /\ r.origin \in Nat /\ ms[1].start = 0
  BY SlotsFacts DEF Spread
<1>2. /\ AnnouncedBy(ms)[0] = << >>
      /\ \A j \in 1 .. L : AnnouncedBy(ms)[j] = AnnouncedBy(ms)[j - 1] \o ms[j].slots
  BY <1>1, AnnouncedSteps
<1>3. ASSUME NEW j \in 1 .. L, AnnouncedBy(ms)[j - 1] = Part(ms[j].start)
      PROVE  AnnouncedBy(ms)[j] = Part(End(ms, N, j))
  <2>. DEFINE a == ms[j].start
              b == End(ms, N, j)
  <2>1. Holds(r, ms, N, j)
    BY DEF Spread
  <2>2. a \in Nat /\ b \in Nat /\ a <= b
    BY <1>1, <2>1 DEF Holds
  <2>3. ms[j].slots = [q \in 1 .. b - a |-> r.origin + a + q - 1]
    BY <2>1 DEF Holds
  <2>. HIDE DEF b
  <2>4. Part(a) \o [q \in 1 .. b - a |-> r.origin + a + q - 1] = Part(b)
    BY <1>1, <2>2, SlotsJoin
  <2>5. Part(a) \o ms[j].slots = Part(b)
    BY <2>3, <2>4, Zenon
  <2>. QED  BY <1>2, <1>3, <2>5, Zenon DEF b
<1>. DEFINE Bad == {j \in Nat : j < L /\ AnnouncedBy(ms)[j] # Part(ms[j + 1].start)}
<1>4. Bad = {}
  <2>. SUFFICES ASSUME Bad # {}  PROVE FALSE
    OBVIOUS
  <2>1. 0 \notin Bad
    <3>1. << >> = Part(0)
      OBVIOUS
    <3>. QED  BY <1>1, <1>2, <3>1
  <2>2. PICK j \in Bad : j \in Nat /\ j # 0 /\ j - 1 \in Nat /\ j - 1 \notin Bad
    BY <2>1, FirstFailure
  <2>3. j \in 1 .. L /\ j - 1 < L /\ (j - 1) + 1 = j /\ j < L
    BY <1>1, <2>2
  <2>4. AnnouncedBy(ms)[j - 1] = Part(ms[j].start)
    BY <2>2, <2>3
  <2>5. AnnouncedBy(ms)[j] = Part(End(ms, N, j))
    BY <1>3, <2>3, <2>4
  <2>6. End(ms, N, j) = ms[j + 1].start
    BY <2>3 DEF End
  <2>. QED  BY <2>2, <2>5, <2>6
<1>5. ASSUME NEW j \in 1 .. L  PROVE AnnouncedBy(ms)[j - 1] = Part(ms[j].start)
  <2>1. j - 1 \in Nat /\ j - 1 < L /\ (j - 1) + 1 = j
    BY <1>1
  <2>2. j - 1 \notin Bad
    BY <1>4
  <2>. QED  BY <2>1, <2>2
<1>6. AnnouncedBy(ms)[L] = Slots(r)
  <2>1. L \in 1 .. L /\ End(ms, N, L) = N
    BY <1>1 DEF End
  <2>2. AnnouncedBy(ms)[L] = Part(N)
    BY <1>3, <1>5, <2>1
  <2>. QED  BY <2>2 DEF Slots, Count
<1>. QED  BY <1>5, <1>6

(* Every message of sendPGN129285() says where it starts, and together     *)
(* they announce the route from its origin on.                             *)
THEOREM PagesComplete ==
  ASSUME NEW r, Announceable(r)
  PROVE  Complete(r, Pages(r))
<1>. DEFINE ms == Pages(r)
<1>1. CASE Size(r) # 1
  <2>1. Spread(r, ms, Count(r))
    BY <1>1, PagesSpread
  <2>2. Len(ms) \in Nat
    BY <2>1 DEF Spread
  <2>3. ASSUME NEW j \in 1 .. Len(ms)  PROVE ms[j].start = Len(AnnouncedBy(ms)[j - 1])
    <3>1. AnnouncedBy(ms)[j - 1] = [q \in 1 .. ms[j].start |-> r.origin + q - 1]
      BY <2>1, SpreadAnnounces
    <3>2. ms[j].start \in Nat
      <4>1. Holds(r, ms, Count(r), j) /\ Count(r) \in Nat
        BY <2>1, SlotsFacts DEF Spread
      <4>. QED  BY <4>1 DEF Holds
    <3>. QED  BY <3>1, <3>2
  <2>4. AnnouncedBy(ms)[Len(ms)] = Slots(r)
    BY <2>1, SpreadAnnounces
  <2>. QED  BY <1>1, <2>3, <2>4 DEF Complete
<1>2. CASE Size(r) = 1
  <2>1. ms = << [start |-> 0, slots |-> << Current, 0 >>] >>
    BY <1>2 DEF Pages
  <2>2. /\ Len(ms) = 1 /\ ms[1].start = 0 /\ ms[1].slots = << Current, 0 >>
    BY <2>1
  <2>. HIDE DEF ms
  <2>3. AnnouncedBy(ms)[0] = << >> /\ AnnouncedBy(ms)[1] = AnnouncedBy(ms)[0] \o ms[1].slots
    <3>1. Len(ms) \in Nat /\ 1 \in 1 .. Len(ms) /\ 1 - 1 = 0
      BY <2>2
    <3>2. /\ AnnouncedBy(ms)[0] = << >>
          /\ AnnouncedBy(ms)[1] = AnnouncedBy(ms)[1 - 1] \o ms[1].slots
      BY <3>1, AnnouncedSteps, Zenon
    <3>. QED  BY <3>1, <3>2, Zenon
  <2>4. AnnouncedBy(ms)[1] = << Current, 0 >>
    <3>1. << Current, 0 >> \in Seq(Int)
      BY DEF Current
    <3>. QED  BY <2>2, <2>3, <3>1, ConcatEmptySeq
  <2>5. \A j \in 1 .. Len(ms) : j = 1
    BY <2>2
  <2>6. Len(AnnouncedBy(ms)[0]) = 0
    BY <2>3
  <2>7. \A j \in 1 .. Len(ms) : ms[j].start = Len(AnnouncedBy(ms)[j - 1])
    BY <2>2, <2>5, <2>6
  <2>8. Complete(r, ms)
    BY <1>2, <2>2, <2>4, <2>7 DEF Complete
  <2>. QED  BY <2>8 DEF ms
<1>. QED  BY <1>1, <1>2

-----------------------------------------------------------------------------
(* No way to part the route takes fewer messages.  Each message and the    *)
(* waypoint behind it do not fit in one message: every parting has a cut   *)
(* there, and another one for every message but the last.                  *)
LEMMA SpreadBounds ==
  ASSUME NEW r, Announceable(r), Count(r) # 0, NEW ms, Spread(r, ms, Count(r)),
         NEW j \in 1 .. Len(ms)
  PROVE  /\ Len(ms) \in Nat /\ Len(ms) >= 1 /\ Count(r) \in Nat
         /\ ms[j].start \in Nat /\ ms[j].start < Count(r)
         /\ j < Len(ms) => /\ ms[j + 1].start \in Nat
                           /\ ms[j].start < ms[j + 1].start
                           /\ ms[j + 1].start < Count(r)
<1>1. Len(ms) \in Nat /\ Len(ms) >= 1 /\ Count(r) \in Nat
  BY SlotsFacts DEF Spread
<1>2. ASSUME NEW i \in 1 .. Len(ms)
      PROVE  /\ ms[i].start \in 0 .. Count(r)
             /\ End(ms, Count(r), i) \in ms[i].start .. Count(r)
             /\ ms[i].start < End(ms, Count(r), i)
  BY DEF Spread, Holds
<1>3. ASSUME NEW i \in 1 .. Len(ms)
      PROVE  ms[i].start \in Nat /\ ms[i].start < Count(r)
  BY <1>1, <1>2
<1>4. ASSUME j < Len(ms)
      PROVE  j + 1 \in 1 .. Len(ms) /\ ms[j].start < ms[j + 1].start
  <2>1. End(ms, Count(r), j) = ms[j + 1].start
    BY <1>4 DEF End
  <2>. QED  BY <1>1, <1>2, <1>4, <2>1
<1>. QED  BY <1>1, <1>3, <1>4

LEMMA StartsGrow ==
  ASSUME NEW r, Announceable(r), Count(r) # 0, NEW ms, Spread(r, ms, Count(r)),
         NEW i \in 1 .. Len(ms), NEW j \in 1 .. Len(ms), i < j
  PROVE  ms[i + 1].start <= ms[j].start
<1>. DEFINE L == Len(ms)
            Bad == {d \in Nat : i + 1 + d <= L /\ ~ (ms[i + 1].start <= ms[i + 1 + d].start)}
<1>1. L \in Nat /\ i \in 1 .. L /\ i + 1 \in 1 .. L
  BY SpreadBounds
<1>2. Bad = {}
  <2>. SUFFICES ASSUME Bad # {}  PROVE FALSE
    OBVIOUS
  <2>1. 0 \notin Bad
    <3>1. i + 1 + 0 = i + 1 /\ ms[i + 1].start \in Nat
      BY <1>1, SpreadBounds
    <3>. QED  BY <3>1
  <2>2. PICK d \in Bad : d \in Nat /\ d # 0 /\ d - 1 \in Nat /\ d - 1 \notin Bad
    BY <2>1, FirstFailure
  <2>. DEFINE m == i + 1 + (d - 1)
  <2>3. m \in 1 .. L /\ m < L /\ m + 1 = i + 1 + d
    BY <1>1, <2>2
  <2>4. ms[i + 1].start <= ms[m].start
    BY <2>2, <2>3
  <2>. HIDE DEF m
  <2>5. ms[m].start \in Nat /\ ms[m + 1].start \in Nat /\ ms[m].start < ms[m + 1].start
    BY <2>3, SpreadBounds
  <2>6. ms[i + 1].start \in Nat
    BY <1>1, SpreadBounds
  <2>7. ms[i + 1].start <= ms[m + 1].start
    <3>1. \A x, y, z \in Nat : x <= y /\ y < z => x <= z
      OBVIOUS
    <3>. QED  BY <2>4, <2>5, <2>6, <3>1, Zenon
  <2>8. ms[i + 1].start <= ms[i + 1 + d].start
    BY <2>3, <2>7
  <2>. QED  BY <2>2, <2>8
<1>3. j - i - 1 \in Nat /\ i + 1 + (j - i - 1) = j /\ j <= L
  BY <1>1
<1>4. j - i - 1 \notin Bad
  BY <1>2
<1>. QED  BY <1>3, <1>4

LEMMA SpreadIsShort ==
  ASSUME NEW r, Announceable(r), Count(r) # 0, NEW ms, Spread(r, ms, Count(r)),
         NEW parting \in Partings(r)
  PROVE  Len(ms) <= 1 + Cardinality(parting)
<1>. DEFINE L == Len(ms)
            N == Count(r)
            Between(j, c) == ms[j].start < c /\ c <= ms[j + 1].start
            f == [j \in 1 .. L - 1 |-> CHOOSE c \in parting : Between(j, c)]
<1>1. L \in Nat /\ L >= 1 /\ N \in Nat /\ Len(Slots(r)) = N /\ Room \in Nat
  BY SlotsFacts, PagesAssumption DEF Spread
<1>2. /\ parting \subseteq 1 .. N - 1
      /\ \A i, j \in 0 .. N :
           i < j /\ (\A c \in parting : c <= i \/ c >= j)
           => Weight(r, j) - Weight(r, i) <= Room
  BY <1>1 DEF Partings, Weight
<1>3. IsFiniteSet(parting) /\ Cardinality(parting) \in Nat
  <2>1. IsFiniteSet(1 .. N - 1)
    BY <1>1, FS_Interval
  <2>. QED  BY <1>2, <2>1, FS_Subset, FS_CardinalityType
<1>4. ASSUME NEW j \in 1 .. L - 1  PROVE \E c \in parting : Between(j, c)
  <2>. DEFINE a == ms[j].start
              e == ms[j + 1].start
  <2>1. j \in 1 .. L /\ j < L
    BY <1>1
  <2>2. a \in Nat /\ e \in Nat /\ a < e /\ e < N
    BY <2>1, SpreadBounds
  <2>3. Weight(r, e + 1) - Weight(r, a) > Room
    <3>1. End(ms, N, j) = e /\ Holds(r, ms, N, j)
      BY <2>1 DEF End, Spread
    <3>. QED  BY <2>1, <3>1 DEF Holds
  <2>4. a \in 0 .. N /\ e + 1 \in 0 .. N /\ a < e + 1
    BY <1>1, <2>2
  <2>5. Weight(r, a) \in Nat /\ Weight(r, e + 1) \in Nat
    BY <2>4, WeightFacts
  <2>6. ~ (Weight(r, e + 1) - Weight(r, a) <= Room)
    BY <1>1, <2>3, <2>5
  <2>7. PICK c \in parting : ~ (c <= a \/ c >= e + 1)
    BY <1>2, <2>4, <2>6
  <2>8. c \in Nat
    BY <1>2, <2>7
  <2>. QED  BY <2>2, <2>7, <2>8
<1>5. \A j \in 1 .. L - 1 : f[j] \in parting /\ Between(j, f[j])
  BY <1>4
<1>. HIDE DEF f
<1>6. \A j \in 1 .. L - 1 : f[j] \in Nat
  <2>1. \A c \in parting : c \in Nat
    BY <1>1, <1>2
  <2>. QED  BY <1>5, <2>1
<1>7. f \in Injection(1 .. L - 1, parting)
  <2>1. ASSUME NEW i \in 1 .. L - 1, NEW j \in 1 .. L - 1, i < j  PROVE f[i] < f[j]
    <3>1. i \in 1 .. L /\ j \in 1 .. L /\ j < L /\ i < L
      BY <1>1
    <3>2. ms[i + 1].start <= ms[j].start
      BY <2>1, <3>1, StartsGrow
    <3>3. ms[i + 1].start \in Nat /\ ms[j].start \in Nat
      BY <3>1, SpreadBounds
    <3>4. f[i] \in Nat /\ f[j] \in Nat
      BY <1>2, <1>5, <1>6
    <3>5. f[i] <= ms[i + 1].start /\ ms[j].start < f[j]
      BY <1>5
    <3>. QED  BY <3>2, <3>3, <3>4, <3>5
  <2>2. ASSUME NEW i \in 1 .. L - 1, NEW j \in 1 .. L - 1, f[i] = f[j]  PROVE i = j
    <3>1. f[i] \in Nat /\ f[j] \in Nat /\ i \in Nat /\ j \in Nat
      BY <1>6
    <3>2. ~ (i < j) /\ ~ (j < i)
      BY <2>1, <2>2, <3>1
    <3>. QED  BY <3>1, <3>2
  <2>3. f \in [1 .. L - 1 -> parting]
    BY <1>5 DEF f
  <2>. QED  BY <2>2, <2>3 DEF Injection, IsInjective
<1>8. Cardinality(1 .. L - 1) = L - 1
  BY <1>1, FS_Interval
<1>9. Cardinality(1 .. L - 1) <= Cardinality(parting)
  BY <1>3, <1>7, FS_Injection
<1>. QED  BY <1>1, <1>3, <1>8, <1>9

(* The messages are themselves a way to part the route.                    *)
LEMMA SpreadParts ==
  ASSUME NEW r, Announceable(r), Count(r) # 0, NEW ms, Spread(r, ms, Count(r))
  PROVE  \E parting \in Partings(r) : Len(ms) = 1 + Cardinality(parting)
<1>. DEFINE L == Len(ms)
            N == Count(r)
            parting == {ms[j].start : j \in 2 .. L}
            f == [j \in 2 .. L |-> ms[j].start]
<1>1. L \in Nat /\ L >= 1 /\ N \in Nat /\ Len(Slots(r)) = N /\ Room \in Nat /\ ms[1].start = 0
  BY SlotsFacts, PagesAssumption DEF Spread
<1>2. ASSUME NEW i \in 1 .. L, NEW j \in 1 .. L, i < j  PROVE ms[i].start < ms[j].start
  <2>1. i < L
    BY <1>1, <1>2
  <2>2. ms[i].start \in Nat /\ ms[i + 1].start \in Nat /\ ms[i].start < ms[i + 1].start
    BY <2>1, SpreadBounds
  <2>3. ms[i + 1].start <= ms[j].start /\ ms[j].start \in Nat
    BY <1>2, StartsGrow, SpreadBounds
  <2>. QED  BY <2>2, <2>3
<1>3. parting \subseteq 1 .. N - 1
  <2>. SUFFICES ASSUME NEW j \in 2 .. L  PROVE ms[j].start \in 1 .. N - 1
    OBVIOUS
  <2>1. 1 \in 1 .. L /\ j \in 1 .. L /\ 1 < j
    BY <1>1
  <2>2. ms[j].start \in Nat /\ ms[j].start < N
    BY <2>1, SpreadBounds
  <2>3. 0 < ms[j].start
    BY <1>1, <1>2, <2>1
  <2>. QED  BY <1>1, <2>2, <2>3
<1>4. ASSUME NEW i \in 0 .. N, NEW j \in 0 .. N, i < j, \A c \in parting : c <= i \/ c >= j
      PROVE  Weight(r, j) - Weight(r, i) <= Room
  <2>. DEFINE T == {m \in 1 .. L : ms[m].start <= i}
  <2>1. T \subseteq Nat /\ 1 \in T /\ \A m \in T : m <= L
    BY <1>1
  <2>2. PICK m \in T : \A n \in T : n <= m
    <3>1. T # {}
      BY <2>1
    <3>. QED  BY <1>1, <2>1, <3>1, GreatestElement
  <2>. DEFINE a == ms[m].start
              e == End(ms, N, m)
  <2>3. m \in 1 .. L /\ a <= i /\ Holds(r, ms, N, m)
    BY <2>2 DEF Spread
  <2>4. a \in 0 .. N /\ e \in 0 .. N /\ Weight(r, e) - Weight(r, a) <= Room
    <3>1. a \in 0 .. N /\ e \in a .. N /\ Weight(r, e) - Weight(r, a) <= Room
      BY <2>3 DEF Holds
    <3>. QED  BY <1>1, <3>1
  <2>5. j <= e
    <3>1. CASE m < L
      <4>1. m + 1 \in 2 .. L /\ ~ (m + 1 <= m) /\ m + 1 \in 1 .. L
        BY <1>1, <2>3, <3>1
      <4>2. e = ms[m + 1].start
        BY <3>1 DEF End
      <4>3. m + 1 \notin T
        BY <2>2, <4>1
      <4>4. ~ (e <= i)
        BY <4>1, <4>2, <4>3
      <4>5. e \in parting
        BY <4>1, <4>2
      <4>6. e >= j
        BY <1>4, <4>4, <4>5
      <4>. QED  BY <2>4, <4>6
    <3>2. CASE ~ (m < L)
      <4>1. e = N
        BY <3>2 DEF End
      <4>. QED  BY <1>1, <4>1
    <3>. QED  BY <3>1, <3>2
  <2>. HIDE DEF a, e
  <2>6. Weight(r, a) <= Weight(r, i) /\ Weight(r, j) <= Weight(r, e)
    BY <2>3, <2>4, <2>5, WeightGrows
  <2>7. /\ Weight(r, a) \in Nat /\ Weight(r, i) \in Nat
        /\ Weight(r, j) \in Nat /\ Weight(r, e) \in Nat
    BY <2>4, WeightFacts
  <2>. QED  BY <1>1, <2>4, <2>6, <2>7
<1>5. parting \in Partings(r)
  <2>. HIDE DEF parting
  <2>. QED  BY <1>1, <1>3, <1>4 DEF Partings, Weight
<1>6. Cardinality(parting) = L - 1
  <2>1. f \in Surjection(2 .. L, parting)
    BY DEF Surjection
  <2>2. f \in Injection(2 .. L, parting)
    <3>1. ASSUME NEW i \in 2 .. L, NEW j \in 2 .. L, f[i] = f[j]  PROVE i = j
      <4>1. i \in 1 .. L /\ j \in 1 .. L
        BY <1>1
      <4>2. ms[i].start = ms[j].start /\ ms[i].start \in Nat
        BY <3>1, <4>1, SpreadBounds
      <4>3. ~ (i < j) /\ ~ (j < i)
        BY <1>2, <4>1, <4>2
      <4>. QED  BY <4>1, <4>3
    <3>2. f \in [2 .. L -> parting]
      OBVIOUS
    <3>. QED  BY <3>1, <3>2 DEF Injection, IsInjective
  <2>3. IsFiniteSet(2 .. L) /\ Cardinality(2 .. L) = L - 1
    BY <1>1, FS_Interval
  <2>. HIDE DEF f, parting
  <2>. QED  BY <2>1, <2>2, <2>3, FS_Surjection
<1>. QED  BY <1>1, <1>5, <1>6

(* sendPGN129285() sends no more messages than the route takes.            *)
THEOREM PagesFewest ==
  ASSUME NEW r, Announceable(r), Size(r) # 1, Count(r) # 0
  PROVE  Fewest(r, Len(Pages(r)))
<1>1. Spread(r, Pages(r), Count(r))
  BY PagesSpread
<1>. QED  BY <1>1, SpreadIsShort, SpreadParts DEF Fewest
=============================================================================
