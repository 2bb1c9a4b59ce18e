-------------------------- MODULE DashAlertsProofs --------------------------
(***************************************************************************)
(* Proofs about DashAlerts, for any number of alerts and of disturbances   *)
(* of every kind.                                                          *)
(*                                                                         *)
(* The two properties are about both sides and the frames between them,    *)
(* and neither is inductive.  The invariant has two layers.  Inv says of   *)
(* every routed ALERT on the air, and of what sounds, that the dashcam has *)
(* left it to the phone or that its end is behind it (Voice); for that,    *)
(* what the sessions agree on (LinkInv), that ids on the air are made      *)
(* (Fresh) and that a one-shot once answered cannot start again            *)
(* (ShotOnce).  Kept says that what the phone has confirmed, the answer    *)
(* taken or still on the air, it sounds or the buzzer will be opened       *)
(* (Carried); for that, that what sounds is confirmed (TableInv), that no  *)
(* end is on the air of what is routed (EndInv) and that word of the phone *)
(* being unable to play is the last the dashcam hears (ToldInv).           *)
(*                                                                         *)
(* A step of the dashcam is proved in two: that it moves as CamMoves and   *)
(* ShotKept say, and that whatever moves so keeps each part.               *)
(***************************************************************************)
EXTENDS DashAlerts, SequenceTheorems, FiniteSetTheorems, TLAPS

\* What is in a sequence stands at one of its places.
LEMMA SeqRange ==
  ASSUME NEW S, NEW s \in Seq(S), NEW x
  PROVE  x \in Range(s) <=> \E k \in 1 .. Len(s) : s[k] = x
<1>1. DOMAIN s = 1 .. Len(s)
  OBVIOUS
<1>2. x \in Range(s) <=> \E k \in DOMAIN s : s[k] = x
  BY DEF Range
<1> QED
  BY <1>1, <1>2

\* What is in a sequence over S is in S.
LEMMA SeqElement ==
  ASSUME NEW S, NEW s \in Seq(S), NEW x \in Range(s)
  PROVE  x \in S
<1>1. PICK k \in 1 .. Len(s) : s[k] = x
  BY SeqRange
<1> QED
  BY <1>1

\* Two sequences put together hold what either held.
LEMMA RangeOfBoth ==
  ASSUME NEW S, NEW s \in Seq(S), NEW t \in Seq(S)
  PROVE  s \o t \in Seq(S) /\ \A x : x \in Range(s \o t) <=> x \in Range(s) \/ x \in Range(t)
<1>1. /\ s \o t \in Seq(S) /\ Len(s \o t) = Len(s) + Len(t) /\ Len(s) \in Nat /\ Len(t) \in Nat
      /\ \A k \in 1 .. Len(s) : (s \o t)[k] = s[k]
      /\ \A k \in 1 .. Len(t) : (s \o t)[Len(s) + k] = t[k]
  BY ConcatProperties
<1>2. ASSUME NEW x, x \in Range(s \o t)
      PROVE  x \in Range(s) \/ x \in Range(t)
  <2>1. PICK k \in 1 .. Len(s \o t) : (s \o t)[k] = x
    BY <1>1, <1>2, SeqRange
  <2>2. CASE k <= Len(s)
    BY <1>1, <2>1, <2>2, SeqRange
  <2>3. CASE k > Len(s)
    <3>1. k - Len(s) \in 1 .. Len(t) /\ k = Len(s) + (k - Len(s))
      BY <1>1, <2>3
    <3>2. x = t[k - Len(s)]
      BY <1>1, <2>1, <3>1
    <3> QED
      BY <3>1, <3>2, SeqRange
  <2> QED
    BY <1>1, <2>2, <2>3
<1>3. ASSUME NEW x, x \in Range(s)
      PROVE  x \in Range(s \o t)
  <2>1. PICK k \in 1 .. Len(s) : s[k] = x
    BY <1>3, SeqRange
  <2>2. (s \o t)[k] = x /\ k \in 1 .. Len(s \o t)
    BY <1>1, <2>1
  <2> QED
    BY <1>1, <2>2, SeqRange
<1>4. ASSUME NEW x, x \in Range(t)
      PROVE  x \in Range(s \o t)
  <2>1. PICK k \in 1 .. Len(t) : t[k] = x
    BY <1>4, SeqRange
  <2>2. (s \o t)[Len(s) + k] = x /\ Len(s) + k \in 1 .. Len(s \o t)
    BY <1>1, <2>1
  <2> QED
    BY <1>1, <2>2, SeqRange
<1> QED
  BY <1>1, <1>2, <1>3, <1>4

\* A frame sent on a condition.
LEMMA RangeOfMaybe ==
  ASSUME NEW S, NEW c \in BOOLEAN, NEW x, c => x \in S
  PROVE  /\ (IF c THEN <<x>> ELSE <<>>) \in Seq(S)
         /\ \A y : y \in Range(IF c THEN <<x>> ELSE <<>>) <=> c /\ y = x
BY DEF Range

\* A queue's head is one of its frames; behind it the others stand one place nearer.
LEMMA RangeOfTail ==
  ASSUME NEW S, NEW s \in Seq(S), s # <<>>
  PROVE  /\ Head(s) \in S /\ Head(s) = s[1] /\ 1 \in 1 .. Len(s) /\ Head(s) \in Range(s)
         /\ Tail(s) \in Seq(S) /\ Len(Tail(s)) = Len(s) - 1
         /\ \A k \in 1 .. Len(Tail(s)) : Tail(s)[k] = s[k + 1]
         /\ \A x \in Range(Tail(s)) : x \in Range(s)
<1>1. /\ Head(s) \in S /\ Head(s) = s[1] /\ 1 \in 1 .. Len(s) /\ Tail(s) \in Seq(S) /\ Len(Tail(s)) = Len(s) - 1
      /\ \A k \in 1 .. Len(Tail(s)) : Tail(s)[k] = s[k + 1]
  BY HeadTailProperties
<1>2. ASSUME NEW x, x \in Range(Tail(s))
      PROVE  x \in Range(s)
  <2>1. PICK k \in 1 .. Len(Tail(s)) : Tail(s)[k] = x
    BY <1>1, <1>2, SeqRange
  <2>2. k + 1 \in 1 .. Len(s) /\ s[k + 1] = x
    BY <1>1, <2>1
  <2> QED
    BY <2>2, SeqRange
<1> QED
  BY <1>1, <1>2, SeqRange

\* A sequence of one frame.
LEMMA RangeOfOne ==
  ASSUME NEW S, NEW x \in S, NEW y
  PROVE  <<x>> \in Seq(S) /\ (y \in Range(<<x>>) <=> y = x)
BY DEF Range

\* A finite set can be written out as a sequence, and is (what Owes relies on).
LEMMA EverySetHasASeq ==
  ASSUME NEW S, IsFiniteSet(S)
  PROVE  SetToSeq(S) \in Seq(S) /\ \A x \in S : x \in Range(SetToSeq(S))
<1> DEFINE n == Cardinality(S)
<1>1. n \in Nat /\ ExistsBijection(1 .. n, S)
  BY FS_CardinalityType
<1>2. PICK f \in [1 .. n -> S] : IsInjective(f)
  BY <1>1 DEF ExistsBijection, Bijection, Injection
<1>3. SetToSeq(S) \in [1 .. n -> S] /\ IsInjective(SetToSeq(S))
  BY <1>2 DEF SetToSeq
<1> DEFINE s == SetToSeq(S)
<1>4. s \in Seq(S)
  BY <1>1, <1>3
<1>5. s \in Injection(1 .. n, S)
  BY <1>3 DEF Injection
<1>6. IsFiniteSet(1 .. n) /\ Cardinality(1 .. n) = n
  BY <1>1, FS_Interval
<1> HIDE DEF s, n
<1>7. s \in Surjection(1 .. n, S)
  <2>1. IsFiniteSet(S) /\ Cardinality(S) = n
    BY DEF n
  <2> QED
    BY <1>5, <1>6, <2>1, FS_Injection
<1>8. ASSUME NEW x \in S
      PROVE  x \in Range(s)
  <2>1. PICK k \in 1 .. n : s[k] = x
    BY <1>7 DEF Surjection
  <2>2. DOMAIN s = 1 .. n
    BY <1>7 DEF Surjection
  <2> QED
    BY <2>1, <2>2 DEF Range
<1> QED
  BY <1>4, <1>8 DEF s

\* The answers that say the phone does not play.
Refusals == {Ack(i, 0) : i \in Ids}

\* What the phone owes: a refusal of every alert it had confirmed, and nothing else.
LEMMA OwesRefusals ==
  ASSUME NEW ids \in SUBSET Ids
  PROVE  Owes(ids) \in Seq(Refusals) /\ \A i \in ids : table[i].confirmed => Ack(i, 0) \in Range(Owes(ids))
<1> DEFINE who == {j \in ids : table[j].confirmed}
           acks == {Ack(i, 0) : i \in who}
           f == [i \in who |-> Ack(i, 0)]
<1>1. IsFiniteSet(who)
  <2>1. IsFiniteSet(Ids)
    BY BoundsAssumption, FS_Interval DEF Ids
  <2> QED
    BY <2>1, FS_Subset
<1>2. f \in Surjection(who, acks)
  BY DEF Surjection
<1>3. IsFiniteSet(acks)
  BY <1>1, <1>2, FS_Surjection
<1>4. SetToSeq(acks) \in Seq(acks) /\ \A x \in acks : x \in Range(SetToSeq(acks))
  BY <1>3, EverySetHasASeq
<1>5. acks \subseteq Refusals
  BY DEF Refusals
<1>6. SetToSeq(acks) \in Seq(Refusals)
  BY <1>4, <1>5
<1>7. Owes(ids) = SetToSeq(acks)
  BY DEF Owes
<1>8. \A i \in ids : table[i].confirmed => Ack(i, 0) \in acks
  OBVIOUS
<1> QED
  BY <1>4, <1>6, <1>7, <1>8

\* Alerts are numbered from 1; 0 is none of them.
LEMMA IdsAreNumbers ==
  Ids \subseteq Nat /\ None \notin Ids /\ \A i \in Ids : i \in 1 .. MaxAlerts
BY BoundsAssumption DEF Ids, None

\* Every frame either side writes is one of its kinds ...
LEMMA FramesTyped ==
  /\ \A i \in Ids, c \in BOOLEAN, r \in BOOLEAN, q \in {0, 1}, s \in {0, 1} : Alert(i, c, r, q, s) \in ToPhone
  /\ \A i \in Ids : Stop(i) \in ToPhone /\ Fallback(i) \in ToPhone
  /\ [t |-> "hello"] \in ToPhone
  /\ \A i \in Ids, o \in {0, 1} : Ack(i, o) \in ToCam
  /\ \A c \in BOOLEAN : [t |-> "state", can |-> c] \in ToCam
  /\ [t |-> "ask"] \in ToCam
  /\ Refusals \subseteq ToCam
<1>1. \A i \in Ids, c \in BOOLEAN, r \in BOOLEAN, q \in {0, 1}, s \in {0, 1} : Alert(i, c, r, q, s) \in ToPhone
  BY DEF Alert, ToPhone
<1>2. \A i \in Ids : Stop(i) \in ToPhone /\ Fallback(i) \in ToPhone
  BY DEF Stop, Fallback, ToPhone
<1>3. [t |-> "hello"] \in ToPhone
  BY DEF ToPhone
<1>4. \A i \in Ids, o \in {0, 1} : Ack(i, o) \in ToCam
  BY DEF Ack, ToCam
<1>5. \A c \in BOOLEAN : [t |-> "state", can |-> c] \in ToCam
  BY DEF ToCam
<1>6. [t |-> "ask"] \in ToCam
  BY DEF ToCam
<1> QED
  BY <1>1, <1>2, <1>3, <1>4, <1>5, <1>6 DEF Refusals

\* ... and has the fields its kind has.
LEMMA FramesRead ==
  /\ \A f \in ToPhone : f.t \in {"alert", "stop", "fallback", "hello"}
  /\ \A f \in ToPhone : f.t = "alert" =>
       f.id \in Ids /\ f.cont \in BOOLEAN /\ f.crit \in BOOLEAN /\ f.route \in {0, 1} /\ f.step \in {0, 1}
  /\ \A f \in ToPhone : f.t \in {"stop", "fallback"} => f.id \in Ids
  /\ \A f \in ToCam : f.t \in {"ack", "state", "ask"}
  /\ \A f \in ToCam : f.t = "ack" => f.id \in Ids /\ f.outcome \in {0, 1}
  /\ \A f \in ToCam : f.t = "state" => f.can \in BOOLEAN
BY DEF ToPhone, ToCam

\* The fields of the dashcam's side.
LEMMA SidesRead ==
  ASSUME NEW c \in Sides
  PROVE  /\ c.link \in {"off", "up", "synced"} /\ c.can \in BOOLEAN /\ c.ep \in {"none", "warn", "crit"} /\ c.step \in {0, 1}
         /\ c.gate \in {"none", "ask", "phone", "buzzer"} /\ c.asked \in BOOLEAN
         /\ c.id \in Ids \cup {None} /\ c.shot \in Ids \cup {None} /\ c.id \in Nat /\ c.shot \in Nat
         /\ c.made \in 0 .. MaxAlerts /\ c.made \in Nat /\ None = 0
<1>1. /\ c.link \in {"off", "up", "synced"} /\ c.can \in BOOLEAN /\ c.ep \in {"none", "warn", "crit"} /\ c.step \in {0, 1}
      /\ c.gate \in {"none", "ask", "phone", "buzzer"} /\ c.asked \in BOOLEAN
      /\ c.id \in Ids \cup {None} /\ c.shot \in Ids \cup {None} /\ c.made \in 0 .. MaxAlerts
  BY DEF Sides
<1>2. c.made \in Nat
  BY <1>1, BoundsAssumption
<1>3. \A i \in Ids \cup {None} : i \in Nat
  BY IdsAreNumbers DEF None
<1> QED
  BY <1>1, <1>2, <1>3 DEF None

\* A table the phone can have, and an item its player can.
Tabled(t) == t \in [Ids -> Entries] /\ \A i \in Ids : t[i].confirmed => t[i].playing
Held(x) == x \in Items /\ (x.id = None) = (x = NoItem)

\* A pump puts at most an item in the player: who is in the table, sounds or is confirmed it leaves alone.
LEMMA PumpEffect ==
  ASSUME NEW t, NEW x, Tabled(t), Held(x), Pump(t, x)
  PROVE  /\ Tabled(table') /\ Held(item')
         /\ \A i \in Ids : /\ table'[i].in = t[i].in /\ table'[i].playing = t[i].playing
                           /\ table'[i].confirmed = t[i].confirmed /\ table'[i].cont = t[i].cont
<1>1. CASE x # NoItem \/ Ready(t) = {}
  BY <1>1 DEF Pump
<1>2. CASE ~(x # NoItem \/ Ready(t) = {})
  <2>1. PICK i \in Best(t) : /\ table' = [t EXCEPT ![i].owed = FALSE, ![i].due = FALSE]
                             /\ item' = [NoItem EXCEPT !.id = i, !.sounding = t[i].playing]
    BY <1>2 DEF Pump
  <2>2. i \in Ids
    BY DEF Best, Ready
  <2>3. t[i] \in Entries /\ i # None
    BY <2>2, IdsAreNumbers DEF Tabled
  <2>4. Held(item')
    BY <2>1, <2>2, <2>3 DEF Held, Items, NoItem, None, Entries
  <2>5. table'[i] = [t[i] EXCEPT !.owed = FALSE, !.due = FALSE] /\ table' \in [Ids -> Entries]
    BY <2>1, <2>2, <2>3 DEF Tabled, Entries
  <2>6. \A j \in Ids : j # i => table'[j] = t[j]
    BY <2>1, <2>2 DEF Tabled
  <2>7. /\ table'[i].in = t[i].in /\ table'[i].playing = t[i].playing
        /\ table'[i].confirmed = t[i].confirmed /\ table'[i].cont = t[i].cont
    BY <2>5, <2>3 DEF Entries
  <2> QED
    BY <2>4, <2>5, <2>6, <2>7 DEF Tabled
<1> QED
  BY <1>1, <1>2

\* The changes made to an alert's entry leave it one.
LEMMA EntryChanges ==
  ASSUME NEW e \in Entries, NEW s \in {0, 1}, NEW b \in BOOLEAN
  PROVE  /\ [e EXCEPT !.playing = FALSE, !.due = FALSE, !.confirmed = FALSE] \in Entries
         /\ [e EXCEPT !.due = TRUE] \in Entries
         /\ [e EXCEPT !.step = s, !.owed = b] \in Entries
         /\ NoEntry \in Entries
BY DEF Entries, NoEntry

\* The changes made to the item in the player leave it one.
LEMMA ItemChanges ==
  ASSUME NEW x, Held(x), NEW i, NEW b \in BOOLEAN, NEW c \in BOOLEAN
  PROVE  /\ x # NoItem => Held([x EXCEPT !.cut = b, !.stopped = c]) /\ Held([x EXCEPT !.stopped = c]) /\ Held([x EXCEPT !.on = b])
         /\ Held(NoItem)
<1>1. Held(NoItem)
  BY DEF Held, Items, NoItem, None
<1>2. ASSUME x # NoItem
      PROVE  Held([x EXCEPT !.cut = b, !.stopped = c]) /\ Held([x EXCEPT !.stopped = c]) /\ Held([x EXCEPT !.on = b])
  <2>1. x \in Items /\ x.id # None
    BY <1>2 DEF Held
  <2>2. \A y \in Items : y.id # None => Held(y)
    BY DEF Held, NoItem
  <2>3. [x EXCEPT !.cut = b, !.stopped = c].id # None /\ [x EXCEPT !.stopped = c].id # None /\ [x EXCEPT !.on = b].id # None
    BY <2>1 DEF Items
  <2>4. [x EXCEPT !.cut = b, !.stopped = c] \in Items /\ [x EXCEPT !.stopped = c] \in Items /\ [x EXCEPT !.on = b] \in Items
    BY <2>1 DEF Items
  <2> QED
    BY <2>2, <2>3, <2>4
<1> QED
  BY <1>1, <1>2

\* A stop leaves the player's item an item, and the same alert's.
LEMMA CutHeld ==
  ASSUME NEW x, Held(x), NEW i
  PROVE  /\ Held(Cut(x, i)) /\ Held(CutAll(x))
         /\ Cut(x, i).id = x.id /\ Cut(x, i).stopped \in BOOLEAN
         /\ x = NoItem => Cut(x, i) = x
         /\ x # NoItem => Cut(x, i) # NoItem
<1>1. CASE x = NoItem
  BY <1>1 DEF Cut, CutAll, Held, NoItem
<1>2. CASE x # NoItem
  <2>1. x \in Items
    BY DEF Held
  <2>2. x.stopped \in BOOLEAN /\ (x.stopped \/ x.id = i) \in BOOLEAN
    BY <2>1 DEF Items
  <2>3. Held([x EXCEPT !.cut = TRUE, !.stopped = @ \/ x.id = i]) /\ Held([x EXCEPT !.cut = TRUE, !.stopped = TRUE])
    BY <1>2, <2>2, ItemChanges
  <2>4. [x EXCEPT !.cut = TRUE, !.stopped = @ \/ x.id = i].id = x.id /\ [x EXCEPT !.cut = TRUE, !.stopped = @ \/ x.id = i].stopped \in BOOLEAN
    BY <2>1, <2>2 DEF Items
  <2> QED
    BY <1>2, <2>3, <2>4 DEF Cut, CutAll, Held
<1> QED
  BY <1>1, <1>2

\* Silencing some alerts ends what they sound and had confirmed, and nothing of the others.
LEMMA SilencedTyped ==
  ASSUME Tabled(table), NEW ids \in SUBSET Ids
  PROVE  /\ Tabled(Silenced(ids))
         /\ \A i \in Ids : /\ Silenced(ids)[i].in = table[i].in /\ Silenced(ids)[i].cont = table[i].cont
                           /\ Silenced(ids)[i].playing <=> table[i].playing /\ i \notin ids
                           /\ Silenced(ids)[i].confirmed <=> table[i].confirmed /\ i \notin ids
<1>1. \A i \in Ids : Silenced(ids)[i] = IF i \in ids THEN [table[i] EXCEPT !.playing = FALSE, !.due = FALSE, !.confirmed = FALSE]
                                        ELSE table[i]
  BY DEF Silenced
<1>2. \A i \in Ids : table[i] \in Entries /\ (table[i].confirmed => table[i].playing)
  BY DEF Tabled
<1>3. \A e \in Entries : LET q == [e EXCEPT !.playing = FALSE, !.due = FALSE, !.confirmed = FALSE]
                          IN  q \in Entries /\ q.in = e.in /\ q.cont = e.cont /\ ~q.playing /\ ~q.confirmed
  BY DEF Entries
<1>4. \A i \in Ids : Silenced(ids)[i] \in Entries /\ (Silenced(ids)[i].confirmed => Silenced(ids)[i].playing)
  BY <1>1, <1>2, <1>3
<1>5. Silenced(ids) \in [Ids -> Entries]
  BY <1>4 DEF Silenced
<1> QED
  BY <1>1, <1>2, <1>3, <1>4, <1>5 DEF Tabled

\* Quieting the player for them leaves its item one.
LEMMA QuietedHeld ==
  ASSUME Tabled(table), Held(item), NEW ids \in SUBSET Ids
  PROVE  Held(Quieted(ids)) /\ (item # NoItem => Quieted(ids) # NoItem)
<1> DEFINE x == Cut(item, None)
<1>1. Held(x) /\ x.stopped \in BOOLEAN /\ (item = NoItem => x = NoItem) /\ (item # NoItem => x # NoItem)
  BY CutHeld
<1>2. CASE item = NoItem
  <2>1. item.id \notin ids
    BY <1>2, IdsAreNumbers DEF NoItem
  <2>2. [x EXCEPT !.stopped = @ \/ (item.id \in ids /\ table[item.id].playing)] = NoItem
    BY <1>1, <1>2, <2>1 DEF NoItem
  <2> QED
    BY <1>2, <2>2 DEF Quieted
<1>3. CASE item # NoItem
  <2>1. item.id \in Ids
    BY <1>3 DEF Held, Items
  <2>2. (x.stopped \/ (item.id \in ids /\ table[item.id].playing)) \in BOOLEAN
    BY <1>1, <2>1 DEF Tabled, Entries
  <2>3. Held([x EXCEPT !.stopped = @ \/ (item.id \in ids /\ table[item.id].playing)])
    BY <1>1, <1>3, <2>2, ItemChanges
  <2>4. [x EXCEPT !.stopped = @ \/ (item.id \in ids /\ table[item.id].playing)].id = x.id /\ x.id # None
    BY <1>1, <1>3 DEF Held, Items
  <2> QED
    BY <1>3, <2>3, <2>4 DEF Quieted, NoItem
<1> QED
  BY <1>2, <1>3

----------------------------------------------------------------------------
\* A frame that ends an alert on the phone; one behind a place of the queue.
Ends(f, i) == f.t \in {"stop", "fallback"} /\ f.id = i
EndedAfter(q, j, i) == \E k \in 1 .. Len(q) : k > j /\ Ends(q[k], i)

\* The dashcam has left the alert to the phone: its buzzer keeps silent for it.
LeftTo(i) == (i = cam.id /\ Routed) \/ i = cam.shot

\* The frame at a place starts the alert; a frame confirms it.
AlertOf(q, j, i) == q[j].t = "alert" /\ q[j].id = i
IsAck(f, i) == f.t = "ack" /\ f.id = i /\ f.outcome = 1

\* The dashcam's side: a gate, and an alert's id, just while a sound lasts; what is asked is the one-shot it holds.
CamOK(c) ==
  /\ c \in Sides /\ (c.gate = "none") = (c.ep = "none") /\ (c.id = None) = (c.ep = "none")
  /\ c.asked => c.shot # None

\* The type invariant, the dashcam's side with what TypeOK does not say of its one-shot.
Typed == TypeOK /\ CamOK(cam)

\* What the two sessions agree on: no frames while the link is gone; a phone without a session sounds nothing; a
\* dashcam whose link is just up has sent nothing and routes nothing.
LinkInv ==
  /\ ~radio => toPhone = <<>> /\ \A f \in Range(toCam) : f.t # "ask"
  /\ ses = "off" => ~radio /\ Playing = {}
  /\ cam.link = "off" => ~radio
  /\ cam.link = "up" /\ radio => toPhone = <<>> /\ Playing = {}
  /\ cam.link # "synced" => ~Routed /\ ~cam.asked

\* Nothing on the air names an alert that the dashcam has yet to make.
Fresh ==
  /\ cam.id <= cam.made /\ cam.shot <= cam.made
  /\ \A f \in Range(toPhone) : f.t = "alert" => f.id <= cam.made
  /\ \A f \in Range(toCam) : f.t = "ack" /\ f.outcome = 1 => f.id <= cam.made

\* The one-shot is not the episode's alert; its ALERT is on the air at most once, and only while its answer is
\* awaited and none is coming: once answered it cannot start again.
ShotOnce ==
  cam.shot # None =>
    /\ cam.shot # cam.id
    /\ \A j \in 1 .. Len(toPhone) : AlertOf(toPhone, j, cam.shot) =>
         /\ cam.asked
         /\ \A f \in Range(toCam) : ~IsAck(f, cam.shot)
         /\ \A k \in 1 .. Len(toPhone) : AlertOf(toPhone, k, cam.shot) => k = j

\* OneVoice made inductive.  While the link stands, what the phone sounds the dashcam has left to it or an end is on
\* the air; and so it will be of each routed ALERT still on the air, with the end behind it.
Voice ==
  radio =>
    /\ \A i \in Playing : LeftTo(i) \/ EndedAfter(toPhone, 0, i)
    /\ \A j \in 1 .. Len(toPhone), i \in Ids : AlertOf(toPhone, j, i) /\ toPhone[j].route = 1 => LeftTo(i) \/ EndedAfter(toPhone, j, i)

\* The first layer: what NeverBoth needs, and all that the second stands on.
Inv == Typed /\ LinkInv /\ Fresh /\ ShotOnce /\ Voice

\* What every step of the dashcam but ShotOver does with the air, new being the frames it writes: an alert it no
\* longer leaves to the phone is one it says so of, and what it routes it has left to the phone.
CamMoves(new) ==
  /\ new \in Seq(ToPhone)
  /\ CamOK(cam')
  /\ \/ cam'.link = cam.link
     \/ cam'.link = "off" /\ ~radio
     \/ cam'.link = "synced" /\ radio
  /\ toPhone' = IF cam'.link = "synced" /\ radio THEN toPhone \o new ELSE toPhone
  /\ cam'.link # "synced" => ~Routed' /\ ~cam'.asked
  /\ cam.made <= cam'.made /\ cam'.id <= cam'.made /\ cam'.shot <= cam'.made
  /\ \A i \in Ids : LeftTo(i) => LeftTo(i)' \/ \E f \in Range(new) : Ends(f, i)
  /\ \A f \in Range(new) : f.t = "alert" =>
       f.id <= cam'.made /\ (f.route = 1 => LeftTo(f.id)') /\ (f.id = cam'.id => f.cont)
  /\ \A f \in Range(new) : f.t \in {"stop", "fallback"} => f.id <= cam.made /\ (Routed' => f.id # cam'.id)
  /\ cam'.id = cam.id \/ cam'.id = None \/ cam'.id > cam.made
  /\ Routed' => \/ Routed /\ cam'.id = cam.id /\ (cam'.gate = cam.gate \/ \E f \in Range(toCam) : IsAck(f, cam.id))
                \/ cam.can /\ cam'.id > cam.made /\ cam'.gate = "ask"

\* And, of a step that starts no one-shot: none is started, and one is held as answered only if it is.
ShotKept(new) ==
  cam'.shot # None =>
    /\ cam'.shot = cam.shot /\ cam'.shot # cam'.id
    /\ \A f \in Range(new) : f.t = "alert" => f.id # cam'.shot
    /\ cam.asked /\ ~cam'.asked => \E f \in Range(toCam) : IsAck(f, cam.shot)

\* A sound that starts, or changes tier: the old alert's Stop is behind its ALERT.
LEMMA AlertsMoves ==
  ASSUME Inv, CamAlerts
  PROVE  \E new : CamMoves(new) /\ ShotKept(new)
<1> DEFINE id == cam.made + 1
           route == IF Target /\ cam.gate # "buzzer" THEN 1 ELSE 0
<1>1. PICK ep \in {"warn", "crit"} \ {cam.ep} :
        /\ cam' = [cam EXCEPT !.made = id, !.ep = ep, !.id = id, !.step = 0, !.gate = IF route = 1 THEN "ask" ELSE "buzzer"]
        /\ Tells(cam, (IF cam.ep # "none" THEN <<Stop(cam.id)>> ELSE <<>>) \o <<Alert(id, TRUE, ep = "crit", route, 0)>>)
  BY DEF CamAlerts
<1> DEFINE old == IF cam.ep # "none" THEN <<Stop(cam.id)>> ELSE <<>>
           one == <<Alert(id, TRUE, ep = "crit", route, 0)>>
           new == old \o one
<1>2. cam \in Sides /\ (cam.gate = "none") = (cam.ep = "none") /\ (cam.id = None) = (cam.ep = "none") /\ (cam.asked => cam.shot # None)
  BY DEF Inv, Typed, CamOK
<1>3. cam.id \in Nat /\ cam.shot \in Nat /\ cam.made \in Nat /\ cam.shot <= cam.made /\ cam.id <= cam.made /\ None = 0
  BY <1>2, SidesRead DEF Inv, Fresh
<1>4. id \in Ids /\ id \in 1 .. MaxAlerts /\ id \in Nat /\ id > cam.made
  BY <1>3, BoundsAssumption DEF CamAlerts, Ids
<1>5. route \in {0, 1} /\ (route = 1 => Synced)
  BY DEF Target, Synced
<1>6. /\ old \in Seq(ToPhone) /\ \A f : f \in Range(old) <=> cam.ep # "none" /\ f = Stop(cam.id)
  <2>1. cam.ep # "none" => Stop(cam.id) \in ToPhone
    BY <1>2, FramesTyped DEF Sides
  <2> QED
    BY <2>1, RangeOfMaybe
<1>7. Alert(id, TRUE, ep = "crit", route, 0) \in ToPhone
  BY <1>4, <1>5, FramesTyped
<1>8. one \in Seq(ToPhone) /\ \A f : f \in Range(one) <=> f = Alert(id, TRUE, ep = "crit", route, 0)
  <2> DEFINE x == Alert(id, TRUE, ep = "crit", route, 0)
  <2> HIDE DEF x
  <2>1. x \in ToPhone
    BY <1>7 DEF x
  <2>2. <<x>> \in Seq(ToPhone) /\ \A f : f \in Range(<<x>>) <=> f = x
    BY <2>1, RangeOfOne
  <2> QED
    BY <2>2 DEF x
<1>9. new \in Seq(ToPhone) /\ \A f : f \in Range(new) <=> f \in Range(old) \/ f \in Range(one)
  <2> HIDE DEF old, one
  <2>1. old \in Seq(ToPhone) /\ one \in Seq(ToPhone)
    BY <1>6, <1>8
  <2> QED
    BY <2>1, RangeOfBoth
<1> HIDE DEF id, route
<1>10. /\ cam'.link = cam.link /\ cam'.made = id /\ cam'.id = id /\ cam'.ep = ep /\ cam'.shot = cam.shot /\ cam'.asked = cam.asked
       /\ cam'.gate = (IF route = 1 THEN "ask" ELSE "buzzer") /\ cam' \in Sides
  <2>1. cam' = [cam EXCEPT !.made = id, !.ep = ep, !.id = id, !.step = 0, !.gate = IF route = 1 THEN "ask" ELSE "buzzer"]
    BY <1>1
  <2>2. ep \in {"none", "warn", "crit"} /\ (IF route = 1 THEN "ask" ELSE "buzzer") \in {"none", "ask", "phone", "buzzer"} /\ id \in 0 .. MaxAlerts
    BY <1>4, BoundsAssumption
  <2>3. cam' \in Sides
    BY <1>2, <1>4, <2>1, <2>2 DEF Sides
  <2>4. /\ cam'.link = cam.link /\ cam'.made = id /\ cam'.id = id /\ cam'.ep = ep /\ cam'.shot = cam.shot /\ cam'.asked = cam.asked
        /\ cam'.gate = (IF route = 1 THEN "ask" ELSE "buzzer")
    BY <1>2, <2>1 DEF Sides
  <2> QED
    BY <2>3, <2>4
<1>11. CamOK(cam')
  BY <1>2, <1>3, <1>4, <1>10 DEF CamOK
<1>12. toPhone' = IF cam'.link = "synced" /\ radio THEN toPhone \o new ELSE toPhone
  BY <1>1, <1>10 DEF Tells
<1> HIDE DEF old, one, new
<1>13. ~Synced => ~Routed' /\ ~cam'.asked
  BY <1>5, <1>10 DEF Inv, LinkInv, Routed, Synced
<1>14. ASSUME NEW i \in Ids, LeftTo(i)
       PROVE  LeftTo(i)' \/ \E f \in Range(new) : Ends(f, i)
  <2>1. CASE i = cam.shot
    BY <1>10, <2>1 DEF LeftTo
  <2>2. CASE i = cam.id
    <3>1. Stop(cam.id) \in Range(new) /\ Ends(Stop(cam.id), i)
      BY <1>2, <1>6, <1>9, <2>2, IdsAreNumbers DEF Stop, Ends
    <3> QED
      BY <3>1
  <2> QED
    BY <1>14, <2>1, <2>2 DEF LeftTo
<1>15. ASSUME NEW f \in Range(new), f.t = "alert"
       PROVE  f.id = cam'.id /\ f.route = route /\ f.cont
  BY <1>6, <1>8, <1>9, <1>10, <1>15 DEF Stop, Alert
<1>16. route = 1 => LeftTo(cam.id)'
  BY <1>10 DEF LeftTo, Routed
<1>17. ASSUME NEW f \in Range(new), f.t = "alert"
       PROVE  f.id <= cam'.made /\ (f.route = 1 => LeftTo(f.id)')
  BY <1>4, <1>10, <1>15, <1>16, <1>17 DEF LeftTo
<1>18. ASSUME NEW f \in Range(new), f.t \in {"stop", "fallback"}
       PROVE  f.id = cam.id
  BY <1>6, <1>8, <1>9, <1>18 DEF Stop, Alert
<1>19. Routed' => cam.can /\ cam'.gate = "ask"
  BY <1>10 DEF Routed, route, Target
<1>20. cam'.id > cam.made /\ cam'.id # cam.id
  BY <1>3, <1>4, <1>10
<1>21. CamMoves(new)
  BY <1>3, <1>4, <1>9, <1>10, <1>11, <1>12, <1>13, <1>14, <1>15, <1>17, <1>18, <1>19, <1>20 DEF CamMoves, Synced
<1>22. ShotKept(new)
  BY <1>3, <1>4, <1>10, <1>15 DEF ShotKept
<1> QED
  BY <1>21, <1>22

\* A level change says the same alert again, routed as it is.
LEMMA StepsMoves ==
  ASSUME Inv, CamSteps
  PROVE  \E new : CamMoves(new) /\ ShotKept(new)
<1> DEFINE x == Alert(cam.id, TRUE, TRUE, IF Routed THEN 1 ELSE 0, 1)
           new == <<x>>
<1>1. cam' = [cam EXCEPT !.step = 1] /\ cam.ep = "crit" /\ toPhone' = IF cam.link = "synced" /\ radio THEN toPhone \o new ELSE toPhone
  BY DEF CamSteps, Tells
<1>2. cam \in Sides /\ (cam.gate = "none") = (cam.ep = "none") /\ (cam.id = None) = (cam.ep = "none") /\ (cam.asked => cam.shot # None)
  BY DEF Inv, Typed, CamOK
<1>3. cam.made \in Nat /\ cam.shot <= cam.made /\ cam.id <= cam.made /\ cam.id \in Ids
  BY <1>1, <1>2, SidesRead DEF Inv, Fresh
<1>4. x \in ToPhone /\ x.id = cam.id /\ x.t = "alert" /\ (x.route = 1 => Routed) /\ x.cont
  <2>1. x \in ToPhone
    BY <1>3, FramesTyped
  <2> QED
    BY <2>1 DEF Alert
<1> HIDE DEF x
<1>5. new \in Seq(ToPhone) /\ \A f : f \in Range(new) <=> f = x
  BY <1>4, RangeOfOne
<1> HIDE DEF new
<1>6. /\ cam' \in Sides /\ cam'.link = cam.link /\ cam'.made = cam.made /\ cam'.id = cam.id /\ cam'.ep = cam.ep
      /\ cam'.shot = cam.shot /\ cam'.asked = cam.asked /\ cam'.gate = cam.gate
  BY <1>1, <1>2 DEF Sides
<1>7. CamOK(cam')
  BY <1>2, <1>6 DEF CamOK
<1>8. \A i \in Ids : LeftTo(i)' <=> LeftTo(i)
  BY <1>6 DEF LeftTo, Routed
<1>9. cam'.link # "synced" => ~Routed' /\ ~cam'.asked
  BY <1>6 DEF Inv, LinkInv, Routed
<1>10. ASSUME NEW f \in Range(new), f.t = "alert"
       PROVE  f.id = cam.id /\ f.id <= cam'.made /\ (f.route = 1 => LeftTo(f.id)') /\ f.cont
  BY <1>3, <1>4, <1>5, <1>6, <1>8 DEF LeftTo
<1>11. (Routed' => Routed) /\ \A f \in Range(new) : f.t = "alert"
  BY <1>4, <1>5, <1>6 DEF Routed
<1>12. CamMoves(new)
  BY <1>1, <1>3, <1>5, <1>6, <1>7, <1>8, <1>9, <1>10, <1>11 DEF CamMoves
<1>13. ShotKept(new)
  BY <1>6, <1>10 DEF ShotKept, Inv, ShotOnce
<1> QED
  BY <1>12, <1>13

\* A step of the dashcam that ends at most the episode's own alert, and says at most that.
LEMMA EndsEpisode ==
  ASSUME Inv, NEW x \in ToPhone, Ends(x, cam.id), Tells(cam, <<x>>),
         CamOK(cam'), cam'.link = cam.link, cam'.made = cam.made, cam'.id \in {cam.id, None},
         cam'.shot = cam.shot, cam'.asked = cam.asked, ~Routed'
  PROVE  \E new : CamMoves(new) /\ ShotKept(new)
<1> DEFINE new == <<x>>
<1>1. toPhone' = IF cam'.link = "synced" /\ radio THEN toPhone \o new ELSE toPhone
  BY DEF Tells
<1>2. new \in Seq(ToPhone) /\ \A f : f \in Range(new) <=> f = x
  BY RangeOfOne
<1> HIDE DEF new
<1>3. cam.id \in Nat /\ cam.shot \in Nat /\ cam.made \in Nat /\ None = 0 /\ cam.shot <= cam.made /\ cam.id <= cam.made
  BY SidesRead DEF Inv, Typed, CamOK, Fresh
<1>4. ASSUME NEW i \in Ids, LeftTo(i)
      PROVE  LeftTo(i)' \/ \E f \in Range(new) : Ends(f, i)
  BY <1>2, <1>4 DEF LeftTo
<1>5. cam'.link # "synced" => ~Routed' /\ ~cam'.asked
  BY DEF Inv, LinkInv, Synced
<1>6. x.t # "alert" /\ x.id = cam.id
  BY DEF Ends
<1>7. CamMoves(new)
  BY <1>1, <1>2, <1>3, <1>4, <1>5, <1>6 DEF CamMoves
<1>8. ShotKept(new)
  BY <1>2, <1>6 DEF ShotKept, Inv, ShotOnce
<1> QED
  BY <1>7, <1>8

\* A sound that ends says Stop.
LEMMA ClearsMoves ==
  ASSUME Inv, CamClears
  PROVE  \E new : CamMoves(new) /\ ShotKept(new)
<1>1. cam' = [cam EXCEPT !.ep = "none", !.id = None, !.gate = "none"] /\ cam.ep # "none" /\ Tells(cam, <<Stop(cam.id)>>)
  BY DEF CamClears
<1>2. CamOK(cam)
  BY DEF Inv, Typed
<1>3. cam.id \in Ids
  BY <1>1, <1>2, SidesRead DEF CamOK
<1>4. Stop(cam.id) \in ToPhone /\ Ends(Stop(cam.id), cam.id)
  <2>1. Stop(cam.id) \in ToPhone
    BY <1>3, FramesTyped
  <2> QED
    BY <2>1 DEF Stop, Ends
<1>5. /\ cam' \in Sides /\ cam'.link = cam.link /\ cam'.made = cam.made /\ cam'.id = None /\ cam'.ep = "none"
      /\ cam'.shot = cam.shot /\ cam'.asked = cam.asked /\ cam'.gate = "none"
  BY <1>1, <1>2 DEF Sides, CamOK
<1>6. CamOK(cam')
  BY <1>2, <1>5 DEF CamOK
<1>7. ~Routed'
  BY <1>5 DEF Routed
<1> QED
  BY <1>1, <1>4, <1>5, <1>6, <1>7, EndsEpisode

\* The buzzer takes the episode over with a Fallback.
LEMMA BuzzerTakesEpisode ==
  ASSUME Inv, Routed, cam' = [cam EXCEPT !.gate = "buzzer"], Tells(cam, <<Fallback(cam.id)>>)
  PROVE  \E new : CamMoves(new) /\ ShotKept(new)
<1>1. CamOK(cam)
  BY DEF Inv, Typed
<1>2. cam.ep # "none" /\ cam.id \in Ids
  BY <1>1, SidesRead DEF CamOK, Routed
<1>3. Fallback(cam.id) \in ToPhone /\ Ends(Fallback(cam.id), cam.id)
  <2>1. Fallback(cam.id) \in ToPhone
    BY <1>2, FramesTyped
  <2> QED
    BY <2>1 DEF Fallback, Ends
<1>4. /\ cam' \in Sides /\ cam'.link = cam.link /\ cam'.made = cam.made /\ cam'.id = cam.id /\ cam'.ep = cam.ep
      /\ cam'.shot = cam.shot /\ cam'.asked = cam.asked /\ cam'.gate = "buzzer"
  BY <1>1 DEF Sides, CamOK
<1>5. CamOK(cam')
  BY <1>1, <1>2, <1>4 DEF CamOK
<1>6. ~Routed'
  BY <1>4 DEF Routed
<1> QED
  BY <1>3, <1>4, <1>5, <1>6, EndsEpisode

\* The buzzer takes the one-shot over with a Fallback.
LEMMA BuzzerTakesShot ==
  ASSUME Inv, cam.shot # None, cam' = [cam EXCEPT !.shot = None, !.asked = FALSE], Tells(cam, <<Fallback(cam.shot)>>)
  PROVE  \E new : CamMoves(new) /\ ShotKept(new)
<1> DEFINE x == Fallback(cam.shot)
           new == <<x>>
<1>1. CamOK(cam)
  BY DEF Inv, Typed
<1>2. /\ cam.shot \in Ids /\ cam.id \in Nat /\ cam.shot \in Nat /\ cam.made \in Nat /\ None = 0
      /\ cam.shot <= cam.made /\ cam.id <= cam.made
  BY <1>1, SidesRead DEF CamOK, Inv, Fresh
<1>3. x \in ToPhone /\ x.t # "alert" /\ x.id = cam.shot /\ Ends(x, cam.shot) /\ cam.shot # cam.id
  <2>1. x \in ToPhone
    BY <1>2, FramesTyped
  <2> QED
    BY <2>1 DEF Fallback, Ends, Inv, ShotOnce
<1>4. toPhone' = IF cam.link = "synced" /\ radio THEN toPhone \o new ELSE toPhone
  BY DEF Tells
<1> HIDE DEF x
<1>5. new \in Seq(ToPhone) /\ \A f : f \in Range(new) <=> f = x
  BY <1>3, RangeOfOne
<1> HIDE DEF new
<1>6. /\ cam' \in Sides /\ cam'.link = cam.link /\ cam'.made = cam.made /\ cam'.id = cam.id /\ cam'.ep = cam.ep
      /\ cam'.shot = None /\ cam'.asked = FALSE /\ cam'.gate = cam.gate
  BY <1>1 DEF Sides, CamOK
<1>7. CamOK(cam')
  BY <1>1, <1>6 DEF CamOK
<1>8. ASSUME NEW i \in Ids, LeftTo(i)
      PROVE  LeftTo(i)' \/ \E f \in Range(new) : Ends(f, i)
  <2>1. CASE i = cam.shot
    BY <1>3, <1>5, <2>1
  <2>2. CASE i = cam.id /\ Routed
    BY <1>6, <2>2 DEF LeftTo, Routed
  <2> QED
    BY <1>8, <2>1, <2>2 DEF LeftTo
<1>9. cam'.link # "synced" => ~Routed' /\ ~cam'.asked
  BY <1>6 DEF Inv, LinkInv, Routed
<1>10. CamMoves(new)
  <2>1. Routed' => Routed
    BY <1>6 DEF Routed
  <2> QED
    BY <1>2, <1>3, <1>4, <1>5, <1>6, <1>7, <1>8, <1>9, <2>1 DEF CamMoves
<1>11. ShotKept(new)
  BY <1>6 DEF ShotKept
<1> QED
  BY <1>10, <1>11

\* What the buzzer takes over, it says so of.
LEMMA BothFallbacks ==
  ASSUME Inv
  PROVE  LET q == (IF Routed THEN <<Fallback(cam.id)>> ELSE <<>>) \o (IF cam.asked THEN <<Fallback(cam.shot)>> ELSE <<>>)
         IN  /\ q \in Seq(ToPhone) /\ \A f \in Range(q) : f.t # "alert" /\ f.id <= cam.made
             /\ Routed => \E f \in Range(q) : Ends(f, cam.id)
             /\ cam.asked => \E f \in Range(q) : Ends(f, cam.shot)
<1> DEFINE x == Fallback(cam.id)
           y == Fallback(cam.shot)
<1>1. CamOK(cam)
  BY DEF Inv, Typed
<1>2. Routed \in BOOLEAN /\ cam.asked \in BOOLEAN /\ (Routed => cam.id \in Ids) /\ (cam.asked => cam.shot \in Ids)
  BY <1>1, SidesRead DEF CamOK, Routed
<1>3. (Routed => x \in ToPhone) /\ (cam.asked => y \in ToPhone)
  BY <1>2, FramesTyped
<1>4. /\ x.t # "alert" /\ y.t # "alert" /\ Ends(x, cam.id) /\ Ends(y, cam.shot)
      /\ x.id <= cam.made /\ y.id <= cam.made
  BY DEF Fallback, Ends, Inv, Fresh
<1> HIDE DEF x, y
<1> DEFINE s == IF Routed THEN <<x>> ELSE <<>>
           t == IF cam.asked THEN <<y>> ELSE <<>>
<1>5. s \in Seq(ToPhone) /\ \A f : f \in Range(s) <=> Routed /\ f = x
  BY <1>2, <1>3, RangeOfMaybe
<1>6. t \in Seq(ToPhone) /\ \A f : f \in Range(t) <=> cam.asked /\ f = y
  BY <1>2, <1>3, RangeOfMaybe
<1>7. s \o t \in Seq(ToPhone) /\ \A f : f \in Range(s \o t) <=> f \in Range(s) \/ f \in Range(t)
  <2> HIDE DEF s, t
  <2> QED
    BY <1>5, <1>6, RangeOfBoth
<1> HIDE DEF s, t
<1>8. /\ s \o t \in Seq(ToPhone) /\ \A f \in Range(s \o t) : f.t # "alert" /\ f.id <= cam.made
      /\ Routed => \E f \in Range(s \o t) : Ends(f, cam.id)
      /\ cam.asked => \E f \in Range(s \o t) : Ends(f, cam.shot)
  BY <1>4, <1>5, <1>6, <1>7
<1> QED
  BY <1>8 DEF s, t, x, y

\* A step that leaves nothing to the phone but a one-shot it has confirmed, and says q of what it took over.
LEMMA AllTaken ==
  ASSUME Inv, NEW q \in Seq(ToPhone),
         Routed => \E f \in Range(q) : Ends(f, cam.id), cam.asked => \E f \in Range(q) : Ends(f, cam.shot),
         \A f \in Range(q) : IF f.t = "alert" THEN f.route = 0 /\ f.id = cam.id /\ f.cont ELSE f.t # "hello" => f.id <= cam.made,
         CamOK(cam'), cam'.made = cam.made, cam'.id = cam.id, cam'.shot = (IF cam.asked THEN None ELSE cam.shot),
         ~cam'.asked, ~Routed',
         \/ cam'.link = cam.link
         \/ cam'.link = "off" /\ ~radio
         \/ cam'.link = "synced" /\ radio,
         toPhone' = IF cam'.link = "synced" /\ radio THEN toPhone \o q ELSE toPhone
  PROVE  \E new : CamMoves(new) /\ ShotKept(new)
<1>1. /\ cam.id \in Nat /\ cam.shot \in Nat /\ cam.made \in Nat /\ None = 0 /\ cam.asked \in BOOLEAN
      /\ cam.shot <= cam.made /\ cam.id <= cam.made
  BY SidesRead DEF Inv, Typed, CamOK, Fresh
<1>2. ASSUME NEW i \in Ids, LeftTo(i)
      PROVE  LeftTo(i)' \/ \E f \in Range(q) : Ends(f, i)
  BY <1>1, <1>2 DEF LeftTo
<1>3. CamMoves(q)
  BY <1>1, <1>2 DEF CamMoves
<1>4. ShotKept(q)
  BY <1>1 DEF ShotKept, Inv, ShotOnce
<1> QED
  BY <1>3, <1>4

\* The phone is lost, or cannot play: everything routed and unanswered is the buzzer's.
LEMMA TakesOverMoves ==
  ASSUME Inv, NEW c \in Sides, TakesOver(c), c.ep = cam.ep, c.id = cam.id, c.gate = cam.gate, c.shot = cam.shot, c.asked = cam.asked,
         c.made = cam.made, c.link = cam.link \/ (c.link = "off" /\ ~radio)
  PROVE  \E new : CamMoves(new) /\ ShotKept(new)
<1> DEFINE q == (IF Routed THEN <<Fallback(cam.id)>> ELSE <<>>) \o (IF cam.asked THEN <<Fallback(cam.shot)>> ELSE <<>>)
<1>1. cam' = [c EXCEPT !.gate = IF c.gate \in {"ask", "phone"} THEN "buzzer" ELSE @, !.shot = IF c.asked THEN None ELSE @, !.asked = FALSE]
  BY DEF TakesOver
<1>2. CamOK(cam)
  BY DEF Inv, Typed
<1>3. /\ cam' \in Sides /\ cam'.link = c.link /\ cam'.made = c.made /\ cam'.id = c.id /\ cam'.ep = c.ep /\ ~cam'.asked
      /\ cam'.shot = (IF c.asked THEN None ELSE c.shot) /\ cam'.gate = IF c.gate \in {"ask", "phone"} THEN "buzzer" ELSE c.gate
  BY <1>1 DEF Sides
<1>4. CamOK(cam')
  BY <1>2, <1>3, SidesRead DEF CamOK
<1>5. ~Routed'
  BY <1>3 DEF Routed
<1>6. toPhone' = IF cam'.link = "synced" /\ radio THEN toPhone \o q ELSE toPhone
  BY <1>3 DEF TakesOver, Tells, Routed
<1>7. /\ q \in Seq(ToPhone) /\ \A f \in Range(q) : f.t # "alert" /\ f.id <= cam.made
      /\ Routed => \E f \in Range(q) : Ends(f, cam.id)
      /\ cam.asked => \E f \in Range(q) : Ends(f, cam.shot)
  BY BothFallbacks
<1> HIDE DEF q
<1> QED
  BY <1>3, <1>4, <1>5, <1>6, <1>7, AllTaken

\* A HELLO on a link that was routed is such a loss; one on a new link syncs it, the sound under way not routed.
LEMMA HelloMoves ==
  ASSUME Inv, CamHearsHello, radio
  PROVE  \E new : CamMoves(new) /\ ShotKept(new)
<1> DEFINE q == (IF Routed THEN <<Fallback(cam.id)>> ELSE <<>>) \o (IF cam.asked THEN <<Fallback(cam.shot)>> ELSE <<>>)
           h == <<[t |-> "hello"]>>
           x == Alert(cam.id, TRUE, cam.ep = "crit", 0, cam.step)
           a == IF ~Synced /\ cam.ep # "none" THEN <<x>> ELSE <<>>
           new == (q \o h) \o a
<1>1. cam' = [cam EXCEPT !.link = "synced", !.gate = IF Routed THEN "buzzer" ELSE @, !.shot = IF cam.asked THEN None ELSE @, !.asked = FALSE,
                        !.can = IF Synced THEN @ ELSE TRUE]
  BY DEF CamHearsHello, Routed
<1>2. CamOK(cam)
  BY DEF Inv, Typed
<1>3. /\ cam' \in Sides /\ cam'.link = "synced" /\ cam'.made = cam.made /\ cam'.id = cam.id /\ cam'.ep = cam.ep /\ ~cam'.asked
      /\ cam'.shot = (IF cam.asked THEN None ELSE cam.shot) /\ cam'.gate = IF Routed THEN "buzzer" ELSE cam.gate
  BY <1>1, <1>2 DEF Sides, CamOK
<1>4. CamOK(cam')
  BY <1>2, <1>3, SidesRead DEF CamOK, Routed
<1>5. ~Routed'
  BY <1>3 DEF Routed
<1>6. /\ q \in Seq(ToPhone) /\ \A f \in Range(q) : f.t # "alert" /\ f.id <= cam.made
      /\ Routed => \E f \in Range(q) : Ends(f, cam.id)
      /\ cam.asked => \E f \in Range(q) : Ends(f, cam.shot)
  BY BothFallbacks
<1>7. h \in Seq(ToPhone) /\ \A f \in Range(h) : f.t = "hello"
  <2> DEFINE y == [t |-> "hello"]
  <2>1. y \in ToPhone /\ y.t = "hello"
    BY FramesTyped
  <2> HIDE DEF y
  <2>2. <<y>> \in Seq(ToPhone) /\ \A f : f \in Range(<<y>>) <=> f = y
    BY <2>1, RangeOfOne
  <2>3. <<y>> \in Seq(ToPhone) /\ \A f \in Range(<<y>>) : f.t = "hello"
    BY <2>1, <2>2
  <2> QED
    BY <2>3 DEF y
<1>8. a \in Seq(ToPhone) /\ \A f \in Range(a) : f.t = "alert" /\ f.id = cam.id /\ f.route = 0 /\ f.cont
  <2>1. x.t = "alert" /\ x.id = cam.id /\ x.route = 0 /\ x.cont
    BY DEF Alert
  <2>2. cam.ep # "none" => x \in ToPhone
    BY <1>2, SidesRead, FramesTyped DEF CamOK
  <2>3. (~Synced /\ cam.ep # "none") \in BOOLEAN
    OBVIOUS
  <2> HIDE DEF x
  <2>4. a \in Seq(ToPhone) /\ \A f : f \in Range(a) <=> (~Synced /\ cam.ep # "none") /\ f = x
    BY <2>2, <2>3, RangeOfMaybe
  <2> QED
    BY <2>1, <2>4
<1>9. toPhone' = toPhone \o new
  <2> DEFINE q1 == IF Routed THEN <<Fallback(cam.id)>> ELSE <<>>
             q2 == IF cam.asked THEN <<Fallback(cam.shot)>> ELSE <<>>
  <2>1. toPhone' = (((toPhone \o q1) \o q2) \o h) \o a
    BY DEF CamHearsHello, Routed
  <2>2. q1 \in Seq(ToPhone) /\ q2 \in Seq(ToPhone)
    <3>1. (Routed => Fallback(cam.id) \in ToPhone) /\ (cam.asked => Fallback(cam.shot) \in ToPhone)
      BY <1>2, SidesRead, FramesTyped DEF CamOK, Routed
    <3>2. Routed \in BOOLEAN /\ cam.asked \in BOOLEAN
      BY <1>2, SidesRead DEF CamOK, Routed
    <3> QED
      BY <3>1, <3>2, RangeOfMaybe
  <2>3. toPhone \in Seq(ToPhone)
    BY DEF Inv, Typed, TypeOK
  <2> HIDE DEF q1, q2, h, a
  <2>4. (toPhone \o q1) \o q2 = toPhone \o (q1 \o q2) /\ q1 \o q2 \in Seq(ToPhone)
    BY <2>2, <2>3, ConcatAssociative, ConcatProperties
  <2>5. ((toPhone \o (q1 \o q2)) \o h) \o a = (toPhone \o ((q1 \o q2) \o h)) \o a /\ (q1 \o q2) \o h \in Seq(ToPhone)
    BY <1>7, <2>3, <2>4, ConcatAssociative, ConcatProperties
  <2>6. (toPhone \o ((q1 \o q2) \o h)) \o a = toPhone \o (((q1 \o q2) \o h) \o a)
    <3> DEFINE r == (q1 \o q2) \o h
    <3>1. r \in Seq(ToPhone) /\ a \in Seq(ToPhone)
      BY <1>8, <2>5
    <3> HIDE DEF r
    <3>2. (toPhone \o r) \o a = toPhone \o (r \o a)
      BY <2>3, <3>1, ConcatAssociative
    <3> QED
      BY <3>2 DEF r
  <2> QED
    BY <2>1, <2>4, <2>5, <2>6 DEF q1, q2
<1> HIDE DEF q, h, a
<1>10. q \o h \in Seq(ToPhone) /\ \A f : f \in Range(q \o h) <=> f \in Range(q) \/ f \in Range(h)
  BY <1>6, <1>7, RangeOfBoth
<1>11. new \in Seq(ToPhone) /\ \A f : f \in Range(new) <=> f \in Range(q \o h) \/ f \in Range(a)
  BY <1>8, <1>10, RangeOfBoth
<1>12. /\ \A f \in Range(new) : IF f.t = "alert" THEN f.route = 0 /\ f.id = cam.id /\ f.cont ELSE f.t # "hello" => f.id <= cam.made
       /\ Routed => \E f \in Range(new) : Ends(f, cam.id)
       /\ cam.asked => \E f \in Range(new) : Ends(f, cam.shot)
  BY <1>6, <1>7, <1>8, <1>10, <1>11
<1> HIDE DEF new
<1> QED
  BY <1>3, <1>4, <1>5, <1>9, <1>11, <1>12, AllTaken

\* A step of the dashcam that says nothing, and takes an answer only from a frame that gives it.
LEMMA UnsaidMoves ==
  ASSUME Inv, UNCHANGED toPhone, CamOK(cam'), cam'.link = cam.link, cam'.made = cam.made, cam'.id = cam.id, cam'.shot = cam.shot,
         Routed' <=> Routed, cam'.gate = cam.gate \/ \E f \in Range(toCam) : IsAck(f, cam.id), cam'.asked => cam.asked,
         cam.asked /\ ~cam'.asked => \E f \in Range(toCam) : IsAck(f, cam.shot)
  PROVE  \E new : CamMoves(new) /\ ShotKept(new)
<1> DEFINE new == <<>>
<1>1. new \in Seq(ToPhone) /\ \A f : f \notin Range(new)
  BY DEF Range
<1>2. toPhone \o new = toPhone
  BY ConcatEmptySeq DEF Inv, Typed, TypeOK
<1> HIDE DEF new
<1>3. cam.made \in Nat /\ cam.shot <= cam.made /\ cam.id <= cam.made
  BY SidesRead DEF Inv, Typed, CamOK, Fresh
<1>4. \A i \in Ids : LeftTo(i) => LeftTo(i)'
  BY DEF LeftTo
<1>5. CamMoves(new)
  BY <1>1, <1>2, <1>3, <1>4 DEF CamMoves, Inv, LinkInv
<1>6. ShotKept(new)
  BY <1>1 DEF ShotKept, Inv, ShotOnce
<1> QED
  BY <1>5, <1>6

\* An answer heard: taken only for what is routed to the phone.
LEMMA AckMoves ==
  ASSUME Inv, NEW f \in Range(toCam), f.t = "ack", CamHearsAck(f)
  PROVE  \E new : CamMoves(new) /\ ShotKept(new)
<1>1. CamOK(cam)
  BY DEF Inv, Typed
<1>2. f \in ToCam
  BY SeqElement DEF Inv, Typed, TypeOK
<1>3. f.id \in Ids /\ f.outcome \in {0, 1} /\ f.id # None
  BY <1>2, FramesRead, IdsAreNumbers
<1>4. ~(f.id = cam.id /\ f.id = cam.shot)
  BY <1>3 DEF Inv, ShotOnce
<1>5. CASE f.id = cam.id /\ Routed /\ f.outcome = 1
  <2>1. cam' = [cam EXCEPT !.gate = "phone"] /\ UNCHANGED toPhone
    BY <1>4, <1>5 DEF CamHearsAck
  <2>2. /\ cam' \in Sides /\ cam'.link = cam.link /\ cam'.made = cam.made /\ cam'.id = cam.id /\ cam'.ep = cam.ep
        /\ cam'.shot = cam.shot /\ cam'.asked = cam.asked /\ cam'.gate = "phone"
    BY <1>1, <2>1 DEF Sides, CamOK
  <2>3. CamOK(cam') /\ Routed' /\ IsAck(f, cam.id)
    BY <1>1, <1>5, <2>2 DEF CamOK, Routed, IsAck
  <2> QED
    BY <1>5, <2>1, <2>2, <2>3, UnsaidMoves
<1>6. CASE f.id = cam.id /\ Routed /\ f.outcome = 0
  <2>1. cam' = [cam EXCEPT !.gate = "buzzer"] /\ Tells(cam, <<Fallback(cam.id)>>)
    BY <1>4, <1>6 DEF CamHearsAck
  <2> QED
    BY <1>6, <2>1, BuzzerTakesEpisode
<1>7. CASE ~(f.id = cam.id /\ Routed) /\ f.id = cam.shot /\ f.outcome = 1
  <2>1. cam' = [cam EXCEPT !.asked = FALSE] /\ UNCHANGED toPhone
    BY <1>4, <1>7 DEF CamHearsAck
  <2>2. /\ cam' \in Sides /\ cam'.link = cam.link /\ cam'.made = cam.made /\ cam'.id = cam.id /\ cam'.ep = cam.ep
        /\ cam'.shot = cam.shot /\ cam'.asked = FALSE /\ cam'.gate = cam.gate
    BY <1>1, <2>1 DEF Sides, CamOK
  <2>3. CamOK(cam') /\ (Routed' <=> Routed)
    BY <1>1, <2>2 DEF CamOK, Routed
  <2>4. IsAck(f, cam.shot)
    BY <1>7 DEF IsAck
  <2> QED
    BY <2>1, <2>2, <2>3, <2>4, UnsaidMoves
<1>8. CASE ~(f.id = cam.id /\ Routed) /\ f.id = cam.shot /\ f.outcome = 0
  <2>1. cam' = [cam EXCEPT !.shot = None, !.asked = FALSE] /\ Tells(cam, <<Fallback(cam.shot)>>) /\ cam.shot # None
    BY <1>3, <1>4, <1>8 DEF CamHearsAck
  <2> QED
    BY <2>1, BuzzerTakesShot
<1>9. CASE ~(f.id = cam.id /\ Routed) /\ f.id # cam.shot
  <2>1. UNCHANGED <<cam, toPhone>>
    BY <1>9 DEF CamHearsAck
  <2> QED
    BY <1>1, <2>1, UnsaidMoves DEF Routed
<1> QED
  BY <1>3, <1>5, <1>6, <1>7, <1>8, <1>9

\* A STATE heard.
LEMMA StateMoves ==
  ASSUME Inv, NEW f, CamHearsState(f)
  PROVE  \E new : CamMoves(new) /\ ShotKept(new)
<1>1. CamOK(cam) /\ cam \in Sides
  BY DEF Inv, Typed, CamOK
<1>2. CASE f.can
  <2>1. cam' = [cam EXCEPT !.can = TRUE] /\ UNCHANGED toPhone
    BY <1>2 DEF CamHearsState
  <2>2. /\ cam' \in Sides /\ cam'.link = cam.link /\ cam'.made = cam.made /\ cam'.id = cam.id /\ cam'.ep = cam.ep
        /\ cam'.shot = cam.shot /\ cam'.asked = cam.asked /\ cam'.gate = cam.gate
    BY <1>1, <2>1 DEF Sides
  <2>3. CamOK(cam') /\ (Routed' <=> Routed)
    BY <1>1, <2>2 DEF CamOK, Routed
  <2> QED
    BY <2>1, <2>2, <2>3, UnsaidMoves
<1>3. CASE ~f.can
  <2> DEFINE c == [cam EXCEPT !.can = FALSE]
  <2>1. TakesOver(c)
    BY <1>3 DEF CamHearsState
  <2>2. /\ c \in Sides /\ c.ep = cam.ep /\ c.id = cam.id /\ c.gate = cam.gate /\ c.shot = cam.shot /\ c.asked = cam.asked
        /\ c.made = cam.made /\ c.link = cam.link
    BY <1>1 DEF Sides
  <2> HIDE DEF c
  <2> QED
    BY <2>1, <2>2, TakesOverMoves
<1> QED
  BY <1>2, <1>3

\* A frame heard by the dashcam, whatever it is.
LEMMA HearsMoves ==
  ASSUME Inv, CamHears
  PROVE  \E new : CamMoves(new) /\ ShotKept(new)
<1> DEFINE f == Head(toCam)
<1>1. toCam \in Seq(ToCam) /\ toCam # <<>>
  BY DEF Inv, Typed, TypeOK, CamHears
<1>2. f \in ToCam /\ f \in Range(toCam)
  BY <1>1, RangeOfTail
<1>3. f.t \in {"ack", "state", "ask"}
  BY <1>2, FramesRead
<1>4. CASE f.t = "ack"
  <2>1. CamHearsAck(f)
    BY <1>4 DEF CamHears
  <2> HIDE DEF f
  <2> QED
    BY <1>2, <1>4, <2>1, AckMoves
<1>5. CASE f.t = "state"
  <2>1. CamHearsState(f)
    BY <1>5 DEF CamHears
  <2> HIDE DEF f
  <2> QED
    BY <2>1, StateMoves
<1>6. CASE f.t = "ask"
  <2>1. CamHearsHello
    BY <1>6 DEF CamHears
  <2> HIDE DEF f
  <2>2. radio
    BY <1>2, <1>6 DEF Inv, LinkInv
  <2> QED
    BY <2>1, <2>2, HelloMoves
<1> QED
  BY <1>3, <1>4, <1>5, <1>6

\* A deadline, the quiet guard, the link found gone.
LEMMA TimersMove ==
  ASSUME Inv, Deadline \/ QuietGuard \/ CamNotices
  PROVE  \E new : CamMoves(new) /\ ShotKept(new)
<1>1. cam.gate = "ask" \/ cam.gate = "phone" => Routed
  BY DEF Routed
<1>2. CamOK(cam) /\ cam \in Sides
  BY DEF Inv, Typed, CamOK
<1>3. CASE (Deadline \/ QuietGuard) /\ cam' = [cam EXCEPT !.gate = "buzzer"] /\ Tells(cam, <<Fallback(cam.id)>>) /\ Routed
  BY <1>3, BuzzerTakesEpisode
<1>4. CASE Deadline /\ cam' = [cam EXCEPT !.shot = None, !.asked = FALSE] /\ Tells(cam, <<Fallback(cam.shot)>>) /\ cam.asked
  BY <1>2, <1>4, BuzzerTakesShot DEF CamOK
<1>5. CASE CamNotices
  <2> DEFINE c == [cam EXCEPT !.link = "off"]
  <2>1. TakesOver(c) /\ ~radio
    BY <1>5 DEF CamNotices
  <2>2. /\ c \in Sides /\ c.ep = cam.ep /\ c.id = cam.id /\ c.gate = cam.gate /\ c.shot = cam.shot /\ c.asked = cam.asked
        /\ c.made = cam.made /\ c.link = "off"
    BY <1>2 DEF Sides
  <2> HIDE DEF c
  <2> QED
    BY <2>1, <2>2, TakesOverMoves
<1> QED
  BY <1>1, <1>3, <1>4, <1>5 DEF Deadline, QuietGuard

\* A chime: a new alert, the one-shot only if it is asked of the phone.
LEMMA ChimesMove ==
  ASSUME Inv, CamChimes
  PROVE  \E new : /\ CamMoves(new)
                  /\ cam'.shot # None => /\ cam'.shot > cam.made /\ cam'.shot # cam'.id /\ cam'.asked
                                         /\ Len(new) = 1
<1> DEFINE id == cam.made + 1
           x == Alert(id, FALSE, FALSE, IF Target THEN 1 ELSE 0, 0)
           new == <<x>>
<1>1. /\ cam' = [cam EXCEPT !.made = id, !.shot = IF Target THEN id ELSE None, !.asked = Target]
      /\ toPhone' = IF cam.link = "synced" /\ radio THEN toPhone \o new ELSE toPhone
      /\ cam.shot = None /\ cam.made < MaxAlerts
  BY DEF CamChimes, Tells
<1>2. CamOK(cam) /\ cam \in Sides
  BY DEF Inv, Typed, CamOK
<1>3. cam.id \in Nat /\ cam.shot \in Nat /\ cam.made \in Nat /\ cam.shot <= cam.made /\ cam.id <= cam.made /\ None = 0
  BY <1>2, SidesRead DEF Inv, Fresh
<1>4. id \in Ids /\ id \in 0 .. MaxAlerts /\ id \in Nat /\ id > cam.made /\ id # None
  BY <1>1, <1>3, BoundsAssumption DEF Ids
<1>5. x \in ToPhone /\ x.id = id /\ x.t = "alert" /\ (x.route = 1 => Target) /\ id # cam.id
  <2>1. x \in ToPhone
    BY <1>4, FramesTyped
  <2> QED
    BY <1>3, <1>4, <2>1 DEF Alert
<1> HIDE DEF x
<1>6. new \in Seq(ToPhone) /\ \A f : f \in Range(new) <=> f = x
  BY <1>5, RangeOfOne
<1>7. Len(new) = 1
  OBVIOUS
<1> HIDE DEF new, id
<1>8. Target \in BOOLEAN /\ (Target => Synced)
  BY <1>2, SidesRead DEF Target, Synced
<1>9. /\ cam' \in Sides /\ cam'.link = cam.link /\ cam'.made = id /\ cam'.id = cam.id /\ cam'.ep = cam.ep
      /\ cam'.shot = (IF Target THEN id ELSE None) /\ cam'.asked = Target /\ cam'.gate = cam.gate
  <2> DEFINE s == IF Target THEN id ELSE None
             a == Target
  <2>1. s \in Ids \cup {None} /\ a \in BOOLEAN
    BY <1>4, <1>8
  <2>2. cam' = [cam EXCEPT !.made = id, !.shot = s, !.asked = a]
    BY <1>1
  <2> HIDE DEF s, a
  <2>3. /\ cam' \in Sides /\ cam'.link = cam.link /\ cam'.made = id /\ cam'.id = cam.id /\ cam'.ep = cam.ep
        /\ cam'.shot = s /\ cam'.asked = a /\ cam'.gate = cam.gate
    BY <1>2, <1>4, <2>1, <2>2 DEF Sides
  <2> QED
    BY <2>3 DEF s, a
<1>10. CamOK(cam')
  BY <1>2, <1>4, <1>9 DEF CamOK
<1>11. \A i \in Ids : LeftTo(i) => LeftTo(i)'
  BY <1>1, <1>9, IdsAreNumbers DEF LeftTo, Routed
<1>12. cam'.link # "synced" => ~Routed' /\ ~cam'.asked
  BY <1>8, <1>9 DEF Inv, LinkInv, Routed, Synced
<1>13. ASSUME NEW f \in Range(new), f.t = "alert"
       PROVE  f.id <= cam'.made /\ (f.route = 1 => LeftTo(f.id)') /\ f.id # cam'.id
  BY <1>4, <1>5, <1>6, <1>9 DEF LeftTo
<1>14. CamMoves(new)
  <2>1. (Routed' => Routed) /\ \A f \in Range(new) : f.t = "alert"
    BY <1>5, <1>6, <1>9 DEF Routed
  <2> QED
    BY <1>1, <1>3, <1>4, <1>6, <1>9, <1>10, <1>11, <1>12, <1>13, <2>1 DEF CamMoves
<1> QED
  BY <1>3, <1>4, <1>7, <1>9, <1>14

----------------------------------------------------------------------------
\* Frames put on the air stand behind those under way.
LEMMA Appended ==
  ASSUME NEW q \in Seq(ToPhone), NEW new \in Seq(ToPhone)
  PROVE  /\ q \o new \in Seq(ToPhone) /\ Len(q \o new) = Len(q) + Len(new) /\ Len(q) \in Nat /\ Len(new) \in Nat
         /\ \A k \in 1 .. Len(q) : (q \o new)[k] = q[k]
         /\ \A k \in 1 .. Len(new) : (q \o new)[Len(q) + k] = new[k]
         /\ \A k \in 1 .. Len(q \o new) : k \in 1 .. Len(q) \/ \E n \in 1 .. Len(new) : k = Len(q) + n
<1>1. /\ q \o new \in Seq(ToPhone) /\ Len(q \o new) = Len(q) + Len(new) /\ Len(q) \in Nat /\ Len(new) \in Nat
      /\ \A k \in 1 .. Len(q) : (q \o new)[k] = q[k]
      /\ \A k \in 1 .. Len(new) : (q \o new)[Len(q) + k] = new[k]
  BY ConcatProperties
<1>2. ASSUME NEW k \in 1 .. Len(q \o new), k \notin 1 .. Len(q)
      PROVE  \E n \in 1 .. Len(new) : k = Len(q) + n
  <2>1. k - Len(q) \in 1 .. Len(new) /\ k = Len(q) + (k - Len(q))
    BY <1>1, <1>2
  <2> QED
    BY <2>1
<1> QED
  BY <1>1, <1>2

\* An end on the air stays behind what it ends when more is written.
LEMMA EndedStill ==
  ASSUME NEW q \in Seq(ToPhone), NEW new \in Seq(ToPhone), NEW j \in Nat, j <= Len(q), NEW i,
         EndedAfter(q, j, i) \/ \E f \in Range(new) : Ends(f, i)
  PROVE  EndedAfter(q \o new, j, i)
<1>1. /\ Len(q \o new) = Len(q) + Len(new) /\ Len(q) \in Nat /\ Len(new) \in Nat
      /\ \A k \in 1 .. Len(q) : (q \o new)[k] = q[k]
      /\ \A k \in 1 .. Len(new) : (q \o new)[Len(q) + k] = new[k]
  BY Appended
<1>2. CASE EndedAfter(q, j, i)
  <2>1. PICK k \in 1 .. Len(q) : k > j /\ Ends(q[k], i)
    BY <1>2 DEF EndedAfter
  <2>2. k \in 1 .. Len(q \o new) /\ Ends((q \o new)[k], i)
    BY <1>1, <2>1
  <2> QED
    BY <2>1, <2>2 DEF EndedAfter
<1>3. CASE \E f \in Range(new) : Ends(f, i)
  <2>1. PICK f \in Range(new) : Ends(f, i)
    BY <1>3
  <2>2. PICK k \in 1 .. Len(new) : new[k] = f
    BY SeqRange
  <2>3. Len(q) + k \in 1 .. Len(q \o new) /\ Len(q) + k > j /\ Ends((q \o new)[Len(q) + k], i)
    BY <1>1, <2>1, <2>2
  <2> QED
    BY <2>3 DEF EndedAfter
<1> QED
  BY <1>2, <1>3

\* Whether frames were put on the air or not, the dashcam's side of a step has done with them what it must.
LEMMA MovesType ==
  ASSUME Inv, NEW new, CamMoves(new)
  PROVE  toPhone' \in Seq(ToPhone)
BY Appended DEF CamMoves, Inv, Typed, TypeOK

\* A step of the dashcam keeps what the sessions agree on ...
LEMMA MovesLink ==
  ASSUME Inv, NEW new, CamMoves(new), UNCHANGED <<radio, ses, table>>, Range(toCam') \subseteq Range(toCam)
  PROVE  LinkInv'
<1>1. Playing' = Playing
  BY DEF Playing
<1>2. /\ ~radio' => toPhone' = <<>> /\ \A f \in Range(toCam') : f.t # "ask"
      /\ ses' = "off" => ~radio'
      /\ cam'.link = "off" => ~radio'
      /\ cam'.link = "up" /\ radio' => toPhone' = <<>> /\ Playing = {}
      /\ cam'.link # "synced" => ~Routed' /\ ~cam'.asked
  BY DEF Inv, LinkInv, CamMoves
<1> QED
  BY <1>1, <1>2 DEF Inv, LinkInv

\* ... the ids in order ...
LEMMA MovesFresh ==
  ASSUME Inv, NEW new, CamMoves(new), Range(toCam') \subseteq Range(toCam)
  PROVE  Fresh'
<1>1. /\ toPhone \in Seq(ToPhone) /\ new \in Seq(ToPhone) /\ cam \in Sides /\ cam' \in Sides
  BY DEF Inv, Typed, TypeOK, CamMoves, CamOK
<1>2. cam.made \in Nat /\ cam'.made \in Nat /\ cam.made <= cam'.made
  BY <1>1, SidesRead DEF CamMoves
<1>3. ASSUME NEW f \in Range(toPhone'), f.t = "alert"
      PROVE  f.id <= cam'.made
  <2>1. CASE f \in Range(toPhone)
    <3>1. f \in ToPhone /\ f.id <= cam.made
      BY <1>1, <1>3, <2>1, SeqElement DEF Inv, Fresh
    <3>2. f.id \in Nat
      BY <1>3, <3>1, FramesRead, IdsAreNumbers
    <3> QED
      BY <1>2, <3>1, <3>2
  <2>2. CASE f \in Range(new)
    BY <1>3, <2>2 DEF CamMoves
  <2>3. f \in Range(toPhone) \/ f \in Range(new)
    <3>1. CASE toPhone' = toPhone
      BY <3>1
    <3>2. CASE toPhone' = toPhone \o new
      BY <1>1, <3>2, RangeOfBoth
    <3> QED
      BY <3>1, <3>2 DEF CamMoves
  <2> QED
    BY <2>1, <2>2, <2>3
<1>4. ASSUME NEW f \in Range(toCam'), f.t = "ack", f.outcome = 1
      PROVE  f.id <= cam'.made
  <2>1. f \in ToCam /\ f.id <= cam.made
    BY <1>4, SeqElement DEF Inv, Fresh, Typed, TypeOK
  <2>2. f.id \in Nat
    BY <1>4, <2>1, FramesRead, IdsAreNumbers
  <2> QED
    BY <1>2, <2>1, <2>2
<1> QED
  BY <1>3, <1>4 DEF Fresh, CamMoves

\* ... the one-shot's ALERT alone, if it starts none ...
LEMMA MovesShot ==
  ASSUME Inv, NEW new, CamMoves(new), ShotKept(new), Range(toCam') \subseteq Range(toCam)
  PROVE  ShotOnce'
<1> SUFFICES ASSUME cam'.shot # None
             PROVE  /\ cam'.shot # cam'.id
                    /\ \A j \in 1 .. Len(toPhone') : AlertOf(toPhone', j, cam'.shot) =>
                         /\ cam'.asked
                         /\ \A f \in Range(toCam') : ~IsAck(f, cam'.shot)
                         /\ \A k \in 1 .. Len(toPhone') : AlertOf(toPhone', k, cam'.shot) => k = j
  BY DEF ShotOnce, AlertOf, IsAck
<1>1. cam'.shot = cam.shot /\ cam'.shot # cam'.id /\ cam.shot # None
  BY DEF ShotKept
<1>2. toPhone \in Seq(ToPhone) /\ new \in Seq(ToPhone)
  BY DEF Inv, Typed, TypeOK, CamMoves
<1>3. ASSUME NEW j \in 1 .. Len(toPhone'), AlertOf(toPhone', j, cam.shot)
      PROVE  j \in 1 .. Len(toPhone) /\ AlertOf(toPhone, j, cam.shot)
  <2>1. CASE toPhone' = toPhone
    BY <1>3, <2>1
  <2>2. CASE toPhone' = toPhone \o new
    <3>1. CASE j \in 1 .. Len(toPhone)
      BY <1>2, <1>3, <2>2, <3>1, Appended DEF AlertOf
    <3>2. ASSUME NEW n \in 1 .. Len(new), j = Len(toPhone) + n
          PROVE  FALSE
      <4>1. new[n].t = "alert" /\ new[n].id = cam.shot
        BY <1>2, <1>3, <2>2, <3>2, Appended DEF AlertOf
      <4>2. new[n] \in Range(new)
        BY <1>2, SeqRange
      <4> QED
        BY <1>1, <4>1, <4>2 DEF ShotKept
    <3> QED
      BY <1>2, <1>3, <2>2, <3>1, <3>2, Appended
  <2> QED
    BY <2>1, <2>2 DEF CamMoves
<1>4. ASSUME NEW j \in 1 .. Len(toPhone), AlertOf(toPhone, j, cam.shot)
      PROVE  /\ cam'.asked
             /\ \A f \in Range(toCam') : ~IsAck(f, cam.shot)
             /\ \A k \in 1 .. Len(toPhone) : AlertOf(toPhone, k, cam.shot) => k = j
  <2>1. /\ cam.asked
        /\ \A f \in Range(toCam) : ~IsAck(f, cam.shot)
        /\ \A k \in 1 .. Len(toPhone) : AlertOf(toPhone, k, cam.shot) => k = j
    BY <1>1, <1>4 DEF Inv, ShotOnce
  <2> QED
    BY <2>1 DEF ShotKept
<1> QED
  BY <1>1, <1>3, <1>4

\* ... and one voice: this is the case of every frame the dashcam writes.
LEMMA MovesVoice ==
  ASSUME Inv, NEW new, CamMoves(new), UNCHANGED <<radio, table>>
  PROVE  Voice'
<1> SUFFICES ASSUME radio
             PROVE  /\ \A i \in Playing : LeftTo(i)' \/ EndedAfter(toPhone', 0, i)
                    /\ \A j \in 1 .. Len(toPhone'), i \in Ids :
                         AlertOf(toPhone', j, i) /\ toPhone'[j].route = 1 => LeftTo(i)' \/ EndedAfter(toPhone', j, i)
  BY DEF Voice, EndedAfter, Playing, AlertOf
<1>1. toPhone \in Seq(ToPhone) /\ new \in Seq(ToPhone)
  BY DEF Inv, Typed, TypeOK, CamMoves
<1>2. CASE cam'.link # "synced"
  <2>1. toPhone' = toPhone /\ cam'.link = cam.link /\ cam.link \in {"off", "up", "synced"}
    BY <1>2, SidesRead DEF CamMoves, Inv, Typed, CamOK
  <2>2. toPhone' = <<>> /\ Playing = {}
    BY <1>2, <2>1 DEF Inv, LinkInv
  <2> QED
    BY <2>2
<1>3. CASE cam'.link = "synced"
  <2>1. toPhone' = toPhone \o new
    BY <1>3 DEF CamMoves
  <2>2. ASSUME NEW i \in Ids, NEW j \in Nat, j <= Len(toPhone), LeftTo(i) \/ EndedAfter(toPhone, j, i)
        PROVE  LeftTo(i)' \/ EndedAfter(toPhone', j, i)
    <3>1. LeftTo(i)' \/ EndedAfter(toPhone, j, i) \/ \E f \in Range(new) : Ends(f, i)
      BY <2>2 DEF CamMoves
    <3> QED
      BY <1>1, <2>1, <2>2, <3>1, EndedStill
  <2>3. ASSUME NEW i \in Playing
        PROVE  LeftTo(i)' \/ EndedAfter(toPhone', 0, i)
    <3>1. i \in Ids /\ (LeftTo(i) \/ EndedAfter(toPhone, 0, i))
      BY DEF Playing, Inv, Voice
    <3>2. 0 \in Nat /\ 0 <= Len(toPhone)
      BY <1>1
    <3> QED
      BY <2>2, <3>1, <3>2
  <2>4. ASSUME NEW j \in 1 .. Len(toPhone'), NEW i \in Ids, AlertOf(toPhone', j, i), toPhone'[j].route = 1
        PROVE  LeftTo(i)' \/ EndedAfter(toPhone', j, i)
    <3>1. CASE j \in 1 .. Len(toPhone)
      <4>1. toPhone'[j] = toPhone[j] /\ j \in Nat /\ j <= Len(toPhone)
        BY <1>1, <2>1, <3>1, Appended
      <4>2. LeftTo(i) \/ EndedAfter(toPhone, j, i)
        BY <2>4, <3>1, <4>1 DEF Inv, Voice, AlertOf
      <4> QED
        BY <2>2, <4>1, <4>2
    <3>2. ASSUME NEW n \in 1 .. Len(new), j = Len(toPhone) + n
          PROVE  LeftTo(i)'
      <4>1. new[n].t = "alert" /\ new[n].route = 1 /\ new[n].id = i /\ new[n] \in Range(new)
        BY <1>1, <2>1, <2>4, <3>2, Appended, SeqRange DEF AlertOf
      <4>2. \A f \in Range(new) : f.t = "alert" /\ f.route = 1 => LeftTo(f.id)'
        BY DEF CamMoves
      <4> QED
        BY <4>1, <4>2
    <3> QED
      BY <1>1, <2>1, <3>1, <3>2, Appended
  <2> QED
    BY <2>3, <2>4
<1> QED
  BY <1>2, <1>3

----------------------------------------------------------------------------
\* The history the properties speak of.
Ghosts == [heard : BOOLEAN, missed : BOOLEAN, excused : BOOLEAN]

\* The four together, for a step that leaves the phone alone.
LEMMA CamKeeps ==
  ASSUME Inv, NEW new, CamMoves(new), UNCHANGED <<radio, ses, can, told, table, item, left>>, ghost' \in Ghosts,
         toCam' \in Seq(ToCam), Range(toCam') \subseteq Range(toCam)
  PROVE  Typed' /\ LinkInv' /\ Fresh' /\ Voice' /\ (ShotKept(new) => ShotOnce')
<1>1. Typed'
  <2>1. CamOK(cam') /\ toPhone' \in Seq(ToPhone)
    BY MovesType DEF CamMoves
  <2> QED
    BY <2>1 DEF Inv, Typed, TypeOK, CamOK, Ghosts
<1> QED
  BY <1>1, MovesLink, MovesFresh, MovesVoice, MovesShot

\* The changes made to the history.
LEMMA GhostsTyped ==
  ASSUME Inv, NEW b \in BOOLEAN, NEW c \in BOOLEAN
  PROVE  /\ ghost \in Ghosts
         /\ [ghost EXCEPT !.excused = b] \in Ghosts /\ [ghost EXCEPT !.heard = b] \in Ghosts
         /\ [ghost EXCEPT !.missed = b] \in Ghosts /\ [ghost EXCEPT !.heard = b, !.missed = c] \in Ghosts
         /\ ghost.heard \in BOOLEAN /\ ghost.missed \in BOOLEAN /\ ghost.excused \in BOOLEAN
BY DEF Inv, Typed, TypeOK, Ghosts

\* Every step of the dashcam but the chime and its end keeps the first layer.
LEMMA CamKeepsInv ==
  ASSUME Inv, CamAlerts \/ CamSteps \/ CamClears \/ QuietGuard \/ CamAnswers
  PROVE  Inv'
<1>1. PICK new : CamMoves(new) /\ ShotKept(new)
  BY AlertsMoves, StepsMoves, ClearsMoves, TimersMove, HearsMoves DEF CamAnswers
<1>2. UNCHANGED <<radio, ses, can, told, table, item, left>>
  BY DEF CamAlerts, CamSteps, CamClears, QuietGuard, CamAnswers, CamHears, Deadline, CamNotices, camOnly, phone
<1>3. ghost' \in Ghosts
  BY GhostsTyped DEF CamAlerts, CamSteps, CamClears, QuietGuard, CamAnswers, CamHears, Deadline, CamNotices
<1>4. toCam' \in Seq(ToCam) /\ Range(toCam') \subseteq Range(toCam)
  <2>1. toCam \in Seq(ToCam)
    BY DEF Inv, Typed, TypeOK
  <2>2. toCam' = toCam \/ (toCam # <<>> /\ toCam' = Tail(toCam))
    BY DEF CamAlerts, CamSteps, CamClears, QuietGuard, CamAnswers, CamHears, Deadline, CamNotices, camOnly
  <2> QED
    BY <2>1, <2>2, RangeOfTail
<1> QED
  BY <1>1, <1>2, <1>3, <1>4, CamKeeps DEF Inv

\* A chime does: its id is new, so no ALERT of it is on the air yet.
LEMMA ChimesKeep ==
  ASSUME Inv, CamChimes
  PROVE  Inv'
<1>1. PICK new : /\ CamMoves(new)
                 /\ cam'.shot # None => /\ cam'.shot > cam.made /\ cam'.shot # cam'.id /\ cam'.asked
                                        /\ Len(new) = 1
  BY ChimesMove
<1>2. UNCHANGED <<radio, toCam, ses, can, told, table, item, left>>
  BY DEF CamChimes, camOnly, phone
<1>3. ghost' \in Ghosts
  BY GhostsTyped DEF CamChimes
<1>4. toPhone \in Seq(ToPhone) /\ new \in Seq(ToPhone) /\ toCam \in Seq(ToCam)
  BY <1>1 DEF Inv, Typed, TypeOK, CamMoves
<1>5. ShotOnce'
  <2> SUFFICES ASSUME cam'.shot # None
               PROVE  /\ cam'.shot # cam'.id
                      /\ \A j \in 1 .. Len(toPhone') : AlertOf(toPhone', j, cam'.shot) =>
                           /\ cam'.asked
                           /\ \A f \in Range(toCam') : ~IsAck(f, cam'.shot)
                           /\ \A k \in 1 .. Len(toPhone') : AlertOf(toPhone', k, cam'.shot) => k = j
    BY DEF ShotOnce, AlertOf, IsAck
  <2>1. cam'.shot > cam.made /\ cam'.shot # cam'.id /\ cam'.asked /\ Len(new) = 1 /\ cam.made \in Nat /\ cam'.shot \in Nat
    BY <1>1, SidesRead DEF Inv, Typed, CamOK, CamMoves
  <2>2. ASSUME NEW f \in Range(toCam')
        PROVE  ~IsAck(f, cam'.shot)
    <3>1. f \in Range(toCam)
      BY <1>2, <2>2
    <3>2. IsAck(f, cam'.shot) => cam'.shot <= cam.made
      BY <3>1 DEF Inv, Fresh, IsAck
    <3> QED
      BY <2>1, <3>2
  <2>3. ASSUME NEW j \in 1 .. Len(toPhone)
        PROVE  ~AlertOf(toPhone, j, cam'.shot)
    <3>1. toPhone[j] \in Range(toPhone)
      BY <1>4, SeqRange
    <3>2. AlertOf(toPhone, j, cam'.shot) => cam'.shot <= cam.made
      BY <3>1 DEF Inv, Fresh, AlertOf
    <3> QED
      BY <2>1, <3>2
  <2>4. ASSUME NEW j \in 1 .. Len(toPhone'), AlertOf(toPhone', j, cam'.shot)
        PROVE  j = Len(toPhone) + 1
    <3>1. CASE toPhone' = toPhone
      BY <2>3, <2>4, <3>1
    <3>2. CASE toPhone' = toPhone \o new
      <4>1. j \in 1 .. Len(toPhone) => AlertOf(toPhone, j, cam'.shot)
        BY <1>4, <2>4, <3>2, Appended DEF AlertOf
      <4>2. PICK n \in 1 .. Len(new) : j = Len(toPhone) + n
        BY <1>4, <2>3, <2>4, <3>2, <4>1, Appended
      <4> QED
        BY <2>1, <4>2
    <3> QED
      BY <1>1, <3>1, <3>2 DEF CamMoves
  <2> QED
    BY <2>1, <2>2, <2>4
<1> QED
  BY <1>1, <1>2, <1>3, <1>4, <1>5, CamKeeps DEF Inv

\* The end of the one-shot does: the phone no longer has it, and none of its ALERTs is on the air.
LEMMA ShotOverKeeps ==
  ASSUME Inv, ShotOver
  PROVE  Inv'
<1>1. cam' = [cam EXCEPT !.shot = None] /\ cam.shot # None /\ ~cam.asked /\ ~table[cam.shot].in
  BY DEF ShotOver
<1>2. UNCHANGED <<radio, toPhone, toCam, ses, can, told, table, item, left, ghost>>
  BY DEF ShotOver, camOnly, phone
<1>3. CamOK(cam) /\ cam \in Sides /\ cam.made \in Nat /\ None = 0
  BY SidesRead DEF Inv, Typed, CamOK
<1>4. /\ cam' \in Sides /\ cam'.link = cam.link /\ cam'.made = cam.made /\ cam'.id = cam.id /\ cam'.ep = cam.ep
      /\ cam'.shot = None /\ cam'.asked = cam.asked /\ cam'.gate = cam.gate
  BY <1>1, <1>3 DEF Sides
<1>5. CamOK(cam')
  BY <1>1, <1>3, <1>4 DEF CamOK
<1>6. Typed'
  BY <1>2, <1>5 DEF Inv, Typed, TypeOK, CamOK
<1>7. LinkInv'
  BY <1>2, <1>4 DEF Inv, LinkInv, Playing, Routed
<1>8. Fresh' /\ ShotOnce'
  BY <1>2, <1>3, <1>4 DEF Inv, Fresh, ShotOnce
<1>9. Voice'
  <2>1. \A i \in Ids : i # cam.shot => (LeftTo(i)' <=> LeftTo(i))
    BY <1>3, <1>4, IdsAreNumbers DEF LeftTo, Routed
  <2>2. cam.shot \notin Playing
    BY <1>1 DEF Playing
  <2>3. \A j \in 1 .. Len(toPhone) : ~AlertOf(toPhone, j, cam.shot)
    BY <1>1 DEF Inv, ShotOnce
  <2>4. Playing' = Playing
    BY <1>2 DEF Playing
  <2>5. ASSUME radio, NEW i \in Playing
        PROVE  LeftTo(i)' \/ EndedAfter(toPhone, 0, i)
    BY <2>1, <2>2, <2>5 DEF Inv, Voice, Playing
  <2>6. ASSUME radio, NEW j \in 1 .. Len(toPhone), NEW i \in Ids, AlertOf(toPhone, j, i), toPhone[j].route = 1
        PROVE  LeftTo(i)' \/ EndedAfter(toPhone, j, i)
    <3>1. i # cam.shot
      BY <2>3, <2>6
    <3> QED
      BY <2>1, <2>6, <3>1 DEF Inv, Voice
  <2> QED
    BY <1>2, <2>4, <2>5, <2>6 DEF Voice, AlertOf, EndedAfter
<1> QED
  BY <1>6, <1>7, <1>8, <1>9 DEF Inv

\* A lost link does: what was under way is gone on both sides.
LEMMA DropKeeps ==
  ASSUME Inv, Drop
  PROVE  Inv'
<1>1. radio' = FALSE /\ toPhone' = <<>> /\ toCam' = <<>> /\ UNCHANGED <<cam, ses, can, told, table, item>>
  BY DEF Drop, phone
<1>2. left' \in 0 .. MaxTroubles
  BY BoundsAssumption DEF Drop, Trouble, Inv, Typed, TypeOK
<1>3. ghost' \in Ghosts
  BY GhostsTyped DEF Drop
<1>4. toPhone' \in Seq(ToPhone) /\ toCam' \in Seq(ToCam) /\ Len(toPhone') = 0
  BY <1>1
<1>5. \A f : f \notin Range(toPhone') /\ f \notin Range(toCam')
  BY <1>1 DEF Range
<1>6. Typed'
  BY <1>1, <1>2, <1>3, <1>4 DEF Inv, Typed, TypeOK, CamOK, Ghosts
<1>7. LinkInv'
  BY <1>1, <1>5 DEF Inv, LinkInv, Playing, Routed
<1>8. Fresh' /\ ShotOnce' /\ Voice'
  BY <1>1, <1>4, <1>5 DEF Inv, Fresh, ShotOnce, Voice
<1> QED
  BY <1>6, <1>7, <1>8 DEF Inv

----------------------------------------------------------------------------
\* A step of the phone that starts nothing, and says no more than that it does not play, keeps the first layer.
LEMMA PhoneKeeps ==
  ASSUME Inv, UNCHANGED <<cam, radio, toPhone>>,
         NEW q \in Seq(ToCam), toCam' = toCam \o q, \A f \in Range(q) : (f.t = "ask" => radio) /\ (f.t = "ack" => f.outcome = 0),
         Playing' \subseteq Playing, Tabled(table'), Held(item'),
         ses' \in {"off", "hello", "on"}, ses' = "off" => ~radio /\ Playing' = {}, can' \in BOOLEAN, told' \in BOOLEAN,
         left' \in 0 .. MaxTroubles, ghost' \in Ghosts
  PROVE  Inv'
<1>1. toCam \in Seq(ToCam)
  BY DEF Inv, Typed, TypeOK
<1>2. toCam' \in Seq(ToCam) /\ \A f : f \in Range(toCam') <=> f \in Range(toCam) \/ f \in Range(q)
  BY <1>1, RangeOfBoth
<1>3. Typed'
  BY <1>2 DEF Inv, Typed, TypeOK, CamOK, Ghosts, Tabled, Held
<1>4. LinkInv'
  BY <1>2 DEF Inv, LinkInv, Routed
<1>5. Fresh'
  BY <1>2 DEF Inv, Fresh
<1>6. ShotOnce'
  BY <1>2 DEF Inv, ShotOnce, IsAck
<1>7. Voice'
  <2>1. \A i : LeftTo(i)' <=> LeftTo(i)
    BY DEF LeftTo, Routed
  <2> QED
    BY <2>1 DEF Inv, Voice, AlertOf, EndedAfter
<1> QED
  BY <1>3, <1>4, <1>5, <1>6, <1>7 DEF Inv

\* What every step of the phone needs of the state it starts from.
LEMMA PhoneTyped ==
  ASSUME Inv
  PROVE  /\ Tabled(table) /\ Held(item) /\ ses \in {"off", "hello", "on"} /\ can \in BOOLEAN /\ told \in BOOLEAN
         /\ left \in 0 .. MaxTroubles /\ ghost \in Ghosts /\ toCam \in Seq(ToCam) /\ toCam \o <<>> = toCam
         /\ <<>> \in Seq(ToCam) /\ \A f : f \notin Range(<<>>)
         /\ Playing \subseteq Ids
<1>1. toCam \in Seq(ToCam)
  BY DEF Inv, Typed, TypeOK
<1>2. toCam \o <<>> = toCam
  BY <1>1, ConcatEmptySeq
<1>3. <<>> \in Seq(ToCam) /\ \A f : f \notin Range(<<>>)
  BY DEF Range
<1> QED
  BY <1>1, <1>2, <1>3, GhostsTyped DEF Inv, Typed, TypeOK, Tabled, Held, Playing

\* A disturbance is counted.
LEMMA TroubleCounts ==
  ASSUME Inv, NEW kind, Trouble(kind)
  PROVE  left' \in 0 .. MaxTroubles
BY BoundsAssumption DEF Trouble, Inv, Typed, TypeOK

\* An answer is written, or is one of the disturbances.
LEMMA AnswersGo ==
  ASSUME Inv, NEW T \in SUBSET ToCam, NEW acks \in Seq(T), Answers(acks)
  PROVE  left' \in 0 .. MaxTroubles /\ \E q \in Seq(T) : toCam' = toCam \o q
<1>1. CASE Says(acks) /\ UNCHANGED left
  BY <1>1, PhoneTyped DEF Says
<1>2. CASE Trouble("lost") /\ UNCHANGED toCam
  <2>1. left' \in 0 .. MaxTroubles
    BY <1>2, TroubleCounts
  <2>2. <<>> \in Seq(T)
    OBVIOUS
  <2> QED
    BY <1>2, <2>1, <2>2, PhoneTyped
<1> QED
  BY <1>1, <1>2 DEF Answers

\* What the phone owes are refusals.
LEMMA RefusalsSay ==
  ASSUME NEW q \in Seq(Refusals)
  PROVE  q \in Seq(ToCam) /\ \A f \in Range(q) : f.t = "ack" /\ f.outcome = 0
<1>1. \A f \in Refusals : f.t = "ack" /\ f.outcome = 0 /\ f \in ToCam
  BY FramesTyped DEF Refusals, Ack
<1>2. q \in Seq(ToCam)
  BY <1>1
<1> QED
  BY <1>1, <1>2, SeqElement

\* What is silenced stops sounding; nothing else changes that a property speaks of.
LEMMA SilencesKeep ==
  ASSUME Inv, UNCHANGED <<cam, radio, toPhone, told>>, NEW ids \in SUBSET Ids, Tabled(table'), Held(item'),
         \A i \in Ids : table'[i].in /\ table'[i].playing => table[i].in /\ table[i].playing,
         NEW q \in Seq(Refusals), toCam' = toCam \o q, ses' = ses, can' \in BOOLEAN, left' \in 0 .. MaxTroubles, ghost' \in Ghosts
  PROVE  Inv'
<1>1. Playing' \subseteq Playing
  BY DEF Playing
<1>2. q \in Seq(ToCam) /\ \A f \in Range(q) : f.t = "ack" /\ f.outcome = 0
  BY RefusalsSay
<1>3. ses' = "off" => ~radio /\ Playing' = {}
  BY <1>1 DEF Inv, LinkInv
<1> QED
  BY <1>1, <1>2, <1>3, PhoneTyped, PhoneKeeps

\* A tick keeps the first layer: it silences or pumps.
LEMMA TickKeeps ==
  ASSUME Inv, Tick
  PROVE  Inv'
<1>1. Tabled(table) /\ Held(item) /\ Playing \subseteq Ids /\ can' \in BOOLEAN /\ ghost' \in Ghosts
  BY PhoneTyped DEF Tick
<1>2. UNCHANGED <<cam, radio, toPhone, told, ses>>
  BY DEF Tick
<1>3. CASE TickSilences
  <2>1. Pump(Silenced(Playing), Quieted(Playing)) /\ IF radio THEN Answers(Owes(Playing)) ELSE UNCHANGED <<toCam, left>>
    BY <1>3 DEF Tick
  <2>2. /\ Tabled(Silenced(Playing)) /\ Held(Quieted(Playing))
        /\ \A i \in Ids : Silenced(Playing)[i].in /\ Silenced(Playing)[i].playing => table[i].in /\ table[i].playing
    BY <1>1, SilencedTyped, QuietedHeld
  <2>3. /\ Tabled(table') /\ Held(item')
        /\ \A i \in Ids : table'[i].in /\ table'[i].playing => table[i].in /\ table[i].playing
    BY <2>1, <2>2, PumpEffect
  <2>4. left' \in 0 .. MaxTroubles /\ \E q \in Seq(Refusals) : toCam' = toCam \o q
    <3>1. Owes(Playing) \in Seq(Refusals) /\ Refusals \subseteq ToCam
      BY <1>1, OwesRefusals, FramesTyped
    <3>2. CASE radio
      BY <2>1, <3>1, <3>2, AnswersGo
    <3>3. CASE ~radio
      <4>1. <<>> \in Seq(Refusals)
        OBVIOUS
      <4> QED
        BY <2>1, <3>3, <4>1, PhoneTyped
    <3> QED
      BY <3>2, <3>3
  <2> QED
    BY <1>1, <1>2, <2>3, <2>4, SilencesKeep
<1>4. CASE ~TickSilences
  <2>1. Pump(table, item) /\ UNCHANGED <<toCam, left>>
    BY <1>4 DEF Tick
  <2>2. /\ Tabled(table') /\ Held(item')
        /\ \A i \in Ids : table'[i].in /\ table'[i].playing => table[i].in /\ table[i].playing
    BY <1>1, <2>1, PumpEffect
  <2>3. <<>> \in Seq(Refusals)
    OBVIOUS
  <2> QED
    BY <1>1, <1>2, <2>1, <2>2, <2>3, PhoneTyped, SilencesKeep
<1> QED
  BY <1>3, <1>4

\* So do three seconds without a frame ...
LEMMA StaleKeeps ==
  ASSUME Inv, Stale
  PROVE  Inv'
<1> DEFINE ids == {i \in Playing : table[i].cont}
<1>1. Tabled(table) /\ Held(item) /\ Playing \subseteq Ids /\ can' \in BOOLEAN
  BY PhoneTyped DEF Stale
<1>2. /\ UNCHANGED <<cam, radio, toPhone, told, ses>>
      /\ table' = Silenced(ids) /\ item' = Quieted(ids)
      /\ IF radio THEN Answers(Owes(ids)) ELSE UNCHANGED <<toCam, left>>
      /\ ghost' = [ghost EXCEPT !.excused = @ \/ (cam.id \in ids /\ left' # left)]
  BY DEF Stale
<1>3. ids \in SUBSET Ids
  BY <1>1
<1> HIDE DEF ids
<1>4. /\ Tabled(table') /\ Held(item')
      /\ \A i \in Ids : table'[i].in /\ table'[i].playing => table[i].in /\ table[i].playing
  BY <1>1, <1>2, <1>3, SilencedTyped, QuietedHeld
<1>5. ghost' \in Ghosts
  BY <1>2, GhostsTyped
<1>6. left' \in 0 .. MaxTroubles /\ \E q \in Seq(Refusals) : toCam' = toCam \o q
  <2>1. Owes(ids) \in Seq(Refusals) /\ Refusals \subseteq ToCam
    BY <1>3, OwesRefusals, FramesTyped
  <2>2. CASE radio
    BY <1>2, <2>1, <2>2, AnswersGo
  <2>3. CASE ~radio
    <3>1. <<>> \in Seq(Refusals)
      OBVIOUS
    <3> QED
      BY <1>2, <2>3, <3>1, PhoneTyped
  <2> QED
    BY <2>2, <2>3
<1> QED
  BY <1>1, <1>2, <1>3, <1>4, <1>5, <1>6, SilencesKeep

\* ... a sound that fails ...
LEMMA ItemFailsKeeps ==
  ASSUME Inv, ItemFails
  PROVE  Inv'
<1> DEFINE ids == {item.id} \cap Playing
<1>1. Tabled(table) /\ Held(item) /\ Playing \subseteq Ids /\ can' \in BOOLEAN /\ ghost' \in Ghosts
  BY PhoneTyped DEF ItemFails
<1>2. /\ UNCHANGED <<cam, radio, toPhone, told, ses>> /\ Trouble("fails") /\ item.on
      /\ table' = Silenced(ids) /\ item' = [Quieted(ids) EXCEPT !.stopped = TRUE]
      /\ IF radio /\ ses # "off" THEN Says(Owes(ids)) ELSE UNCHANGED toCam
  BY DEF ItemFails
<1>3. ids \in SUBSET Ids
  BY <1>1
<1> HIDE DEF ids
<1>4. item # NoItem
  BY <1>2 DEF NoItem
<1>5. Tabled(table') /\ \A i \in Ids : table'[i].in /\ table'[i].playing => table[i].in /\ table[i].playing
  BY <1>1, <1>2, <1>3, SilencedTyped
<1>6. Held(item')
  BY <1>1, <1>2, <1>3, <1>4, QuietedHeld, ItemChanges
<1>7. \E q \in Seq(Refusals) : toCam' = toCam \o q
  <2>1. Owes(ids) \in Seq(Refusals)
    BY <1>3, OwesRefusals
  <2>2. <<>> \in Seq(Refusals)
    OBVIOUS
  <2> QED
    BY <1>2, <2>1, <2>2, PhoneTyped DEF Says
<1>8. left' \in 0 .. MaxTroubles
  BY <1>2, TroubleCounts
<1> QED
  BY <1>1, <1>2, <1>3, <1>5, <1>6, <1>7, <1>8, SilencesKeep

\* ... an item that starts, or ends and makes room for the next.
LEMMA ItemKeeps ==
  ASSUME Inv, Player
  PROVE  Inv'
<1>1. /\ Tabled(table) /\ Held(item) /\ can \in BOOLEAN /\ ghost \in Ghosts /\ left \in 0 .. MaxTroubles
      /\ toCam \o <<>> = toCam
  BY PhoneTyped
<1>2. UNCHANGED <<cam, radio, toPhone, toCam, told, ses, can, left>>
  BY DEF Player, ItemStarts, ItemEnds
<1>3. <<>> \in Seq(Refusals)
  OBVIOUS
<1>4. CASE ItemStarts
  <2>1. item # NoItem /\ item' = [item EXCEPT !.on = TRUE] /\ table' = table
        /\ ghost' = [ghost EXCEPT !.heard = @ \/ (item.sounding /\ item.id = cam.shot)]
    BY <1>4 DEF ItemStarts
  <2>2. Held(item')
    BY <1>1, <2>1, ItemChanges
  <2>3. ghost' \in Ghosts
    <3>1. (ghost.heard \/ (item.sounding /\ item.id = cam.shot)) \in BOOLEAN
      OBVIOUS
    <3> QED
      BY <2>1, <3>1, GhostsTyped
  <2> QED
    BY <1>1, <1>2, <1>3, <2>1, <2>2, <2>3, SilencesKeep
<1>5. CASE ItemEnds
  <2> DEFINE e == table[item.id]
             t == CASE e.in /\ e.playing /\ e.cont -> [table EXCEPT ![item.id].due = TRUE]
                    [] e.in /\ ~e.cont /\ ~e.owed -> [table EXCEPT ![item.id] = NoEntry]
                    [] OTHER -> table
  <2>1. Pump(t, NoItem) /\ ghost' = ghost /\ item # NoItem
    BY <1>5 DEF ItemEnds
  <2>2. item.id \in Ids /\ e \in Entries
    BY <1>1, <2>1 DEF Held, Items, Tabled
  <2>3. NoEntry \in Entries /\ ~NoEntry.playing /\ ~NoEntry.confirmed
    BY DEF NoEntry, Entries
  <2>4. [e EXCEPT !.due = TRUE] \in Entries /\ [e EXCEPT !.due = TRUE].playing = e.playing /\ [e EXCEPT !.due = TRUE].confirmed = e.confirmed
    BY <2>2 DEF Entries
  <2>5. [e EXCEPT !.due = TRUE].in = e.in
    BY <2>2 DEF Entries
  <2>6. Tabled(t) /\ \A i \in Ids : t[i].in /\ t[i].playing => table[i].in /\ table[i].playing
    BY <1>1, <2>2, <2>3, <2>4, <2>5 DEF Tabled
  <2>7. Held(NoItem)
    BY <1>1, ItemChanges
  <2> HIDE DEF t
  <2>8. /\ Tabled(table') /\ Held(item')
        /\ \A i \in Ids : table'[i].in /\ table'[i].playing => table[i].in /\ table[i].playing
    BY <2>1, <2>6, <2>7, PumpEffect
  <2> QED
    BY <1>1, <1>2, <1>3, <2>1, <2>8, SilencesKeep
<1> QED
  BY <1>4, <1>5 DEF Player

\* One frame of the phone that confirms nothing.
LEMMA OneSays ==
  ASSUME Inv, NEW x \in ToCam, (x.t = "ask" => radio) /\ (x.t = "ack" => x.outcome = 0), Says(<<x>>)
  PROVE  \E q \in Seq(ToCam) : toCam' = toCam \o q /\ \A f \in Range(q) : (f.t = "ask" => radio) /\ (f.t = "ack" => f.outcome = 0)
<1> DEFINE q == <<x>>
<1>1. q \in Seq(ToCam) /\ \A f : f \in Range(q) <=> f = x
  BY RangeOfOne
<1>2. toCam' = toCam \o q
  BY DEF Says
<1> HIDE DEF q
<1> QED
  BY <1>1, <1>2

\* The phone's session, and what it says of being able to play, keep the first layer ...
LEMMA SessionKeeps ==
  ASSUME Inv, LinkDown \/ Restart \/ CanChanges \/ SendState
  PROVE  Inv'
<1>1. /\ Tabled(table) /\ Held(item) /\ ses \in {"off", "hello", "on"} /\ can \in BOOLEAN /\ told \in BOOLEAN
      /\ left \in 0 .. MaxTroubles /\ ghost \in Ghosts /\ toCam \o <<>> = toCam
      /\ <<>> \in Seq(ToCam) /\ \A f : f \notin Range(<<>>)
  BY PhoneTyped
<1>2. /\ table' = table => Playing' = Playing
      /\ ses = "off" => ~radio /\ Playing = {}
  BY DEF Inv, LinkInv, Playing
<1>3. CASE LinkDown
  <2>1. /\ UNCHANGED <<cam, radio, toPhone, toCam, can, left, ghost>> /\ ~radio
        /\ ses' = "off" /\ told' = TRUE /\ table' = NoTable /\ item' = CutAll(item)
    BY <1>3 DEF LinkDown
  <2>2. Tabled(table') /\ Playing' = {}
    BY <2>1 DEF NoTable, NoEntry, Entries, Tabled, Playing
  <2>3. Held(item')
    BY <1>1, <2>1, CutHeld
  <2> QED
    BY <1>1, <2>1, <2>2, <2>3, PhoneKeeps
<1>4. CASE Restart
  <2>1. /\ UNCHANGED <<cam, radio, toPhone, can, told, table, item, ghost>> /\ radio
        /\ ses' = "hello" /\ Trouble("restart") /\ Says(<<[t |-> "ask"]>>)
    BY <1>4 DEF Restart
  <2>2. left' \in 0 .. MaxTroubles
    BY <2>1, TroubleCounts
  <2>3. \E q \in Seq(ToCam) : toCam' = toCam \o q /\ \A f \in Range(q) : (f.t = "ask" => radio) /\ (f.t = "ack" => f.outcome = 0)
    <3> DEFINE x == [t |-> "ask"]
    <3>1. x \in ToCam /\ x.t = "ask"
      BY FramesTyped
    <3>2. Says(<<x>>)
      BY <2>1
    <3> HIDE DEF x
    <3> QED
      BY <2>1, <3>1, <3>2, OneSays
  <2> QED
    BY <1>1, <1>2, <2>1, <2>2, <2>3, PhoneKeeps
<1>5. CASE CanChanges
  <2>1. /\ UNCHANGED <<cam, radio, toPhone, toCam, ses, told, table, item>> /\ can' = ~can
        /\ IF can THEN Trouble("deaf") ELSE UNCHANGED left
        /\ ghost' = [ghost EXCEPT !.excused = @ \/ (~can /\ told)]
    BY <1>5 DEF CanChanges
  <2>2. left' \in 0 .. MaxTroubles
    BY <1>1, <2>1, TroubleCounts
  <2>3. ghost' \in Ghosts /\ can' \in BOOLEAN
    <3>1. (ghost.excused \/ (~can /\ told)) \in BOOLEAN
      OBVIOUS
    <3> QED
      BY <2>1, <3>1, GhostsTyped
  <2> QED
    BY <1>1, <1>2, <2>1, <2>2, <2>3, PhoneKeeps
<1>6. CASE SendState
  <2>1. /\ UNCHANGED <<cam, radio, toPhone, ses, can, table, item, left, ghost>> /\ told' = can
        /\ Says(<<[t |-> "state", can |-> can]>>)
    BY <1>6 DEF SendState
  <2>2. \E q \in Seq(ToCam) : toCam' = toCam \o q /\ \A f \in Range(q) : (f.t = "ask" => radio) /\ (f.t = "ack" => f.outcome = 0)
    <3> DEFINE x == [t |-> "state", can |-> can]
    <3>1. x \in ToCam /\ x.t = "state"
      BY <1>1, FramesTyped
    <3>2. Says(<<x>>)
      BY <2>1
    <3> HIDE DEF x
    <3> QED
      BY <2>1, <3>1, <3>2, OneSays
  <2> QED
    BY <1>1, <1>2, <2>1, <2>2, PhoneKeeps
<1> QED
  BY <1>3, <1>4, <1>5, <1>6

\* ... and so does a new connection, on which nothing is under way.
LEMMA LinkUpKeeps ==
  ASSUME Inv, LinkUp
  PROVE  Inv'
<1>1. /\ ~radio /\ ses = "off" /\ cam.link = "off" /\ radio' = TRUE /\ ses' = "hello" /\ Says(<<[t |-> "ask"]>>)
      /\ cam' = [cam EXCEPT !.link = "up"] /\ UNCHANGED <<toPhone, can, told, table, item, left, ghost>>
  BY DEF LinkUp
<1>2. toPhone = <<>> /\ Playing = {} /\ ~Routed /\ ~cam.asked
  BY <1>1 DEF Inv, LinkInv
<1>3. CamOK(cam) /\ cam \in Sides /\ toCam \in Seq(ToCam)
  BY DEF Inv, Typed, TypeOK, CamOK
<1>4. /\ cam' \in Sides /\ cam'.link = "up" /\ cam'.made = cam.made /\ cam'.id = cam.id /\ cam'.ep = cam.ep
      /\ cam'.shot = cam.shot /\ cam'.asked = cam.asked /\ cam'.gate = cam.gate
  BY <1>1, <1>3 DEF Sides
<1>5. CamOK(cam') /\ ~Routed'
  BY <1>2, <1>3, <1>4 DEF CamOK, Routed
<1>6. toCam' \in Seq(ToCam) /\ \A f : f \in Range(toCam') <=> f \in Range(toCam) \/ f = [t |-> "ask"]
  <2> DEFINE x == [t |-> "ask"]
  <2>1. x \in ToCam /\ toCam' = toCam \o <<x>>
    BY <1>1, FramesTyped DEF Says
  <2> HIDE DEF x
  <2>2. <<x>> \in Seq(ToCam) /\ \A f : f \in Range(<<x>>) <=> f = x
    BY <2>1, RangeOfOne
  <2>3. toCam \o <<x>> \in Seq(ToCam) /\ \A f : f \in Range(toCam \o <<x>>) <=> f \in Range(toCam) \/ f \in Range(<<x>>)
    BY <1>3, <2>2, RangeOfBoth
  <2>4. toCam' \in Seq(ToCam) /\ \A f : f \in Range(toCam') <=> f \in Range(toCam) \/ f = x
    BY <2>1, <2>2, <2>3
  <2> QED
    BY <2>4 DEF x
<1>7. Playing' = {} /\ toPhone' = <<>>
  BY <1>1, <1>2 DEF Playing
<1>8. Typed'
  BY <1>1, <1>5, <1>6 DEF Inv, Typed, TypeOK, CamOK
<1>9. LinkInv'
  BY <1>1, <1>4, <1>5, <1>2, <1>7 DEF LinkInv
<1>10. Fresh'
  BY <1>1, <1>4, <1>6 DEF Inv, Fresh
<1>11. ShotOnce' /\ Voice'
  BY <1>4, <1>7, <1>2 DEF Inv, ShotOnce, Voice
<1> QED
  BY <1>8, <1>9, <1>10, <1>11 DEF Inv

----------------------------------------------------------------------------
\* With the head taken off, what was behind a place still is, one nearer.
LEMMA EndedSince ==
  ASSUME NEW q \in Seq(ToPhone), q # <<>>, NEW j \in Nat, NEW i
  PROVE  /\ EndedAfter(q, j + 1, i) => EndedAfter(Tail(q), j, i)
         /\ EndedAfter(q, 0, i) /\ ~Ends(Head(q), i) => EndedAfter(Tail(q), 0, i)
<1>1. /\ Head(q) = q[1] /\ Len(Tail(q)) = Len(q) - 1 /\ Len(q) \in Nat
      /\ \A k \in 1 .. Len(Tail(q)) : Tail(q)[k] = q[k + 1]
  BY RangeOfTail
<1>2. ASSUME NEW n \in Nat, EndedAfter(q, n + 1, i)
      PROVE  EndedAfter(Tail(q), n, i)
  <2>1. PICK k \in 1 .. Len(q) : k > n + 1 /\ Ends(q[k], i)
    BY <1>2 DEF EndedAfter
  <2>2. k - 1 \in 1 .. Len(Tail(q)) /\ k - 1 > n /\ Tail(q)[k - 1] = q[k]
    BY <1>1, <2>1
  <2> QED
    BY <2>1, <2>2 DEF EndedAfter
<1>3. ASSUME EndedAfter(q, 0, i), ~Ends(Head(q), i)
      PROVE  EndedAfter(q, 0 + 1, i)
  <2>1. PICK k \in 1 .. Len(q) : Ends(q[k], i)
    BY <1>3 DEF EndedAfter
  <2>2. k # 1
    BY <1>1, <1>3, <2>1
  <2>3. k > 0 + 1
    BY <2>2
  <2> QED
    BY <2>1, <2>3 DEF EndedAfter
<1> QED
  BY <1>2, <1>3

\* A frame taken off the air: what it starts was left to the phone or is ended behind it, what it ends has ended.
LEMMA HearingKeeps ==
  ASSUME Inv, toPhone # <<>>, toPhone' = Tail(toPhone), UNCHANGED <<cam, radio, can, told>>,
         ses' \in {ses, "on"}, Tabled(table'), Held(item'), left' \in 0 .. MaxTroubles, ghost' \in Ghosts,
         NEW f, f = Head(toPhone),
         NEW q \in Seq(ToCam), toCam' = toCam \o q,
         \A x \in Range(q) : x.t = "ack" /\ (x.outcome = 1 => f.t = "alert" /\ f.id = x.id),
         \A i \in Playing' : \/ i \in Playing /\ ~Ends(f, i)
                             \/ f.t = "alert" /\ f.id = i /\ f.route = 1
  PROVE  Inv'
<1>1. toPhone \in Seq(ToPhone) /\ toCam \in Seq(ToCam)
  BY DEF Inv, Typed, TypeOK
<1>2. /\ f \in ToPhone /\ f = toPhone[1] /\ 1 \in 1 .. Len(toPhone) /\ f \in Range(toPhone)
      /\ toPhone' \in Seq(ToPhone) /\ Len(toPhone') = Len(toPhone) - 1 /\ Len(toPhone) \in Nat
      /\ \A k \in 1 .. Len(toPhone') : toPhone'[k] = toPhone[k + 1]
      /\ \A x \in Range(toPhone') : x \in Range(toPhone)
  BY <1>1, RangeOfTail
<1>3. toCam' \in Seq(ToCam) /\ \A x : x \in Range(toCam') <=> x \in Range(toCam) \/ x \in Range(q)
  BY <1>1, RangeOfBoth
<1>4. radio /\ cam.link = "synced" /\ ses # "off"
  BY SidesRead DEF Inv, LinkInv, Typed, CamOK
<1>5. ses' \in {"hello", "on"}
  BY <1>4 DEF Inv, Typed, TypeOK
<1>6. Typed'
  BY <1>2, <1>3, <1>5 DEF Inv, Typed, TypeOK, CamOK, Ghosts, Tabled, Held
<1>7. LinkInv'
  BY <1>4, <1>5 DEF LinkInv
<1>8. Fresh'
  <2>1. ASSUME NEW x \in Range(q), x.outcome = 1
        PROVE  x.id <= cam.made
    BY <1>2, <2>1 DEF Inv, Fresh
  <2> QED
    BY <1>2, <1>3, <2>1 DEF Inv, Fresh
<1>9. \A k \in 1 .. Len(toPhone') : \A i :
        AlertOf(toPhone', k, i) => k + 1 \in 1 .. Len(toPhone) /\ AlertOf(toPhone, k + 1, i)
  BY <1>2 DEF AlertOf
<1>10. ShotOnce'
  <2> SUFFICES ASSUME cam.shot # None, NEW j \in 1 .. Len(toPhone'), AlertOf(toPhone', j, cam.shot)
               PROVE  /\ cam.asked
                      /\ \A x \in Range(toCam') : ~IsAck(x, cam.shot)
                      /\ \A k \in 1 .. Len(toPhone') : AlertOf(toPhone', k, cam.shot) => k = j
    BY DEF ShotOnce, AlertOf, IsAck, Inv
  <2>1. j + 1 \in 1 .. Len(toPhone) /\ AlertOf(toPhone, j + 1, cam.shot)
    BY <1>9
  <2>2. /\ cam.asked
        /\ \A x \in Range(toCam) : ~IsAck(x, cam.shot)
        /\ \A k \in 1 .. Len(toPhone) : AlertOf(toPhone, k, cam.shot) => k = j + 1
    BY <2>1 DEF Inv, ShotOnce
  <2>3. ASSUME NEW x \in Range(q), IsAck(x, cam.shot)
        PROVE  FALSE
    <3>1. AlertOf(toPhone, 1, cam.shot)
      BY <1>2, <2>3 DEF IsAck, AlertOf
    <3>2. 1 = j + 1
      BY <1>2, <2>2, <3>1
    <3> QED
      BY <3>2
  <2>4. \A k \in 1 .. Len(toPhone') : AlertOf(toPhone', k, cam.shot) => k = j
    <3>1. \A k \in 1 .. Len(toPhone') : AlertOf(toPhone', k, cam.shot) => k + 1 = j + 1
      BY <1>9, <2>2
    <3> QED
      BY <3>1
  <2> QED
    BY <1>3, <2>2, <2>3, <2>4
<1>11. Voice'
  <2>1. \A i : LeftTo(i)' <=> LeftTo(i)
    BY DEF LeftTo, Routed
  <2>2. ASSUME NEW i \in Playing'
        PROVE  LeftTo(i) \/ EndedAfter(toPhone', 0, i)
    <3>1. CASE i \in Playing /\ ~Ends(f, i)
      <4>1. LeftTo(i) \/ EndedAfter(toPhone, 0, i)
        BY <1>4, <3>1 DEF Inv, Voice
      <4> QED
        BY <1>1, <3>1, <4>1, EndedSince
    <3>2. CASE f.t = "alert" /\ f.id = i /\ f.route = 1
      <4>1. AlertOf(toPhone, 1, i) /\ toPhone[1].route = 1 /\ i \in Ids
        BY <1>2, <3>2, FramesRead DEF AlertOf
      <4>2. LeftTo(i) \/ EndedAfter(toPhone, 1, i)
        BY <1>2, <1>4, <4>1 DEF Inv, Voice
      <4>3. 0 \in Nat /\ 0 + 1 = 1
        OBVIOUS
      <4> QED
        BY <1>1, <4>2, <4>3, EndedSince
    <3> QED
      BY <3>1, <3>2
  <2>3. ASSUME NEW j \in 1 .. Len(toPhone'), NEW i \in Ids, AlertOf(toPhone', j, i), toPhone'[j].route = 1
        PROVE  LeftTo(i) \/ EndedAfter(toPhone', j, i)
    <3>1. j + 1 \in 1 .. Len(toPhone) /\ AlertOf(toPhone, j + 1, i) /\ toPhone[j + 1].route = 1 /\ j \in Nat
      BY <1>2, <1>9, <2>3
    <3>2. LeftTo(i) \/ EndedAfter(toPhone, j + 1, i)
      BY <1>4, <3>1 DEF Inv, Voice
    <3> QED
      BY <1>1, <3>1, <3>2, EndedSince
  <2> QED
    BY <2>1, <2>2, <2>3 DEF Voice, AlertOf, EndedAfter
<1> QED
  BY <1>6, <1>7, <1>8, <1>10, <1>11 DEF Inv

\* What is answered to a frame: nothing but acknowledgements of its alert, and a "plays" only of what does.
Answered(f) ==
  /\ left' \in 0 .. MaxTroubles
  /\ \E q \in Seq(ToCam) : /\ toCam' = toCam \o q
                           /\ \A x \in Range(q) : x.t = "ack" /\ (x.outcome = 1 => f.t = "alert" /\ f.id = x.id /\ f.id \in Playing')

\* What an alert sounds it has confirmed.
Sworn(t, i) == t[i].playing <=> t[i].confirmed

\* What hearing one frame does to the phone's side: who sounds afterwards, and what is answered ...
Heeds(f) ==
  /\ Tabled(table') /\ Held(item') /\ Answered(f)
  /\ \A i \in Playing' : \/ i \in Playing /\ ~Ends(f, i)
                         \/ f.t = "alert" /\ f.id = i /\ f.route = 1

\* ... and what it leaves of the table.
Leaves(f) ==
  /\ \A i \in Playing : i \in Playing' \/ Ends(f, i)
  /\ \A i \in Ids : Sworn(table, i) => Sworn(table', i)
  /\ \A i \in Ids : table'[i].in => \/ table[i].in /\ table'[i].cont = table[i].cont
                                    \/ f.t = "alert" /\ f.id = i /\ table'[i].cont = f.cont

\* A frame that is not answered.
LEMMA Unanswered ==
  ASSUME Inv, UNCHANGED <<toCam, left>>, NEW f
  PROVE  Answered(f)
BY PhoneTyped DEF Answered

\* A table that is the same but for what is due in it.
LEMMA SameLeft ==
  ASSUME NEW f,
         \A i \in Ids : /\ table'[i].in = table[i].in /\ table'[i].playing = table[i].playing
                        /\ table'[i].confirmed = table[i].confirmed /\ table'[i].cont = table[i].cont
  PROVE  Leaves(f) /\ Playing' = Playing
<1>1. Playing' = Playing
  BY DEF Playing
<1>2. \A i \in Ids : Sworn(table, i) => Sworn(table', i)
  BY DEF Sworn
<1>3. \A i \in Ids : table'[i].in => table[i].in /\ table'[i].cont = table[i].cont
  OBVIOUS
<1> QED
  BY <1>1, <1>2, <1>3 DEF Leaves

\* A new ALERT: it sounds only if it was routed, and is confirmed only if it sounds.
LEMMA NewHeeded ==
  ASSUME Inv, NEW f \in ToPhone, f.t = "alert", ~table[f.id].in, OnAlertNew(f)
  PROVE  Heeds(f) /\ Leaves(f)
<1>1. f.id \in Ids /\ f.cont \in BOOLEAN /\ f.crit \in BOOLEAN /\ f.route \in {0, 1} /\ f.step \in {0, 1}
  BY FramesRead
<1>2. Tabled(table) /\ Held(item) /\ can \in BOOLEAN
  BY PhoneTyped
<1>3. PICK late \in BOOLEAN :
        LET plays == f.route = 1 /\ ~late /\ can
            e == [NoEntry EXCEPT !.in = TRUE, !.cont = f.cont, !.crit = f.crit, !.playing = plays,
                                 !.confirmed = plays, !.owed = TRUE, !.step = f.step]
        IN  /\ Judged(f, late)
            /\ Pump([table EXCEPT ![f.id] = e], IF plays /\ f.crit THEN CutAll(item) ELSE item)
  BY DEF OnAlertNew
<1> DEFINE plays == f.route = 1 /\ ~late /\ can
           e == [NoEntry EXCEPT !.in = TRUE, !.cont = f.cont, !.crit = f.crit, !.playing = plays,
                                !.confirmed = plays, !.owed = TRUE, !.step = f.step]
           t == [table EXCEPT ![f.id] = e]
           x == IF plays /\ f.crit THEN CutAll(item) ELSE item
<1>4. Judged(f, late) /\ Pump(t, x)
  BY <1>3
<1>5. plays \in BOOLEAN /\ (plays => f.route = 1)
  OBVIOUS
<1> HIDE DEF plays
<1>6. e \in Entries /\ e.in /\ e.playing = plays /\ e.confirmed = plays /\ e.cont = f.cont
  BY <1>1, <1>5 DEF Entries, NoEntry
<1> HIDE DEF e
<1>7. Tabled(t) /\ t[f.id] = e /\ \A i \in Ids : i # f.id => t[i] = table[i]
  BY <1>1, <1>2, <1>6 DEF Tabled
<1>8. Held(x)
  BY <1>2, CutHeld
<1> HIDE DEF t, x
<1>9. /\ Tabled(table') /\ Held(item')
      /\ \A i \in Ids : /\ table'[i].in = t[i].in /\ table'[i].playing = t[i].playing
                        /\ table'[i].confirmed = t[i].confirmed /\ table'[i].cont = t[i].cont
  BY <1>4, <1>7, <1>8, PumpEffect
<1>10. ASSUME NEW i \in Playing'
       PROVE  (i \in Playing /\ ~Ends(f, i)) \/ (f.t = "alert" /\ f.id = i /\ f.route = 1)
  <2>1. i \in Ids /\ t[i].in /\ t[i].playing
    BY <1>9, <1>10 DEF Playing
  <2>2. CASE i = f.id
    BY <1>5, <1>6, <1>7, <2>1, <2>2
  <2>3. CASE i # f.id
    BY <1>7, <2>1, <2>3 DEF Playing, Ends
  <2> QED
    BY <2>2, <2>3
<1>11. left' \in 0 .. MaxTroubles /\ \E q \in Seq(ToCam) : /\ toCam' = toCam \o q
                                                         /\ \A y \in Range(q) : y.t = "ack" /\ y.id = f.id /\ (y.outcome = 1 => plays)
  <2> DEFINE T == {y \in {Ack(f.id, 0), Ack(f.id, 1)} : y.outcome = 1 => plays}
  <2>1. /\ T \in SUBSET ToCam
        /\ \A y \in T : y.t = "ack" /\ y.id = f.id /\ (y.outcome = 1 => plays)
    <3>1. Ack(f.id, 0) \in ToCam /\ Ack(f.id, 1) \in ToCam
      BY <1>1, FramesTyped
    <3> QED
      BY <3>1 DEF Ack
  <2>2. <<Ack(f.id, 0)>> \in Seq(T) /\ (plays => <<Ack(f.id, 1)>> \in Seq(T))
    <3>1. Ack(f.id, 0).outcome = 0
      BY DEF Ack
    <3> QED
      BY <3>1
  <2> HIDE DEF T
  <2>3. ASSUME NEW q \in Seq(T)
        PROVE  q \in Seq(ToCam) /\ \A y \in Range(q) : y.t = "ack" /\ y.id = f.id /\ (y.outcome = 1 => plays)
    <3>1. q \in Seq(ToCam)
      BY <2>1
    <3> QED
      BY <2>1, <3>1, SeqElement
  <2>4. CASE f.route = 0
    <3>1. UNCHANGED <<toCam, left>>
      BY <1>4, <2>4 DEF Judged
    <3> QED
      BY <3>1, PhoneTyped
  <2>5. CASE f.route = 1 /\ ses = "on" /\ late
    <3>1. Trouble("late") /\ Says(<<Ack(f.id, 0)>>)
      BY <1>4, <2>5 DEF Judged
    <3>2. left' \in 0 .. MaxTroubles
      BY <3>1, TroubleCounts
    <3> QED
      BY <2>2, <2>3, <3>1, <3>2 DEF Says
  <2>6. CASE f.route = 1 /\ ~(ses = "on" /\ late)
    <3>1. Answers(<<Ack(f.id, 0)>>) \/ (plays /\ Answers(<<Ack(f.id, 1)>>))
      BY <1>2, <1>4, <2>6 DEF Judged, plays
    <3>2. left' \in 0 .. MaxTroubles /\ \E q \in Seq(T) : toCam' = toCam \o q
      BY <2>1, <2>2, <3>1, AnswersGo
    <3> QED
      BY <2>3, <3>2
  <2> QED
    BY <1>1, <2>4, <2>5, <2>6
<1>12. plays => f.id \in Playing'
  BY <1>1, <1>6, <1>7, <1>9 DEF Playing
<1>16. Answered(f)
  BY <1>11, <1>12 DEF Answered
<1>13. \A i \in Playing : i \in Playing'
  BY <1>7, <1>9 DEF Playing
<1>14. ASSUME NEW i \in Ids, Sworn(table, i)
       PROVE  Sworn(table', i)
  <2>1. CASE i = f.id
    BY <1>6, <1>7, <1>9, <2>1 DEF Sworn
  <2>2. CASE i # f.id
    BY <1>7, <1>9, <1>14, <2>2 DEF Sworn
  <2> QED
    BY <2>1, <2>2
<1>15. \A i \in Ids : table'[i].in => (table[i].in /\ table'[i].cont = table[i].cont) \/ (f.id = i /\ table'[i].cont = f.cont)
  BY <1>6, <1>7, <1>9
<1>17. Heeds(f)
  BY <1>9, <1>10, <1>16 DEF Heeds
<1>18. Leaves(f)
  BY <1>13, <1>14, <1>15 DEF Leaves
<1> QED
  BY <1>17, <1>18

\* The same alert again, at another level.
LEMMA AgainHeeded ==
  ASSUME Inv, NEW f \in ToPhone, f.t = "alert", OnAlertAgain(f)
  PROVE  Heeds(f) /\ Leaves(f)
<1>1. f.id \in Ids /\ f.step \in {0, 1}
  BY FramesRead
<1>2. Tabled(table) /\ Held(item) /\ table[f.id] \in Entries
  BY <1>1, PhoneTyped DEF Tabled
<1>3. UNCHANGED <<toCam, left>>
  BY DEF OnAlertAgain
<1>4. /\ Tabled(table') /\ Held(item')
      /\ \A i \in Ids : /\ table'[i].in = table[i].in /\ table'[i].playing = table[i].playing
                        /\ table'[i].confirmed = table[i].confirmed /\ table'[i].cont = table[i].cont
  <2>1. CASE table[f.id].step = f.step
    BY <1>2, <2>1 DEF OnAlertAgain
  <2>2. CASE table[f.id].step # f.step
    <3> DEFINE b == table[f.id].owed \/ ~table[f.id].playing
               e == [table[f.id] EXCEPT !.step = f.step, !.owed = b]
               t == [table EXCEPT ![f.id] = e]
    <3>1. b \in BOOLEAN
      OBVIOUS
    <3>2. Pump([table EXCEPT ![f.id].step = f.step, ![f.id].owed = @ \/ ~table[f.id].playing], item)
      BY <2>2 DEF OnAlertAgain
    <3>3. [table EXCEPT ![f.id].step = f.step, ![f.id].owed = @ \/ ~table[f.id].playing] = t
      BY <1>1, <1>2 DEF Tabled, Entries
    <3> HIDE DEF b
    <3>4. /\ e \in Entries /\ e.in = table[f.id].in /\ e.playing = table[f.id].playing /\ e.confirmed = table[f.id].confirmed
          /\ e.cont = table[f.id].cont
      BY <1>1, <1>2, <3>1 DEF Entries
    <3> HIDE DEF e
    <3>5. Tabled(t) /\ \A i \in Ids : /\ t[i].in = table[i].in /\ t[i].playing = table[i].playing
                                      /\ t[i].confirmed = table[i].confirmed /\ t[i].cont = table[i].cont
      BY <1>1, <1>2, <3>4 DEF Tabled
    <3>6. Pump(t, item)
      BY <3>2, <3>3
    <3> HIDE DEF t
    <3>7. /\ Tabled(table') /\ Held(item')
          /\ \A i \in Ids : /\ table'[i].in = t[i].in /\ table'[i].playing = t[i].playing
                            /\ table'[i].confirmed = t[i].confirmed /\ table'[i].cont = t[i].cont
      BY <1>2, <3>5, <3>6, PumpEffect
    <3> QED
      BY <3>5, <3>7
  <2> QED
    BY <2>1, <2>2
<1>5. Playing' = Playing /\ Leaves(f)
  BY <1>4, SameLeft
<1>6. Answered(f)
  BY <1>3, Unanswered
<1> QED
  BY <1>4, <1>5, <1>6 DEF Heeds, Ends

\* A Stop takes the alert out of the table.
LEMMA StopHeeded ==
  ASSUME Inv, NEW f \in ToPhone, f.t = "stop", OnStop(f)
  PROVE  Heeds(f) /\ Leaves(f)
<1>1. f.id \in Ids
  BY FramesRead
<1>2. Tabled(table) /\ Held(item)
  BY PhoneTyped
<1>3. UNCHANGED <<toCam, left>>
  BY DEF OnStop
<1>6. Answered(f)
  BY <1>3, Unanswered
<1>4. CASE ~table[f.id].in
  <2>1. UNCHANGED <<table, item>>
    BY <1>4 DEF OnStop
  <2>2. f.id \notin Playing
    BY <1>4 DEF Playing
  <2>3. Playing' = Playing /\ Leaves(f)
    BY <2>1, SameLeft
  <2> QED
    BY <1>2, <1>6, <2>1, <2>2, <2>3 DEF Heeds, Ends
<1>5. CASE table[f.id].in
  <2>1. table' = [table EXCEPT ![f.id] = NoEntry] /\ (item' = Cut(item, f.id) \/ item' = item)
    BY <1>5 DEF OnStop
  <2>2. NoEntry \in Entries /\ ~NoEntry.in /\ ~NoEntry.playing /\ ~NoEntry.confirmed
    BY DEF NoEntry, Entries
  <2>3. Tabled(table') /\ Held(item')
    BY <1>1, <1>2, <2>1, <2>2, CutHeld DEF Tabled
  <2>4. /\ \A i \in Playing' : i \in Playing /\ i # f.id
        /\ \A i \in Playing : i \in Playing' \/ i = f.id
    BY <1>1, <1>2, <2>1, <2>2 DEF Playing, Tabled
  <2>5. \A i \in Ids : table'[i] = table[i] \/ table'[i] = NoEntry
    BY <1>1, <1>2, <2>1 DEF Tabled
  <2>6. ASSUME NEW i \in Ids, Sworn(table, i)
        PROVE  Sworn(table', i)
    BY <2>2, <2>5, <2>6 DEF Sworn
  <2>7. \A i \in Ids : table'[i].in => table[i].in /\ table'[i].cont = table[i].cont
    BY <2>2, <2>5
  <2>8. Leaves(f)
    BY <2>4, <2>6, <2>7 DEF Leaves, Ends
  <2>9. Heeds(f)
    BY <1>6, <2>3, <2>4 DEF Heeds, Ends
  <2> QED
    BY <2>8, <2>9
<1> QED
  BY <1>4, <1>5

\* A Fallback leaves it there, silent.
LEMMA FallbackHeeded ==
  ASSUME Inv, NEW f \in ToPhone, f.t = "fallback", OnFallback(f)
  PROVE  Heeds(f) /\ Leaves(f)
<1>1. f.id \in Ids /\ {f.id} \in SUBSET Ids
  BY FramesRead
<1>2. Tabled(table) /\ Held(item)
  BY PhoneTyped
<1>3. UNCHANGED <<toCam, left>>
  BY DEF OnFallback
<1>6. Answered(f)
  BY <1>3, Unanswered
<1>4. CASE ~table[f.id].in
  <2>1. UNCHANGED <<table, item>>
    BY <1>4 DEF OnFallback
  <2>2. f.id \notin Playing
    BY <1>4 DEF Playing
  <2>3. Playing' = Playing /\ Leaves(f)
    BY <2>1, SameLeft
  <2> QED
    BY <1>2, <1>6, <2>1, <2>2, <2>3 DEF Heeds, Ends
<1>5. CASE table[f.id].in
  <2>1. table' = Silenced({f.id}) /\ item' = Quieted({f.id})
    BY <1>5 DEF OnFallback
  <2>2. Tabled(table') /\ Held(item')
    BY <1>1, <1>2, <2>1, SilencedTyped, QuietedHeld
  <2>3. \A i \in Ids : /\ table'[i].in = table[i].in /\ table'[i].cont = table[i].cont
                       /\ table'[i].playing <=> table[i].playing /\ i # f.id
                       /\ table'[i].confirmed <=> table[i].confirmed /\ i # f.id
    BY <1>1, <1>2, <2>1, SilencedTyped
  <2>4. /\ \A i \in Playing' : i \in Playing /\ i # f.id
        /\ \A i \in Playing : i \in Playing' \/ i = f.id
    BY <2>3 DEF Playing
  <2>5. ASSUME NEW i \in Ids, Sworn(table, i)
        PROVE  Sworn(table', i)
    BY <2>3, <2>5 DEF Sworn
  <2>6. \A i \in Ids : table'[i].in => table[i].in /\ table'[i].cont = table[i].cont
    BY <2>3
  <2>7. Leaves(f)
    BY <2>4, <2>5, <2>6 DEF Leaves, Ends
  <2>8. Heeds(f)
    BY <1>6, <2>2, <2>4 DEF Heeds, Ends
  <2> QED
    BY <2>7, <2>8
<1> QED
  BY <1>4, <1>5

\* The phone hears one frame, whatever it is.
LEMMA FrameHeeded ==
  ASSUME Inv, PhoneHears
  PROVE  /\ toPhone \in Seq(ToPhone) /\ toPhone # <<>> /\ Head(toPhone) \in ToPhone
         /\ toPhone' = Tail(toPhone) /\ UNCHANGED <<cam, radio, can, told>>
         /\ ses' = IF Head(toPhone).t = "hello" THEN "on" ELSE ses
         /\ ghost' \in Ghosts /\ ghost'.excused = ghost.excused
         /\ Heeds(Head(toPhone)) /\ Leaves(Head(toPhone))
<1> DEFINE f == Head(toPhone)
<1>1. toPhone \in Seq(ToPhone) /\ toPhone # <<>>
  BY DEF Inv, Typed, TypeOK, PhoneHears
<1>2. f \in ToPhone
  BY <1>1, RangeOfTail
<1>3. /\ toPhone' = Tail(toPhone) /\ UNCHANGED <<cam, radio, can, told>>
      /\ ses' = (IF f.t = "hello" THEN "on" ELSE ses) /\ ghost' = [ghost EXCEPT !.missed = @ \/ (f.t = "alert" /\ f.crit)]
      /\ CASE f.t = "hello" -> UNCHANGED <<table, item, toCam, left>>
           [] f.t = "alert" /\ ~table[f.id].in -> OnAlertNew(f)
           [] f.t = "alert" /\ table[f.id].in -> OnAlertAgain(f)
           [] f.t = "stop" -> OnStop(f)
           [] OTHER -> OnFallback(f)
  BY DEF PhoneHears
<1> HIDE DEF f
<1>4. f.t \in {"alert", "stop", "fallback", "hello"}
  BY <1>2, FramesRead
<1>5. Heeds(f) /\ Leaves(f)
  <2>1. CASE f.t = "hello"
    <3>1. UNCHANGED <<table, item, toCam, left>>
      BY <1>3, <2>1
    <3>2. Answered(f) /\ Tabled(table) /\ Held(item)
      BY <3>1, PhoneTyped, Unanswered
    <3>3. Playing' = Playing /\ Leaves(f)
      BY <3>1, SameLeft
    <3> QED
      BY <2>1, <3>1, <3>2, <3>3 DEF Heeds, Ends
  <2>2. CASE f.t = "alert" /\ ~table[f.id].in
    <3>1. OnAlertNew(f)
      BY <1>3, <2>2
    <3> QED
      BY <1>2, <2>2, <3>1, NewHeeded
  <2>3. CASE f.t = "alert" /\ table[f.id].in
    <3>1. OnAlertAgain(f)
      BY <1>3, <2>3
    <3> QED
      BY <1>2, <2>3, <3>1, AgainHeeded
  <2>4. CASE f.t = "stop"
    <3>1. OnStop(f)
      BY <1>3, <2>4
    <3> QED
      BY <1>2, <2>4, <3>1, StopHeeded
  <2>5. CASE f.t = "fallback"
    <3>1. OnFallback(f)
      BY <1>3, <2>5
    <3> QED
      BY <1>2, <2>5, <3>1, FallbackHeeded
  <2> QED
    BY <1>4, <2>1, <2>2, <2>3, <2>4, <2>5
<1>6. ghost' \in Ghosts /\ ghost'.excused = ghost.excused
  <2>1. (ghost.missed \/ (f.t = "alert" /\ f.crit)) \in BOOLEAN
    OBVIOUS
  <2> QED
    BY <1>3, <2>1, GhostsTyped DEF Ghosts
<1> QED
  BY <1>1, <1>2, <1>3, <1>5, <1>6 DEF f

\* A frame heard by the phone keeps the first layer.
LEMMA PhoneHearsKeeps ==
  ASSUME Inv, PhoneHears
  PROVE  Inv'
<1> DEFINE f == Head(toPhone)
<1>1. /\ toPhone \in Seq(ToPhone) /\ toPhone # <<>>
      /\ toPhone' = Tail(toPhone) /\ UNCHANGED <<cam, radio, can, told>>
      /\ ses' \in {ses, "on"} /\ ghost' \in Ghosts /\ Heeds(f) /\ f = Head(toPhone)
  BY FrameHeeded
<1> HIDE DEF f
<1>2. PICK q \in Seq(ToCam) : /\ toCam' = toCam \o q
                              /\ \A x \in Range(q) : x.t = "ack" /\ (x.outcome = 1 => f.t = "alert" /\ f.id = x.id)
  BY <1>1 DEF Heeds, Answered
<1>3. /\ Tabled(table') /\ Held(item') /\ left' \in 0 .. MaxTroubles
      /\ \A i \in Playing' : \/ i \in Playing /\ ~Ends(f, i)
                             \/ f.t = "alert" /\ f.id = i /\ f.route = 1
  BY <1>1 DEF Heeds, Answered
<1> QED
  BY <1>1, <1>2, <1>3, HearingKeeps

----------------------------------------------------------------------------
\* The first layer holds at the start ...
LEMMA InvStarts ==
  ASSUME Init
  PROVE  Inv
<1>1. Len(toPhone) = 0 /\ toPhone \in Seq(ToPhone) /\ toCam \in Seq(ToCam) /\ \A f : f \notin Range(toPhone) /\ f \notin Range(toCam)
  BY DEF Init, Range
<1>2. CamOK(cam)
  BY BoundsAssumption DEF Init, CamOK, Sides, None
<1>3. Tabled(table) /\ Held(item) /\ Playing = {}
  BY DEF Init, NoTable, NoEntry, Entries, Tabled, Playing, Held, Items, NoItem, None
<1>4. Typed
  BY <1>1, <1>2, <1>3, BoundsAssumption DEF Init, Typed, TypeOK, CamOK, Tabled, Held
<1>5. LinkInv /\ Fresh /\ ShotOnce /\ Voice
  BY <1>1, <1>3 DEF Init, LinkInv, Fresh, ShotOnce, Voice, None
<1> QED
  BY <1>4, <1>5 DEF Inv

\* ... every step keeps it ...
LEMMA InvKept ==
  ASSUME Inv, [Next]_vars
  PROVE  Inv'
<1>1. CASE Dashcam \/ CamAnswers
  BY <1>1, CamKeepsInv, ChimesKeep, ShotOverKeeps DEF Dashcam
<1>2. CASE Phone
  BY <1>2, PhoneHearsKeeps, SessionKeeps, LinkUpKeeps, TickKeeps DEF Phone
<1>3. CASE Player \/ ItemFails \/ Stale \/ Drop \/ Restart \/ CanChanges
  BY <1>3, ItemKeeps, ItemFailsKeeps, StaleKeeps, DropKeeps, SessionKeeps
<1>4. CASE UNCHANGED vars
  BY <1>4 DEF vars, Inv, Typed, TypeOK, LinkInv, Fresh, ShotOnce, Voice, Playing, LeftTo, Routed
<1> QED
  BY <1>1, <1>2, <1>3, <1>4 DEF Next

\* ... so it holds always.
LEMMA InvHolds == Spec => []Inv
<1>1. Init => Inv
  BY InvStarts
<1>2. Inv /\ [Next]_vars => Inv'
  BY InvKept
<1> QED
  BY <1>1, <1>2, PTL DEF Spec

\* The dashcam's gate and alert, the phone's table and player, and every frame between them are what they should be:
\* nothing is confirmed that does not sound, and a gate is set just while a sound lasts.
THEOREM TypeCorrect == Spec => []TypeOK
<1>1. Inv => TypeOK
  BY DEF Inv, Typed
<1> QED
  BY <1>1, InvHolds, PTL

\* However answers, deadlines, level changes, Stops and lost links interleave, the phone (alerts.ts) sounds only what
\* the dashcam has left to it, or word that it is the buzzer's is on the way: never the two at once for good.
THEOREM NeverBoth == Spec => []OneVoice
<1>1. Inv => OneVoice
  <2> SUFFICES ASSUME Inv, NEW i \in Playing, radio, ~LeftTo(i)
               PROVE  Coming("stop", i) \/ Coming("fallback", i)
    BY DEF OneVoice, Gone, LeftTo
  <2>1. EndedAfter(toPhone, 0, i)
    BY DEF Inv, Voice
  <2>2. DOMAIN toPhone = 1 .. Len(toPhone)
    BY DEF Inv, Typed, TypeOK
  <2> QED
    BY <2>1, <2>2 DEF EndedAfter, Ends, Coming
<1> QED
  BY <1>1, InvHolds, PTL

----------------------------------------------------------------------------
\* What is in the phone's table has been made, and sounds just if it is confirmed; the episode's alert is continuous
\* there and on the air.
TableInv ==
  /\ \A i \in Ids : Sworn(table, i) /\ (table[i].in => i <= cam.made)
  /\ \A i \in Ids : i = cam.id /\ table[i].in => table[i].cont
  /\ \A f \in Range(toPhone) : f.t = "alert" /\ f.id = cam.id => f.cont

\* No end on the air is of the alert that the dashcam has routed to the phone.
EndInv == \A f \in Range(toPhone) : f.t \in {"stop", "fallback"} => f.id <= cam.made /\ (Routed => f.id # cam.id)

\* STATE frames that say the phone cannot play, and that it can; the last on the air says it cannot.
Mute(f) == f.t = "state" /\ ~f.can
Speaks(f) == f.t = "state" /\ f.can
MuteLast(q) == \E k \in 1 .. Len(q) : Mute(q[k]) /\ \A n \in 1 .. Len(q) : n > k => ~Speaks(q[n])

\* What the phone last said of being able to play, when that it cannot, is the last that the dashcam will have heard:
\* it is the last on the air, or the dashcam has heard it and routes nothing.
ToldInv ==
  /\ ses = "off" => told
  /\ radio /\ (ses = "on" \/ ~told) => Synced
  /\ radio /\ ~told => MuteLast(toCam) \/ (~cam.can /\ ~Routed /\ \A f \in Range(toCam) : ~Speaks(f))

\* The phone says it no longer plays the alert.
Refuses(f, i) == f.t = "ack" /\ f.id = i /\ f.outcome = 0

\* The dashcam counts on the phone for the episode's alert, or a confirm that will make it do so is on the air.
Acked == cam.gate = "phone" \/ \E f \in Range(toCam) : IsAck(f, cam.id)

\* The phone sounds the alert, or what opens the buzzer is there: the link gone, the phone unable to play or not yet
\* said to be able again, a refusal, a HELLO or a STATE on the air.
Released ==
  \/ cam.id \in Playing \/ ~radio \/ ~can \/ ~told
  \/ \E f \in Range(toCam) : Refuses(f, cam.id) \/ f.t = "ask" \/ Mute(f)

\* NeverSilent made inductive: it must hold while the confirm is still on the air, before the gate is set by it.
Carried == Routed /\ Acked /\ ~ghost.excused => Released

\* The second layer.
Kept == TableInv /\ EndInv /\ ToldInv /\ Carried

\* What is written after it, if no word that the phone can play, leaves it the last word.
LEMMA MuteLastGrows ==
  ASSUME NEW p \in Seq(ToCam), NEW q \in Seq(ToCam), \A f \in Range(q) : ~Speaks(f)
  PROVE  /\ MuteLast(p) => MuteLast(p \o q)
         /\ (\A f \in Range(p) : ~Speaks(f)) => \A f \in Range(p \o q) : ~Speaks(f)
<1>1. /\ Len(p \o q) = Len(p) + Len(q) /\ Len(p) \in Nat /\ Len(q) \in Nat
      /\ \A k \in 1 .. Len(p) : (p \o q)[k] = p[k]
      /\ \A k \in 1 .. Len(q) : (p \o q)[Len(p) + k] = q[k]
  BY ConcatProperties
<1>2. ASSUME MuteLast(p)
      PROVE  MuteLast(p \o q)
  <2>1. PICK k \in 1 .. Len(p) : Mute(p[k]) /\ \A n \in 1 .. Len(p) : n > k => ~Speaks(p[n])
    BY <1>2 DEF MuteLast
  <2>2. ASSUME NEW n \in 1 .. Len(p \o q), n > k
        PROVE  ~Speaks((p \o q)[n])
    <3>1. CASE n <= Len(p)
      BY <1>1, <2>1, <2>2, <3>1
    <3>2. CASE n > Len(p)
      <4>1. n - Len(p) \in 1 .. Len(q) /\ n = Len(p) + (n - Len(p))
        BY <1>1, <3>2
      <4>2. (p \o q)[n] = q[n - Len(p)] /\ q[n - Len(p)] \in Range(q)
        BY <1>1, <4>1, SeqRange
      <4> QED
        BY <4>2
    <3> QED
      BY <1>1, <3>1, <3>2
  <2>3. k \in 1 .. Len(p \o q) /\ Mute((p \o q)[k])
    BY <1>1, <2>1
  <2> QED
    BY <2>2, <2>3 DEF MuteLast
<1> QED
  BY <1>2, RangeOfBoth

\* Word just written that the phone cannot play is the last.
LEMMA MuteAtLast ==
  ASSUME NEW p \in Seq(ToCam), NEW x \in ToCam, Mute(x)
  PROVE  MuteLast(p \o <<x>>)
<1>1. <<x>> \in Seq(ToCam) /\ Len(<<x>>) = 1 /\ <<x>>[1] = x
  OBVIOUS
<1>2. /\ Len(p \o <<x>>) = Len(p) + 1 /\ Len(p) \in Nat
      /\ \A k \in 1 .. 1 : (p \o <<x>>)[Len(p) + k] = <<x>>[k]
  BY <1>1, ConcatProperties
<1>3. (p \o <<x>>)[Len(p) + 1] = x
  BY <1>1, <1>2
<1>4. Len(p) + 1 \in 1 .. Len(p \o <<x>>) /\ \A n \in 1 .. Len(p \o <<x>>) : ~(n > Len(p) + 1)
  BY <1>2
<1> QED
  BY <1>3, <1>4 DEF MuteLast

\* A frame heard is the last word, or leaves it on the air.
LEMMA MuteLastTail ==
  ASSUME NEW p \in Seq(ToCam), p # <<>>, MuteLast(p)
  PROVE  MuteLast(Tail(p)) \/ (Mute(Head(p)) /\ \A f \in Range(Tail(p)) : ~Speaks(f))
<1>1. /\ Head(p) = p[1] /\ Tail(p) \in Seq(ToCam) /\ Len(Tail(p)) = Len(p) - 1 /\ Len(p) \in Nat
      /\ \A k \in 1 .. Len(Tail(p)) : Tail(p)[k] = p[k + 1]
  BY RangeOfTail
<1>2. PICK k \in 1 .. Len(p) : Mute(p[k]) /\ \A n \in 1 .. Len(p) : n > k => ~Speaks(p[n])
  BY DEF MuteLast
<1>3. \A n \in 1 .. Len(Tail(p)) : n + 1 \in 1 .. Len(p)
  BY <1>1
<1>4. CASE k = 1
  <2>1. ASSUME NEW f \in Range(Tail(p))
        PROVE  ~Speaks(f)
    <3>1. PICK n \in 1 .. Len(Tail(p)) : Tail(p)[n] = f
      BY <1>1, SeqRange
    <3>2. n + 1 \in 1 .. Len(p) /\ n + 1 > k /\ p[n + 1] = f
      BY <1>1, <1>3, <1>4, <3>1
    <3> QED
      BY <1>2, <3>2
  <2> QED
    BY <1>1, <1>2, <1>4, <2>1
<1>5. CASE k # 1
  <2>1. k - 1 \in 1 .. Len(Tail(p)) /\ Tail(p)[k - 1] = p[k]
    BY <1>1, <1>5
  <2>2. \A n \in 1 .. Len(Tail(p)) : n > k - 1 => ~Speaks(Tail(p)[n])
    BY <1>1, <1>2, <1>3
  <2> QED
    BY <1>2, <2>1, <2>2 DEF MuteLast
<1> QED
  BY <1>4, <1>5

\* A step of the phone that leaves the table as it was, but for what stops sounding or goes.
LEMMA TableKept ==
  ASSUME TableInv, EndInv, cam'.id = cam.id, cam'.made = cam.made, cam'.gate = cam.gate,
         \A f \in Range(toPhone') : f \in Range(toPhone),
         \A i \in Ids : Sworn(table, i) => Sworn(table', i),
         \A i \in Ids : table'[i].in => table[i].in /\ table'[i].cont = table[i].cont
  PROVE  TableInv' /\ EndInv'
<1>1. \A i \in Ids : Sworn(table', i) /\ (table'[i].in => i <= cam'.made)
  BY DEF TableInv
<1>2. \A i \in Ids : i = cam'.id /\ table'[i].in => table'[i].cont
  BY DEF TableInv
<1>3. \A f \in Range(toPhone') : f.t = "alert" /\ f.id = cam'.id => f.cont
  BY DEF TableInv
<1>4. Routed' <=> Routed
  BY DEF Routed
<1> QED
  BY <1>1, <1>2, <1>3, <1>4 DEF TableInv, EndInv, Sworn

\* What the phone said last stays said while it says nothing more of it.
LEMMA ToldKept ==
  ASSUME ToldInv, toCam \in Seq(ToCam), cam' = cam, radio' = radio, told' = told, ses' \in {ses, "hello"} \/ (ses' = "on" /\ Synced),
         NEW q \in Seq(ToCam), toCam' = toCam \o q, \A f \in Range(q) : ~Speaks(f)
  PROVE  ToldInv'
<1>1. /\ MuteLast(toCam) => MuteLast(toCam')
      /\ (\A f \in Range(toCam) : ~Speaks(f)) => \A f \in Range(toCam') : ~Speaks(f)
  BY MuteLastGrows
<1>2. (Routed' <=> Routed) /\ (Synced' <=> Synced)
  BY DEF Routed, Synced
<1>3. (ses' = "off" => told') /\ (radio' /\ (ses' = "on" \/ ~told') => Synced')
  BY <1>2 DEF ToldInv
<1>4. radio' /\ ~told' => MuteLast(toCam') \/ (~cam'.can /\ ~Routed' /\ \A f \in Range(toCam') : ~Speaks(f))
  BY <1>1, <1>2 DEF ToldInv
<1> QED
  BY <1>3, <1>4 DEF ToldInv, MuteLast, Speaks, Mute

\* If the dashcam relies on the phone after a step that confirms nothing, it did before.
LEMMA WasReleased ==
  ASSUME Carried, toCam \in Seq(ToCam), cam'.id = cam.id, cam'.gate = cam.gate,
         NEW q \in Seq(ToCam), toCam' = toCam \o q, \A f \in Range(q) : ~IsAck(f, cam.id),
         ghost.excused => ghost'.excused, Routed', Acked', ~ghost'.excused
  PROVE  Released /\ \A f : f \in Range(toCam) => f \in Range(toCam')
<1>1. \A f : f \in Range(toCam') <=> f \in Range(toCam) \/ f \in Range(q)
  BY RangeOfBoth
<1>2. Routed /\ Acked
  BY <1>1 DEF Routed, Acked, IsAck
<1> QED
  BY <1>1, <1>2 DEF Carried

\* What opens the buzzer stays there while nothing is taken off the air.
LEMMA StillReleased ==
  ASSUME Released, cam'.id = cam.id, radio' = radio, ~can => ~can', ~told => ~told',
         cam.id \in Playing => cam.id \in Playing' \/ Released', \A f : f \in Range(toCam) => f \in Range(toCam')
  PROVE  Released'
BY DEF Released, Refuses, Mute

----------------------------------------------------------------------------
\* Silencing keeps the table's entries what they are, sworn or not.
LEMMA SilencedKeeps ==
  ASSUME Tabled(table), NEW ids \in SUBSET Ids, NEW i \in Ids
  PROVE  /\ Sworn(table, i) => Sworn(Silenced(ids), i)
         /\ Silenced(ids)[i].in = table[i].in /\ Silenced(ids)[i].cont = table[i].cont
         /\ Silenced(ids)[i].playing <=> table[i].playing /\ i \notin ids
BY SilencedTyped DEF Sworn

\* What a pump leaves alone.
LEMMA PumpKeeps ==
  ASSUME NEW t, NEW x, Tabled(t), Held(x), Pump(t, x), NEW i \in Ids
  PROVE  /\ Sworn(t, i) => Sworn(table', i)
         /\ table'[i].in = t[i].in /\ table'[i].cont = t[i].cont /\ table'[i].playing = t[i].playing
BY PumpEffect DEF Sworn

\* Nothing is said, or only refusals are.
LEMMA SaysNothing ==
  ASSUME Inv
  PROVE  toCam \in Seq(ToCam) /\ <<>> \in Seq(ToCam) /\ toCam = toCam \o <<>> /\ \A f : f \notin Range(<<>>)
BY PhoneTyped

\* Refusals confirm nothing and say nothing of being able to play.
LEMMA RefusalsOnly ==
  ASSUME NEW q \in Seq(Refusals)
  PROVE  q \in Seq(ToCam) /\ \A f \in Range(q) : ~Speaks(f) /\ \A i : ~IsAck(f, i)
<1>1. q \in Seq(ToCam) /\ \A f \in Range(q) : f.t = "ack" /\ f.outcome = 0
  BY RefusalsSay
<1> QED
  BY <1>1 DEF Speaks, IsAck

\* A tick keeps the second layer: what it silences it refuses, and the phone cannot play.
LEMMA TickKept ==
  ASSUME Inv, Kept, Tick
  PROVE  Kept'
<1>1. Tabled(table) /\ Held(item) /\ Playing \subseteq Ids /\ Playing \in SUBSET Ids
  BY PhoneTyped
<1>2. UNCHANGED <<cam, radio, toPhone, ses, can, told, ghost>>
  BY DEF Tick
<1>3. PICK q \in Seq(Refusals) : toCam' = toCam \o q
  <2>1. Owes(Playing) \in Seq(Refusals) /\ Refusals \in SUBSET ToCam /\ <<>> \in Seq(Refusals)
    BY <1>1, OwesRefusals, FramesTyped
  <2>2. CASE Answers(Owes(Playing))
    BY <2>1, <2>2, AnswersGo
  <2>3. CASE UNCHANGED toCam
    BY <2>1, <2>3, SaysNothing
  <2> QED
    BY <2>2, <2>3 DEF Tick
<1>4. q \in Seq(ToCam) /\ \A f \in Range(q) : ~Speaks(f) /\ \A i : ~IsAck(f, i)
  BY RefusalsOnly
<1>5. ToldInv'
  BY <1>2, <1>3, <1>4, SaysNothing, ToldKept DEF Kept
<1>6. CASE TickSilences
  <2>1. Pump(Silenced(Playing), Quieted(Playing))
    BY <1>6 DEF Tick
  <2>2. Tabled(Silenced(Playing)) /\ Held(Quieted(Playing))
    BY <1>1, SilencedTyped, QuietedHeld
  <2>3. TableInv' /\ EndInv'
    BY <1>1, <1>2, <2>1, <2>2, SilencedKeeps, PumpKeeps, TableKept DEF Kept
  <2>4. Released'
    BY <1>2, <1>6 DEF TickSilences, Released
  <2> QED
    BY <1>5, <2>3, <2>4 DEF Kept, Carried
<1>7. CASE ~TickSilences
  <2>1. Pump(table, item)
    BY <1>7 DEF Tick
  <2>2. TableInv' /\ EndInv'
    BY <1>1, <1>2, <2>1, PumpKeeps, TableKept DEF Kept
  <2>3. Playing' = Playing
    BY <1>1, <2>1, PumpKeeps DEF Playing
  <2>4. Carried'
    <3> SUFFICES ASSUME Routed', Acked', ~ghost'.excused
                 PROVE  Released'
      BY DEF Carried
    <3>1. Released /\ \A f : f \in Range(toCam) => f \in Range(toCam')
      BY <1>2, <1>3, <1>4, SaysNothing, WasReleased DEF Kept
    <3> QED
      BY <1>2, <2>3, <3>1, StillReleased
  <2> QED
    BY <1>5, <2>2, <2>4 DEF Kept
<1> QED
  BY <1>6, <1>7

\* A continuous alert that goes stale is refused, if the phone had confirmed it; a refusal lost is excused.
LEMMA StaleKept ==
  ASSUME Inv, Kept, Stale
  PROVE  Kept'
<1> DEFINE ids == {i \in Playing : table[i].cont}
<1>1. Tabled(table) /\ Held(item) /\ Playing \subseteq Ids /\ left \in Nat
  BY PhoneTyped, BoundsAssumption
<1>2. /\ UNCHANGED <<cam, radio, toPhone, ses, can, told>> /\ table' = Silenced(ids)
      /\ IF radio THEN Answers(Owes(ids)) ELSE UNCHANGED <<toCam, left>>
      /\ ghost' = [ghost EXCEPT !.excused = @ \/ (cam.id \in ids /\ left' # left)]
  BY DEF Stale
<1>3. ids \in SUBSET Ids /\ ids \subseteq Playing
  BY <1>1
<1> HIDE DEF ids
<1>4. Owes(ids) \in Seq(Refusals) /\ Refusals \in SUBSET ToCam /\ <<>> \in Seq(Refusals)
  BY <1>3, OwesRefusals, FramesTyped
<1>5. PICK q \in Seq(Refusals) : toCam' = toCam \o q
  <2>1. CASE Answers(Owes(ids))
    BY <1>4, <2>1, AnswersGo
  <2>2. CASE UNCHANGED toCam
    BY <1>4, <2>2, SaysNothing
  <2> QED
    BY <1>2, <2>1, <2>2
<1>6. q \in Seq(ToCam) /\ \A f \in Range(q) : ~Speaks(f) /\ \A i : ~IsAck(f, i)
  BY RefusalsOnly
<1>7. ToldInv'
  BY <1>2, <1>5, <1>6, SaysNothing, ToldKept DEF Kept
<1>8. TableInv' /\ EndInv'
  BY <1>1, <1>2, <1>3, SilencedKeeps, TableKept DEF Kept
<1>9. ghost'.excused = (ghost.excused \/ (cam.id \in ids /\ left' # left))
  BY <1>2, GhostsTyped DEF Ghosts
<1>10. Carried'
  <2> SUFFICES ASSUME Routed', Acked', ~ghost'.excused
               PROVE  Released'
    BY DEF Carried
  <2>1. Released /\ \A f : f \in Range(toCam) => f \in Range(toCam')
    BY <1>2, <1>5, <1>6, <1>9, SaysNothing, WasReleased DEF Kept
  <2>2. ASSUME cam.id \in Playing
        PROVE  cam.id \in Playing' \/ Released'
    <3>1. CASE cam.id \notin ids
      <4>1. cam.id \in Ids /\ table[cam.id].in /\ table[cam.id].playing
        BY <2>2 DEF Playing
      <4>2. table'[cam.id].in /\ table'[cam.id].playing
        BY <1>1, <1>2, <1>3, <3>1, <4>1, SilencedKeeps
      <4> QED
        BY <4>1, <4>2 DEF Playing
    <3>2. CASE cam.id \in ids /\ ~radio
      BY <1>2, <3>2 DEF Released
    <3>3. CASE cam.id \in ids /\ radio
      <4>1. left' = left
        BY <1>9, <3>3
      <4>2. toCam' = toCam \o Owes(ids)
        BY <1>1, <1>2, <3>3, <4>1 DEF Answers, Says, Trouble
      <4>3. table[cam.id].confirmed
        BY <2>2 DEF Kept, TableInv, Sworn, Playing
      <4>4. Ack(cam.id, 0) \in Range(Owes(ids))
        BY <1>3, <3>3, <4>3, OwesRefusals
      <4>5. Ack(cam.id, 0) \in Range(toCam')
        BY <1>4, <4>2, <4>4, SaysNothing, RefusalsOnly, RangeOfBoth
      <4>6. Refuses(Ack(cam.id, 0), cam.id)
        BY DEF Refuses, Ack
      <4> QED
        BY <1>2, <4>5, <4>6 DEF Released
    <3> QED
      BY <3>1, <3>2, <3>3
  <2> QED
    BY <1>2, <2>1, <2>2, StillReleased
<1> QED
  BY <1>7, <1>8, <1>10 DEF Kept

\* A sound that fails is refused, and the phone cannot play from then on.
LEMMA ItemFailsKept ==
  ASSUME Inv, Kept, ItemFails
  PROVE  Kept'
<1> DEFINE ids == {item.id} \cap Playing
<1>1. Tabled(table) /\ Playing \subseteq Ids
  BY PhoneTyped
<1>2. /\ UNCHANGED <<cam, radio, toPhone, ses, told>> /\ table' = Silenced(ids) /\ can' = FALSE
      /\ IF radio /\ ses # "off" THEN Says(Owes(ids)) ELSE UNCHANGED toCam
  BY DEF ItemFails
<1>3. ids \in SUBSET Ids
  BY <1>1
<1> HIDE DEF ids
<1>4. PICK q \in Seq(Refusals) : toCam' = toCam \o q
  <2>1. Owes(ids) \in Seq(Refusals) /\ <<>> \in Seq(Refusals)
    BY <1>3, OwesRefusals
  <2> QED
    BY <1>2, <2>1, SaysNothing DEF Says
<1>5. q \in Seq(ToCam) /\ \A f \in Range(q) : ~Speaks(f) /\ \A i : ~IsAck(f, i)
  BY RefusalsOnly
<1>6. ToldInv'
  BY <1>2, <1>4, <1>5, SaysNothing, ToldKept DEF Kept
<1>7. TableInv' /\ EndInv'
  BY <1>1, <1>2, <1>3, SilencedKeeps, TableKept DEF Kept
<1>8. Released'
  BY <1>2 DEF Released
<1> QED
  BY <1>6, <1>7, <1>8 DEF Kept, Carried

\* An item that starts or ends changes nothing of who sounds.
LEMMA ItemKept ==
  ASSUME Inv, Kept, Player
  PROVE  Kept'
<1>1. UNCHANGED <<cam, radio, toPhone, toCam, told, ses, can>> /\ ghost'.excused = ghost.excused
  BY GhostsTyped DEF Player, ItemStarts, ItemEnds, Ghosts
<1>2. Tabled(table) /\ Held(item) /\ Held(NoItem)
  BY PhoneTyped, ItemChanges
<1>3. /\ \A i \in Ids : Sworn(table, i) => Sworn(table', i)
      /\ \A i \in Ids : table'[i].in => table[i].in /\ table'[i].cont = table[i].cont
      /\ \A i \in Playing : table[i].cont => i \in Playing'
  <2>1. CASE ItemStarts
    <3>1. table' = table
      BY <2>1 DEF ItemStarts
    <3> QED
      BY <3>1 DEF Playing
  <2>2. CASE ItemEnds
    <3> DEFINE e == table[item.id]
               t == CASE e.in /\ e.playing /\ e.cont -> [table EXCEPT ![item.id].due = TRUE]
                      [] e.in /\ ~e.cont /\ ~e.owed -> [table EXCEPT ![item.id] = NoEntry]
                      [] OTHER -> table
    <3>1. Pump(t, NoItem) /\ item # NoItem
      BY <2>2 DEF ItemEnds
    <3>2. item.id \in Ids /\ e \in Entries
      BY <1>2, <3>1 DEF Held, Items, Tabled
    <3>3. NoEntry \in Entries /\ ~NoEntry.in /\ ~NoEntry.playing /\ ~NoEntry.confirmed
      BY DEF NoEntry, Entries
    <3>4. /\ [e EXCEPT !.due = TRUE] \in Entries /\ [e EXCEPT !.due = TRUE].in = e.in /\ [e EXCEPT !.due = TRUE].cont = e.cont
          /\ [e EXCEPT !.due = TRUE].playing = e.playing /\ [e EXCEPT !.due = TRUE].confirmed = e.confirmed
      BY <3>2 DEF Entries
    <3>5. CASE t = table
      <4>1. Pump(table, NoItem)
        BY <3>1, <3>5
      <4>2. \A i \in Ids : /\ Sworn(table, i) => Sworn(table', i)
                           /\ table'[i].in = table[i].in /\ table'[i].cont = table[i].cont /\ table'[i].playing = table[i].playing
        BY <1>2, <4>1, PumpKeeps
      <4> QED
        BY <4>2 DEF Playing
    <3>6. CASE t = [table EXCEPT ![item.id] = [e EXCEPT !.due = TRUE]]
      <4>1. Tabled(t)
        BY <1>2, <3>2, <3>4, <3>6 DEF Tabled
      <4>2. \A i \in Ids : /\ t[i].in = table[i].in /\ t[i].cont = table[i].cont
                           /\ t[i].playing = table[i].playing /\ t[i].confirmed = table[i].confirmed
        BY <1>2, <3>2, <3>4, <3>6 DEF Tabled
      <4> HIDE DEF t
      <4>3. \A i \in Ids : /\ Sworn(t, i) => Sworn(table', i)
                           /\ table'[i].in = t[i].in /\ table'[i].cont = t[i].cont /\ table'[i].playing = t[i].playing
        BY <1>2, <3>1, <4>1, PumpKeeps
      <4> QED
        BY <4>2, <4>3 DEF Playing, Sworn
    <3>7. CASE t = [table EXCEPT ![item.id] = NoEntry] /\ ~e.cont
      <4>1. Tabled(t)
        BY <1>2, <3>2, <3>3, <3>7 DEF Tabled
      <4>2. /\ t[item.id] = NoEntry /\ ~table[item.id].cont
            /\ \A i \in Ids : i # item.id => t[i] = table[i]
        BY <1>2, <3>2, <3>7 DEF Tabled
      <4> HIDE DEF t
      <4>3. \A i \in Ids : /\ Sworn(t, i) => Sworn(table', i)
                           /\ table'[i].in = t[i].in /\ table'[i].cont = t[i].cont /\ table'[i].playing = t[i].playing
        BY <1>2, <3>1, <4>1, PumpKeeps
      <4>4. Sworn(t, item.id)
        BY <3>3, <4>2 DEF Sworn
      <4>5. \A i \in Ids : i # item.id => (Sworn(table, i) => Sworn(t, i))
        BY <4>2 DEF Sworn
      <4>6. \A i \in Ids : Sworn(table, i) => Sworn(table', i)
        BY <4>3, <4>4, <4>5
      <4>7. \A i \in Ids : table'[i].in => table[i].in /\ table'[i].cont = table[i].cont
        BY <3>3, <4>2, <4>3
      <4>8. \A i \in Playing : table[i].cont => i \in Playing'
        BY <4>2, <4>3 DEF Playing
      <4> QED
        BY <4>6, <4>7, <4>8
    <3>8. \/ t = table
          \/ t = [table EXCEPT ![item.id] = [e EXCEPT !.due = TRUE]]
          \/ t = [table EXCEPT ![item.id] = NoEntry] /\ ~e.cont
      OBVIOUS
    <3> QED
      BY <3>5, <3>6, <3>7, <3>8
  <2> QED
    BY <2>1, <2>2 DEF Player
<1>4. TableInv' /\ EndInv'
  BY <1>1, <1>3, TableKept DEF Kept
<1>5. ToldInv'
  BY <1>1, SaysNothing, ToldKept DEF Kept
<1>6. Carried'
  <2> SUFFICES ASSUME Routed', Acked', ~ghost'.excused
               PROVE  Released'
    BY DEF Carried
  <2>1. Released
    BY <1>1, SaysNothing, WasReleased DEF Kept
  <2>2. cam.id \in Playing => cam.id \in Playing'
    BY <1>3 DEF Kept, TableInv, Playing
  <2> QED
    BY <1>1, <2>1, <2>2, StillReleased
<1> QED
  BY <1>4, <1>5, <1>6 DEF Kept

----------------------------------------------------------------------------
\* A step that leaves the table, the dashcam's alert and the air towards the phone alone.
LEMMA TableLeft ==
  ASSUME TableInv, EndInv, table' = table, toPhone' = toPhone, cam'.id = cam.id, cam'.made = cam.made, cam'.gate = cam.gate
  PROVE  TableInv' /\ EndInv'
<1>1. \A i \in Ids : Sworn(table, i) => Sworn(table', i)
  OBVIOUS
<1> QED
  BY <1>1, TableKept

\* A connection lost empties the table, and with the link gone nothing is owed.
LEMMA LinkDownKept ==
  ASSUME Inv, Kept, LinkDown
  PROVE  Kept'
<1>1. UNCHANGED <<cam, radio, toPhone, toCam, can>> /\ ~radio /\ told' = TRUE /\ table' = NoTable
  BY DEF LinkDown
<1>2. \A i \in Ids : ~table'[i].in /\ Sworn(table', i)
  BY <1>1 DEF NoTable, NoEntry, Sworn
<1>3. TableInv' /\ EndInv'
  BY <1>1, <1>2, TableKept DEF Kept
<1>4. ToldInv' /\ Released'
  BY <1>1 DEF ToldInv, Released
<1> QED
  BY <1>3, <1>4 DEF Kept, Carried

\* A new connection asks first, and no STATE is on the air yet.
LEMMA LinkUpKept ==
  ASSUME Inv, Kept, LinkUp
  PROVE  Kept'
<1>1. /\ ses = "off" /\ ses' = "hello" /\ cam.link = "off" /\ cam' = [cam EXCEPT !.link = "up"]
      /\ UNCHANGED <<toPhone, told, table>>
  BY DEF LinkUp
<1>2. cam'.id = cam.id /\ cam'.made = cam.made /\ cam'.gate = cam.gate
  BY <1>1 DEF Inv, Typed, CamOK, Sides
<1>3. TableInv' /\ EndInv'
  BY <1>1, <1>2, TableLeft DEF Kept
<1>4. told'
  BY <1>1 DEF Kept, ToldInv
<1>5. ToldInv'
  BY <1>1, <1>4 DEF ToldInv
<1>6. ~Routed'
  BY <1>1, <1>2 DEF Inv, LinkInv, Routed
<1> QED
  BY <1>3, <1>5, <1>6 DEF Kept, Carried

\* A session restarted by a sign-out asks again, which ends the routing.
LEMMA RestartKept ==
  ASSUME Inv, Kept, Restart
  PROVE  Kept'
<1>1. /\ UNCHANGED <<cam, radio, toPhone, can, told, table, item, ghost>>
      /\ ses' = "hello" /\ toCam' = toCam \o <<[t |-> "ask"]>>
  BY DEF Restart, Says
<1>2. TableInv' /\ EndInv'
  BY <1>1, TableLeft DEF Kept
<1> DEFINE x == [t |-> "ask"]
<1>3. x \in ToCam /\ x.t = "ask"
  BY FramesTyped
<1>4. toCam' = toCam \o <<x>>
  BY <1>1
<1> HIDE DEF x
<1>5. <<x>> \in Seq(ToCam) /\ \A f : f \in Range(<<x>>) <=> f = x
  BY <1>3, RangeOfOne
<1>6. \A f \in Range(<<x>>) : ~Speaks(f)
  BY <1>3, <1>5 DEF Speaks
<1>7. ToldInv'
  BY <1>1, <1>4, <1>5, <1>6, SaysNothing, ToldKept DEF Kept
<1>8. x \in Range(toCam')
  BY <1>4, <1>5, SaysNothing, RangeOfBoth
<1>9. Released'
  BY <1>3, <1>8 DEF Released
<1> QED
  BY <1>2, <1>7, <1>9 DEF Kept, Carried

\* Being able to play again excuses only what had not been said (the excused history).
LEMMA CanChangesKept ==
  ASSUME Inv, Kept, CanChanges
  PROVE  Kept'
<1>1. UNCHANGED <<cam, radio, toPhone, toCam, ses, told, table>> /\ can' = ~can
  BY DEF CanChanges
<1>2. ghost'.excused = (ghost.excused \/ (~can /\ told))
  BY GhostsTyped DEF CanChanges, Ghosts
<1>3. TableInv' /\ EndInv'
  BY <1>1, TableLeft DEF Kept
<1>4. ToldInv'
  BY <1>1, SaysNothing, ToldKept DEF Kept
<1>5. Released' \/ ghost'.excused
  BY <1>1, <1>2 DEF Released
<1> QED
  BY <1>3, <1>4, <1>5 DEF Kept, Carried

\* A STATE is the last word on the air.
LEMMA SendStateKept ==
  ASSUME Inv, Kept, SendState
  PROVE  Kept'
<1>1. /\ UNCHANGED <<cam, radio, toPhone, ses, can, table, item, left, ghost>>
      /\ ses = "on" /\ radio /\ told # can /\ told' = can /\ toCam' = toCam \o <<[t |-> "state", can |-> can]>>
  BY DEF SendState, Says
<1>2. can \in BOOLEAN /\ told \in BOOLEAN
  BY PhoneTyped
<1>3. TableInv' /\ EndInv'
  BY <1>1, TableLeft DEF Kept
<1> DEFINE x == [t |-> "state", can |-> can]
<1>4. x \in ToCam /\ x.t = "state" /\ x.can = can
  BY <1>2, FramesTyped
<1>5. toCam' = toCam \o <<x>>
  BY <1>1
<1> HIDE DEF x
<1>6. <<x>> \in Seq(ToCam) /\ \A f : f \in Range(<<x>>) <=> f = x
  BY <1>4, RangeOfOne
<1>7. \A f : f \in Range(toCam') <=> f \in Range(toCam) \/ f = x
  BY <1>5, <1>6, SaysNothing, RangeOfBoth
<1>8. Synced' /\ ses' = "on"
  BY <1>1 DEF Kept, ToldInv, Synced
<1>9. CASE can
  <2>1. told' /\ ~told
    BY <1>1, <1>2, <1>9
  <2>2. ToldInv'
    BY <1>8, <2>1 DEF ToldInv
  <2>3. CASE MuteLast(toCam)
    <3>1. PICK k \in 1 .. Len(toCam) : Mute(toCam[k])
      BY <2>3 DEF MuteLast
    <3>2. toCam[k] \in Range(toCam')
      BY <1>7, SaysNothing, SeqRange
    <3>3. Released'
      BY <3>1, <3>2 DEF Released, Mute
    <3> QED
      BY <1>3, <2>2, <3>3 DEF Kept, Carried
  <2>4. CASE ~Routed
    <3>1. ~Routed'
      BY <1>1, <2>4 DEF Routed
    <3> QED
      BY <1>3, <2>2, <3>1 DEF Kept, Carried
  <2> QED
    BY <1>1, <2>1, <2>3, <2>4 DEF Kept, ToldInv
<1>10. CASE ~can
  <2>1. MuteLast(toCam')
    BY <1>4, <1>5, <1>10, SaysNothing, MuteAtLast DEF Mute
  <2>2. ToldInv'
    BY <1>8, <2>1 DEF ToldInv, MuteLast, Mute, Speaks
  <2>3. Released'
    BY <1>1, <1>10 DEF Released
  <2> QED
    BY <1>3, <2>2, <2>3 DEF Kept, Carried
<1> QED
  BY <1>9, <1>10

\* A lost link takes everything off the air.
LEMMA DropKept ==
  ASSUME Inv, Kept, Drop
  PROVE  Kept'
<1>1. radio' = FALSE /\ toPhone' = <<>> /\ UNCHANGED <<cam, ses, can, told, table, item>>
  BY DEF Drop, phone
<1>2. \A f : f \notin Range(toPhone')
  BY <1>1 DEF Range
<1>3. \A i \in Ids : Sworn(table, i) => Sworn(table', i)
  BY <1>1
<1>4. TableInv' /\ EndInv'
  BY <1>1, <1>2, <1>3, TableKept DEF Kept
<1>5. ToldInv' /\ Released'
  BY <1>1 DEF Kept, ToldInv, Released
<1> QED
  BY <1>4, <1>5 DEF Kept, Carried

\* A frame heard: the alert the dashcam has left to the phone is not what it ends, and what it confirms it sounds.
LEMMA PhoneHearsKept ==
  ASSUME Inv, Kept, PhoneHears
  PROVE  Kept'
<1> DEFINE f == Head(toPhone)
<1>1. /\ toPhone \in Seq(ToPhone) /\ toPhone # <<>> /\ f \in ToPhone /\ toPhone' = Tail(toPhone)
      /\ UNCHANGED <<cam, radio, can, told>> /\ ses' \in {ses, "on"} /\ ghost'.excused = ghost.excused
      /\ Heeds(f) /\ Leaves(f)
  BY FrameHeeded
<1>2. f \in Range(toPhone) /\ \A x \in Range(toPhone') : x \in Range(toPhone)
  BY <1>1, RangeOfTail
<1> HIDE DEF f
<1>3. f.t = "alert" => f.id \in Ids /\ f.id <= cam.made /\ (f.id = cam.id => f.cont)
  BY <1>1, <1>2, FramesRead DEF Inv, Fresh, Kept, TableInv
<1>4. Synced
  BY <1>1, SidesRead DEF Inv, LinkInv, Typed, CamOK, Synced
<1>5. PICK q \in Seq(ToCam) : /\ toCam' = toCam \o q
                              /\ \A x \in Range(q) : x.t = "ack" /\ (x.outcome = 1 => f.t = "alert" /\ f.id = x.id /\ f.id \in Playing')
  BY <1>1 DEF Heeds, Answered
<1>6. TableInv'
  <2>1. \A i \in Ids : Sworn(table', i)
    BY <1>1 DEF Kept, TableInv, Leaves
  <2>2. \A i \in Ids : table'[i].in => i <= cam'.made
    BY <1>1, <1>3 DEF Kept, TableInv, Leaves
  <2>3. \A i \in Ids : i = cam'.id /\ table'[i].in => table'[i].cont
    BY <1>1, <1>3 DEF Kept, TableInv, Leaves
  <2>4. \A x \in Range(toPhone') : x.t = "alert" /\ x.id = cam'.id => x.cont
    BY <1>1, <1>2 DEF Kept, TableInv
  <2> QED
    BY <2>1, <2>2, <2>3, <2>4 DEF TableInv, Sworn
<1>7. EndInv'
  BY <1>1, <1>2 DEF Kept, EndInv, Routed
<1>8. ToldInv'
  <2>1. \A x \in Range(q) : ~Speaks(x)
    BY <1>5 DEF Speaks
  <2> QED
    BY <1>1, <1>4, <1>5, <2>1, SaysNothing, ToldKept DEF Kept
<1>9. Carried'
  <2> SUFFICES ASSUME Routed', Acked', ~ghost'.excused, cam.id \notin Playing'
               PROVE  Released'
    BY <1>1 DEF Carried, Released
  <2>1. \A x \in Range(q) : ~IsAck(x, cam.id)
    BY <1>5 DEF IsAck
  <2>2. Released /\ \A x : x \in Range(toCam) => x \in Range(toCam')
    BY <1>1, <1>5, <2>1, SaysNothing, WasReleased DEF Kept
  <2>3. ~Ends(f, cam.id)
    BY <1>1, <1>2 DEF Kept, EndInv, Ends, Routed
  <2>4. cam.id \notin Playing
    BY <1>1, <2>3 DEF Leaves
  <2> QED
    BY <1>1, <2>2, <2>4, StillReleased
<1> QED
  BY <1>6, <1>7, <1>8, <1>9 DEF Kept

----------------------------------------------------------------------------
\* What a step of the dashcam knows of the phone's being able to play, and of the frame it heard.
LEMMA CamCan ==
  ASSUME Inv, CamAlerts \/ CamSteps \/ CamClears \/ CamChimes \/ QuietGuard \/ Deadline \/ CamNotices
  PROVE  cam'.can = cam.can /\ toCam' = toCam
<1>1. cam \in Sides /\ toCam' = toCam
  BY DEF Inv, Typed, CamOK, CamAlerts, CamSteps, CamClears, CamChimes, QuietGuard, Deadline, CamNotices, camOnly
<1>2. CASE CamAlerts
  BY <1>1, <1>2 DEF CamAlerts, Sides
<1>3. CASE CamSteps \/ CamClears \/ CamChimes
  BY <1>1, <1>3 DEF CamSteps, CamClears, CamChimes, Sides
<1>4. CASE QuietGuard \/ Deadline
  BY <1>1, <1>4 DEF QuietGuard, Deadline, Sides
<1>5. CASE CamNotices
  BY <1>1, <1>5 DEF CamNotices, TakesOver, Sides
<1> QED
  BY <1>1, <1>2, <1>3, <1>4, <1>5

\* A frame heard by the dashcam: what it says of being able to play is taken, and a refusal, a HELLO or a STATE that
\* says it cannot opens the buzzer.
LEMMA CamHearsCan ==
  ASSUME Inv, CamHears, NEW f, f = Head(toCam)
  PROVE  /\ toCam \in Seq(ToCam) /\ toCam # <<>> /\ toCam' = Tail(toCam) /\ f \in ToCam /\ f \in Range(toCam)
         /\ f.t = "ack" => cam'.can = cam.can
         /\ f.t = "state" => cam'.can = f.can
         /\ f.t = "ask" => radio /\ ~Routed' /\ (Synced => cam'.can = cam.can)
         /\ Mute(f) => ~Routed'
         /\ Routed /\ Refuses(f, cam.id) => ~Routed'
<1>1. toCam \in Seq(ToCam) /\ toCam # <<>> /\ toCam' = Tail(toCam) /\ f \in ToCam /\ f \in Range(toCam) /\ cam \in Sides
  BY RangeOfTail DEF Inv, Typed, TypeOK, CamHears
<1>2. CASE f.t = "ack"
  <2>1. CamHearsAck(f)
    BY <1>2 DEF CamHears
  <2>2. cam'.can = cam.can
    BY <1>1, <2>1 DEF CamHearsAck, Sides
  <2>3. ASSUME Routed, Refuses(f, cam.id)
        PROVE  ~Routed'
    <3>1. f.id = cam.id /\ f.outcome = 0 /\ cam.id # cam.shot
      BY <1>1, <1>2, <2>3, FramesRead, IdsAreNumbers DEF Refuses, Inv, ShotOnce
    <3>2. cam' = [cam EXCEPT !.gate = "buzzer"]
      BY <2>1, <2>3, <3>1 DEF CamHearsAck
    <3> QED
      BY <1>1, <3>2 DEF Routed, Sides
  <2> QED
    BY <1>1, <1>2, <2>2, <2>3 DEF Mute
<1>3. CASE f.t = "state"
  <2>1. CamHearsState(f) /\ f.can \in BOOLEAN
    BY <1>1, <1>3, FramesRead DEF CamHears
  <2>2. CASE f.can
    BY <1>1, <1>3, <2>1, <2>2 DEF CamHearsState, Sides, Mute, Refuses
  <2>3. CASE ~f.can
    <3> DEFINE c == [cam EXCEPT !.can = FALSE]
    <3>1. TakesOver(c) /\ c \in Sides /\ c.can = FALSE
      BY <1>1, <2>1, <2>3 DEF CamHearsState, Sides
    <3> HIDE DEF c
    <3>2. cam'.can = FALSE /\ ~Routed'
      BY <3>1 DEF TakesOver, Sides, Routed
    <3> QED
      BY <1>1, <1>3, <2>1, <2>3, <3>2 DEF Mute, Refuses
  <2> QED
    BY <2>2, <2>3
<1>4. CASE f.t = "ask"
  <2>1. CamHearsHello /\ radio
    BY <1>1, <1>4 DEF CamHears, Inv, LinkInv
  <2>2. ~Routed' /\ (Synced => cam'.can = cam.can)
    BY <1>1, <2>1 DEF CamHearsHello, Sides, Routed
  <2> QED
    BY <1>1, <1>4, <2>1, <2>2 DEF Mute, Refuses
<1> QED
  BY <1>1, <1>2, <1>3, <1>4, FramesRead

\* A step of the dashcam keeps the table's part: the alerts it writes are continuous if they are the episode's ...
LEMMA CamTableKept ==
  ASSUME Inv, TableInv, EndInv, NEW new, CamMoves(new), table' = table
  PROVE  TableInv' /\ EndInv'
<1>1. toPhone \in Seq(ToPhone) /\ new \in Seq(ToPhone)
  BY DEF Inv, Typed, TypeOK, CamMoves
<1>2. \A f \in Range(toPhone') : f \in Range(toPhone) \/ f \in Range(new)
  <2>1. CASE toPhone' = toPhone
    BY <2>1
  <2>2. CASE toPhone' = toPhone \o new
    BY <1>1, <2>2, RangeOfBoth
  <2> QED
    BY <2>1, <2>2 DEF CamMoves
<1>3. /\ cam.made \in Nat /\ cam'.made \in Nat /\ cam.made <= cam'.made /\ cam'.id \in Nat /\ None = 0
      /\ cam'.id = cam.id \/ cam'.id = None \/ cam'.id > cam.made
      /\ Routed' => (Routed /\ cam'.id = cam.id) \/ cam'.id > cam.made
  BY SidesRead DEF Inv, Typed, CamMoves, CamOK
<1>4. ASSUME NEW i \in Ids, table[i].in
      PROVE  i <= cam'.made /\ (i = cam'.id => table[i].cont)
  <2>1. i \in Nat /\ i # None /\ i <= cam.made
    BY <1>4, IdsAreNumbers DEF TableInv
  <2>2. i = cam'.id => i = cam.id
    BY <1>3, <2>1
  <2> QED
    BY <1>3, <1>4, <2>1, <2>2 DEF TableInv
<1>5. ASSUME NEW f \in Range(toPhone'), f.t = "alert", f.id = cam'.id
      PROVE  f.cont
  <2>1. CASE f \in Range(new)
    BY <1>5, <2>1 DEF CamMoves
  <2>2. CASE f \in Range(toPhone)
    <3>1. f.id <= cam.made
      BY <1>5, <2>2 DEF Inv, Fresh
    <3>2. f \in ToPhone
      BY <1>1, <2>2, SeqElement
    <3>3. f.id \in Nat /\ f.id # None
      BY <1>5, <3>2, FramesRead, IdsAreNumbers
    <3>4. f.id = cam.id
      BY <1>3, <1>5, <3>1, <3>3
    <3> QED
      BY <1>5, <2>2, <3>4 DEF TableInv
  <2> QED
    BY <1>2, <1>5, <2>1, <2>2
<1>6. ASSUME NEW f \in Range(toPhone'), f.t \in {"stop", "fallback"}
      PROVE  f.id <= cam'.made /\ (Routed' => f.id # cam'.id)
  <2>1. f \in ToPhone
    BY <1>1, <1>2, <1>6, SeqElement
  <2>2. f.id \in Nat
    BY <1>6, <2>1, FramesRead, IdsAreNumbers
  <2>3. CASE f \in Range(new)
    BY <1>3, <1>6, <2>2, <2>3 DEF CamMoves
  <2>4. CASE f \in Range(toPhone)
    <3>1. f.id <= cam.made /\ (Routed => f.id # cam.id)
      BY <1>6, <2>4 DEF EndInv
    <3> QED
      BY <1>3, <2>2, <3>1
  <2> QED
    BY <1>2, <1>6, <2>3, <2>4
<1>7. \A i \in Ids : Sworn(table', i)
  BY DEF TableInv
<1>8. TableInv'
  BY <1>4, <1>5, <1>7 DEF TableInv, Sworn
<1>9. EndInv'
  BY <1>6 DEF EndInv
<1> QED
  BY <1>8, <1>9

\* ... what was last said ...
LEMMA CamToldKept ==
  ASSUME Inv, ToldInv, NEW new, CamMoves(new), UNCHANGED <<radio, ses, told>>,
         CamAlerts \/ CamSteps \/ CamClears \/ CamChimes \/ QuietGuard \/ CamAnswers
  PROVE  ToldInv'
<1>1. /\ Synced /\ radio => Synced'
      /\ Routed' => Routed \/ cam.can
  BY DEF CamMoves, Synced
<1>2. radio /\ ~told => MuteLast(toCam') \/ (~cam'.can /\ ~Routed' /\ \A f \in Range(toCam') : ~Speaks(f))
  <2> SUFFICES ASSUME radio, ~told
               PROVE  MuteLast(toCam') \/ (~cam'.can /\ ~Routed' /\ \A f \in Range(toCam') : ~Speaks(f))
    OBVIOUS
  <2>1. Synced /\ (MuteLast(toCam) \/ (~cam.can /\ ~Routed /\ \A f \in Range(toCam) : ~Speaks(f)))
    BY DEF ToldInv
  <2>2. CASE cam'.can = cam.can /\ toCam' = toCam
    BY <1>1, <2>1, <2>2
  <2>3. CASE CamHears
    <3> DEFINE f == Head(toCam)
    <3>1. /\ toCam \in Seq(ToCam) /\ toCam # <<>> /\ toCam' = Tail(toCam) /\ f \in ToCam /\ f \in Range(toCam)
          /\ f.t = "ack" => cam'.can = cam.can
          /\ f.t = "state" => cam'.can = f.can
          /\ f.t = "ask" => radio /\ ~Routed' /\ (Synced => cam'.can = cam.can)
          /\ Mute(f) => ~Routed'
      BY <2>3, CamHearsCan
    <3>2. f.t \in {"ack", "state", "ask"} /\ \A x \in Range(toCam') : x \in Range(toCam)
      BY <3>1, FramesRead, RangeOfTail
    <3>3. CASE MuteLast(toCam)
      <4>1. MuteLast(Tail(toCam)) \/ (Mute(f) /\ \A x \in Range(Tail(toCam)) : ~Speaks(x))
        BY <3>1, <3>3, MuteLastTail
      <4> QED
        BY <3>1, <4>1 DEF Mute
    <3> HIDE DEF f
    <3>4. CASE ~cam.can /\ ~Routed /\ \A x \in Range(toCam) : ~Speaks(x)
      <4>1. ~Routed' /\ \A x \in Range(toCam') : ~Speaks(x)
        BY <1>1, <3>2, <3>4
      <4>2. ~cam'.can
        BY <2>1, <3>1, <3>2, <3>4 DEF Speaks
      <4> QED
        BY <4>1, <4>2
    <3> QED
      BY <2>1, <3>3, <3>4
  <2> QED
    BY <2>2, <2>3, CamCan DEF CamAnswers
<1>3. ses' = "off" => told'
  BY DEF ToldInv
<1>4. radio' /\ (ses' = "on" \/ ~told') => Synced'
  BY <1>1 DEF ToldInv
<1> QED
  BY <1>2, <1>3, <1>4 DEF ToldInv, MuteLast, Mute, Speaks

\* ... and the episode's alert carried: what it hears that opens the buzzer, opens it.
LEMMA CamCarriedKept ==
  ASSUME Inv, Carried, NEW new, CamMoves(new), UNCHANGED <<radio, can, told, table>>,
         CamAlerts \/ CamSteps \/ CamClears \/ CamChimes \/ QuietGuard \/ CamAnswers
  PROVE  Carried'
<1> SUFFICES ASSUME Routed', Acked', ~ghost'.excused
             PROVE  Released'
  BY DEF Carried
<1>1. \A f \in Range(toCam') : f \in Range(toCam)
  <2>1. toCam' = toCam \/ (toCam \in Seq(ToCam) /\ toCam # <<>> /\ toCam' = Tail(toCam))
    BY CamCan, CamHearsCan DEF CamAnswers
  <2> QED
    BY <2>1, RangeOfTail
<1>2. Routed /\ cam'.id = cam.id /\ (cam'.gate = cam.gate \/ \E f \in Range(toCam) : IsAck(f, cam.id))
  <2>1. ASSUME cam'.id > cam.made, cam'.gate = "ask"
        PROVE  FALSE
    <3>1. PICK f \in Range(toCam) : IsAck(f, cam'.id)
      BY <1>1, <2>1 DEF Acked, IsAck
    <3>2. cam'.id <= cam.made /\ cam.made \in Nat /\ cam'.id \in Nat
      BY <3>1, SidesRead DEF Inv, Fresh, Typed, IsAck, CamMoves, CamOK
    <3> QED
      BY <2>1, <3>2
  <2> QED
    BY <2>1 DEF CamMoves
<1>3. Acked
  BY <1>1, <1>2 DEF Acked, IsAck
<1>4. ~ghost.excused
  <2>1. CASE CamAlerts
    <3>1. cam'.id = cam.made + 1 /\ cam.id <= cam.made /\ cam.made \in Nat /\ cam.id \in Nat
      BY <2>1, SidesRead DEF CamAlerts, Inv, Typed, CamOK, Fresh, Sides
    <3> QED
      BY <1>2, <3>1
  <2>2. CASE ~CamAlerts
    BY <2>2, GhostsTyped DEF CamSteps, CamClears, CamChimes, QuietGuard, CamAnswers, CamHears, Deadline, CamNotices, Ghosts
  <2> QED
    BY <2>1, <2>2
<1>5. Released
  BY <1>2, <1>3, <1>4 DEF Carried
<1>6. ASSUME NEW f \in Range(toCam), Refuses(f, cam.id) \/ f.t = "ask" \/ Mute(f)
      PROVE  f \in Range(toCam')
  <2>1. CASE toCam' = toCam
    BY <2>1
  <2>2. CASE CamHears
    <3> DEFINE h == Head(toCam)
    <3>1. /\ toCam \in Seq(ToCam) /\ toCam # <<>> /\ toCam' = Tail(toCam)
          /\ h.t = "ask" => ~Routed'
          /\ Mute(h) => ~Routed'
          /\ Routed /\ Refuses(h, cam.id) => ~Routed'
      BY <2>2, CamHearsCan
    <3>2. h = toCam[1] /\ Len(Tail(toCam)) = Len(toCam) - 1 /\ Tail(toCam) \in Seq(ToCam)
          /\ \A k \in 1 .. Len(Tail(toCam)) : Tail(toCam)[k] = toCam[k + 1]
      BY <3>1, RangeOfTail
    <3> HIDE DEF h
    <3>3. f # h
      BY <1>2, <1>6, <3>1
    <3>4. PICK k \in 1 .. Len(toCam) : toCam[k] = f
      BY <3>1, SeqRange
    <3>5. k - 1 \in 1 .. Len(Tail(toCam)) /\ Tail(toCam)[k - 1] = f
      BY <3>1, <3>2, <3>3, <3>4
    <3> QED
      BY <3>1, <3>2, <3>5, SeqRange
  <2> QED
    BY <2>1, <2>2, CamCan DEF CamAnswers
<1>7. Playing' = Playing
  BY DEF Playing
<1> QED
  BY <1>2, <1>5, <1>6, <1>7 DEF Released, Refuses, Mute

\* The three together.
LEMMA CamKept ==
  ASSUME Inv, Kept, CamAlerts \/ CamSteps \/ CamClears \/ CamChimes \/ QuietGuard \/ CamAnswers
  PROVE  Kept'
<1>1. PICK new : CamMoves(new)
  BY AlertsMoves, StepsMoves, ClearsMoves, TimersMove, HearsMoves, ChimesMove DEF CamAnswers
<1>2. UNCHANGED <<radio, ses, can, told, table>>
  BY DEF CamAlerts, CamSteps, CamClears, CamChimes, QuietGuard, CamAnswers, CamHears, Deadline, CamNotices, camOnly, phone
<1>3. TableInv' /\ EndInv'
  BY <1>1, <1>2, CamTableKept DEF Kept
<1>4. ToldInv'
  BY <1>1, <1>2, CamToldKept DEF Kept
<1>5. Carried'
  BY <1>1, <1>2, CamCarriedKept DEF Kept
<1> QED
  BY <1>3, <1>4, <1>5 DEF Kept

\* The end of the one-shot is none of the second layer's.
LEMMA ShotOverKept ==
  ASSUME Inv, Kept, ShotOver
  PROVE  Kept'
<1>1. cam' = [cam EXCEPT !.shot = None] /\ UNCHANGED <<radio, toPhone, toCam, ses, can, told, table, item, left, ghost>>
  BY DEF ShotOver, camOnly, phone
<1>2. cam'.id = cam.id /\ cam'.made = cam.made /\ cam'.gate = cam.gate /\ cam'.link = cam.link /\ cam'.can = cam.can
  BY <1>1 DEF Inv, Typed, CamOK, Sides
<1>3. TableInv' /\ EndInv'
  BY <1>1, <1>2, TableLeft DEF Kept
<1>4. (Routed' <=> Routed) /\ (Synced' <=> Synced) /\ (Acked' <=> Acked) /\ Playing' = Playing
  BY <1>1, <1>2 DEF Routed, Synced, Acked, Playing, IsAck
<1>5. ToldInv'
  BY <1>1, <1>2, <1>4 DEF Kept, ToldInv, MuteLast, Mute, Speaks
<1>6. Carried'
  BY <1>1, <1>2, <1>4 DEF Kept, Carried, Released, Refuses, Mute
<1> QED
  BY <1>3, <1>5, <1>6 DEF Kept

\* The second layer holds at the start ...
LEMMA KeptStarts ==
  ASSUME Init
  PROVE  Kept
<1>1. (\A f : f \notin Range(toPhone) /\ f \notin Range(toCam)) /\ ~Routed /\ Synced /\ told
  BY DEF Init, Range, Routed, Synced
<1>2. \A i \in Ids : Sworn(table, i) /\ ~table[i].in
  BY DEF Init, NoTable, NoEntry, Sworn
<1> QED
  BY <1>1, <1>2 DEF Kept, TableInv, EndInv, ToldInv, Carried

\* ... and every step keeps it, the first layer holding.
LEMMA KeptKept ==
  ASSUME Inv, Kept, [Next]_vars
  PROVE  Kept'
<1>1. CASE Dashcam \/ CamAnswers
  BY <1>1, CamKept, ShotOverKept DEF Dashcam
<1>2. CASE Phone
  BY <1>2, PhoneHearsKept, LinkDownKept, LinkUpKept, SendStateKept, TickKept DEF Phone
<1>3. CASE Player \/ ItemFails \/ Stale \/ Drop \/ Restart \/ CanChanges
  BY <1>3, ItemKept, ItemFailsKept, StaleKept, DropKept, RestartKept, CanChangesKept
<1>4. CASE UNCHANGED vars
  BY <1>4 DEF vars, Kept, TableInv, EndInv, ToldInv, Carried, Sworn, Routed, Synced, MuteLast, Mute, Speaks, Acked, IsAck,
              Released, Refuses, Playing
<1> QED
  BY <1>1, <1>2, <1>3, <1>4 DEF Next

\* While the dashcam keeps its buzzer silent because the phone confirmed, the phone sounds the alert or what will open
\* the buzzer is there; the one exception is excused: word of it was lost (link.ts writes an ALERT_ACK once), or the
\* phone could play again before it had said that it could not.
THEOREM NeverNeither == Spec => []NeverSilent
<1>1. Init => Inv /\ Kept
  BY InvStarts, KeptStarts
<1>2. Inv /\ Kept /\ [Next]_vars => Inv' /\ Kept'
  BY InvKept, KeptKept
<1>3. Inv /\ Kept => NeverSilent
  <2> SUFFICES ASSUME Inv, Kept, cam.gate = "phone", ~ghost.excused
               PROVE  \/ cam.id \in Playing
                      \/ \E i \in DOMAIN toCam : toCam[i].t = "ack" /\ toCam[i].id = cam.id /\ toCam[i].outcome = 0
                      \/ ~radio \/ Going("ask") \/ ~can \/ ~told \/ \E i \in DOMAIN toCam : toCam[i].t = "state" /\ ~toCam[i].can
    BY DEF NeverSilent
  <2>1. Released
    BY DEF Kept, Carried, Routed, Acked
  <2>2. \A f \in Range(toCam) : \E i \in DOMAIN toCam : toCam[i] = f
    BY DEF Range
  <2> QED
    BY <2>1, <2>2 DEF Released, Refuses, Mute, Going
<1> QED
  BY <1>1, <1>2, <1>3, PTL DEF Spec

=============================================================================
