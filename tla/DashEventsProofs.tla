-------------------------- MODULE DashEventsProofs --------------------------
(***************************************************************************)
(* Proofs about DashEvents, for any number of events, drives and troubles, *)
(* any ring, and wire ids that boots may share.                            *)
(*                                                                         *)
(* What the cursor acknowledges and what a drive has claimed depend on     *)
(* what every frame, task and row between dashcam and table says, so the   *)
(* invariant follows an event on its way: what a frame says is so of the   *)
(* dashcam (Flying), what a task was told is so of its boot and in the     *)
(* order it was said (Waiting, InOrder, InFront), which boot a key stands  *)
(* for (Filing) and why a newer boot with the same wire id is told apart   *)
(* (Newest, AtHand), what lies below a floor (Floors), and that what       *)
(* happened in a drive reaches its row as such (Happened).  CursorHonest   *)
(* and Owes, from which the completeness of a synced drive follows, rest   *)
(* on all of them.                                                         *)
(***************************************************************************)
EXTENDS DashEvents, Extremes

(* The types, with those of the history. *)
Types ==
  /\ TypeOK
  /\ ghost \in [told : Nat, filed : SUBSET (Keys \X (1 .. MaxTroubles + 1)), blind : SUBSET Keys,
                gone : SUBSET (Keys \X Nat), again : SUBSET Nat,
                owed : SUBSET [drive : 0 .. MaxDrives, of : 1 .. MaxTroubles + 1, seq : Nat]]
  /\ cam.boot + left <= MaxTroubles + 1

-----------------------------------------------------------------------------
(* The link and the chain. *)

\* A session knows its dashcam's wire id from the HELLO on, and its key before it is ready.
Session ==
  /\ ~up => ses.phase = "off" /\ toPhone = <<>> /\ toCam = <<>>
  /\ up => ghost.told <= NextSeq
  /\ ses.wire \in {None, cam.wire}
  /\ ses.wire = None <=> ses.phase \in {"off", "hello"}
  /\ ses.wire = None => ses.key = NoKey
  /\ ses.wire # None => ghost.told <= ses.announced
  /\ ses.ready => ses.key # NoKey

\* What a frame on its way says is so of the dashcam.
OldestOf(c) == Max({0, Len(c.log) - c.ring})
Sent(f, c, told) ==
  /\ f.of = c.boot
  /\ f.t = "hello" => f.wire = c.wire /\ told <= f.next /\ f.next <= Len(c.log) /\ f.oldest <= OldestOf(c)
  /\ f.t = "event" => f.seq < Len(c.log) /\ f.in = c.log[f.seq + 1]
Flying == \A i \in 1 .. Len(toPhone) : Sent(toPhone[i], cam, ghost.told)

\* What a task was told is so of its boot; one of the session that is on is of the dashcam's, and its
\* handshake is the only one.
Reach(t) == IF t.kind = "event" THEN t.seq + 1 ELSE t.next
Of(t, s, u, c) ==
  /\ u /\ t.of = c.boot
  /\ t.kind # "event" => t.wire = s.wire
  /\ t.kind = "hello" => ~s.ready
  /\ t.kind = "hello" /\ t.step # "count" => s.key = NoKey
  /\ t.step \in {"insert", "count"} => s.key # NoKey /\ t.key = s.key
Told(t, c) ==
  /\ t.of <= c.boot
  /\ t.of = c.boot => Reach(t) <= Len(c.log)
  /\ t.kind # "event" => t.wire \in WireIds /\ (t.of = c.boot => t.oldest <= OldestOf(c))
  /\ t.kind = "event" => t.seq < MaxEvents /\ (t.of = c.boot => t.in = c.log[t.seq + 1])
  /\ t.step = "ensure" => t.kind = "hello"
  /\ t.step = "insert" => t.kind = "event"
Waiting == \A i \in 1 .. Len(chain) : Told(chain[i], cam) /\ (chain[i].live => Of(chain[i], ses, up, cam))

\* The chain is in the order in which the dashcam spoke, and only its first task is under way.
Behind(t, u) ==
  /\ t.of <= u.of
  /\ t.of = u.of /\ u.kind # "event" => Reach(t) <= u.next
  /\ ~(t.live /\ u.live /\ t.kind = "hello" /\ u.kind = "hello")
  /\ u.step = "start"
InOrder == \A i, j \in 1 .. Len(chain) : i < j => Behind(chain[i], chain[j])
InFront ==
  \A i \in 1 .. Len(chain), j \in 1 .. Len(toPhone) :
    toPhone[j].t = "hello" /\ chain[i].of = cam.boot => Reach(chain[i]) <= toPhone[j].next

-----------------------------------------------------------------------------
(* Which boots are filed under which keys. *)

\* The keys of the boot table are those boots were filed under, and two boots share one only where the
\* store could not tell them apart (`blind`).
Filing ==
  /\ \A b \in boots : \E p \in ghost.filed : p[1] = b.key
  /\ \A p \in ghost.filed : \E b \in boots : b.key = p[1]
  /\ \A p \in ghost.filed : p[2] <= cam.boot /\ p[1].gen < p[2]
  /\ \A p, q \in ghost.filed : p[1] = q[1] /\ p[1] \notin ghost.blind => p = q
  /\ \A r \in rows : r.key \in ghost.blind \/ <<r.key, r.of>> \in ghost.filed
  /\ ses.key # NoKey => <<ses.key, cam.boot>> \in ghost.filed

\* What a boot's HELLO, heard or still to be said, will say it made is past all that is stored of it.
Newest ==
  /\ \A p \in ghost.filed, i \in 1 .. Len(chain) : p[2] <= chain[i].of
  /\ \A b \in boots, i \in 1 .. Len(chain) :
       <<b.key, chain[i].of>> \in ghost.filed /\ chain[i].kind # "event" => b.max < chain[i].next
  /\ \A b \in boots : <<b.key, cam.boot>> \in ghost.filed =>
       /\ b.max < NextSeq
       /\ \A j \in 1 .. Len(toPhone) : toPhone[j].t = "hello" => b.max < toPhone[j].next

\* The key the first task works with.
AtHand ==
  chain # <<>> =>
    /\ T.step \in {"ensure", "insert"} => T.key \in Keys /\ T.key.gen < T.of
    /\ T.step = "ensure" => \A b \in BootOf(T.key) : b.max < T.next
    /\ T.step = "insert" => BootOf(T.key) = {} \/ <<T.key, T.of>> \in ghost.filed

-----------------------------------------------------------------------------
(* What is below a floor, and what a drive is owed. *)

\* Below a boot's floor, the dashcam has nothing any more, or the prune gave it up.
LostOf(key, q, c, gone) == q < OldestOf(c) \/ <<key, q>> \in gone
Floors ==
  /\ \A b \in boots : b.key \notin ghost.blind /\ <<b.key, cam.boot>> \in ghost.filed =>
       \A q \in 0 .. b.floor - 1 : LostOf(b.key, q, cam, ghost.gone)
  /\ ses.key # NoKey /\ ses.key \notin ghost.blind =>
       \A q \in 0 .. ses.floor - 1 : LostOf(ses.key, q, cam, ghost.gone)

\* What happened is told as it happened, and what happened in the drive under way was not ignored,
\* or arrived before it opened (but for a drive taken up again).
InTime(x, t, again) ==
  /\ x.in <= t.n
  /\ x.in = t.n /\ t.st \notin {"none", "cut"} /\ t.n \notin again => ~x.ignored \/ x.rcv < t.n
Over(d, t) == t.n > d \/ (t.n = d /\ t.st = "none")
Recorded(r, c, t, again) ==
  /\ InTime(r, t, again)
  /\ r.trip \in {None, r.in} /\ (r.old => Over(r.in, t)) /\ r.of <= c.boot
  /\ r.of = c.boot => r.seq < Len(c.log) /\ r.in = c.log[r.seq + 1]
Happened ==
  /\ \A k \in 1 .. Len(cam.log) : cam.log[k] <= trip.n
  /\ \A i \in 1 .. Len(toPhone) : toPhone[i].t = "event" => toPhone[i].in <= trip.n
  /\ \A i \in 1 .. Len(chain) : chain[i].kind = "event" => InTime(chain[i], trip, ghost.again)
  /\ \A r \in rows : Recorded(r, cam, trip, ghost.again)
  /\ trip.st # "none" => trip.n > 0

\* What a drive is owed is stored, and claimed once the drive is over.
Holds(o, r, t) ==
  /\ r.of = o.of /\ r.seq = o.seq /\ r.in = o.drive
  /\ Over(o.drive, t) => r.trip = o.drive
  /\ ~Over(o.drive, t) => ~r.old /\ (~r.ignored \/ r.rcv < o.drive)
Owes ==
  \A o \in ghost.owed :
    /\ o.drive < trip.n \/ (o.drive = trip.n /\ trip.st # "rolling")
    /\ o.drive \notin ghost.again => \E r \in rows : Holds(o, r, trip)

Inv ==
  /\ Types /\ Session /\ Flying /\ Waiting /\ InOrder /\ InFront
  /\ Filing /\ Newest /\ AtHand /\ Floors /\ CursorHonest /\ Happened /\ Owes

-----------------------------------------------------------------------------
(* The greatest and the least of a set of numbers. *)

\* Of a bounded set of numbers with something in it, Max is the greatest.
LEMMA MaxIs ==
  ASSUME NEW S \in SUBSET Int, S # {}, NEW b \in Int, \A s \in S : s <= b
  PROVE  Max(S) \in S /\ \A s \in S : s <= Max(S)
<1>1. PICK m \in S : \A s \in S : s <= m
  BY GreatestExists
<1> QED
  BY <1>1 DEF Max

\* Of two numbers, Max is the larger.
LEMMA MaxOfTwo ==
  ASSUME NEW a \in Int, NEW b \in Int
  PROVE  Max({a, b}) = IF a >= b THEN a ELSE b
<1>1. PICK m \in {a, b} : m = IF a >= b THEN a ELSE b
  OBVIOUS
<1>2. \A x \in {a, b} : m >= x
  BY <1>1
<1>3. Max({a, b}) \in {a, b} /\ \A x \in {a, b} : Max({a, b}) >= x
  BY <1>2 DEF Max
<1> QED
  BY <1>3

\* Of a set of naturals with something in it, Min is the least.
LEMMA MinIs ==
  ASSUME NEW S \in SUBSET Nat, S # {}
  PROVE  Min(S) \in S /\ \A s \in S : Min(S) <= s
<1>1. PICK m \in S : \A s \in S : m <= s
  <2>1. S \in SUBSET Int /\ 0 \in Int /\ \A s \in S : 0 <= s
    OBVIOUS
  <2> QED
    BY <2>1, LeastExists
<1> QED
  BY <1>1 DEF Min

\* What the assumption says of the constants, a constant at a time.
LEMMA ConstantsAre ==
  /\ WireIds # {} /\ None \notin WireIds /\ \A w \in WireIds : w \in Nat
  /\ MaxEvents \in Nat /\ MaxDrives \in Nat /\ MaxTroubles \in Nat /\ \A r \in Rings : r \in Nat \ {0}
<1>1. WireIds # {} /\ \A w \in WireIds : w \in Nat
  BY BoundsAssumption
<1>2. MaxEvents \in Nat /\ MaxDrives \in Nat /\ MaxTroubles \in Nat
  BY BoundsAssumption
<1>3. \A r \in Rings : r \in Nat \ {0}
  BY BoundsAssumption
<1>4. None \notin WireIds
  BY <1>1 DEF None
<1> QED
  BY <1>1, <1>2, <1>3, <1>4

-----------------------------------------------------------------------------
(* The dashcam's ring and its log. *)

\* The oldest event a ring still holds is none before the first and none past the last.
LEMMA OldestIs ==
  ASSUME NEW c, c.log \in Seq(0 .. MaxDrives), c.ring \in Nat \ {0}
  PROVE  /\ OldestOf(c) \in 0 .. Len(c.log)
         /\ OldestOf(c) = IF Len(c.log) >= c.ring THEN Len(c.log) - c.ring ELSE 0
<1> DEFINE n == Len(c.log)  r == c.ring
<1>1. n \in Nat /\ r \in Nat \ {0} /\ OldestOf(c) = Max({0, n - r})
  BY DEF OldestOf
<1> HIDE DEF n, r
<1>2. n - r \in Int
  BY <1>1
<1>3. Max({0, n - r}) = IF 0 >= n - r THEN 0 ELSE n - r
  BY <1>2, MaxOfTwo
<1>4. OldestOf(c) \in 0 .. n /\ OldestOf(c) = IF n >= r THEN n - r ELSE 0
  BY <1>1, <1>2, <1>3
<1> QED
  BY <1>4 DEF n, r

\* The oldest of the dashcam there is.
LEMMA OldestHere == OldestOf(cam) = Oldest
  BY DEF OldestOf, Oldest, NextSeq

\* From one state to the next the dashcam stays the one it is, and its log only grows.
Grown(c, d) ==
  /\ d.boot = c.boot /\ d.wire = c.wire /\ Len(c.log) <= Len(d.log) /\ OldestOf(c) <= OldestOf(d)
  /\ \A k \in 1 .. Len(c.log) : d.log[k] = c.log[k]

\* The dashcam's parts, as the types give them.
LEMMA CamIs ==
  ASSUME Types
  PROVE  /\ cam.log \in Seq(0 .. MaxDrives) /\ cam.ring \in Nat \ {0} /\ cam.boot \in 1 .. MaxTroubles + 1
         /\ Len(cam.log) \in Nat /\ NextSeq = Len(cam.log) /\ cam.wire \in WireIds /\ cam.wire \in Nat
         /\ Oldest \in 0 .. Len(cam.log) /\ OldestOf(cam) = Oldest
<1>1. /\ cam.log \in Seq(0 .. MaxDrives) /\ cam.ring \in Nat \ {0} /\ cam.wire \in WireIds
      /\ cam.boot \in 1 .. MaxTroubles + 1
  BY ConstantsAre DEF Types, TypeOK, Cams
<1>2. Len(cam.log) \in Nat /\ NextSeq = Len(cam.log) /\ cam.wire \in Nat
  BY <1>1, ConstantsAre DEF NextSeq
<1> QED
  BY <1>1, <1>2, OldestIs, OldestHere

\* A step that is not a power-on leaves the dashcam's boot, and its log at most grows.
LEMMA Growing ==
  ASSUME Types, Next, ~CamReboots
  PROVE  Grown(cam, cam')
<1>0. /\ cam \in Cams /\ cam.log \in Seq(0 .. MaxDrives) /\ cam.ring \in Nat \ {0} /\ Len(cam.log) \in Nat
      /\ OldestOf(cam) \in Int
  BY CamIs DEF Types, TypeOK
<1>1. CASE cam'.boot = cam.boot /\ cam'.wire = cam.wire /\ cam'.log = cam.log /\ cam'.ring = cam.ring
  BY <1>0, <1>1 DEF Grown, OldestOf
<1>2. CASE EventHappens
  <2>1. cam'.boot = cam.boot /\ cam'.wire = cam.wire /\ cam'.ring = cam.ring /\ cam'.log = Append(cam.log, InDrive)
    BY <1>0, <1>2 DEF Cams, EventHappens
  <2>2. Types => InDrive \in 0 .. MaxDrives
    BY ConstantsAre DEF Types, TypeOK, InDrive
  <2>3. cam'.log \in Seq(0 .. MaxDrives) /\ Len(cam'.log) = Len(cam.log) + 1
    BY <1>0, <2>1, <2>2
  <2>4. \A k \in 1 .. Len(cam.log) : cam'.log[k] = cam.log[k]
    BY <1>0, <2>1
  <2>5. OldestOf(cam) <= OldestOf(cam')
    <3>1. cam'.ring \in Nat \ {0} /\ OldestOf(cam') = IF Len(cam'.log) >= cam'.ring THEN Len(cam'.log) - cam'.ring ELSE 0
      BY <1>0, <2>1, <2>3, OldestIs
    <3>2. OldestOf(cam) = IF Len(cam.log) >= cam.ring THEN Len(cam.log) - cam.ring ELSE 0
      BY <1>0, OldestIs
    <3> QED
      BY <1>0, <2>1, <2>3, <3>1, <3>2
  <2> QED
    BY <1>0, <2>1, <2>3, <2>4, <2>5 DEF Grown
<1>3. CASE CamHears
  BY <1>0, <1>1, <1>3 DEF CamHears, Cams
<1>4. CASE CamSends
  BY <1>0, <1>1, <1>4 DEF CamSends, Cams
<1>5. CASE CamWaitedEnough \/ LinkDown \/ Kill
  BY <1>0, <1>1, <1>5 DEF Cams, CamWaitedEnough, LinkDown, Kill
<1>6. CASE LinkUp \/ Wipe \/ Phone \/ ChainSteps \/ TaskFails \/ Prune \/ Drive
  BY <1>1, <1>6
     DEF LinkUp, Wipe, Phone, PhoneHears, HelloRetry, SendResume, ChainSteps, HelloLooksUp, HelloEnsures, 
     HelloCounts, SameEnsures, EventChecks, EventInserts, Counts, TaskFails, Prune, PruneRaises, PruneDeletes, Drive,
     CarRolls, DriveOpens, DriveReopens, DriveRow, DriveEnds, BeforeFinalize, Facts, chainOnly, driveOnly
<1> QED
  BY <1>2, <1>3, <1>4, <1>5, <1>6 DEF Next, Cam, Link

-----------------------------------------------------------------------------
(* The store. *)

\* A key is of one row of the boot table, or of none.
LEMMA BootOfIs ==
  ASSUME Types, NEW key
  PROVE  \/ BootOf(key) = {} /\ \A b \in boots : b.key # key
         \/ \E b \in boots : b \in Boots /\ b.key = key /\ BootOf(key) = {b} /\ \A c \in boots : c.key = key => c = b
<1>1. boots \subseteq Boots /\ \A b, c \in boots : b.key = c.key => b = c
  BY DEF Types, TypeOK
<1> QED
  BY <1>1 DEF BootOf

\* The boot row that EnsureBoot leaves for a key.
Ensured(n, key, floor) ==
  /\ n.key = key /\ n.floor = StoredFloor(key, floor) /\ floor <= n.floor
  /\ n.floor \in Nat /\ n.max \in None .. MaxEvents - 1
  /\ BootOf(key) = {} => n.max = None /\ n.floor = floor
  /\ \A b \in BootOf(key) : n.max = b.max /\ b.floor <= n.floor /\ n.floor \in {floor, b.floor}

\* The stored floor of a key is the one offered or the row's, whichever is higher.
LEMMA FloorIs ==
  ASSUME Types, NEW key, NEW floor \in Nat
  PROVE  /\ StoredFloor(key, floor) \in Nat /\ floor <= StoredFloor(key, floor)
         /\ BootOf(key) = {} => StoredFloor(key, floor) = floor
         /\ \A b \in BootOf(key) : b.floor <= StoredFloor(key, floor) /\ StoredFloor(key, floor) \in {floor, b.floor}
<1>1. CASE BootOf(key) = {}
  <2>1. {floor} \cup {b.floor : b \in BootOf(key)} = {floor, floor}
    BY <1>1
  <2>2. Max({floor, floor}) = floor
    BY MaxOfTwo
  <2> QED
    BY <1>1, <2>1, <2>2 DEF StoredFloor
<1>2. ASSUME NEW b \in boots, b \in Boots, BootOf(key) = {b}
      PROVE  /\ StoredFloor(key, floor) \in Nat /\ floor <= StoredFloor(key, floor)
             /\ b.floor <= StoredFloor(key, floor) /\ StoredFloor(key, floor) \in {floor, b.floor}
  <2>1. {floor} \cup {c.floor : c \in BootOf(key)} = {floor, b.floor}
    BY <1>2
  <2>2. b.floor \in Nat
    BY <1>2 DEF Boots
  <2>3. Max({floor, b.floor}) = IF floor >= b.floor THEN floor ELSE b.floor
    BY <2>2, MaxOfTwo
  <2>4. StoredFloor(key, floor) = Max({floor, b.floor})
    BY <2>1 DEF StoredFloor
  <2> QED
    BY <2>2, <2>3, <2>4
<1>3. CASE \E b \in boots : b \in Boots /\ b.key = key /\ BootOf(key) = {b}
  BY <1>2, <1>3
<1> QED
  BY <1>1, <1>3, BootOfIs

\* What ensureBoot writes as the last seq is what the row held, or nothing.
LEMMA MaxStays ==
  ASSUME Types, NEW key
  PROVE  /\ BootOf(key) = {} => Max({None} \cup {b.max : b \in BootOf(key)}) = None
         /\ \A b \in BootOf(key) : Max({None} \cup {c.max : c \in BootOf(key)}) = b.max
         /\ Max({None} \cup {c.max : c \in BootOf(key)}) \in None .. MaxEvents - 1
<1>0. None \in Int /\ None = -1 /\ None \in None .. MaxEvents - 1
  BY ConstantsAre DEF None
<1>1. CASE BootOf(key) = {}
  <2>1. {None} \cup {b.max : b \in BootOf(key)} = {None, None}
    BY <1>1
  <2>2. Max({None, None}) = None
    BY <1>0, MaxOfTwo
  <2> QED
    BY <1>0, <1>1, <2>1, <2>2
<1>2. ASSUME NEW b \in boots, b \in Boots, BootOf(key) = {b}
      PROVE  Max({None} \cup {c.max : c \in BootOf(key)}) = b.max /\ b.max \in None .. MaxEvents - 1
  <2>1. {None} \cup {c.max : c \in BootOf(key)} = {None, b.max}
    BY <1>2
  <2>2. b.max \in None .. MaxEvents - 1
    BY <1>2 DEF Boots
  <2>3. Max({None, b.max}) = IF None >= b.max THEN None ELSE b.max
    BY <1>0, <2>2, MaxOfTwo
  <2>4. Max({None, b.max}) = b.max
    BY <1>0, <2>2, <2>3, ConstantsAre
  <2> QED
    BY <2>1, <2>2, <2>4
<1>3. CASE \E b \in boots : b \in Boots /\ b.key = key /\ BootOf(key) = {b}
  BY <1>2, <1>3
<1> QED
  BY <1>1, <1>3, BootOfIs

\* ensureBoot leaves one row under its key, and every other row alone.
LEMMA EnsureIs ==
  ASSUME Types, NEW key \in Keys, NEW floor \in Nat, EnsureBoot(key, floor)
  PROVE  \E n \in Boots : Ensured(n, key, floor) /\ boots' = {b \in boots : b.key # key} \cup {n}
<1> DEFINE m == Max({None} \cup {b.max : b \in BootOf(key)})
           n == [key |-> key, floor |-> StoredFloor(key, floor), max |-> m]
<1>1. m \in None .. MaxEvents - 1 /\ (BootOf(key) = {} => m = None) /\ \A b \in BootOf(key) : m = b.max
  BY MaxStays
<1>2. boots' = (boots \ BootOf(key)) \cup {n}
  BY DEF EnsureBoot
<1> HIDE DEF m
<1>3. n \in Boots /\ n.key = key /\ n.floor = StoredFloor(key, floor) /\ n.max = m
  BY <1>1, FloorIs DEF Boots
<1>4. boots \ BootOf(key) = {b \in boots : b.key # key}
  BY DEF BootOf
<1> HIDE DEF n
<1>5. Ensured(n, key, floor)
  BY <1>1, <1>3, FloorIs DEF Ensured
<1> QED
  BY <1>2, <1>3, <1>4, <1>5

\* What InsertEvent does to the boots: it raises the newest seq of one.
Raised(b, c, key, seq) ==
  c.key = b.key /\ c.floor = b.floor /\ b.max <= c.max /\ (c.max = b.max \/ (c.key = key /\ c.max = seq))

\* The row of an event.
RowOf(key, e) == [key |-> key, seq |-> e.seq, of |-> e.of, in |-> e.in, ignored |-> e.ignored, rcv |-> e.rcv,
                  trip |-> None, old |-> FALSE]

\* insertEvent adds the event's row or none, and at most raises the last seq of its boot.
LEMMA InsertIs ==
  ASSUME Types, NEW key \in Keys, NEW e \in Tasks, e.seq < MaxEvents, InsertEvent(key, e)
  PROVE  /\ rows \subseteq rows' /\ rows' \subseteq rows \cup {RowOf(key, e)} /\ RowOf(key, e) \in Rows
         /\ \A c \in boots' : c \in Boots /\ \E b \in boots : Raised(b, c, key, e.seq)
         /\ \A b \in boots : \E c \in boots' : Raised(b, c, key, e.seq)
         /\ \A c, d \in boots' : c.key = d.key => c = d
<1>0. boots \subseteq Boots /\ \A b, c \in boots : b.key = c.key => b = c
  BY DEF Types, TypeOK
<1>1. e.seq \in 0 .. MaxEvents - 1
  BY ConstantsAre DEF Tasks
<1> DEFINE up1(b) == [b EXCEPT !.max = IF b.key = key THEN Max({@, e.seq}) ELSE @]
<1>2. \A b \in boots : Max({b.max, e.seq}) = IF b.max >= e.seq THEN b.max ELSE e.seq
  BY <1>0, <1>1, MaxOfTwo, ConstantsAre DEF Boots, None
<1>3. \A b \in boots : up1(b) \in Boots /\ Raised(b, up1(b), key, e.seq)
  BY <1>0, <1>1, <1>2, ConstantsAre DEF Boots, Raised, None
<1>4. boots' = {up1(b) : b \in boots}
  BY DEF InsertEvent
<1> HIDE DEF up1
<1>5. \A c \in boots' : c \in Boots /\ \E b \in boots : c = up1(b) /\ Raised(b, c, key, e.seq)
  BY <1>3, <1>4
<1>6. \A c, d \in boots' : c.key = d.key => c = d
  BY <1>0, <1>5 DEF Raised
<1>7. RowOf(key, e) \in Rows
  BY <1>1 DEF RowOf, Rows, Tasks
<1>8. rows \subseteq rows' /\ rows' \subseteq rows \cup {RowOf(key, e)}
  BY DEF InsertEvent, RowOf
<1> QED
  BY <1>3, <1>4, <1>5, <1>6, <1>7, <1>8

-----------------------------------------------------------------------------
(* The key a HELLO is filed under. *)

\* The latest rows of a wire id have the highest generation of all with that id.
LEMMA LatestIs ==
  ASSUME Types, NEW w
  PROVE  /\ Latest(w) = {} => \A b \in boots : b.key.wire # w
         /\ \A b \in Latest(w) : b \in boots /\ b.key.wire = w /\ \A c \in boots : c.key.wire = w => c.key.gen <= b.key.gen
<1> DEFINE known == {b \in boots : b.key.wire = w}
           gens == {b.key.gen : b \in known}
<1>1. \A b \in boots : b.key \in Keys /\ b.key.gen \in 0 .. MaxTroubles
  BY DEF Types, TypeOK, Boots, Keys
<1>2. ASSUME known # {}
      PROVE  Latest(w) # {}
  <2>1. gens \in SUBSET Int /\ gens # {} /\ \A g \in gens : g <= MaxTroubles
    BY <1>1, <1>2, ConstantsAre
  <2>2. PICK m \in gens : \A g \in gens : g <= m
    <3>1. MaxTroubles \in Int
      BY ConstantsAre
    <3> HIDE DEF gens
    <3> QED
      BY <2>1, <3>1, GreatestExists
  <2>3. PICK b \in known : \A c \in known : c.key.gen <= b.key.gen
    BY <2>2
  <2> QED
    BY <2>3 DEF Latest
<1>3. Latest(w) = {} => \A b \in boots : b.key.wire # w
  BY <1>2
<1>4. \A b \in Latest(w) : b \in boots /\ b.key.wire = w /\ \A c \in boots : c.key.wire = w => c.key.gen <= b.key.gen
  BY DEF Latest
<1> QED
  BY <1>3, <1>4

\* The first task is a task, told what it was told.
LEMMA HeadIs ==
  ASSUME Types, Waiting, chain # <<>>
  PROVE  /\ 1 \in 1 .. Len(chain) /\ T = chain[1] /\ T \in Tasks
         /\ Told(T, cam) /\ (T.live => Of(T, ses, up, cam))
<1>1. chain \in Seq(Tasks)
  BY DEF Types, TypeOK
<1>2. 1 \in 1 .. Len(chain) /\ T = chain[1] /\ T \in Tasks
  BY <1>1 DEF T
<1> QED
  BY <1>2 DEF Waiting

\* The key a HELLO is given is of a generation there may be, and no row under it is newer than the HELLO.
LEMMA BootKeyIs ==
  ASSUME Inv, chain # <<>>, T.kind = "hello"
  PROVE  /\ BootKey(T) \in Keys /\ BootKey(T).gen < T.of /\ BootKey(T).wire = T.wire
         /\ \A b \in BootOf(BootKey(T)) : b.max < T.next
<1> DEFINE k == CHOOSE b \in Latest(T.wire) : TRUE
<1>0. Types
  BY DEF Inv
<1>1. 1 \in 1 .. Len(chain) /\ T = chain[1] /\ T \in Tasks /\ Told(T, cam)
  BY HeadIs DEF Inv
<1>2. T.wire \in WireIds /\ T.of \in 1 .. MaxTroubles + 1 /\ T.next \in Nat
  BY <1>1 DEF Told, Tasks
<1>3. CASE Latest(T.wire) = {}
  <2>1. BootKey(T) = [wire |-> T.wire, gen |-> 0]
    BY <1>3 DEF BootKey
  <2>2. BootKey(T) \in Keys /\ BootKey(T).gen = 0 /\ BootKey(T).wire = T.wire
    BY <1>2, <2>1, ConstantsAre DEF Keys
  <2>3. BootOf(BootKey(T)) = {}
    BY <1>0, <1>3, <2>2, LatestIs DEF BootOf
  <2> QED
    BY <1>2, <2>2, <2>3
<1>4. CASE Latest(T.wire) # {}
  <2>1. k \in Latest(T.wire)
    BY <1>4
  <2> HIDE DEF k
  <2>2. k \in boots /\ k.key.wire = T.wire /\ \A c \in boots : c.key.wire = T.wire => c.key.gen <= k.key.gen
    BY <1>0, <2>1, LatestIs
  <2>3. k \in Boots /\ k.key \in Keys /\ k.max \in Int /\ \A b \in boots : b.key = k.key => b = k
    <3>1. k \in Boots /\ \A b \in boots : b.key = k.key => b = k
      BY <1>0, <2>2 DEF Types, TypeOK
    <3> QED
      BY <3>1, ConstantsAre DEF Boots, None
  <2>4. k.key.gen \in Nat /\ k.key = [wire |-> T.wire, gen |-> k.key.gen]
    BY <2>2, <2>3 DEF Keys
  <2>5. PICK p \in ghost.filed : p[1] = k.key
    BY <2>2 DEF Inv, Filing
  <2>6. p[2] <= T.of /\ p[1].gen < p[2]
    BY <1>1, <2>5 DEF Inv, Filing, Newest
  <2>7. p[2] \in Nat /\ p = <<k.key, p[2]>>
    BY <1>0, <2>5 DEF Types
  <2>8. p[2] = T.of => k.max < T.next
    BY <1>1, <2>2, <2>5, <2>7 DEF Inv, Newest
  <2>9. CASE T.next < k.max + 1
    <3>1. BootKey(T) = [k.key EXCEPT !.gen = @ + 1]
      BY <1>4, <2>9 DEF BootKey, k
    <3>2. BootKey(T) = [wire |-> T.wire, gen |-> k.key.gen + 1]
      BY <2>3, <2>4, <3>1 DEF Keys
    <3>3. k.key.gen + 1 < T.of /\ k.key.gen + 1 \in 0 .. MaxTroubles
      BY <1>2, <2>3, <2>4, <2>5, <2>6, <2>7, <2>8, <2>9, ConstantsAre
    <3>4. BootKey(T) \in Keys /\ BootKey(T).gen = k.key.gen + 1 /\ BootKey(T).wire = T.wire
      BY <1>2, <3>2, <3>3 DEF Keys
    <3>5. BootOf(BootKey(T)) = {}
      BY <2>2, <2>4, <3>4 DEF BootOf
    <3> QED
      BY <3>3, <3>4, <3>5
  <2>10. CASE ~(T.next < k.max + 1)
    <3>1. BootKey(T) = k.key
      BY <1>4, <2>10 DEF BootKey, k
    <3>2. k.max < T.next
      BY <1>2, <2>3, <2>10
    <3>3. k.key.gen < T.of
      BY <1>2, <2>4, <2>5, <2>6, <2>7
    <3> QED
      BY <2>2, <2>3, <3>1, <3>2, <3>3 DEF BootOf
  <2> QED
    BY <2>9, <2>10
<1> QED
  BY <1>3, <1>4

-----------------------------------------------------------------------------
(* The chain and the frames, as sequences. *)

\* The tail of a sequence is one shorter, each of its entries the next of the whole.
LEMMA TailIs ==
  ASSUME NEW S, NEW s \in Seq(S), s # <<>>
  PROVE  /\ Tail(s) \in Seq(S) /\ Len(Tail(s)) = Len(s) - 1 /\ Len(s) \in Nat \ {0} /\ Head(s) = s[1] /\ s[1] \in S
         /\ \A i \in 1 .. Len(s) - 1 : i + 1 \in 1 .. Len(s) /\ Tail(s)[i] = s[i + 1]
  OBVIOUS

\* An entry of a sequence is of its set.
LEMMA EntryIs ==
  ASSUME NEW S, NEW s \in Seq(S), NEW i \in 1 .. Len(s)
  PROVE  s[i] \in S
  OBVIOUS

\* Append adds one entry at the end and leaves the others.
LEMMA AppendIs ==
  ASSUME NEW S, NEW s \in Seq(S), NEW u \in S
  PROVE  /\ Append(s, u) \in Seq(S) /\ Len(Append(s, u)) = Len(s) + 1 /\ Len(s) \in Nat
         /\ Append(s, u)[Len(s) + 1] = u /\ \A i \in 1 .. Len(s) : Append(s, u)[i] = s[i]
  OBVIOUS

\* Another first entry leaves the length and the rest.
LEMMA HeadTurnsInto ==
  ASSUME NEW S, NEW s \in Seq(S), s # <<>>, NEW u \in S
  PROVE  /\ <<u>> \o Tail(s) \in Seq(S) /\ Len(<<u>> \o Tail(s)) = Len(s) /\ Len(s) \in Nat \ {0}
         /\ (<<u>> \o Tail(s))[1] = u /\ \A i \in 2 .. Len(s) : (<<u>> \o Tail(s))[i] = s[i]
         /\ <<u>> \o Tail(s) # <<>> /\ Head(<<u>> \o Tail(s)) = u
<1>1. <<u>> \in Seq(S) /\ Tail(s) \in Seq(S) /\ Len(<<u>>) = 1 /\ <<u>>[1] = u
  OBVIOUS
<1>2. <<u>> \o Tail(s) \in Seq(S) /\ Len(<<u>> \o Tail(s)) = 1 + Len(Tail(s))
  BY <1>1
<1>3. \A i \in 1 .. 1 + Len(Tail(s)) : (<<u>> \o Tail(s))[i] = IF i <= 1 THEN <<u>>[i] ELSE Tail(s)[i - 1]
  BY <1>1
<1> QED
  BY <1>1, <1>2, <1>3, TailIs

\* Orphaning keeps the chain's tasks and makes none of them live.
LEMMA OrphanedIs ==
  ASSUME Types
  PROVE  /\ Orphaned \in Seq(Tasks) /\ Len(Orphaned) = Len(chain) /\ Len(chain) \in Nat
         /\ \A i \in 1 .. Len(chain) : chain[i] \in Tasks /\ Orphaned[i] = [chain[i] EXCEPT !.live = FALSE]
<1>1. /\ chain \in Seq(Tasks) /\ Len(chain) \in Nat /\ DOMAIN chain = 1 .. Len(chain)
      /\ \A i \in 1 .. Len(chain) : chain[i] \in Tasks
  BY DEF Types, TypeOK
<1>2. \A i \in 1 .. Len(chain) : [chain[i] EXCEPT !.live = FALSE] \in Tasks
  BY <1>1 DEF Tasks
<1>3. Orphaned = [i \in 1 .. Len(chain) |-> [chain[i] EXCEPT !.live = FALSE]]
  BY <1>1 DEF Orphaned
<1>4. Orphaned \in [1 .. Len(chain) -> Tasks]
  BY <1>2, <1>3
<1>5. Orphaned \in Seq(Tasks) /\ Len(Orphaned) = Len(chain)
  BY <1>1, <1>3, <1>4
<1> QED
  BY <1>1, <1>3, <1>5

\* The task of a HELLO or of an event.
LEMMA TaskIs ==
  ASSUME NEW k \in {"hello", "same", "event"}
  PROVE  /\ Task(k) \in [kind : {"hello", "same", "event"}, live : BOOLEAN, step : {"start", "ensure", "insert", "count"},
                         key : Keys \cup {NoKey}, wire : WireIds \cup {None}, next : Nat, oldest : Nat, seq : Nat,
                         of : 0 .. MaxTroubles + 1, in : 0 .. MaxDrives, ignored : BOOLEAN, rcv : Int]
         /\ Task(k).kind = k /\ Task(k).live = TRUE /\ Task(k).step = "start"
  BY ConstantsAre DEF Task

\* The task of a HELLO holds what the HELLO says.
LEMMA GreetingIs ==
  ASSUME NEW k \in {"hello", "same"}, NEW h \in Hellos
  PROVE  /\ Greeting(k, h) \in Tasks /\ Greeting(k, h).kind = k /\ Greeting(k, h).live = TRUE
         /\ Greeting(k, h).step = "start" /\ Greeting(k, h).wire = h.wire /\ Greeting(k, h).next = h.next
         /\ Greeting(k, h).oldest = h.oldest /\ Greeting(k, h).of = h.of
<1> DEFINE r == Task(k)
<1>1. Greeting(k, h) = [r EXCEPT !.of = h.of, !.wire = h.wire, !.next = h.next, !.oldest = h.oldest]
  BY DEF Greeting
<1>2. h.of \in 1 .. MaxTroubles + 1 /\ h.wire \in WireIds /\ h.next \in Nat /\ h.oldest \in Nat
  BY DEF Hellos
<1>3. /\ r \in [kind : {"hello", "same", "event"}, live : BOOLEAN, step : {"start", "ensure", "insert", "count"},
                key : Keys \cup {NoKey}, wire : WireIds \cup {None}, next : Nat, oldest : Nat, seq : Nat,
                of : 0 .. MaxTroubles + 1, in : 0 .. MaxDrives, ignored : BOOLEAN, rcv : Int]
      /\ r.kind = k /\ r.live = TRUE /\ r.step = "start"
  BY TaskIs
<1> HIDE DEF r
<1> QED
  BY <1>1, <1>2, <1>3 DEF Tasks

HeardEvent(e, t) ==
  /\ t \in Tasks /\ t.kind = "event" /\ t.live = TRUE /\ t.step = "start"
  /\ t.seq = e.seq /\ t.of = e.of /\ t.in = e.in /\ t.ignored = (~DriveOpen) /\ t.rcv = Opened

\* The task of an event holds what the frame says, and whether a drive was open.
LEMMA EventIs ==
  ASSUME Types, NEW e \in Events
  PROVE  HeardEvent(e, [Task("event") EXCEPT !.seq = e.seq, !.of = e.of, !.in = e.in, !.ignored = ~DriveOpen, !.rcv = Opened])
<1> DEFINE r == Task("event")
           o == Opened
           d == DriveOpen
<1>1. o \in Int /\ d \in BOOLEAN
  BY ConstantsAre DEF Types, TypeOK, Opened, DriveOpen
<1>2. e.seq \in Nat /\ e.of \in 1 .. MaxTroubles + 1 /\ e.in \in 0 .. MaxDrives
  BY ConstantsAre DEF Events
<1>3. /\ r \in [kind : {"hello", "same", "event"}, live : BOOLEAN, step : {"start", "ensure", "insert", "count"},
                key : Keys \cup {NoKey}, wire : WireIds \cup {None}, next : Nat, oldest : Nat, seq : Nat,
                of : 0 .. MaxTroubles + 1, in : 0 .. MaxDrives, ignored : BOOLEAN, rcv : Int]
      /\ r.kind = "event" /\ r.live = TRUE /\ r.step = "start"
  BY TaskIs
<1> HIDE DEF r, o, d
<1> DEFINE t == [r EXCEPT !.seq = e.seq, !.of = e.of, !.in = e.in, !.ignored = ~d, !.rcv = o]
<1>4. t \in Tasks
  BY <1>1, <1>2, <1>3 DEF Tasks
<1>5. /\ t.kind = "event" /\ t.live = TRUE /\ t.step = "start" /\ t.seq = e.seq /\ t.of = e.of /\ t.in = e.in
      /\ t.ignored = (~d) /\ t.rcv = o
  BY <1>3
<1> HIDE DEF t
<1>6. HeardEvent(e, t)
  BY <1>4, <1>5 DEF HeardEvent, d, o
<1> QED
  BY <1>6 DEF t, r, d, o

-----------------------------------------------------------------------------
(* Every step keeps the types. *)

\* The types of the phone's side of the link, and of everything else.
Ends(l, c, p) ==
  /\ c \in Cams /\ Len(c.log) <= c.made /\ c.at \in Held .. Len(c.log)
  /\ p \in Seq(Hellos \cup Events) /\ Len(p) <= Air
  /\ l \in 0 .. MaxTroubles /\ c.boot + l <= MaxTroubles + 1
Asked(l, q) == q \in Seq(Requests) /\ Len(q) + l <= Cap + MaxTroubles
Tabled(b) == b \subseteq Boots /\ \A x, y \in b : x.key = y.key => x = y
Past(g) ==
  g \in [told : Nat, filed : SUBSET (Keys \X (1 .. MaxTroubles + 1)), blind : SUBSET Keys,
         gone : SUBSET (Keys \X Nat), again : SUBSET Nat,
         owed : SUBSET [drive : 0 .. MaxDrives, of : 1 .. MaxTroubles + 1, seq : Nat]]
Queue(q) == q \in Seq(Tasks) /\ Len(q) <= Cap
Trips == [n : 0 .. MaxDrives, st : {"none", "rolling", "open", "ending", "stamped", "cut"}]

\* The types, a part at a time.
LEMMA TypesAre ==
  Types <=> /\ Ends(left, cam, toPhone) /\ Asked(left, toCam) /\ up \in BOOLEAN /\ pruning \in BOOLEAN
            /\ ses \in Sessions /\ Queue(chain) /\ rows \subseteq Rows /\ Tabled(boots) /\ Past(ghost)
            /\ trip \in Trips
  BY DEF Types, TypeOK, Ends, Asked, Tabled, Past, Queue, Trips, NextSeq

\* The same, after a step.
LEMMA TypesAreNext ==
  Types' <=> /\ Ends(left', cam', toPhone') /\ Asked(left', toCam') /\ up' \in BOOLEAN /\ pruning' \in BOOLEAN
             /\ ses' \in Sessions /\ Queue(chain') /\ rows' \subseteq Rows /\ Tabled(boots') /\ Past(ghost')
             /\ trip' \in Trips
  BY DEF Types, TypeOK, Ends, Asked, Tabled, Past, Queue, Trips, NextSeq

\* A HELLO says the dashcam's boot, its wire id and what its log holds.
LEMMA HelloIs ==
  ASSUME Types
  PROVE  /\ Hello \in Hellos /\ Hello.t = "hello" /\ Hello.of = cam.boot /\ Hello.wire = cam.wire
         /\ Hello.next = NextSeq /\ Hello.oldest = Oldest
  BY CamIs DEF Hello, Hellos

\* The dashcam with another position is a dashcam, the same in all else.
LEMMA CamAt ==
  ASSUME cam \in Cams, NEW a \in Int, cam' = [cam EXCEPT !.at = a]
  PROVE  cam' \in Cams /\ cam'.log = cam.log /\ cam'.made = cam.made /\ cam'.at = a /\ cam'.boot = cam.boot
         /\ cam'.wire = cam.wire /\ cam'.ring = cam.ring
  BY DEF Cams

\* The dashcam with another log is a dashcam, the same in all else.
LEMMA CamLogs ==
  ASSUME cam \in Cams, NEW l \in Seq(0 .. MaxDrives), NEW m \in 0 .. MaxEvents,
         cam' = [cam EXCEPT !.log = l, !.made = m]
  PROVE  cam' \in Cams /\ cam'.log = l /\ cam'.made = m /\ cam'.at = cam.at /\ cam'.boot = cam.boot
         /\ cam'.wire = cam.wire /\ cam'.ring = cam.ring
  BY DEF Cams

\* The dashcam's steps keep the types.
LEMMA CamStepsTyped ==
  ASSUME Types, Cam
  PROVE  Types'
<1>0. /\ cam \in Cams /\ Len(cam.log) <= cam.made /\ cam.at \in Held .. Len(cam.log)
      /\ toPhone \in Seq(Hellos \cup Events) /\ Len(toPhone) <= Air
      /\ left \in 0 .. MaxTroubles /\ cam.boot + left <= MaxTroubles + 1
      /\ toCam \in Seq(Requests) /\ Len(toCam) + left <= Cap + MaxTroubles
  BY TypesAre DEF Ends, Asked
<1>1. CASE EventHappens
  <2>1. InDrive \in 0 .. MaxDrives
    BY TypesAre, ConstantsAre DEF InDrive, Trips
  <2>2. /\ cam' = [cam EXCEPT !.log = Append(cam.log, InDrive), !.made = cam.made + 1]
        /\ cam.made < MaxEvents /\ UNCHANGED <<toPhone, left>>
    BY <1>1 DEF EventHappens, wires
  <2>3. cam.log \in Seq(0 .. MaxDrives) /\ cam.made \in 0 .. MaxEvents /\ cam.at \in Int /\ cam.boot \in Int
    BY <1>0, ConstantsAre DEF Cams
  <2>4. Append(cam.log, InDrive) \in Seq(0 .. MaxDrives) /\ Len(Append(cam.log, InDrive)) = Len(cam.log) + 1
    BY <2>1, <2>3, AppendIs
  <2>5. /\ cam' \in Cams /\ cam'.log = Append(cam.log, InDrive) /\ cam'.made = cam.made + 1
        /\ cam'.at = cam.at /\ cam'.boot = cam.boot
    <3>1. cam.made + 1 \in 0 .. MaxEvents
      BY <2>2, <2>3, ConstantsAre
    <3> QED
      BY <1>0, <2>2, <2>4, <3>1, CamLogs
  <2>6. Ends(left', cam', toPhone')
    BY <1>0, <2>2, <2>3, <2>4, <2>5 DEF Ends, Held
  <2> QED
    BY <1>1, <2>6, TypesAre, TypesAreNext DEF EventHappens, wires, db
<1>2. CASE CamHears
  <2> DEFINE f == Head(toCam)
  <2>1. f \in Requests /\ Tail(toCam) \in Seq(Requests) /\ Len(Tail(toCam)) = Len(toCam) - 1
    BY <1>0, <1>2, TailIs DEF CamHears
  <2>2. PICK a \in Held .. Len(cam.log) : cam' = [cam EXCEPT !.at = a]
    <3>1. CASE f.t = "ask"
      <4>1. cam' = [cam EXCEPT !.at = Held]
        BY <1>2, <3>1 DEF CamHears
      <4>2. Held \in Held .. Len(cam.log)
        BY CamIs DEF Held
      <4> QED
        BY <4>1, <4>2
    <3>2. CASE f.t = "resume" /\ f.wire = cam.wire /\ f.from <= NextSeq
      <4>1. f.from \in Nat
        BY <2>1, <3>2 DEF Requests
      <4>2. Max({f.from, Oldest}) \in 0 .. Len(cam.log)
        BY <3>2, <4>1, CamIs, MaxOfTwo
      <4>3. cam' = [cam EXCEPT !.at = Max({f.from, Oldest})]
        BY <1>2, <3>2 DEF CamHears
      <4> QED
        BY <4>2, <4>3, CamIs DEF Held
    <3>3. CASE ~(f.t = "ask") /\ ~(f.t = "resume" /\ f.wire = cam.wire /\ f.from <= NextSeq)
      <4>1. cam' = [cam EXCEPT !.at = Oldest]
        BY <1>2, <3>3 DEF CamHears
      <4> QED
        BY <4>1, CamIs DEF Held
    <3> QED
      BY <3>1, <3>2, <3>3
  <2>3. cam' \in Cams /\ cam'.log = cam.log /\ cam'.made = cam.made /\ cam'.at = a /\ cam'.boot = cam.boot
    BY <1>0, <2>2, CamAt, CamIs DEF Held
  <2>4. toPhone' \in Seq(Hellos \cup Events) /\ Len(toPhone') <= Air
    BY <1>0, <1>2, HelloIs, AppendIs DEF CamHears, Air
  <2>5. Ends(left', cam', toPhone')
    BY <1>0, <1>2, <2>2, <2>3, <2>4 DEF Ends, CamHears
  <2>6. Asked(left', toCam')
    <3>1. toCam' = Tail(toCam) /\ left' = left
      BY <1>2 DEF CamHears
    <3>2. Len(toCam) \in Nat /\ left \in Int /\ Cap + MaxTroubles \in Int
      BY <1>0, ConstantsAre DEF Cap
    <3> QED
      BY <1>0, <2>1, <3>1, <3>2 DEF Asked
  <2> QED
    BY <1>2, <2>5, <2>6, TypesAre, TypesAreNext DEF CamHears, db
<1>3. CASE CamWaitedEnough
  <2>1. cam' \in Cams /\ cam'.log = cam.log /\ cam'.made = cam.made /\ cam'.at = Oldest /\ cam'.boot = cam.boot
    <3>1. cam' = [cam EXCEPT !.at = Oldest] /\ Oldest \in Int
      BY <1>3, CamIs DEF CamWaitedEnough
    <3> QED
      BY <1>0, <3>1, CamAt
  <2>2. Ends(left', cam', toPhone')
    BY <1>0, <1>3, <2>1, CamIs DEF Ends, CamWaitedEnough, Held, wires
  <2> QED
    BY <1>3, <2>2, TypesAre, TypesAreNext DEF CamWaitedEnough, wires, db
<1>4. CASE CamSends
  <2>1. cam.at \in 0 .. Len(cam.log) /\ cam.at < Len(cam.log) /\ cam.log \in Seq(0 .. MaxDrives) /\ cam.made \in 0 .. MaxEvents
        /\ cam.boot \in 1 .. MaxTroubles + 1
    BY <1>0, <1>4, CamIs DEF CamSends, Cams, Held
  <2>2. cam.at < Oldest => /\ cam' = [cam EXCEPT !.at = Oldest]
                           /\ toPhone' = Append(toPhone, Hello)
    BY <1>4 DEF CamSends
  <2>3. ~(cam.at < Oldest) => /\ cam' = [cam EXCEPT !.at = cam.at + 1]
                              /\ toPhone' = Append(toPhone, [t |-> "event", seq |-> cam.at, of |-> cam.boot, in |-> cam.log[cam.at + 1]])
    BY <1>4 DEF CamSends
  <2>4. [t |-> "event", seq |-> cam.at, of |-> cam.boot, in |-> cam.log[cam.at + 1]] \in Events
    <3>1. cam.log[cam.at + 1] \in 0 .. MaxDrives
      <4>1. cam.at + 1 \in 1 .. Len(cam.log)
        BY <2>1
      <4> QED
        BY <2>1, <4>1, EntryIs
    <3>2. cam.at \in 0 .. MaxEvents - 1
      BY <1>0, <2>1, ConstantsAre
    <3> QED
      BY <2>1, <3>1, <3>2 DEF Events
  <2>5. toPhone' \in Seq(Hellos \cup Events) /\ Len(toPhone') = Len(toPhone) + 1
    <3>1. CASE cam.at < Oldest
      BY <1>0, <2>2, <3>1, HelloIs, AppendIs
    <3>2. CASE ~(cam.at < Oldest)
      <4> DEFINE e == [t |-> "event", seq |-> cam.at, of |-> cam.boot, in |-> cam.log[cam.at + 1]]
      <4>1. e \in Hellos \cup Events /\ toPhone' = Append(toPhone, e)
        BY <2>3, <2>4, <3>2
      <4> HIDE DEF e
      <4> QED
        BY <1>0, <4>1, AppendIs
    <3> QED
      BY <3>1, <3>2
  <2>6. /\ cam' \in Cams /\ cam'.log = cam.log /\ cam'.made = cam.made /\ cam'.at \in 0 .. Len(cam.log)
        /\ cam'.boot = cam.boot
    <3>1. CASE cam.at < Oldest
      <4>1. Oldest \in 0 .. Len(cam.log) /\ Oldest \in Int
        BY CamIs
      <4> QED
        BY <1>0, <2>2, <3>1, <4>1, CamAt
    <3>2. CASE ~(cam.at < Oldest)
      <4>1. cam.at + 1 \in 0 .. Len(cam.log) /\ cam.at + 1 \in Int
        BY <2>1
      <4> QED
        BY <1>0, <2>3, <3>2, <4>1, CamAt
    <3> QED
      BY <3>1, <3>2
  <2>7. left' = left /\ Len(toPhone) < Air /\ Len(toPhone) \in Nat
    BY <1>0, <1>4 DEF CamSends
  <2>8. Ends(left', cam', toPhone')
    BY <1>0, <2>5, <2>6, <2>7 DEF Ends, Held, Air
  <2> QED
    BY <1>4, <2>8, TypesAre, TypesAreNext DEF CamSends, db
<1> QED
  BY <1>1, <1>2, <1>3, <1>4 DEF Cam

\* A session that is off, and one that starts.
LEMMA OffIs ==
  /\ Off \in Sessions /\ Off.wire = None /\ Off.key = NoKey /\ Off.ready = FALSE /\ Off.phase = "off"
  /\ [Off EXCEPT !.phase = "hello"] \in Sessions /\ [Off EXCEPT !.phase = "hello"].phase = "hello"
  /\ [Off EXCEPT !.phase = "hello"].wire = None /\ [Off EXCEPT !.phase = "hello"].key = NoKey
  /\ [Off EXCEPT !.phase = "hello"].ready = FALSE
<1>1. Off \in Sessions /\ Off.wire = None /\ Off.key = NoKey /\ Off.ready = FALSE /\ Off.phase = "off"
  BY DEF Off, Sessions
<1> QED
  BY <1>1 DEF Sessions

\* A COMMAND 7 that is written, or fails.
LEMMA AskIs ==
  ASSUME toCam \in Seq(Requests), left \in 0 .. MaxTroubles, AskHello
  PROVE  /\ toCam' \in Seq(Requests) /\ Len(toCam') <= Len(toCam) + 1 /\ Len(toCam') \in Nat /\ Len(toCam) \in Nat
         /\ left' \in 0 .. MaxTroubles /\ left' <= left
<1>1. [t |-> "ask"] \in Requests
  BY DEF Requests
<1>2. CASE toCam' = Append(toCam, [t |-> "ask"]) /\ left' = left
  <2> DEFINE a == [t |-> "ask"]
  <2>1. a \in Requests /\ toCam' = Append(toCam, a)
    BY <1>1, <1>2
  <2> HIDE DEF a
  <2>2. toCam' \in Seq(Requests) /\ Len(toCam') = Len(toCam) + 1 /\ Len(toCam) \in Nat
    BY <2>1, AppendIs
  <2> QED
    BY <1>2, <2>2
<1>3. CASE toCam' = toCam /\ left > 0 /\ left' = left - 1
  BY <1>3, ConstantsAre
<1> QED
  BY <1>2, <1>3 DEF AskHello, Trouble

\* The link's steps keep the types: an ask waits only for a session that had none.
LEMMA LinkStepsTyped ==
  ASSUME Types, Session, Link
  PROVE  Types'
<1>0. /\ cam \in Cams /\ Len(cam.log) <= cam.made /\ cam.at \in Held .. Len(cam.log)
      /\ toPhone \in Seq(Hellos \cup Events) /\ Len(toPhone) <= Air
      /\ left \in 0 .. MaxTroubles /\ cam.boot + left <= MaxTroubles + 1 /\ cam.boot \in Nat
      /\ toCam \in Seq(Requests) /\ Len(toCam) + left <= Cap + MaxTroubles
      /\ ses \in Sessions /\ Queue(chain) /\ Past(ghost)
  BY TypesAre, CamIs DEF Ends, Asked
<1>1. Queue(Orphaned) /\ Queue(<<>>)
  BY <1>0, OrphanedIs DEF Queue, Cap
<1>2. cam' = [cam EXCEPT !.at = Held] => cam' \in Cams /\ cam'.log = cam.log /\ cam'.made = cam.made /\ cam'.at = Held /\ cam'.boot = cam.boot
  <2>1. Held \in Int
    BY DEF Held
  <2> QED
    BY <1>0, <2>1, CamAt
<1>3. left > 0 /\ left' = left - 1 => left' \in 0 .. MaxTroubles /\ left' < left /\ cam.boot + left' <= MaxTroubles + 1
  BY <1>0, ConstantsAre
<1>4. ASSUME Unlinked, left' <= left, left' \in 0 .. MaxTroubles
      PROVE  /\ toPhone' \in Seq(Hellos \cup Events) /\ Len(toPhone') <= Air /\ up' \in BOOLEAN /\ ses' \in Sessions
             /\ Asked(left', toCam')
  <2>1. toPhone' = <<>> /\ toCam' = <<>> /\ ses' = Off /\ up' = FALSE
    BY <1>4 DEF Unlinked
  <2>2. <<>> \in Seq(Requests) /\ Len(<<>>) = 0
    OBVIOUS
  <2>3. <<>> \in Seq(Hellos \cup Events) /\ 0 <= Air /\ left' \in 0 .. MaxTroubles /\ left' <= Cap + MaxTroubles
    <3>1. <<>> \in Seq(Hellos \cup Events)
      OBVIOUS
    <3>2. left' \in 0 .. MaxTroubles
      BY <1>4
    <3>3. MaxTroubles \in Nat /\ Cap = 2
      BY ConstantsAre DEF Cap
    <3>4. left' <= Cap + MaxTroubles
      BY <3>2, <3>3
    <3> QED
      BY <3>1, <3>2, <3>4 DEF Air
  <2>4. Asked(left', <<>>)
    BY <2>2, <2>3 DEF Asked
  <2> QED
    BY <2>1, <2>2, <2>3, <2>4, OffIs
<1>5. CASE LinkUp
  <2>1. toCam = <<>> /\ AskHello /\ UNCHANGED <<cam, toPhone, chain, rows, boots, pruning, trip>>
    BY <1>5 DEF LinkUp, Session, db
  <2>2. /\ left' \in 0 .. MaxTroubles /\ left' <= left /\ toCam' \in Seq(Requests) /\ Len(toCam') <= 1
        /\ Len(toCam') \in Nat
    BY <1>0, <2>1, AskIs
  <2>3. Asked(left', toCam') /\ Ends(left', cam', toPhone')
    BY <1>0, <2>1, <2>2, ConstantsAre DEF Asked, Cap, Ends
  <2>4. Past(ghost')
    BY <1>0, <1>5 DEF LinkUp, Past
  <2>5. up' \in BOOLEAN /\ ses' \in Sessions
    BY <1>5, OffIs DEF LinkUp
  <2> QED
    BY <2>1, <2>3, <2>4, <2>5, TypesAre, TypesAreNext
<1>6. CASE LinkDown
  <2>1. Unlinked /\ left > 0 /\ left' = left - 1 /\ cam' = [cam EXCEPT !.at = Held] /\ chain' = Orphaned
        /\ UNCHANGED <<rows, boots, pruning, trip, ghost>>
    BY <1>6 DEF LinkDown, Trouble, db
  <2>2. left' \in 0 .. MaxTroubles /\ left' <= left /\ cam.boot + left' <= MaxTroubles + 1
    BY <1>0, <1>3, <2>1
  <2>3. /\ toPhone' \in Seq(Hellos \cup Events) /\ Len(toPhone') <= Air /\ up' \in BOOLEAN /\ ses' \in Sessions
        /\ Asked(left', toCam')
    BY <1>4, <2>1, <2>2
  <2>4. Ends(left', cam', toPhone')
    BY <1>0, <1>2, <2>1, <2>2, <2>3 DEF Ends, Held
  <2> QED
    BY <1>1, <2>1, <2>3, <2>4, TypesAre, TypesAreNext
<1>7. CASE CamReboots
  <2>1. PICK w \in WireIds : cam' = [cam EXCEPT !.boot = @ + 1, !.wire = w, !.log = <<>>, !.at = Held]
    BY <1>7 DEF CamReboots
  <2>2. /\ Unlinked /\ left > 0 /\ left' = left - 1 /\ chain' = Orphaned
        /\ UNCHANGED <<rows, boots, pruning, trip, ghost>>
    BY <1>7 DEF CamReboots, Trouble, db
  <2>3. cam.boot + 1 \in 1 .. MaxTroubles + 1 /\ (cam.boot + 1) + left' <= MaxTroubles + 1
    BY <1>0, <2>2, ConstantsAre
  <2>4. cam' \in Cams /\ cam'.log = <<>> /\ cam'.boot = cam.boot + 1 /\ cam'.at = Held /\ cam'.made \in Nat
    <3>1. <<>> \in Seq(0 .. MaxDrives) /\ Held \in Int
      BY DEF Held
    <3>2. cam \in Cams /\ cam.boot + 1 \in 1 .. MaxTroubles + 1 /\ w \in WireIds
      BY <1>0, <2>3
    <3>3. cam' \in Cams
      BY <2>1, <3>1, <3>2 DEF Cams
    <3>4. /\ cam'.log = <<>> /\ cam'.boot = cam.boot + 1 /\ cam'.at = Held /\ cam'.made = cam.made
          /\ cam.made \in 0 .. MaxEvents
      BY <2>1, <3>2 DEF Cams
    <3>5. cam.made \in Nat
      BY <3>4, ConstantsAre
    <3> QED
      BY <3>3, <3>4, <3>5
  <2>5. left' \in 0 .. MaxTroubles /\ left' <= left
    BY <1>0, <1>3, <2>2
  <2>6. /\ toPhone' \in Seq(Hellos \cup Events) /\ Len(toPhone') <= Air /\ up' \in BOOLEAN /\ ses' \in Sessions
        /\ Asked(left', toCam')
    BY <1>4, <2>2, <2>5
  <2>7. Ends(left', cam', toPhone')
    <3>1. Len(<<>>) = 0 /\ Held \in Held .. 0
      BY DEF Held
    <3>2. Len(cam'.log) = 0 /\ 0 <= cam'.made /\ cam'.at \in Held .. Len(cam'.log)
      BY <2>4, <3>1
    <3> QED
      BY <2>3, <2>4, <2>5, <2>6, <3>2 DEF Ends
  <2> QED
    BY <1>1, <2>2, <2>6, <2>7, TypesAre, TypesAreNext
<1>8. CASE Kill
  <2>1. Unlinked /\ left > 0 /\ left' = left - 1 /\ cam' = [cam EXCEPT !.at = Held] /\ chain' = <<>> /\ pruning' = FALSE
        /\ UNCHANGED <<rows, boots, ghost>>
    BY <1>8 DEF Kill, Trouble
  <2>2. left' \in 0 .. MaxTroubles /\ left' <= left /\ cam.boot + left' <= MaxTroubles + 1
    BY <1>0, <1>3, <2>1
  <2>3. /\ toPhone' \in Seq(Hellos \cup Events) /\ Len(toPhone') <= Air /\ up' \in BOOLEAN /\ ses' \in Sessions
        /\ Asked(left', toCam')
    BY <1>4, <2>1, <2>2
  <2>4. Ends(left', cam', toPhone')
    BY <1>0, <1>2, <2>1, <2>2, <2>3 DEF Ends, Held
  <2>5. trip' \in Trips
    BY <1>8, TypesAre DEF Kill, Trips
  <2>6. pruning' \in BOOLEAN
    BY <2>1
  <2> QED
    BY <1>1, <2>1, <2>3, <2>4, <2>5, <2>6, TypesAre, TypesAreNext
<1>9. CASE Wipe
  <2>1. /\ left > 0 /\ left' = left - 1 /\ rows' = {} /\ boots' = {} /\ chain' = Orphaned
        /\ UNCHANGED <<cam, up, toPhone, pruning, trip>>
    BY <1>9 DEF Wipe, Trouble
  <2>2. Ends(left', cam', toPhone') /\ Tabled(boots') /\ rows' \subseteq Rows
    BY <1>0, <1>3, <2>1 DEF Ends, Tabled
  <2>3. Past(ghost')
    BY <1>0, <1>9 DEF Wipe, Past
  <2>4. ses' \in Sessions
    BY <1>0, <1>9, OffIs DEF Wipe
  <2>5. Asked(left', toCam')
    <3>1. CASE toCam' = toCam
      BY <1>0, <1>3, <2>1, <3>1, ConstantsAre DEF Asked, Cap
    <3>2. CASE toCam' = Append(toCam, [t |-> "ask"])
      <4> DEFINE a == [t |-> "ask"]
      <4>1. a \in Requests /\ toCam' = Append(toCam, a)
        BY <3>2 DEF Requests
      <4> HIDE DEF a
      <4>2. toCam' \in Seq(Requests) /\ Len(toCam') = Len(toCam) + 1 /\ Len(toCam) \in Nat
        BY <1>0, <4>1, AppendIs
      <4> QED
        BY <1>0, <2>1, <4>2, ConstantsAre DEF Asked, Cap
    <3> QED
      BY <1>9, <3>1, <3>2 DEF Wipe
  <2> QED
    BY <1>1, <2>1, <2>2, <2>3, <2>4, <2>5, TypesAre, TypesAreNext
<1> QED
  BY <1>5, <1>6, <1>7, <1>8, <1>9 DEF Link

\* The session's parts, as the types give them.
LEMMA SessionFields ==
  ASSUME ses \in Sessions
  PROVE  /\ ses.floor \in Nat /\ ses.cursor \in Nat /\ ses.announced \in Nat /\ ses.ready \in BOOLEAN
         /\ ses.wire \in WireIds \cup {None} /\ ses.key \in Keys \cup {NoKey} /\ ses.resync \in BOOLEAN
  BY DEF Sessions

\* A larger of two numbers is one of them.
LEMMA MaxFits ==
  ASSUME NEW a \in Nat, NEW b \in Nat
  PROVE  Max({a, b}) \in Nat /\ a <= Max({a, b}) /\ b <= Max({a, b}) /\ Max({a, b}) \in {a, b}
  BY MaxOfTwo

\* What the phone does with a frame that it hears.
Hears(f) ==
  \/ f.t = "event" /\ OnEvent(f)
  \/ f.t = "hello" /\ ses.wire = f.wire /\ ses.phase # "hello" /\ HelloAgain(f)
  \/ f.t = "hello" /\ ~(ses.wire = f.wire /\ ses.phase # "hello") /\ HelloAnew(f)

\* What PhoneHears does, without its CASE.
LEMMA HearsIs ==
  ASSUME Types, PhoneHears
  PROVE  /\ toPhone # <<>> /\ Head(toPhone) = toPhone[1] /\ 1 \in 1 .. Len(toPhone)
         /\ toPhone[1] \in Hellos \cup Events
         /\ toPhone' = Tail(toPhone) /\ Hears(toPhone[1]) /\ Len(chain) < Cap
         /\ ghost' = [ghost EXCEPT !.told = Max({@, IF toPhone[1].t = "event" THEN toPhone[1].seq + 1 ELSE toPhone[1].next})]
         /\ UNCHANGED <<cam, up, toCam, rows, boots, pruning, trip, left>>
<1>1. toPhone \in Seq(Hellos \cup Events) /\ toPhone # <<>>
  BY DEF Types, TypeOK, PhoneHears
<1>2. Head(toPhone) = toPhone[1] /\ 1 \in 1 .. Len(toPhone) /\ toPhone[1] \in Hellos \cup Events
  BY <1>1
<1>3. toPhone[1].t \in {"hello", "event"}
  BY <1>2 DEF Hellos, Events
<1>4. Hears(toPhone[1])
  BY <1>2, <1>3 DEF PhoneHears, Hears
<1> QED
  BY <1>1, <1>2, <1>4 DEF PhoneHears, db

\* The phone's steps keep the types.
LEMMA PhoneStepsTyped ==
  ASSUME Types, Session, Phone
  PROVE  Types'
<1>0. /\ toPhone \in Seq(Hellos \cup Events) /\ Len(toPhone) <= Air /\ left \in 0 .. MaxTroubles
      /\ toCam \in Seq(Requests) /\ Len(toCam) + left <= Cap + MaxTroubles /\ Ends(left, cam, toPhone)
      /\ ses \in Sessions /\ chain \in Seq(Tasks) /\ Len(chain) <= Cap /\ Past(ghost)
  BY TypesAre DEF Ends, Asked, Queue
<1>1. ASSUME left' \in 0 .. MaxTroubles, left' <= left
      PROVE  cam' = cam /\ toPhone' = toPhone => Ends(left', cam', toPhone')
  <2>1. cam.boot \in Nat
    BY CamIs
  <2> QED
    BY <1>0, <1>1, <2>1, ConstantsAre DEF Ends
<1>2. CASE PhoneHears
  <2> DEFINE f == toPhone[1]
  <2>1. /\ f \in Hellos \cup Events /\ toPhone # <<>> /\ toPhone' = Tail(toPhone) /\ Hears(f) /\ Len(chain) < Cap
        /\ ghost' = [ghost EXCEPT !.told = Max({@, IF f.t = "event" THEN f.seq + 1 ELSE f.next})]
        /\ UNCHANGED <<cam, up, toCam, rows, boots, pruning, trip, left>>
    BY <1>2, HearsIs
  <2> HIDE DEF f
  <2>2. f.t = "event" => f \in Events /\ f.seq \in Nat
    BY <2>1, ConstantsAre DEF Hellos, Events
  <2>3. f.t = "hello" => f \in Hellos /\ f.next \in Nat /\ f.wire \in WireIds
    BY <2>1 DEF Hellos, Events
  <2>4. f.t \in {"hello", "event"}
    BY <2>1 DEF Hellos, Events
  <2>5. Past(ghost')
    <3> DEFINE n == IF f.t = "event" THEN f.seq + 1 ELSE f.next
    <3>1. n \in Nat /\ ghost.told \in Nat
      BY <1>0, <2>2, <2>3, <2>4 DEF Past
    <3> HIDE DEF n
    <3>2. Max({ghost.told, n}) \in Nat
      BY <3>1, MaxFits
    <3> QED
      BY <1>0, <2>1, <3>2 DEF Past, n
  <2>6. toPhone' \in Seq(Hellos \cup Events) /\ Len(toPhone') <= Air
    BY <1>0, <2>1, TailIs DEF Air
  <2>7. Ends(left', cam', toPhone')
    BY <1>0, <2>1, <2>6 DEF Ends
  <2>8. ses' \in Sessions /\ \E t \in Tasks : chain' = Append(chain, t)
    <3>1. CASE f.t = "event"
      <4>1. OnEvent(f)
        BY <2>1, <3>1 DEF Hears
      <4>2. Max({ses.announced, f.seq + 1}) \in Nat
        <5>1. ses.announced \in Nat /\ f.seq + 1 \in Nat
          BY <1>0, <2>2, <3>1, SessionFields
        <5> QED
          BY <5>1, MaxFits
      <4>3. ses' \in Sessions
        BY <1>0, <4>1, <4>2 DEF OnEvent, Sessions
      <4>4. \E t \in Tasks : chain' = Append(chain, t)
        BY <2>2, <3>1, <4>1, EventIs DEF OnEvent, HeardEvent
      <4> QED
        BY <4>3, <4>4
    <3>2. CASE f.t = "hello" /\ HelloAgain(f)
      <4>1. Max({ses.announced, f.next}) \in Nat
        BY <1>0, <2>3, <3>2, SessionFields, MaxFits
      <4>2. ses' \in Sessions
        BY <1>0, <3>2, <4>1 DEF HelloAgain, Sessions
      <4>3. \E t \in Tasks : chain' = Append(chain, t)
        BY <2>3, <3>2, GreetingIs DEF HelloAgain
      <4> QED
        BY <4>2, <4>3
    <3>3. CASE f.t = "hello" /\ HelloAnew(f)
      <4> DEFINE s == IF ses.wire = f.wire THEN ses ELSE [ses EXCEPT !.key = NoKey, !.ready = FALSE]
      <4>1. s \in Sessions
        BY <1>0 DEF Sessions
      <4>2. ses' = [s EXCEPT !.phase = "syncing", !.wire = f.wire, !.announced = f.next]
        BY <3>3 DEF HelloAnew
      <4> HIDE DEF s
      <4>3. ses' \in Sessions
        BY <2>3, <3>3, <4>1, <4>2 DEF Sessions
      <4>4. \E t \in Tasks : chain' = Append(chain, t)
        BY <2>3, <3>3, GreetingIs DEF HelloAnew
      <4> QED
        BY <4>3, <4>4
    <3> QED
      BY <2>1, <2>4, <3>1, <3>2, <3>3 DEF Hears
  <2>9. Queue(chain')
    BY <1>0, <2>1, <2>8, AppendIs DEF Queue, Cap
  <2> QED
    BY <2>1, <2>5, <2>7, <2>8, <2>9, TypesAre, TypesAreNext
<1>3. CASE HelloRetry
  <2>1. toCam = <<>> /\ AskHello /\ UNCHANGED <<cam, up, toPhone, ses, chain, rows, boots, pruning, trip, ghost>>
    BY <1>3 DEF HelloRetry, db
  <2>2. /\ left' \in 0 .. MaxTroubles /\ left' <= left /\ toCam' \in Seq(Requests) /\ Len(toCam') <= 1
        /\ Len(toCam') \in Nat
    BY <1>0, <2>1, AskIs
  <2>3. Asked(left', toCam')
    BY <1>0, <2>2, ConstantsAre DEF Asked, Cap
  <2> QED
    BY <1>1, <2>1, <2>2, <2>3, TypesAre, TypesAreNext
<1>4. CASE SendResume
  <2> DEFINE q == [t |-> "resume", wire |-> ses.wire, from |-> ses.cursor]
  <2>1. /\ ses.ready /\ Len(toCam) < Cap /\ left' \in {left, left - 1} /\ (left' # left => left > 0)
        /\ toCam' \in {toCam, Append(toCam, q)}
        /\ \E b \in BOOLEAN : ses' = [ses EXCEPT !.phase = "resumed", !.resync = b]
        /\ UNCHANGED <<cam, up, toPhone, chain, rows, boots, pruning, trip, ghost>>
    BY <1>4 DEF SendResume, Trouble, db
  <2>2. q \in Requests
    <3>1. ses.wire \in WireIds
      BY <1>0, <2>1, SessionFields DEF Session
    <3>2. ses.cursor \in Nat
      BY <1>0, SessionFields
    <3> QED
      BY <3>1, <3>2 DEF Requests
  <2> HIDE DEF q
  <2>3. left' \in 0 .. MaxTroubles /\ left' <= left
    BY <1>0, <2>1, ConstantsAre
  <2>4. Append(toCam, q) \in Seq(Requests) /\ Len(Append(toCam, q)) = Len(toCam) + 1 /\ Len(toCam) \in Nat
    BY <1>0, <2>2, AppendIs
  <2>5. toCam' \in Seq(Requests) /\ Len(toCam') <= Cap /\ Len(toCam') \in Nat
    BY <1>0, <2>1, <2>4 DEF Cap
  <2>6. Asked(left', toCam')
    BY <2>3, <2>5, ConstantsAre DEF Asked, Cap
  <2>7. ses' \in Sessions
    BY <1>0, <2>1 DEF Sessions
  <2> QED
    BY <1>1, <2>1, <2>3, <2>6, <2>7, TypesAre, TypesAreNext
<1> QED
  BY <1>2, <1>3, <1>4 DEF Phone

\* The steps of the chain, in terms of its first task.
LEMMA ThenIs ==
  ASSUME Types, chain # <<>>, NEW u \in Tasks, chain' = <<u>> \o Tail(chain)
  PROVE  /\ Queue(chain') /\ Len(chain') = Len(chain) /\ chain' # <<>> /\ Head(chain') = u /\ chain'[1] = u
         /\ \A i \in 2 .. Len(chain) : chain'[i] = chain[i]
<1>1. chain \in Seq(Tasks) /\ Len(chain) <= Cap
  BY DEF Types, TypeOK
<1> QED
  BY <1>1, HeadTurnsInto DEF Queue

\* A finished task leaves the others, one place further up.
LEMMA DoneIs ==
  ASSUME Types, chain # <<>>, Done
  PROVE  /\ Queue(chain') /\ Len(chain') = Len(chain) - 1 /\ Len(chain) \in Nat
         /\ \A i \in 1 .. Len(chain') : i + 1 \in 2 .. Len(chain) /\ chain'[i] = chain[i + 1]
<1>1. chain \in Seq(Tasks) /\ Len(chain) <= Cap /\ Len(chain) \in Nat /\ chain' = Tail(chain)
  BY DEF Types, TypeOK, Done
<1> QED
  BY <1>1, TailIs DEF Queue, Cap

\* All from the stored floor to the cursor is stored.
LEMMA CursorIs ==
  ASSUME Types, NEW key, NEW floor \in Nat
  PROVE  /\ Cursor(key, floor) \in Nat /\ StoredFloor(key, floor) <= Cursor(key, floor)
         /\ \A q \in StoredFloor(key, floor) .. Cursor(key, floor) - 1 : q \in Stored(key)
<1> DEFINE f == StoredFloor(key, floor)
           free == (f .. f + MaxEvents) \ Stored(key)
<1>1. f \in Nat
  BY FloorIs
<1>2. \A q \in Stored(key) : q \in 0 .. MaxEvents - 1
  BY DEF Types, TypeOK, Rows, Stored
<1>3. Cursor(key, floor) = Min(free)
  BY DEF Cursor
<1> HIDE DEF f
<1>4. f + MaxEvents \in free /\ free \in SUBSET Nat
  BY <1>1, <1>2, ConstantsAre
<1>5. Min(free) \in free /\ \A q \in free : Min(free) <= q
  <2> HIDE DEF free
  <2> QED
    BY <1>4, MinIs
<1>6. Min(free) \in Nat /\ f <= Min(free) /\ Min(free) <= f + MaxEvents
  BY <1>1, <1>5, ConstantsAre
<1>7. \A q \in f .. Min(free) - 1 : q \in Stored(key)
  <2>1. ASSUME NEW q \in f .. Min(free) - 1, q \notin Stored(key)
        PROVE  FALSE
    <3>1. q \in free
      BY <1>1, <1>6, <2>1, ConstantsAre
    <3>2. Min(free) <= q
      BY <1>5, <3>1
    <3> QED
      BY <1>1, <1>6, <2>1, <3>2
  <2> QED
    BY <2>1
<1> QED
  BY <1>3, <1>6, <1>7 DEF f

\* A task takes any step, and any key.
LEMMA TaskTakes ==
  ASSUME NEW t \in Tasks, NEW step \in {"start", "ensure", "insert", "count"}
  PROVE  [t EXCEPT !.step = step] \in Tasks /\ \A key \in Keys : [t EXCEPT !.step = step, !.key = key] \in Tasks
  BY DEF Tasks

\* What HelloEnsures does, a part at a time.
LEMMA HelloEnsuresIs ==
  ASSUME Inv, HelloEnsures
  PROVE  /\ chain # <<>> /\ T \in Tasks /\ T.kind = "hello" /\ T.step = "ensure" /\ T.key \in Keys /\ T.oldest \in Nat
         /\ EnsureBoot(T.key, T.oldest) /\ UNCHANGED <<cam, up, toPhone, toCam, trip, left, rows, pruning>>
         /\ \/ T.live /\ ses.wire = T.wire /\ Then("count")
               /\ ses' = [ses EXCEPT !.key = T.key, !.floor = StoredFloor(T.key, T.oldest)]
            \/ Done /\ ses' = ses /\ ~(T.live /\ ses.wire = T.wire)
         /\ ghost'.filed = ghost.filed \cup {<<T.key, T.of>>}
         /\ ghost'.blind = ghost.blind \cup {b.key : b \in {c \in BootOf(T.key) : Taken(T.key, T.of) /\ T.next > c.max}}
         /\ ghost'.told = ghost.told /\ ghost'.gone = ghost.gone /\ ghost'.again = ghost.again
         /\ ghost'.owed = ghost.owed
         /\ Past(ghost')
<1>1. chain # <<>> /\ T.kind = "hello" /\ T.step = "ensure"
  BY DEF HelloEnsures, Runs
<1>2. T \in Tasks /\ T.key \in Keys
  BY <1>1, HeadIs DEF Inv, AtHand
<1>3. T.oldest \in Nat /\ T.of \in 1 .. MaxTroubles + 1
  BY <1>2 DEF Tasks
<1> DEFINE more == {b.key : b \in {c \in BootOf(T.key) : Taken(T.key, T.of) /\ T.next > c.max}}
           filed == ghost.filed \cup {<<T.key, T.of>>}
           blind == ghost.blind \cup more
<1>4. Past(ghost)
  BY TypesAre DEF Inv
<1>5. filed \in SUBSET (Keys \X (1 .. MaxTroubles + 1)) /\ blind \in SUBSET Keys
  <2>1. more \subseteq {T.key}
    BY DEF BootOf
  <2> QED
    BY <1>2, <1>3, <1>4, <2>1 DEF Past
<1>6. ghost' = [ghost EXCEPT !.filed = filed, !.blind = blind]
  BY DEF HelloEnsures
<1> HIDE DEF filed, blind
<1>7. /\ ghost'.filed = filed /\ ghost'.blind = blind /\ ghost'.told = ghost.told /\ ghost'.gone = ghost.gone
      /\ ghost'.again = ghost.again /\ ghost'.owed = ghost.owed /\ Past(ghost')
  BY <1>4, <1>5, <1>6 DEF Past
<1>8. \/ T.live /\ ses.wire = T.wire /\ Then("count")
         /\ ses' = [ses EXCEPT !.key = T.key, !.floor = StoredFloor(T.key, T.oldest)]
      \/ Done /\ ses' = ses /\ ~(T.live /\ ses.wire = T.wire)
  BY DEF HelloEnsures
<1>9. EnsureBoot(T.key, T.oldest) /\ UNCHANGED <<cam, up, toPhone, toCam, trip, left, rows, pruning>>
  BY DEF HelloEnsures, chainOnly, wires
<1> QED
  BY <1>1, <1>2, <1>3, <1>7, <1>8, <1>9 DEF filed, blind

\* What the steps of an event's insertion, and of the second HELLO's, start from.
LEMMA EventInsertsIs ==
  ASSUME Inv, EventInserts
  PROVE  /\ chain # <<>> /\ T \in Tasks /\ T.kind = "event" /\ T.step = "insert" /\ T.key \in Keys
         /\ T.seq < MaxEvents
         /\ InsertEvent(T.key, T) /\ Then("count") /\ UNCHANGED <<cam, up, toPhone, toCam, trip, left, ses, pruning>>
         /\ ghost'.blind = IF BootOf(T.key) = {} THEN ghost.blind \cup {T.key} ELSE ghost.blind
         /\ ghost'.told = ghost.told /\ ghost'.gone = ghost.gone /\ ghost'.again = ghost.again
         /\ ghost'.owed = ghost.owed
         /\ ghost'.filed = ghost.filed /\ Past(ghost')
<1>1. chain # <<>> /\ T.kind = "event" /\ T.step = "insert"
  BY DEF EventInserts, Runs
<1>2. T \in Tasks /\ T.key \in Keys /\ T.seq < MaxEvents
  BY <1>1, HeadIs DEF Inv, AtHand, Told
<1>3. Past(ghost)
  BY TypesAre DEF Inv
<1>4. /\ ghost'.blind = IF BootOf(T.key) = {} THEN ghost.blind \cup {T.key} ELSE ghost.blind
      /\ ghost'.told = ghost.told /\ ghost'.gone = ghost.gone /\ ghost'.again = ghost.again
      /\ ghost'.owed = ghost.owed
      /\ ghost'.filed = ghost.filed /\ Past(ghost')
  <2>1. CASE BootOf(T.key) = {}
    <3>1. ghost' = [ghost EXCEPT !.blind = ghost.blind \cup {T.key}]
      BY <2>1 DEF EventInserts
    <3> QED
      BY <1>2, <1>3, <2>1, <3>1 DEF Past
  <2>2. CASE BootOf(T.key) # {}
    BY <1>3, <2>2 DEF EventInserts
  <2> QED
    BY <2>1, <2>2
<1> QED
  BY <1>1, <1>2, <1>4 DEF EventInserts, chainOnly, wires

\* What SameEnsures does, a part at a time.
LEMMA SameEnsuresIs ==
  ASSUME Inv, SameEnsures
  PROVE  /\ chain # <<>> /\ T \in Tasks /\ T.kind = "same" /\ T.step = "start" /\ T.oldest \in Nat
         /\ UNCHANGED <<cam, up, toPhone, toCam, trip, left, rows, pruning, ghost>>
         /\ \/ T.live /\ ses.key # NoKey /\ ses.key \in Keys /\ EnsureBoot(ses.key, T.oldest) /\ ThenAs("count", ses.key)
               /\ ses' = [ses EXCEPT !.floor = StoredFloor(ses.key, T.oldest)]
            \/ Done /\ UNCHANGED <<boots, ses>>
<1>1. chain # <<>> /\ T.kind = "same" /\ T.step = "start"
  BY DEF SameEnsures, Runs
<1>2. T \in Tasks
  BY <1>1, HeadIs DEF Inv
<1>3. ses.key \in Keys \cup {NoKey}
  BY TypesAre, SessionFields DEF Inv
<1>4. T.oldest \in Nat
  BY <1>2 DEF Tasks
<1> QED
  BY <1>1, <1>2, <1>3, <1>4 DEF SameEnsures, chainOnly, wires

\* The chain's steps keep the types.
LEMMA ChainStepsTyped ==
  ASSUME Inv, ChainSteps \/ TaskFails
  PROVE  Types'
<1>0. /\ Types /\ ses \in Sessions /\ rows \subseteq Rows /\ Tabled(boots) /\ Past(ghost) /\ trip \in Trips
      /\ Ends(left, cam, toPhone) /\ Asked(left, toCam) /\ up \in BOOLEAN /\ pruning \in BOOLEAN
  BY TypesAre DEF Inv
<1>1. ASSUME NEW step \in {"start", "ensure", "insert", "count"}, chain # <<>>, Then(step)
      PROVE  Queue(chain')
  BY <1>0, <1>1, HeadIs, TaskTakes, ThenIs DEF Inv, Then
<1>2. ASSUME NEW step \in {"start", "ensure", "insert", "count"}, NEW key \in Keys, chain # <<>>, ThenAs(step, key)
      PROVE  Queue(chain')
  BY <1>0, <1>2, HeadIs, TaskTakes, ThenIs DEF Inv, ThenAs
<1>3. Done /\ chain # <<>> => Queue(chain')
  BY <1>0, DoneIs
<1>4. ASSUME NEW key \in Keys, NEW floor \in Nat, EnsureBoot(key, floor)
      PROVE  Tabled(boots')
  <2>1. PICK n \in Boots : Ensured(n, key, floor) /\ boots' = {b \in boots : b.key # key} \cup {n}
    BY <1>0, <1>4, EnsureIs
  <2>2. n.key = key
    BY <2>1 DEF Ensured
  <2> QED
    BY <1>0, <2>1, <2>2 DEF Tabled
<1>5. CASE HelloLooksUp
  <2>1. chain # <<>> /\ T.kind = "hello" /\ (ThenAs("ensure", BootKey(T)) \/ Done)
        /\ UNCHANGED <<cam, up, toPhone, toCam, trip, left, ses, rows, boots, pruning, ghost>>
    BY <1>5 DEF HelloLooksUp, Runs, chainOnly, wires, db
  <2>2. BootKey(T) \in Keys
    BY <2>1, BootKeyIs
  <2>3. Queue(chain')
    BY <1>2, <1>3, <2>1, <2>2
  <2> QED
    BY <1>0, <2>1, <2>3, TypesAreNext
<1>6. CASE HelloEnsures
  <2>1. Queue(chain') /\ Tabled(boots') /\ Past(ghost')
    BY <1>1, <1>3, <1>4, <1>6, HelloEnsuresIs
  <2>2. ses' \in Sessions
    <3>1. T.key \in Keys /\ StoredFloor(T.key, T.oldest) \in Nat
      BY <1>0, <1>6, HelloEnsuresIs, FloorIs
    <3>2. ses' = ses \/ ses' = [ses EXCEPT !.key = T.key, !.floor = StoredFloor(T.key, T.oldest)]
      BY <1>6, HelloEnsuresIs
    <3> QED
      BY <1>0, <3>1, <3>2 DEF Sessions
  <2> QED
    BY <1>0, <1>6, <2>1, <2>2, HelloEnsuresIs, TypesAreNext
<1>7. CASE HelloCounts
  <2>1. chain # <<>> /\ Done /\ UNCHANGED <<cam, up, toPhone, toCam, trip, left, rows, boots, pruning, ghost>>
    BY <1>7 DEF HelloCounts, Runs, chainOnly, wires, db
  <2>2. ses' \in Sessions
    <3>1. ses' = ses \/ ses' = [ses EXCEPT !.cursor = Cursor(T.key, ses.floor), !.ready = TRUE]
      BY <1>7 DEF HelloCounts
    <3>2. Cursor(T.key, ses.floor) \in Nat
      BY <1>0, CursorIs, SessionFields
    <3> QED
      BY <1>0, <3>1, <3>2 DEF Sessions
  <2> QED
    BY <1>0, <1>3, <2>1, <2>2, TypesAreNext
<1>8. CASE SameEnsures
  <2>1. Queue(chain') /\ Tabled(boots')
    BY <1>0, <1>2, <1>3, <1>4, <1>8, SameEnsuresIs
  <2>2. ses' \in Sessions
    <3>1. ses' = ses \/ (ses' = [ses EXCEPT !.floor = StoredFloor(ses.key, T.oldest)] /\ T.oldest \in Nat)
      BY <1>8, SameEnsuresIs
    <3>2. T.oldest \in Nat => StoredFloor(ses.key, T.oldest) \in Nat
      BY <1>0, FloorIs
    <3> QED
      BY <1>0, <3>1, <3>2 DEF Sessions
  <2> QED
    BY <1>0, <1>8, <2>1, <2>2, SameEnsuresIs, TypesAreNext
<1>9. CASE EventChecks
  <2>1. chain # <<>> /\ ((ses.key # NoKey /\ ThenAs("insert", ses.key)) \/ Done)
        /\ UNCHANGED <<cam, up, toPhone, toCam, trip, left, ses, rows, boots, pruning, ghost>>
    BY <1>9 DEF EventChecks, Runs, chainOnly, wires, db
  <2>2. ses.key \in Keys \cup {NoKey}
    BY <1>0, SessionFields
  <2>3. Queue(chain')
    BY <1>2, <1>3, <2>1, <2>2
  <2> QED
    BY <1>0, <2>1, <2>3, TypesAreNext
<1>10. CASE EventInserts
  <2>1. Queue(chain')
    BY <1>1, <1>10, EventInsertsIs
  <2>2. Tabled(boots') /\ rows' \subseteq Rows
    <3>1. T \in Tasks /\ T.key \in Keys /\ T.seq < MaxEvents /\ InsertEvent(T.key, T)
      BY <1>10, EventInsertsIs
    <3> QED
      BY <1>0, <3>1, InsertIs DEF Tabled
  <2> QED
    BY <1>0, <1>10, <2>1, <2>2, EventInsertsIs, TypesAreNext
<1>11. CASE Counts
  <2>1. chain # <<>> /\ Done /\ UNCHANGED <<cam, up, toPhone, toCam, trip, left, rows, boots, pruning, ghost>>
    BY <1>11 DEF Counts, Runs, chainOnly, wires, db
  <2>2. ses' \in Sessions
    <3>1. ses' = ses \/ ses' = [ses EXCEPT !.cursor = Cursor(T.key, ses.floor)]
      BY <1>11 DEF Counts
    <3>2. Cursor(T.key, ses.floor) \in Nat
      BY <1>0, CursorIs, SessionFields
    <3> QED
      BY <1>0, <3>1, <3>2 DEF Sessions
  <2> QED
    BY <1>0, <1>3, <2>1, <2>2, TypesAreNext
<1>12. CASE TaskFails
  <2>1. /\ chain # <<>> /\ Done /\ left > 0 /\ left' = left - 1
        /\ UNCHANGED <<cam, up, toPhone, toCam, trip, rows, boots, pruning, ghost>>
    BY <1>12 DEF TaskFails, Trouble, wires, db
  <2>2. ses' \in Sessions
    <3> DEFINE again == ses.resync \/ ses.phase = "resumed"
    <3>1. ses' = [ses EXCEPT !.resync = again] /\ again \in BOOLEAN
      BY <1>0, <1>12, SessionFields DEF TaskFails
    <3> HIDE DEF again
    <3> QED
      BY <1>0, <3>1 DEF Sessions
  <2>3. Ends(left', cam', toPhone')
    <3>1. cam.boot \in Nat
      BY <1>0, CamIs
    <3> QED
      BY <1>0, <2>1, <3>1, ConstantsAre DEF Ends
  <2>4. Asked(left', toCam')
    BY <1>0, <2>1, ConstantsAre DEF Asked, Ends, Cap
  <2> QED
    BY <1>0, <1>3, <2>1, <2>2, <2>3, <2>4, TypesAreNext
<1> QED
  BY <1>5, <1>6, <1>7, <1>8, <1>9, <1>10, <1>11, <1>12 DEF ChainSteps

\* How the prune raises a boot's floor.
NewestOf(b, old) == Max({b.floor} \cup {r.seq + 1 : r \in {x \in old : x.key = b.key}})

\* The prune raises a floor, or leaves it.
LEMMA NewestIs ==
  ASSUME Types, NEW old \in SUBSET Unclaimed, NEW b \in boots
  PROVE  /\ NewestOf(b, old) \in Nat /\ b.floor <= NewestOf(b, old)
<1> DEFINE S == {b.floor} \cup {r.seq + 1 : r \in {x \in old : x.key = b.key}}
<1>1. b.floor \in Nat /\ \A r \in old : r.seq \in 0 .. MaxEvents - 1
  BY DEF Types, TypeOK, Boots, Rows, Unclaimed
<1>2. /\ S \in SUBSET Int /\ S # {} /\ b.floor \in S /\ b.floor + MaxEvents \in Int
      /\ \A s \in S : s \in Nat /\ s <= b.floor + MaxEvents
  BY <1>1, ConstantsAre
<1> HIDE DEF S
<1>3. Max(S) \in S /\ \A s \in S : s <= Max(S)
  BY <1>2, MaxIs
<1>4. NewestOf(b, old) = Max(S)
  BY DEF NewestOf, S
<1> QED
  BY <1>2, <1>3, <1>4

\* What PruneRaises does, with the events it picks named.
LEMMA PruneRaisesIs ==
  ASSUME Types, PruneRaises
  PROVE  \E old \in SUBSET Unclaimed :
           /\ rows' = {[r EXCEPT !.old = r.old \/ r \in old] : r \in rows}
           /\ boots' = {[b EXCEPT !.floor = NewestOf(b, old)] : b \in boots}
           /\ ghost'.gone = ghost.gone \cup UNION {{<<b.key, q>> : q \in 0 .. NewestOf(b, old) - 1} :
                                                   b \in {c \in boots : NewestOf(c, old) > c.floor}}
           /\ ghost'.told = ghost.told /\ ghost'.filed = ghost.filed /\ ghost'.blind = ghost.blind
           /\ ghost'.again = ghost.again /\ ghost'.owed = ghost.owed
           /\ Past(ghost') /\ trip.st = "none" /\ pruning' = TRUE
           /\ UNCHANGED <<cam, up, toPhone, toCam, ses, chain, trip, left>>
<1>1. PICK old \in SUBSET Unclaimed :
        /\ rows' = {[r EXCEPT !.old = @ \/ r \in old] : r \in rows}
        /\ boots' = {[b EXCEPT !.floor = NewestOf(b, old)] : b \in boots}
        /\ ghost' = [ghost EXCEPT !.gone = @ \cup UNION {{<<b.key, q>> : q \in 0 .. NewestOf(b, old) - 1} :
                                                         b \in {c \in boots : NewestOf(c, old) > c.floor}}]
  BY DEF PruneRaises, NewestOf
<1> DEFINE more == UNION {{<<b.key, q>> : q \in 0 .. NewestOf(b, old) - 1} : b \in {c \in boots : NewestOf(c, old) > c.floor}}
<1>2. \A b \in boots : b.key \in Keys /\ NewestOf(b, old) \in Nat
  BY NewestIs DEF Types, TypeOK, Boots
<1>3. more \subseteq Keys \X Nat
  BY <1>2
<1>4. ghost' = [ghost EXCEPT !.gone = ghost.gone \cup more]
  BY <1>1
<1> HIDE DEF more
<1>5. Past(ghost)
  BY TypesAre
<1>6. /\ ghost'.gone = ghost.gone \cup more /\ ghost'.told = ghost.told /\ ghost'.filed = ghost.filed
      /\ ghost'.blind = ghost.blind /\ ghost'.again = ghost.again /\ ghost'.owed = ghost.owed /\ Past(ghost')
  BY <1>3, <1>4, <1>5 DEF Past
<1>7. rows' = {[r EXCEPT !.old = r.old \/ r \in old] : r \in rows}
  BY <1>1
<1>8. trip.st = "none" /\ pruning' = TRUE /\ UNCHANGED <<cam, up, toPhone, toCam, ses, chain, trip, left>>
  BY DEF PruneRaises, wires
<1> QED
  BY <1>1, <1>6, <1>7, <1>8 DEF more

\* The prune's steps keep the types.
LEMMA PruneTyped ==
  ASSUME Types, Prune
  PROVE  Types'
<1>1. CASE PruneRaises
  <2>1. PICK old \in SUBSET Unclaimed :
           /\ rows' = {[r EXCEPT !.old = r.old \/ r \in old] : r \in rows}
           /\ boots' = {[b EXCEPT !.floor = NewestOf(b, old)] : b \in boots}
           /\ Past(ghost') /\ pruning' = TRUE /\ UNCHANGED <<cam, up, toPhone, toCam, ses, chain, trip, left>>
    BY <1>1, PruneRaisesIs
  <2>2. rows' \subseteq Rows
    <3>1. ASSUME NEW r \in rows
          PROVE  [r EXCEPT !.old = r.old \/ r \in old] \in Rows
      <4> DEFINE o == r.old \/ r \in old
      <4>1. o \in BOOLEAN /\ r \in Rows
        BY TypesAre DEF Rows
      <4> HIDE DEF o
      <4>2. [r EXCEPT !.old = o] \in Rows
        BY <4>1 DEF Rows
      <4> QED
        BY <4>2 DEF o
    <3> QED
      BY <2>1, <3>1
  <2>3. Tabled(boots')
    <3>1. Tabled(boots) /\ \A b \in boots : b \in Boots /\ NewestOf(b, old) \in Nat
      BY TypesAre, NewestIs DEF Tabled
    <3>2. /\ \A b \in boots : [b EXCEPT !.floor = NewestOf(b, old)] \in Boots /\ [b EXCEPT !.floor = NewestOf(b, old)].key = b.key
      BY <3>1 DEF Boots
    <3>3. \A x \in boots' : \E b \in boots : x = [b EXCEPT !.floor = NewestOf(b, old)] /\ x \in Boots /\ x.key = b.key
      BY <2>1, <3>2
    <3>4. \A x, y \in boots' : x.key = y.key => x = y
      BY <3>1, <3>3 DEF Tabled
    <3> QED
      BY <3>3, <3>4 DEF Tabled
  <2> QED
    BY <2>1, <2>2, <2>3, TypesAre, TypesAreNext
<1>2. CASE PruneDeletes
  <2>1. /\ rows' \subseteq rows /\ pruning' = FALSE
        /\ UNCHANGED <<cam, up, toPhone, toCam, ses, chain, boots, trip, left, ghost>>
    BY <1>2 DEF PruneDeletes, wires
  <2> QED
    BY <2>1, TypesAre, TypesAreNext
<1> QED
  BY <1>1, <1>2 DEF Prune

\* What a stamp adds to what drives are owed.
Due(o) ==
  /\ o.drive = trip.n /\ o.of = cam.boot /\ o.seq \in 0 .. ghost.told - 1 /\ cam.log[o.seq + 1] = trip.n
  /\ Has(o.seq) \/ ~Lost(o.seq)

\* A stamp adds to what is owed only what is due.
LEMMA StampsIs ==
  ASSUME Types, Stamps
  PROVE  /\ Past(ghost') /\ \A o \in ghost'.owed : o \in ghost.owed \/ (Alone /\ Due(o))
         /\ ghost'.told = ghost.told /\ ghost'.filed = ghost.filed /\ ghost'.blind = ghost.blind
         /\ ghost'.gone = ghost.gone /\ ghost'.again = ghost.again
<1> DEFINE new == {[drive |-> trip.n, of |-> cam.boot, seq |-> q] :
                     q \in {x \in 0 .. ghost.told - 1 : cam.log[x + 1] = trip.n /\ (Has(x) \/ ~Lost(x))}}
<1>1. Past(ghost) /\ trip.n \in 0 .. MaxDrives /\ cam.boot \in 1 .. MaxTroubles + 1 /\ ghost.told \in Nat
  BY TypesAre, CamIs DEF Trips, Past
<1>2. new \subseteq [drive : 0 .. MaxDrives, of : 1 .. MaxTroubles + 1, seq : Nat] /\ \A o \in new : Due(o)
  BY <1>1 DEF Due
<1>3. Alone => ghost' = [ghost EXCEPT !.owed = ghost.owed \cup new]
  BY DEF Stamps
<1>4. ~Alone => ghost' = ghost
  BY DEF Stamps
<1> HIDE DEF new
<1>5. CASE Alone
  BY <1>1, <1>2, <1>3, <1>5 DEF Past
<1>6. CASE ~Alone
  BY <1>1, <1>4, <1>6
<1> QED
  BY <1>5, <1>6

\* The drive's steps keep the types.
LEMMA DriveStepsTyped ==
  ASSUME Types, Happened, Drive
  PROVE  Types'
<1>0. rows \subseteq Rows /\ Past(ghost) /\ trip \in Trips /\ Ends(left, cam, toPhone) /\ Asked(left, toCam)
      /\ up \in BOOLEAN /\ pruning \in BOOLEAN /\ ses \in Sessions /\ Queue(chain) /\ Tabled(boots)
  BY TypesAre
<1>1. CASE CarRolls \/ DriveOpens
  <2>1. trip' \in Trips
    BY <1>0, <1>1, ConstantsAre DEF CarRolls, DriveOpens, Trips
  <2> QED
    BY <1>0, <1>1, <2>1, TypesAreNext DEF CarRolls, DriveOpens, driveOnly, wires
<1>2. CASE DriveReopens
  <2>1. trip' \in Trips /\ Past(ghost')
    BY <1>0, <1>2, ConstantsAre DEF DriveReopens, Trips, Past
  <2> QED
    BY <1>0, <1>2, <2>1, TypesAreNext DEF DriveReopens, driveOnly, wires
<1>3. CASE DriveRow
  BY <1>0, <1>3, StampsIs, TypesAreNext DEF DriveRow, driveOnly, wires
<1>4. CASE DriveEnds \/ BeforeFinalize
  <2>1. trip' \in Trips
    BY <1>0, <1>4 DEF DriveEnds, BeforeFinalize, Trips
  <2>2. Past(ghost')
    BY <1>0, <1>4, StampsIs DEF DriveEnds, BeforeFinalize
  <2> QED
    BY <1>0, <1>4, <2>1, <2>2, TypesAreNext DEF DriveEnds, BeforeFinalize, driveOnly, wires
<1>5. CASE Facts
  <2>1. trip' \in Trips /\ trip.n \in 0 .. MaxDrives
    BY <1>0, <1>5 DEF Facts, Trips
  <2>2. trip.n \in {None} \cup 1 .. MaxDrives
    BY <1>5, <2>1, ConstantsAre DEF Facts, Happened
  <2>3. rows' \subseteq Rows
    <3>1. ASSUME NEW r \in rows
          PROVE  [r EXCEPT !.trip = IF Claimable(r) THEN trip.n ELSE @] \in Rows
      BY <1>0, <2>2 DEF Rows
    <3> QED
      BY <1>5, <3>1 DEF Facts
  <2> QED
    BY <1>0, <1>5, <2>1, <2>3, TypesAreNext DEF Facts, driveOnly, wires
<1> QED
  BY <1>1, <1>2, <1>3, <1>4, <1>5 DEF Drive

\* Every step keeps the types.
LEMMA TypesStep ==
  ASSUME Inv, Next
  PROVE  Types'
BY CamStepsTyped, LinkStepsTyped, PhoneStepsTyped, ChainStepsTyped, PruneTyped, DriveStepsTyped DEF Inv, Next

-----------------------------------------------------------------------------
(* The link and the chain, step by step. *)

\* No key is the one that stands for none.
LEMMA KeysAre == NoKey \notin Keys /\ \A k \in Keys : k # NoKey
  BY ConstantsAre DEF Keys, NoKey

\* What a frame or a task was told of a dashcam stays so while its log grows.
LEMMA FieldsGrow ==
  ASSUME NEW c, NEW d, Grown(c, d), Len(c.log) \in Nat, Len(d.log) \in Nat, OldestOf(c) \in Int, OldestOf(d) \in Int
  PROVE  /\ \A f \in Hellos \cup Events, told \in Nat : Sent(f, c, told) => Sent(f, d, told)
         /\ \A t \in Tasks : Told(t, c) => Told(t, d)
<1>1. ASSUME NEW f \in Hellos \cup Events, NEW told \in Nat, Sent(f, c, told)
      PROVE  Sent(f, d, told)
  <2>1. f.t = "hello" => f.next \in Nat /\ f.oldest \in Nat
    BY DEF Hellos, Events
  <2>2. f.t = "event" => f.seq \in Nat
    BY ConstantsAre DEF Hellos, Events
  <2>3. f.t = "event" => f.seq + 1 \in 1 .. Len(c.log) /\ f.seq < Len(d.log)
    BY <1>1, <2>2 DEF Sent, Grown
  <2>4. f.t = "hello" => f.next <= Len(d.log) /\ f.oldest <= OldestOf(d)
    BY <1>1, <2>1 DEF Sent, Grown
  <2> QED
    BY <1>1, <2>3, <2>4 DEF Sent, Grown
<1>2. ASSUME NEW t \in Tasks, Told(t, c)
      PROVE  Told(t, d)
  <2>1. t.next \in Nat /\ t.oldest \in Nat /\ t.seq \in Nat /\ t.of \in Int /\ Reach(t) \in Nat
    BY DEF Tasks, Reach
  <2>2. t.of = c.boot => Reach(t) <= Len(d.log)
    BY <1>2, <2>1 DEF Told, Grown
  <2>3. t.kind # "event" /\ t.of = c.boot => t.oldest <= OldestOf(d)
    BY <1>2, <2>1 DEF Told, Grown
  <2>4. t.kind = "event" /\ t.of = c.boot => t.seq + 1 \in 1 .. Len(c.log)
    BY <1>2, <2>1 DEF Told, Reach
  <2> QED
    BY <1>2, <2>2, <2>3, <2>4 DEF Told, Grown
<1> QED
  BY <1>1, <1>2

\* The dashcam's numbers.
LEMMA CamSizes ==
  ASSUME Types
  PROVE  /\ Len(cam.log) \in Nat /\ OldestOf(cam) \in Nat /\ NextSeq = Len(cam.log) /\ Oldest = OldestOf(cam)
         /\ cam.boot \in Nat \ {0}
  BY CamIs

\* The same, after a step.
LEMMA CamSizesNext ==
  ASSUME Types'
  PROVE  /\ Len(cam'.log) \in Nat /\ OldestOf(cam') \in Nat /\ NextSeq' = Len(cam'.log) /\ Oldest' = OldestOf(cam')
         /\ cam'.boot \in Nat \ {0}
<1>1. cam' \in Cams
  BY DEF Types, TypeOK
<1>2. cam'.log \in Seq(0 .. MaxDrives) /\ cam'.ring \in Nat \ {0} /\ cam'.boot \in Nat \ {0}
  BY <1>1, ConstantsAre DEF Cams
<1>3. OldestOf(cam') \in 0 .. Len(cam'.log)
  BY <1>2, OldestIs
<1>4. NextSeq' = Len(cam'.log) /\ Oldest' = OldestOf(cam')
  BY DEF NextSeq, Oldest, OldestOf
<1> QED
  BY <1>2, <1>3, <1>4

\* The frames and tasks, one by one.
LEMMA FramesAre ==
  ASSUME Types
  PROVE  /\ Len(toPhone) \in Nat /\ Len(toPhone) <= 1
         /\ \A i \in 1 .. Len(toPhone) : toPhone[i] \in Hellos \cup Events
         /\ Len(chain) \in Nat /\ \A i \in 1 .. Len(chain) : chain[i] \in Tasks
         /\ (toPhone # <<>> => Len(toPhone) = 1) /\ (chain # <<>> => Len(chain) >= 1 /\ T = chain[1] /\ T \in Tasks)
         /\ ghost.told \in Nat /\ ses \in Sessions
<1>1. toPhone \in Seq(Hellos \cup Events) /\ Len(toPhone) <= 1
  BY DEF Types, TypeOK, Air
<1>2. chain \in Seq(Tasks)
  BY DEF Types, TypeOK
<1>3. ghost.told \in Nat /\ ses \in Sessions
  BY DEF Types, TypeOK
<1>4. ASSUME toPhone # <<>>
      PROVE  Len(toPhone) = 1
  <2>1. Len(toPhone) \in Nat \ {0}
    BY <1>1, <1>4, TailIs
  <2>2. Len(toPhone) <= 1
    BY <1>1
  <2> QED
    BY <2>1, <2>2
<1>5. chain # <<>> => Len(chain) >= 1 /\ T = chain[1] /\ T \in Tasks
  BY <1>2 DEF T
<1> QED
  BY <1>1, <1>2, <1>3, <1>4, <1>5

\* The same, after a step.
LEMMA FramesAreNext ==
  ASSUME Types'
  PROVE  /\ Len(toPhone') \in Nat /\ Len(toPhone') <= 1
         /\ \A i \in 1 .. Len(toPhone') : toPhone'[i] \in Hellos \cup Events
         /\ Len(chain') \in Nat /\ \A i \in 1 .. Len(chain') : chain'[i] \in Tasks
         /\ ghost'.told \in Nat /\ ses' \in Sessions
  BY DEF Types, TypeOK, Air

\* Every step keeps Session.
LEMMA SessionStep ==
  ASSUME Inv, Types', Next
  PROVE  Session'
<1>0. Types /\ Session /\ ses \in Sessions
  BY FramesAre DEF Inv
<1>1. CASE Cam /\ ~CamReboots
  <2>1. UNCHANGED <<ses, ghost, up>>
    BY <1>1 DEF Cam, EventHappens, CamHears, CamWaitedEnough, CamSends
  <2>2. ~up => UNCHANGED <<toPhone, toCam>>
    BY <1>0, <1>1 DEF Cam, EventHappens, CamHears, CamWaitedEnough, CamSends, wires, Session
  <2>3. Grown(cam, cam')
    BY <1>0, <1>1, Growing
  <2>4. cam'.wire = cam.wire /\ NextSeq <= NextSeq' /\ NextSeq \in Nat /\ NextSeq' \in Nat /\ ghost.told \in Nat
    BY <1>0, <2>3, CamSizes, CamSizesNext, FramesAre DEF Grown
  <2>5. up => ghost.told <= NextSeq'
    BY <1>0, <2>4 DEF Session
  <2> QED
    BY <1>0, <2>1, <2>2, <2>4, <2>5 DEF Session
<1>2. CASE LinkUp
  <2>1. ghost'.told = 0 /\ up' = TRUE /\ ses' = [Off EXCEPT !.phase = "hello"]
    <3>1. Past(ghost) /\ ghost' = [ghost EXCEPT !.told = 0]
      BY <1>0, <1>2, TypesAre DEF LinkUp
    <3> QED
      BY <1>2, <3>1 DEF LinkUp, Past
  <2>2. 0 <= NextSeq'
    BY CamSizesNext
  <2> QED
    BY <2>1, <2>2, OffIs DEF Session
<1>3. CASE LinkDown \/ CamReboots \/ Kill
  <2>1. up' = FALSE /\ toPhone' = <<>> /\ toCam' = <<>> /\ ses' = Off
    BY <1>3 DEF LinkDown, CamReboots, Kill, Unlinked
  <2> QED
    BY <2>1, OffIs DEF Session
<1>4. CASE Wipe
  <2>1. UNCHANGED <<cam, up, toPhone>> /\ ghost'.told = ghost.told
    <3>1. Past(ghost) /\ ghost' = [ghost EXCEPT !.filed = {}, !.blind = {}, !.gone = {}, !.owed = {}]
      BY <1>0, <1>4, TypesAre DEF Wipe
    <3> QED
      BY <1>4, <3>1 DEF Wipe, Past
  <2>2. IF up THEN ses' = [Off EXCEPT !.phase = "hello"] ELSE UNCHANGED <<ses, toCam>>
    BY <1>4 DEF Wipe
  <2>3. NextSeq' = NextSeq
    BY <2>1 DEF NextSeq
  <2> QED
    BY <1>0, <2>1, <2>2, <2>3, OffIs DEF Session
<1>5. CASE PhoneHears
  <2> DEFINE f == toPhone[1]
             n == IF f.t = "event" THEN f.seq + 1 ELSE f.next
  <2>1. /\ f \in Hellos \cup Events /\ Hears(f) /\ ghost' = [ghost EXCEPT !.told = Max({@, n})]
        /\ toPhone # <<>> /\ UNCHANGED <<cam, up, toCam>> /\ toPhone' = Tail(toPhone)
    BY <1>0, <1>5, HearsIs
  <2>2. Sent(f, cam, ghost.told)
    BY <1>0, <2>1, FramesAre DEF Inv, Flying
  <2> HIDE DEF f
  <2>3. f.t = "event" => f.seq \in Nat
    BY <2>1, ConstantsAre DEF Hellos, Events
  <2>4. f.t = "hello" => f.next \in Nat /\ f.wire \in WireIds
    BY <2>1 DEF Hellos, Events
  <2>5. f.t \in {"hello", "event"}
    BY <2>1 DEF Hellos, Events
  <2>6. n \in Nat /\ n <= NextSeq /\ NextSeq \in Nat /\ ghost.told \in Nat
    BY <1>0, <2>2, <2>3, <2>4, <2>5, CamSizes, FramesAre DEF Sent
  <2> HIDE DEF n
  <2>7. ghost'.told = Max({ghost.told, n})
    <3>1. Past(ghost)
      BY <1>0, TypesAre
    <3> QED
      BY <2>1, <3>1 DEF Past
  <2>8. up /\ ghost.told <= NextSeq /\ ses.announced \in Nat
    BY <1>0, <2>1, SessionFields DEF Session
  <2>9. ghost'.told = (IF ghost.told >= n THEN ghost.told ELSE n) /\ ghost'.told <= NextSeq'
    <3>1. ghost'.told = IF ghost.told >= n THEN ghost.told ELSE n
      BY <2>6, <2>7, MaxOfTwo
    <3>2. NextSeq' = NextSeq
      BY <2>1 DEF NextSeq
    <3> QED
      BY <2>6, <2>8, <3>1, <3>2
  <2>10. CASE (f.t = "event" /\ OnEvent(f)) \/ (f.t = "hello" /\ HelloAgain(f))
    <3>1. ses' = [ses EXCEPT !.announced = Max({ses.announced, n})]
      BY <2>10 DEF OnEvent, HelloAgain, n
    <3>2. Max({ses.announced, n}) = IF ses.announced >= n THEN ses.announced ELSE n
      BY <2>6, <2>8, MaxOfTwo
    <3>3. ses'.wire = ses.wire /\ ses'.key = ses.key /\ ses'.ready = ses.ready /\ ses'.phase = ses.phase
          /\ ses'.announced = Max({ses.announced, n})
      BY <1>0, <3>1 DEF Sessions
    <3>4. ses'.wire # None => ghost'.told <= ses'.announced
      BY <1>0, <2>6, <2>8, <2>9, <3>2, <3>3 DEF Session
    <3> QED
      BY <1>0, <2>1, <2>8, <2>9, <3>3, <3>4 DEF Session
  <2>11. CASE f.t = "hello" /\ HelloAnew(f)
    <3>1. ses'.phase = "syncing" /\ ses'.wire = f.wire /\ ses'.announced = f.next /\ (ses'.ready => ses'.key # NoKey)
      <4>1. CASE ses.wire = f.wire
        BY <1>0, <2>11, <4>1 DEF HelloAnew, Sessions, Session
      <4>2. CASE ses.wire # f.wire
        BY <1>0, <2>11, <4>2 DEF HelloAnew, Sessions
      <4> QED
        BY <4>1, <4>2
    <3>2. f.wire = cam.wire /\ f.wire # None /\ ghost.told <= f.next /\ n = f.next
      BY <2>2, <2>4, <2>11, ConstantsAre DEF Sent, n
    <3>3. ghost'.told <= f.next
      BY <2>6, <2>9, <3>2
    <3> QED
      BY <2>1, <2>8, <2>9, <3>1, <3>2, <3>3 DEF Session
  <2> QED
    <3>1. Hears(f)
      BY <2>1
    <3> QED
      BY <2>10, <2>11, <3>1 DEF Hears
<1>6. CASE HelloRetry \/ SendResume
  <2>1. /\ UNCHANGED <<cam, up, toPhone, ghost>> /\ (ses.phase = "hello" \/ ses.ready)
        /\ ses' = ses \/ (ses.ready /\ \E b \in BOOLEAN : ses' = [ses EXCEPT !.phase = "resumed", !.resync = b])
    <3>1. CASE HelloRetry
      BY <3>1 DEF HelloRetry
    <3>2. CASE SendResume
      BY <3>2 DEF SendResume
    <3> QED
      BY <1>6, <3>1, <3>2
  <2>4. /\ ses'.wire = ses.wire /\ ses'.key = ses.key /\ ses'.ready = ses.ready /\ ses'.announced = ses.announced
        /\ ses'.phase = ses.phase \/ (ses'.phase = "resumed" /\ ses.ready)
    BY <1>0, <2>1 DEF Sessions
  <2>2. up
    BY <1>0, <2>1 DEF Session
  <2>3. NextSeq' = NextSeq
    BY <2>1 DEF NextSeq
  <2> QED
    BY <1>0, <2>1, <2>2, <2>3, <2>4 DEF Session
<1>7. CASE HelloEnsures
  <2>1. UNCHANGED <<cam, up, toPhone, toCam>> /\ ghost'.told = ghost.told /\ T.key \in Keys /\ chain # <<>>
        /\ (ses' = ses \/ (ses.wire = T.wire /\ \E x : ses' = [ses EXCEPT !.key = T.key, !.floor = x]))
    <3> DEFINE x == StoredFloor(T.key, T.oldest)
    <3>1. ses' = ses \/ (ses.wire = T.wire /\ ses' = [ses EXCEPT !.key = T.key, !.floor = x])
      BY <1>7, HelloEnsuresIs
    <3> HIDE DEF x
    <3>2. UNCHANGED <<cam, up, toPhone, toCam>> /\ ghost'.told = ghost.told /\ T.key \in Keys /\ chain # <<>>
      BY <1>7, HelloEnsuresIs
    <3> QED
      BY <3>1, <3>2
  <2>2. T.wire # None
    <3>1. Told(T, cam) /\ T.kind # "event"
      BY <1>0, <1>7, HelloEnsuresIs, HeadIs DEF Inv
    <3> QED
      BY <3>1, ConstantsAre DEF Told
  <2>3. ses'.wire = ses.wire /\ ses'.ready = ses.ready /\ ses'.phase = ses.phase /\ ses'.announced = ses.announced
        /\ (ses'.key = ses.key \/ (ses'.key = T.key /\ ses.wire # None))
    BY <1>0, <2>1, <2>2 DEF Sessions
  <2>4. NextSeq' = NextSeq
    BY <2>1 DEF NextSeq
  <2> QED
    BY <1>0, <2>1, <2>3, <2>4, KeysAre DEF Session
<1>8. CASE HelloCounts
  <2>1. UNCHANGED <<cam, up, toPhone, toCam, ghost>> /\ chain # <<>> /\ T.step = "count" /\ (T.live \/ ses' = ses)
    BY <1>8 DEF HelloCounts, Runs, chainOnly, wires
  <2>2. T.live => ses.key # NoKey
    BY <1>0, <2>1, HeadIs DEF Inv, Of
  <2>3. ses'.wire = ses.wire /\ ses'.key = ses.key /\ ses'.phase = ses.phase /\ ses'.announced = ses.announced
    BY <1>0, <1>8 DEF HelloCounts, Sessions
  <2>4. NextSeq' = NextSeq
    BY <2>1 DEF NextSeq
  <2> QED
    BY <1>0, <2>1, <2>2, <2>3, <2>4 DEF Session
<1>9. CASE HelloLooksUp \/ SameEnsures \/ EventChecks \/ EventInserts \/ Counts \/ TaskFails \/ Prune \/ Drive
  <2>1. UNCHANGED <<cam, up, toPhone, toCam>>
    BY <1>9
       DEF HelloLooksUp, SameEnsures, EventChecks, EventInserts, Counts, TaskFails, Prune, PruneRaises,
           PruneDeletes, Drive, 
       CarRolls, DriveOpens, DriveReopens, DriveRow, DriveEnds, BeforeFinalize, Facts, chainOnly, driveOnly, wires
  <2>2. ghost'.told = ghost.told
    <3>1. Past(ghost)
      BY <1>0, TypesAre
    <3>2. CASE HelloLooksUp \/ SameEnsures \/ EventChecks \/ Counts \/ TaskFails \/ PruneDeletes
      BY <3>2 DEF HelloLooksUp, SameEnsures, EventChecks, Counts, TaskFails, PruneDeletes
    <3>3. CASE EventInserts
      BY <1>0, <3>3, EventInsertsIs
    <3>4. CASE PruneRaises
      BY <1>0, <3>4, PruneRaisesIs
    <3>5. CASE DriveRow \/ BeforeFinalize
      <4>1. Stamps => ghost'.told = ghost.told
        BY <3>1 DEF Stamps, Past
      <4> QED
        BY <3>5, <4>1 DEF DriveRow, BeforeFinalize
    <3>6. CASE CarRolls \/ DriveOpens \/ DriveEnds \/ Facts
      BY <3>6 DEF CarRolls, DriveOpens, DriveEnds, Facts
    <3>7. CASE DriveReopens
      BY <3>1, <3>7 DEF DriveReopens, Past
    <3> QED
      BY <1>9, <3>2, <3>3, <3>4, <3>5, <3>6, <3>7 DEF Prune, Drive
  <2>3. /\ ses'.wire = ses.wire /\ ses'.key = ses.key /\ ses'.ready = ses.ready /\ ses'.phase = ses.phase
        /\ ses'.announced = ses.announced
    BY <1>0, <1>9
       DEF HelloLooksUp, SameEnsures, EventChecks, EventInserts, Counts, TaskFails, Prune, PruneRaises,
           PruneDeletes, Drive, 
       CarRolls, DriveOpens, DriveReopens, DriveRow, DriveEnds, BeforeFinalize, Facts, chainOnly, driveOnly, Sessions
  <2>4. NextSeq' = NextSeq
    BY <2>1 DEF NextSeq
  <2> QED
    BY <1>0, <2>1, <2>2, <2>3, <2>4 DEF Session
<1> QED
  BY <1>1, <1>2, <1>3, <1>4, <1>5, <1>6, <1>7, <1>8, <1>9 DEF Next, Link, Phone, ChainSteps

-----------------------------------------------------------------------------
(* What each step leaves alone. *)

\* Which steps add to the history, part by part.
LEMMA HistoryIs ==
  ASSUME Inv, Next
  PROVE  /\ PhoneHears \/ LinkUp \/ ghost'.told = ghost.told
         /\ HelloEnsures \/ Wipe \/ ghost'.filed = ghost.filed
         /\ HelloEnsures \/ EventInserts \/ Wipe \/ ghost'.blind = ghost.blind
         /\ PruneRaises \/ Wipe \/ ghost'.gone = ghost.gone
         /\ DriveReopens \/ ghost'.again = ghost.again
         /\ DriveRow \/ BeforeFinalize \/ Wipe \/ ghost'.owed = ghost.owed
<1>0. Past(ghost)
  BY TypesAre DEF Inv
<1>1. CASE Cam
  BY <1>1 DEF Cam, EventHappens, CamHears, CamWaitedEnough, CamSends
<1>2. CASE LinkUp
  BY <1>0, <1>2 DEF LinkUp, Past
<1>3. CASE LinkDown \/ CamReboots \/ Kill
  BY <1>3 DEF LinkDown, CamReboots, Kill
<1>4. CASE Wipe
  BY <1>0, <1>4 DEF Wipe, Past
<1>5. CASE PhoneHears
  BY <1>0, <1>5 DEF PhoneHears, Past
<1>6. CASE HelloRetry \/ SendResume \/ HelloLooksUp \/ HelloCounts \/ SameEnsures \/ EventChecks \/ Counts \/ TaskFails
           \/ PruneDeletes
  BY <1>6
     DEF HelloRetry, SendResume, HelloLooksUp, HelloCounts, SameEnsures, EventChecks, Counts, TaskFails,
         PruneDeletes
<1>7. CASE HelloEnsures
  BY <1>7, HelloEnsuresIs
<1>8. CASE EventInserts
  BY <1>8, EventInsertsIs
<1>9. CASE PruneRaises
  BY <1>9, PruneRaisesIs DEF Inv
<1>10. CASE DriveRow \/ BeforeFinalize
  <2>1. Stamps => /\ ghost'.told = ghost.told /\ ghost'.filed = ghost.filed /\ ghost'.blind = ghost.blind
                  /\ ghost'.gone = ghost.gone /\ ghost'.again = ghost.again
    BY <1>0 DEF Stamps, Past
  <2>2. Stamps \/ ghost' = ghost
    BY <1>10 DEF DriveRow, BeforeFinalize
  <2> QED
    BY <1>10, <2>1, <2>2
<1>11. CASE CarRolls \/ DriveOpens \/ DriveEnds \/ Facts
  BY <1>11 DEF CarRolls, DriveOpens, DriveEnds, Facts
<1>12. CASE DriveReopens
  BY <1>0, <1>12 DEF DriveReopens, Past
<1> QED
  BY <1>1, <1>2, <1>3, <1>4, <1>5, <1>6, <1>7, <1>8, <1>9, <1>10, <1>11, <1>12
     DEF Next, Link, Phone, ChainSteps, Prune, Drive

\* Which steps change the tables and the drive.
LEMMA StoreIs ==
  ASSUME Next
  PROVE  /\ Wipe \/ HelloEnsures \/ SameEnsures \/ EventInserts \/ PruneRaises \/ boots' = boots
         /\ Wipe \/ EventInserts \/ PruneRaises \/ PruneDeletes \/ Facts \/ rows' = rows
         /\ Kill \/ Drive \/ trip' = trip
<1>1. CASE Cam
  BY <1>1 DEF Cam, EventHappens, CamHears, CamWaitedEnough, CamSends, db
<1>2. CASE Link
  BY <1>2 DEF Link, LinkUp, LinkDown, CamReboots, Kill, Wipe, db
<1>3. CASE Phone
  BY <1>3 DEF Phone, PhoneHears, HelloRetry, SendResume, db
<1>4. CASE ChainSteps \/ TaskFails
  BY <1>4
     DEF ChainSteps, HelloLooksUp, HelloEnsures, HelloCounts, SameEnsures, EventChecks, EventInserts, Counts,
         TaskFails, 
     chainOnly, db
<1>5. CASE Prune
  BY <1>5 DEF Prune, PruneRaises, PruneDeletes
<1>6. CASE Drive
  BY <1>6 DEF Drive, CarRolls, DriveOpens, DriveReopens, DriveRow, DriveEnds, BeforeFinalize, Facts, driveOnly
<1> QED
  BY <1>1, <1>2, <1>3, <1>4, <1>5, <1>6 DEF Next

\* Which steps change the dashcam, the frames to the phone, the chain and the session.
LEMMA SidesAre ==
  ASSUME Next
  PROVE  /\ Cam \/ CamReboots \/ cam' = cam \/ (toPhone' = <<>> /\ cam' = [cam EXCEPT !.at = Held])
         /\ CamHears \/ CamSends \/ PhoneHears \/ toPhone' = toPhone \/ (toPhone' = <<>> /\ ses' = Off)
         /\ PhoneHears \/ ChainSteps \/ TaskFails \/ chain' = chain \/ chain' = Orphaned \/ chain' = <<>>
         /\ Link \/ Phone \/ ChainSteps \/ TaskFails \/ ses' = ses
         /\ Link \/ up' = up
<1>1. CASE Cam
  BY <1>1 DEF Cam, EventHappens, CamHears, CamWaitedEnough, CamSends, wires
<1>2. CASE Link
  BY <1>2 DEF Link, LinkUp, LinkDown, CamReboots, Kill, Wipe, Unlinked
<1>3. CASE Phone
  BY <1>3 DEF Phone, PhoneHears, HelloRetry, SendResume
<1>4. CASE ChainSteps \/ TaskFails
  BY <1>4
     DEF ChainSteps, HelloLooksUp, HelloEnsures, HelloCounts, SameEnsures, EventChecks, EventInserts, Counts,
         TaskFails, 
     chainOnly, wires
<1>5. CASE Prune
  BY <1>5 DEF Prune, PruneRaises, PruneDeletes, wires
<1>6. CASE Drive
  BY <1>6
     DEF Drive, CarRolls, DriveOpens, DriveReopens, DriveRow, DriveEnds, BeforeFinalize, Facts, driveOnly, wires
<1> QED
  BY <1>1, <1>2, <1>3, <1>4, <1>5, <1>6 DEF Next

\* A dashcam that speaks and listens is the same, with the same log.
CamStays == cam'.boot = cam.boot /\ cam'.wire = cam.wire /\ cam'.log = cam.log /\ cam'.ring = cam.ring

\* A dashcam that hears or sends keeps its boot and its log.
LEMMA CamSpeaks ==
  ASSUME Types, CamHears \/ CamWaitedEnough \/ CamSends
  PROVE  CamStays
<1>0. cam \in Cams
  BY DEF Types, TypeOK
<1>1. CASE CamHears
  BY <1>0, <1>1 DEF CamHears, Cams, CamStays
<1>2. CASE CamWaitedEnough
  BY <1>0, <1>2 DEF CamWaitedEnough, Cams, CamStays
<1>3. CASE CamSends
  BY <1>0, <1>3 DEF CamSends, Cams, CamStays
<1> QED
  BY <1>1, <1>2, <1>3

\* Only an event and a power-on change the dashcam's log.
LEMMA CamKeeps ==
  ASSUME Types, Next
  PROVE  EventHappens \/ CamReboots \/ CamStays
<1>0. cam \in Cams
  BY DEF Types, TypeOK
<1>1. CASE CamHears \/ CamWaitedEnough \/ CamSends
  BY <1>1, CamSpeaks
<1>2. CASE cam' = cam \/ cam' = [cam EXCEPT !.at = Held]
  BY <1>0, <1>2 DEF Cams, CamStays
<1> QED
  BY <1>1, <1>2, SidesAre DEF Cam

-----------------------------------------------------------------------------
(* The frames on their way to the phone. *)

\* Every step keeps Flying.
LEMMA FlyingStep ==
  ASSUME Inv, Types', Next
  PROVE  Flying'
<1>0. Types /\ Flying /\ Session
  BY DEF Inv
<1>1. CASE toPhone' = <<>>
  BY <1>1 DEF Flying
<1>2. CASE PhoneHears
  <2>1. toPhone # <<>> /\ toPhone' = Tail(toPhone)
    BY <1>2 DEF PhoneHears
  <2>2. toPhone \in Seq(Hellos \cup Events) /\ Len(toPhone) = 1
    BY <1>0, <2>1, FramesAre DEF Types, TypeOK
  <2>3. Len(toPhone') = 0
    BY <2>1, <2>2, TailIs
  <2> QED
    BY <2>3 DEF Flying
<1>3. CASE CamHears \/ CamSends
  <2>1. CamStays /\ OldestOf(cam') = OldestOf(cam)
    BY <1>0, <1>3, CamSpeaks DEF CamStays, OldestOf
  <2>2. ghost'.told = ghost.told /\ Len(toPhone) = 0 /\ toPhone = <<>>
    <3>1. ghost' = ghost /\ Len(toPhone) < 1
      BY <1>3 DEF CamHears, CamSends, Air
    <3>2. toPhone = <<>>
      BY <1>0, <3>1, FramesAre
    <3> QED
      BY <3>1, <3>2
  <2>3. up /\ ghost.told <= NextSeq /\ NextSeq = Len(cam.log) /\ Oldest = OldestOf(cam)
    <3>1. up
      BY <1>0, <1>3 DEF CamHears, CamSends, Session
    <3> QED
      BY <1>0, <3>1, CamSizes DEF Session
  <2>4. Sent(Hello, cam', ghost'.told)
    <3>1. Hello.t # "event"
      BY <1>0, HelloIs
    <3> QED
      BY <1>0, <2>1, <2>2, <2>3, <3>1, HelloIs, CamSizes DEF Sent, CamStays
  <2>5. CASE toPhone' = Append(toPhone, Hello)
    <3>1. Len(toPhone') = 1 /\ toPhone'[1] = Hello
      BY <2>2, <2>5
    <3> QED
      BY <2>4, <3>1 DEF Flying
  <2>6. CASE toPhone' = Append(toPhone, [t |-> "event", seq |-> cam.at, of |-> cam.boot, in |-> cam.log[cam.at + 1]])
             /\ cam.at < NextSeq
    <3> DEFINE e == [t |-> "event", seq |-> cam.at, of |-> cam.boot, in |-> cam.log[cam.at + 1]]
    <3>1. Len(toPhone') = 1 /\ toPhone'[1] = e
      BY <2>2, <2>6
    <3>2. Sent(e, cam', ghost'.told)
      BY <2>1, <2>3, <2>6 DEF Sent, CamStays
    <3> HIDE DEF e
    <3> QED
      BY <3>1, <3>2 DEF Flying
  <2> QED
    BY <1>3, <2>5, <2>6 DEF CamHears, CamSends
<1>4. CASE toPhone' = toPhone /\ ~CamReboots /\ ~PhoneHears
  <2>1. Grown(cam, cam')
    BY <1>0, <1>4, Growing
  <2>2. CASE toPhone # <<>>
    <3>1. up
      BY <1>0, <2>2 DEF Session
    <3>2. ghost'.told = ghost.told
      BY <1>4, <3>1, HistoryIs DEF LinkUp
    <3>3. \A i \in 1 .. Len(toPhone') : toPhone'[i] \in Hellos \cup Events /\ Sent(toPhone[i], cam, ghost.told)
      BY <1>0, <1>4, FramesAre DEF Flying
    <3>4. \A f \in Hellos \cup Events : Sent(f, cam, ghost.told) => Sent(f, cam', ghost.told)
      <4>1. Len(cam.log) \in Nat /\ Len(cam'.log) \in Nat /\ OldestOf(cam) \in Int /\ OldestOf(cam') \in Int
            /\ ghost.told \in Nat
        BY <1>0, CamSizes, CamSizesNext, FramesAre
      <4> QED
        BY <2>1, <4>1, FieldsGrow
    <3> QED
      BY <1>4, <3>2, <3>3, <3>4 DEF Flying
  <2>3. CASE toPhone = <<>>
    BY <1>4, <2>3 DEF Flying
  <2> QED
    BY <2>2, <2>3
<1> QED
  BY <1>1, <1>2, <1>3, <1>4, SidesAre DEF CamReboots, Unlinked

-----------------------------------------------------------------------------
(* The chain, task by task. *)

\* A task stays what it was told, ...
Same(t, u) ==
  /\ u.kind = t.kind /\ u.of = t.of /\ u.wire = t.wire /\ u.next = t.next /\ u.oldest = t.oldest
  /\ u.seq = t.seq /\ u.in = t.in /\ u.ignored = t.ignored /\ u.rcv = t.rcv
  /\ u.live => t.live
\* ... and where it is, unless it is the first.
Kept(t, u) == Same(t, u) /\ u.step = t.step /\ u.key = t.key
Moves(q, s, k) ==
  \A i \in 1 .. Len(q) :
    /\ i + k \in 1 .. Len(s) /\ Same(s[i + k], q[i])
    /\ i > 1 \/ k = 1 => Kept(s[i + k], q[i])

\* The first task goes on to a step, with a key.
Turns(step, key) ==
  /\ Moves(chain', chain, 0) /\ chain' # <<>> /\ Len(chain') = Len(chain) /\ Same(T, chain'[1])
  /\ chain'[1].live = T.live /\ chain'[1].step = step /\ chain'[1].key = key
  /\ \A i \in 2 .. Len(chain) : chain'[i] = chain[i]

\* A task that takes a step, or a step and a key, stays what it was told.
LEMMA SameTurns ==
  ASSUME NEW t \in Tasks, NEW step, NEW key
  PROVE  /\ Same(t, [t EXCEPT !.step = step]) /\ [t EXCEPT !.step = step].live = t.live
         /\ [t EXCEPT !.step = step].step = step /\ [t EXCEPT !.step = step].key = t.key
         /\ Same(t, [t EXCEPT !.step = step, !.key = key]) /\ [t EXCEPT !.step = step, !.key = key].live = t.live
         /\ [t EXCEPT !.step = step, !.key = key].step = step /\ [t EXCEPT !.step = step, !.key = key].key = key
  BY DEF Tasks, Same

\* A task that loses its session stays where it is.
LEMMA KeptIs ==
  ASSUME NEW t \in Tasks
  PROVE  Kept(t, [t EXCEPT !.live = FALSE]) /\ [t EXCEPT !.live = FALSE].live = FALSE /\ Kept(t, t)
  BY DEF Tasks, Same, Kept

\* A chain with another first task has turned.
LEMMA FirstTurns ==
  ASSUME Types, chain # <<>>, NEW u \in Tasks, chain' = <<u>> \o Tail(chain), Same(T, u), u.live = T.live
  PROVE  Turns(u.step, u.key)
<1>1. /\ Len(chain') = Len(chain) /\ chain' # <<>> /\ chain'[1] = u /\ \A i \in 2 .. Len(chain) : chain'[i] = chain[i]
  BY ThenIs
<1>2. Len(chain) \in Nat /\ (\A i \in 1 .. Len(chain) : chain[i] \in Tasks) /\ T = chain[1]
  BY FramesAre
<1>3. ASSUME NEW i \in 1 .. Len(chain')
      PROVE  i + 0 = i /\ i \in 1 .. Len(chain) /\ Same(chain[i], chain'[i]) /\ (i > 1 => Kept(chain[i], chain'[i]))
  <2>1. CASE i = 1
    BY <1>1, <1>2, <2>1
  <2>2. CASE i > 1
    <3>1. i \in 2 .. Len(chain) /\ chain[i] \in Tasks /\ chain'[i] = chain[i]
      BY <1>1, <1>2, <2>2
    <3>2. Kept(chain[i], chain[i])
      BY <3>1, KeptIs
    <3> QED
      BY <1>1, <1>2, <2>2, <3>1, <3>2 DEF Kept
  <2> QED
    BY <2>1, <2>2, <1>1, <1>2
<1>4. Moves(chain', chain, 0)
  BY <1>3 DEF Moves
<1> QED
  BY <1>1, <1>4 DEF Turns

\* Then turns the first task to a step, ...
LEMMA ThenTurns ==
  ASSUME Types, chain # <<>>, NEW step \in {"start", "ensure", "insert", "count"}, Then(step)
  PROVE  Turns(step, T.key)
<1> DEFINE u == [T EXCEPT !.step = step]
<1>1. T \in Tasks
  BY FramesAre
<1>2. u \in Tasks /\ Same(T, u) /\ u.live = T.live /\ u.step = step /\ u.key = T.key /\ chain' = <<u>> \o Tail(chain)
  BY <1>1, TaskTakes, SameTurns DEF Then
<1> HIDE DEF u
<1> QED
  BY <1>2, FirstTurns

\* ... and ThenAs to a step with a key.
LEMMA ThenAsTurns ==
  ASSUME Types, chain # <<>>, NEW step \in {"start", "ensure", "insert", "count"}, NEW key \in Keys, ThenAs(step, key)
  PROVE  Turns(step, key)
<1> DEFINE u == [T EXCEPT !.step = step, !.key = key]
<1>1. T \in Tasks
  BY FramesAre
<1>2. u \in Tasks
  BY <1>1, TaskTakes
<1>3. Same(T, u) /\ u.live = T.live /\ u.step = step /\ u.key = key
  <2> DEFINE t == T
  <2>1. t \in Tasks
    BY <1>1
  <2>2. u = [t EXCEPT !.step = step, !.key = key]
    OBVIOUS
  <2> HIDE DEF t, u
  <2>3. Same(t, u) /\ u.live = t.live /\ u.step = step /\ u.key = key
    BY <2>1, <2>2 DEF Tasks, Same
  <2> QED
    BY <2>3 DEF t
<1>4. chain' = <<u>> \o Tail(chain)
  BY DEF ThenAs
<1> HIDE DEF u
<1> QED
  BY <1>2, <1>3, <1>4, FirstTurns

\* Done moves every other task up by one.
LEMMA DoneMoves ==
  ASSUME Types, chain # <<>>, Done
  PROVE  Moves(chain', chain, 1) /\ \A i \in 1 .. Len(chain') : i + 1 \in 2 .. Len(chain) /\ chain'[i] = chain[i + 1]
<1>1. \A i \in 1 .. Len(chain') : i + 1 \in 2 .. Len(chain) /\ chain'[i] = chain[i + 1]
  BY DoneIs
<1>2. \A i \in 1 .. Len(chain) : chain[i] \in Tasks
  BY FramesAre
<1>3. ASSUME NEW i \in 1 .. Len(chain')
      PROVE  i + 1 \in 1 .. Len(chain) /\ Kept(chain[i + 1], chain'[i])
  <2>1. i + 1 \in 1 .. Len(chain) /\ chain'[i] = chain[i + 1]
    BY <1>1
  <2> QED
    BY <1>2, <2>1, KeptIs
<1> QED
  BY <1>1, <1>3 DEF Moves, Kept

\* Orphaning leaves every task in its place, and none of them live.
LEMMA OrphansMove ==
  ASSUME Types, chain' = Orphaned
  PROVE  /\ Moves(chain', chain, 0) /\ Len(chain') = Len(chain)
         /\ \A i \in 1 .. Len(chain') : i \in 1 .. Len(chain) /\ Kept(chain[i], chain'[i]) /\ ~chain'[i].live
<1>1. Len(chain') = Len(chain) /\ Len(chain) \in Nat
      /\ \A i \in 1 .. Len(chain) : chain[i] \in Tasks /\ chain'[i] = [chain[i] EXCEPT !.live = FALSE]
  BY OrphanedIs
<1>2. ASSUME NEW i \in 1 .. Len(chain')
      PROVE  i + 0 = i /\ i \in 1 .. Len(chain) /\ Kept(chain[i], chain'[i]) /\ ~chain'[i].live
  <2> DEFINE t == chain[i]
  <2>1. i \in 1 .. Len(chain) /\ t \in Tasks /\ chain'[i] = [t EXCEPT !.live = FALSE]
    BY <1>1
  <2> HIDE DEF t
  <2>2. Kept(t, chain'[i]) /\ ~chain'[i].live
    BY <2>1, KeptIs
  <2> QED
    BY <1>1, <2>1, <2>2 DEF t
<1> QED
  BY <1>1, <1>2 DEF Moves, Kept

\* A chain that is unchanged keeps every task.
LEMMA Stays ==
  ASSUME Types, chain' = chain
  PROVE  Moves(chain', chain, 0) /\ Len(chain') = Len(chain) /\ \A i \in 1 .. Len(chain') : Kept(chain[i], chain'[i])
<1>1. Len(chain) \in Nat /\ \A i \in 1 .. Len(chain) : chain[i] \in Tasks
  BY FramesAre
<1>2. ASSUME NEW i \in 1 .. Len(chain')
      PROVE  i + 0 = i /\ i \in 1 .. Len(chain) /\ Kept(chain[i], chain'[i])
  <2>1. i + 0 = i /\ i \in 1 .. Len(chain) /\ chain[i] \in Tasks /\ chain'[i] = chain[i]
    BY <1>1
  <2>2. Kept(chain[i], chain[i])
    BY <2>1, KeptIs
  <2> QED
    BY <2>1, <2>2
<1> QED
  BY <1>2 DEF Moves, Kept

\* What each step of the chain makes of its first task.
LEMMA ChainTurns ==
  ASSUME Inv, ChainSteps \/ TaskFails
  PROVE  /\ chain # <<>> /\ T \in Tasks
         /\ \/ Done
            \/ HelloLooksUp /\ T.live /\ T.kind = "hello" /\ Turns("ensure", BootKey(T)) /\ BootKey(T) \in Keys
            \/ EventChecks /\ T.live /\ T.kind = "event" /\ ses.key \in Keys /\ Turns("insert", ses.key)
            \/ HelloEnsures /\ T.live /\ Turns("count", T.key)
            \/ SameEnsures /\ T.live /\ T.kind = "same" /\ ses.key \in Keys /\ Turns("count", ses.key)
            \/ EventInserts /\ Turns("count", T.key)
<1>0. Types /\ ses.key \in Keys \cup {NoKey}
  BY FramesAre, SessionFields DEF Inv
<1>1. chain # <<>>
  BY DEF ChainSteps, TaskFails, HelloLooksUp, HelloEnsures, HelloCounts, SameEnsures, EventChecks, EventInserts,
         Counts, Runs
<1>2. CASE HelloLooksUp /\ ~Done
  <2>1. T.live /\ T.kind = "hello" /\ ThenAs("ensure", BootKey(T))
    BY <1>2 DEF HelloLooksUp, Runs
  <2>2. BootKey(T) \in Keys
    BY <1>1, <2>1, BootKeyIs
  <2> QED
    BY <1>0, <1>1, <1>2, <2>1, <2>2, ThenAsTurns, FramesAre
<1>3. CASE EventChecks /\ ~Done
  <2>1. T.live /\ T.kind = "event" /\ ses.key # NoKey /\ ThenAs("insert", ses.key)
    BY <1>3 DEF EventChecks, Runs
  <2> QED
    BY <1>0, <1>1, <1>3, <2>1, ThenAsTurns, FramesAre
<1>4. CASE HelloEnsures /\ ~Done
  BY <1>0, <1>1, <1>4, HelloEnsuresIs, ThenTurns, FramesAre
<1>5. CASE SameEnsures /\ ~Done
  BY <1>0, <1>1, <1>5, SameEnsuresIs, ThenAsTurns, FramesAre
<1>6. CASE EventInserts
  BY <1>0, <1>1, <1>6, EventInsertsIs, ThenTurns, FramesAre
<1>7. CASE HelloCounts \/ Counts \/ TaskFails
  BY <1>0, <1>1, <1>7, FramesAre DEF HelloCounts, Counts, TaskFails
<1> QED
  BY <1>0, <1>1, <1>2, <1>3, <1>4, <1>5, <1>6, <1>7, FramesAre DEF ChainSteps

\* Every other step of the chain than a frame's arrival moves it.
LEMMA ChainMoves ==
  ASSUME Inv, Next, ~PhoneHears
  PROVE  \E k \in {0, 1} : Moves(chain', chain, k)
<1>0. Types
  BY DEF Inv
<1>1. CASE ChainSteps \/ TaskFails
  BY <1>0, <1>1, ChainTurns, DoneMoves DEF Turns
<1>2. CASE chain' = <<>>
  BY <1>2 DEF Moves
<1> QED
  BY <1>0, <1>1, <1>2, OrphansMove, Stays, SidesAre

\* A task's step is one that its kind has.
Fits(t) == (t.step = "ensure" => t.kind = "hello") /\ (t.step = "insert" => t.kind = "event")

\* A task that goes on was told the same.
LEMMA ToldMoves ==
  ASSUME NEW t \in Tasks, NEW u \in Tasks, NEW c, Told(t, c), Same(t, u), Fits(u)
  PROVE  Told(u, c)
  BY DEF Told, Same, Fits, Reach

\* Only a HELLO's task ensures, and only an event's inserts, after every step.
LEMMA FitsStep ==
  ASSUME Inv, Next, ~PhoneHears
  PROVE  \A i \in 1 .. Len(chain') : Fits(chain'[i])
<1>0. Types /\ Waiting /\ Len(chain) \in Nat
  BY FramesAre DEF Inv
<1>1. \A i \in 1 .. Len(chain) : Fits(chain[i])
  BY <1>0 DEF Waiting, Told, Fits
<1>2. CASE Done /\ chain # <<>>
  <2>1. ASSUME NEW i \in 1 .. Len(chain')
        PROVE  Fits(chain'[i])
    <3>1. i + 1 \in 2 .. Len(chain) /\ chain'[i] = chain[i + 1]
      BY <1>0, <1>2, DoneMoves
    <3>2. i + 1 \in 1 .. Len(chain)
      BY <3>1
    <3> QED
      BY <1>1, <3>1, <3>2
  <2> QED
    BY <2>1
<1>3. ASSUME NEW step, NEW key, Turns(step, key), step = "ensure" => T.kind = "hello",
             step = "insert" => T.kind = "event"
      PROVE  \A i \in 1 .. Len(chain') : Fits(chain'[i])
  <2>1. Fits(chain'[1])
    BY <1>3 DEF Turns, Same, Fits
  <2>2. \A i \in 2 .. Len(chain) : chain'[i] = chain[i] /\ Fits(chain[i])
    BY <1>1, <1>3 DEF Turns
  <2>3. Len(chain') = Len(chain)
    BY <1>3 DEF Turns
  <2>4. \A i \in 1 .. Len(chain') : i = 1 \/ i \in 2 .. Len(chain)
    BY <1>0, <2>3
  <2> QED
    BY <2>1, <2>2, <2>4
<1>4. CASE ChainSteps \/ TaskFails
  BY <1>2, <1>3, <1>4, ChainTurns
<1>5. CASE chain' = chain \/ chain' = Orphaned
  <2>1. \A i \in 1 .. Len(chain') : i \in 1 .. Len(chain) /\ Kept(chain[i], chain'[i])
    BY <1>0, <1>5, Stays, OrphansMove
  <2> QED
    BY <1>1, <2>1 DEF Kept, Same, Fits
<1>6. CASE chain' = <<>>
  BY <1>6
<1> QED
  BY <1>4, <1>5, <1>6, SidesAre

\* What the tasks of the chain were told stays so, whatever step but a frame's arrival.
LEMMA ToldStep ==
  ASSUME Inv, Types', Next, ~PhoneHears
  PROVE  \A i \in 1 .. Len(chain') : Told(chain'[i], cam')
<1>0. Types /\ Waiting
  BY DEF Inv
<1>1. PICK k \in {0, 1} : Moves(chain', chain, k)
  BY ChainMoves
<1>2. ASSUME NEW t \in Tasks, Told(t, cam)
      PROVE  Told(t, cam')
  <2>1. CASE ~CamReboots
    <3>1. Grown(cam, cam')
      BY <1>0, <2>1, Growing
    <3>2. Len(cam.log) \in Nat /\ Len(cam'.log) \in Nat /\ OldestOf(cam) \in Int /\ OldestOf(cam') \in Int
      BY <1>0, CamSizes, CamSizesNext
    <3> QED
      BY <1>2, <3>1, <3>2, FieldsGrow
  <2>2. CASE CamReboots
    <3>1. cam'.boot = cam.boot + 1
      BY <1>0, <2>2 DEF CamReboots, Types, TypeOK, Cams
    <3>2. cam.boot \in Nat /\ t.of \in Int
      BY <1>0, CamSizes DEF Tasks
    <3>3. t.of < cam'.boot
      BY <1>2, <3>1, <3>2 DEF Told
    <3> QED
      BY <1>2, <3>2, <3>3, CamSizesNext DEF Told
  <2> QED
    BY <2>1, <2>2
<1>3. ASSUME NEW i \in 1 .. Len(chain')
      PROVE  Told(chain'[i], cam')
  <2>1. i + k \in 1 .. Len(chain) /\ Same(chain[i + k], chain'[i])
    BY <1>1 DEF Moves
  <2>2. chain[i + k] \in Tasks /\ chain'[i] \in Tasks /\ Told(chain[i + k], cam)
    BY <1>0, <2>1, FramesAre, FramesAreNext DEF Waiting
  <2>3. Fits(chain'[i])
    BY FitsStep
  <2> QED
    BY <1>2, <2>1, <2>2, <2>3, ToldMoves
<1> QED
  BY <1>3

\* What the chain's steps make of the session.
LEMMA SessionTurns ==
  ASSUME Inv, ChainSteps \/ TaskFails
  PROVE  /\ ses'.wire = ses.wire /\ UNCHANGED <<cam, up>>
         /\ \/ (HelloEnsures \/ HelloCounts) /\ T.live /\ T.kind = "hello"
            \/ ses'.key = ses.key /\ ses'.ready = ses.ready
         /\ HelloEnsures => ses'.ready = ses.ready
<1>0. ses \in Sessions
  BY FramesAre DEF Inv
<1>1. CASE HelloLooksUp \/ EventChecks \/ EventInserts
  BY <1>1 DEF HelloLooksUp, EventChecks, EventInserts, chainOnly, HelloEnsures, Runs
<1>2. CASE HelloEnsures
  <2> DEFINE x == StoredFloor(T.key, T.oldest)
  <2>1. (T.live /\ ses' = [ses EXCEPT !.key = T.key, !.floor = x]) \/ ses' = ses
    BY <1>2, HelloEnsuresIs
  <2> HIDE DEF x
  <2>2. ses'.wire = ses.wire /\ ses'.ready = ses.ready /\ (ses'.key = ses.key \/ T.live)
    BY <1>0, <2>1 DEF Sessions
  <2>3. T.kind = "hello" /\ UNCHANGED <<cam, up>>
    BY <1>2, HelloEnsuresIs
  <2> QED
    BY <1>2, <2>2, <2>3
<1>3. CASE HelloCounts
  <2> DEFINE x == Cursor(T.key, ses.floor)
  <2>1. (T.live /\ ses' = [ses EXCEPT !.cursor = x, !.ready = TRUE]) \/ ses' = ses
    BY <1>3 DEF HelloCounts
  <2> HIDE DEF x
  <2>2. ses'.wire = ses.wire /\ ses'.key = ses.key /\ (ses'.ready = ses.ready \/ T.live)
    BY <1>0, <2>1 DEF Sessions
  <2>3. T.kind = "hello" /\ UNCHANGED <<cam, up>> /\ ~HelloEnsures
    BY <1>3 DEF HelloCounts, Runs, chainOnly, HelloEnsures
  <2> QED
    BY <1>3, <2>2, <2>3
<1>4. CASE SameEnsures
  <2> DEFINE x == StoredFloor(ses.key, T.oldest)
  <2>1. ses' = [ses EXCEPT !.floor = x] \/ ses' = ses
    BY <1>4, SameEnsuresIs
  <2> HIDE DEF x
  <2>2. ses'.wire = ses.wire /\ ses'.key = ses.key /\ ses'.ready = ses.ready
    BY <1>0, <2>1 DEF Sessions
  <2> QED
    BY <1>4, <2>2, SameEnsuresIs
<1>5. CASE Counts
  <2> DEFINE x == Cursor(T.key, ses.floor)
  <2>1. ses' = [ses EXCEPT !.cursor = x] \/ ses' = ses
    BY <1>5 DEF Counts
  <2> HIDE DEF x
  <2>2. ses'.wire = ses.wire /\ ses'.key = ses.key /\ ses'.ready = ses.ready
    BY <1>0, <2>1 DEF Sessions
  <2> QED
    BY <1>5, <2>2 DEF Counts, chainOnly
<1>6. CASE TaskFails
  <2>1. ses'.wire = ses.wire /\ ses'.key = ses.key /\ ses'.ready = ses.ready
    BY <1>0, <1>6 DEF Sessions, TaskFails
  <2> QED
    BY <1>6, <2>1 DEF TaskFails
<1> QED
  BY <1>1, <1>2, <1>3, <1>4, <1>5, <1>6 DEF ChainSteps

\* A task not yet begun, and one as far as it was, is of the session's dashcam as long as the session's key is.
LEMMA OfKeeps ==
  ASSUME NEW t \in Tasks, NEW u \in Tasks, NEW s, NEW z, NEW c, NEW d, NEW b, Of(t, s, b, c), Kept(t, u),
         z.wire = s.wire, d.boot = c.boot,
         (z.key = s.key /\ z.ready = s.ready) \/ (t.step = "start" /\ t.kind # "hello")
  PROVE  Of(u, z, b, d)
  BY DEF Of, Kept, Same

\* The live tasks stay the session's, whatever step of the chain.
LEMMA OfTurns ==
  ASSUME Inv, Types', ChainSteps \/ TaskFails, NEW i \in 1 .. Len(chain'), chain'[i].live
  PROVE  Of(chain'[i], ses', up', cam')
<1>0. /\ Types /\ Waiting /\ InOrder /\ chain # <<>> /\ T \in Tasks /\ T = chain[1] /\ 1 \in 1 .. Len(chain)
      /\ Len(chain) \in Nat
      /\ UNCHANGED <<cam, up>> /\ (T.live => Of(T, ses, up, cam))
  BY ChainTurns, SessionTurns, FramesAre, HeadIs DEF Inv
<1>1. ASSUME NEW j \in 2 .. Len(chain), Kept(chain[j], chain'[i])
      PROVE  Of(chain'[i], ses', up', cam')
  <2>1. j \in 1 .. Len(chain) /\ 1 < j
    BY <1>0
  <2>2. chain[j].live
    BY <1>1 DEF Kept, Same
  <2>3. Behind(chain[1], chain[j]) /\ chain[j] \in Tasks /\ chain'[i] \in Tasks /\ Of(chain[j], ses, up, cam)
    BY <1>0, <2>1, <2>2, FramesAre, FramesAreNext DEF InOrder, Waiting
  <2>4. chain[j].step = "start" /\ (chain[j].kind # "hello" \/ ~(T.live /\ T.kind = "hello"))
    BY <1>0, <2>2, <2>3 DEF Behind
  <2>5. ses'.wire = ses.wire /\ ((T.live /\ T.kind = "hello") \/ (ses'.key = ses.key /\ ses'.ready = ses.ready))
    BY SessionTurns
  <2> QED
    BY <1>0, <1>1, <2>3, <2>4, <2>5, OfKeeps
<1>2. CASE Done
  <2>1. i + 1 \in 2 .. Len(chain) /\ chain'[i] = chain[i + 1]
    BY <1>0, <1>2, DoneMoves
  <2>2. Kept(chain[i + 1], chain'[i])
    <3>1. i + 1 \in 1 .. Len(chain)
      BY <2>1
    <3>2. chain[i + 1] \in Tasks
      BY <1>0, <3>1, FramesAre
    <3>3. Kept(chain[i + 1], chain[i + 1])
      BY <3>2, KeptIs
    <3> QED
      BY <2>1, <3>3
  <2> QED
    BY <1>1, <2>1, <2>2
<1>3. ASSUME NEW step, NEW key, Turns(step, key), i # 1
      PROVE  Of(chain'[i], ses', up', cam')
  <2>1. i \in 2 .. Len(chain) /\ i + 0 = i
    BY <1>0, <1>3 DEF Turns
  <2>2. Kept(chain[i], chain'[i])
    BY <1>3, <2>1 DEF Turns, Moves
  <2> QED
    BY <1>1, <2>1, <2>2
<1>4. ASSUME NEW step, NEW key, Turns(step, key), i = 1, T.live,
             \/ step = "ensure" /\ T.kind = "hello" /\ HelloLooksUp
             \/ key \in Keys /\ ses'.key = key /\ ses'.ready = ses.ready
                /\ (step = "count" \/ (step = "insert" /\ T.kind # "hello"))
      PROVE  Of(chain'[i], ses', up', cam')
  <2>1. Same(T, chain'[1]) /\ chain'[1].step = step /\ chain'[1].key = key /\ Of(T, ses, up, cam)
    BY <1>0, <1>4 DEF Turns
  <2>2. CASE step = "ensure" /\ T.kind = "hello" /\ HelloLooksUp
    <3>1. T.step = "start" /\ ses' = ses
      BY <2>2 DEF HelloLooksUp, Runs
    <3> QED
      BY <1>0, <1>4, <2>1, <2>2, <3>1 DEF Of, Same
  <2>3. CASE /\ key \in Keys /\ ses'.key = key /\ ses'.ready = ses.ready
             /\ (step = "count" \/ (step = "insert" /\ T.kind # "hello"))
    <3>1. key # NoKey /\ ses'.wire = ses.wire
      BY <2>3, KeysAre, SessionTurns
    <3> QED
      BY <1>0, <1>4, <2>1, <2>3, <3>1 DEF Of, Same
  <2> QED
    BY <1>4, <2>2, <2>3
<1>5. CASE HelloLooksUp /\ T.live /\ T.kind = "hello" /\ Turns("ensure", BootKey(T)) /\ i = 1
  BY <1>4, <1>5
<1>6. CASE EventChecks /\ T.live /\ T.kind = "event" /\ ses.key \in Keys /\ Turns("insert", ses.key) /\ i = 1
  <2>1. ses' = ses
    BY <1>6 DEF EventChecks
  <2> QED
    BY <1>4, <1>6, <2>1
<1>7. CASE HelloEnsures /\ T.live /\ Turns("count", T.key) /\ i = 1
  <2> DEFINE x == StoredFloor(T.key, T.oldest)
  <2>1. T.kind = "hello" /\ T.key \in Keys
    BY <1>7, HelloEnsuresIs
  <2>2. ses.wire = T.wire
    BY <1>0, <1>7, <2>1 DEF Of
  <2>3. ses' = [ses EXCEPT !.key = T.key, !.floor = x]
    BY <1>7, <2>2, HelloEnsuresIs
  <2> HIDE DEF x
  <2>4. ses'.key = T.key /\ ses'.ready = ses.ready
    BY <1>0, <2>3, FramesAre DEF Sessions
  <2> QED
    BY <1>4, <1>7, <2>1, <2>4
<1>8. CASE SameEnsures /\ T.live /\ T.kind = "same" /\ ses.key \in Keys /\ Turns("count", ses.key) /\ i = 1
  <2>1. ses'.key = ses.key /\ ses'.ready = ses.ready
    BY <1>8, SessionTurns
  <2> QED
    BY <1>4, <1>8, <2>1
<1>9. CASE EventInserts /\ Turns("count", T.key) /\ i = 1
  <2>1. T.live
    BY <1>9 DEF Turns
  <2>2. ses' = ses /\ T.step = "insert" /\ T.key \in Keys
    BY <1>9, EventInsertsIs
  <2>3. T.key = ses.key
    BY <1>0, <2>1, <2>2 DEF Of
  <2> QED
    BY <1>4, <1>9, <2>1, <2>2, <2>3
<1> QED
  BY <1>2, <1>3, <1>5, <1>6, <1>7, <1>8, <1>9, ChainTurns

\* The frame that arrives becomes a task of the session's.
LEMMA HeardIs ==
  ASSUME Inv, PhoneHears
  PROVE  \E u \in Tasks :
           /\ chain' = Append(chain, u) /\ u.live /\ u.step = "start" /\ u.of = cam.boot /\ Told(u, cam)
           /\ Of(u, ses', up, cam) /\ ses'.floor = ses.floor
           /\ \A i \in 1 .. Len(chain) : chain[i].live => Of(chain[i], ses', up, cam) /\ ~(u.kind = "hello" /\ chain[i].kind = "hello")
           /\ ses'.key = ses.key /\ ses'.ready = ses.ready /\ ses'.cursor = ses.cursor
           /\ u.kind # "event" => toPhone[1].t = "hello" /\ toPhone[1].next = u.next
           /\ u.kind = "event" => toPhone[1] \in Events /\ HeardEvent(toPhone[1], u)
<1> DEFINE f == toPhone[1]
<1>0. Types /\ Session /\ ses \in Sessions /\ Waiting
  BY FramesAre DEF Inv
<1>1. f \in Hellos \cup Events /\ toPhone # <<>> /\ Hears(f) /\ UNCHANGED <<cam, up>>
  BY <1>0, HearsIs
<1>2. Sent(f, cam, ghost.told) /\ up
  BY <1>0, <1>1, FramesAre DEF Inv, Flying, Session
<1> HIDE DEF f
<1>3. ASSUME ses'.wire = ses.wire, ses'.key = ses.key, ses'.ready = ses.ready
      PROVE  \A i \in 1 .. Len(chain) : chain[i].live => Of(chain[i], ses', up, cam)
  <2>1. ASSUME NEW i \in 1 .. Len(chain), chain[i].live
        PROVE  Of(chain[i], ses', up, cam)
    <3>1. chain[i] \in Tasks /\ Of(chain[i], ses, up, cam)
      BY <1>0, <2>1, FramesAre DEF Waiting
    <3>2. Kept(chain[i], chain[i])
      BY <3>1, KeptIs
    <3> QED
      BY <1>3, <3>1, <3>2, OfKeeps
  <2> QED
    BY <2>1
<1>4. CASE f.t = "event" /\ OnEvent(f)
  <2> DEFINE u == [Task("event") EXCEPT !.seq = f.seq, !.of = f.of, !.in = f.in, !.ignored = ~DriveOpen, !.rcv = Opened]
             n == Max({ses.announced, f.seq + 1})
  <2>1. f \in Events
    BY <1>1, <1>4 DEF Hellos, Events
  <2>2. HeardEvent(f, u) /\ chain' = Append(chain, u)
    BY <1>0, <1>4, <2>1, EventIs DEF OnEvent
  <2>3. ses' = [ses EXCEPT !.announced = n]
    BY <1>4 DEF OnEvent
  <2> HIDE DEF u, n
  <2>4. /\ ses'.wire = ses.wire /\ ses'.key = ses.key /\ ses'.ready = ses.ready /\ ses'.cursor = ses.cursor
        /\ ses'.floor = ses.floor
    BY <1>0, <2>3 DEF Sessions
  <2>5. u \in Tasks /\ u.kind = "event" /\ u.live /\ u.step = "start" /\ u.of = cam.boot
    BY <1>2, <2>2 DEF HeardEvent, Sent
  <2>6. Told(u, cam)
    <3>1. f.seq \in 0 .. MaxEvents - 1 /\ f.seq < Len(cam.log) /\ f.in = cam.log[f.seq + 1]
      BY <1>2, <1>4, <2>1 DEF Sent, Events
    <3>2. Reach(u) <= Len(cam.log) /\ u.seq < MaxEvents /\ u.of <= cam.boot
      BY <1>0, <2>2, <2>5, <3>1, CamSizes, ConstantsAre DEF HeardEvent, Reach
    <3> QED
      BY <2>2, <2>5, <3>1, <3>2 DEF Told, HeardEvent
  <2>7. Of(u, ses', up, cam)
    BY <1>2, <2>5 DEF Of
  <2> QED
    BY <1>3, <2>1, <2>2, <2>4, <2>5, <2>6, <2>7 DEF f
<1>5. ASSUME NEW k \in {"same", "hello"}, f.t = "hello", chain' = Append(chain, Greeting(k, f)),
             ses'.wire = f.wire, ses'.key = ses.key, ses'.ready = ses.ready, ses'.cursor = ses.cursor, ses'.floor = ses.floor,
             k = "hello" => ses.key = NoKey /\ ses.ready = FALSE,
             \A i \in 1 .. Len(chain) : chain[i].live => Of(chain[i], ses', up, cam) /\ ~(k = "hello" /\ chain[i].kind = "hello")
      PROVE  \E u \in Tasks :
           /\ chain' = Append(chain, u) /\ u.live /\ u.step = "start" /\ u.of = cam.boot /\ Told(u, cam)
           /\ Of(u, ses', up, cam) /\ ses'.floor = ses.floor
           /\ \A i \in 1 .. Len(chain) : chain[i].live => Of(chain[i], ses', up, cam) /\ ~(u.kind = "hello" /\ chain[i].kind = "hello")
           /\ ses'.key = ses.key /\ ses'.ready = ses.ready /\ ses'.cursor = ses.cursor
           /\ u.kind # "event" => f.t = "hello" /\ f.next = u.next
           /\ u.kind = "event" => f \in Events /\ HeardEvent(f, u)
  <2> DEFINE u == Greeting(k, f)
  <2>1. f \in Hellos
    BY <1>1, <1>5 DEF Hellos, Events
  <2>2. /\ u \in Tasks /\ u.kind = k /\ u.live = TRUE /\ u.step = "start" /\ u.wire = f.wire /\ u.next = f.next
        /\ u.oldest = f.oldest /\ u.of = f.of
    <3>1. f \in Hellos => \A j \in {"hello", "same"} :
            /\ Greeting(j, f) \in Tasks /\ Greeting(j, f).kind = j /\ Greeting(j, f).live = TRUE
            /\ Greeting(j, f).step = "start" /\ Greeting(j, f).wire = f.wire /\ Greeting(j, f).next = f.next
            /\ Greeting(j, f).oldest = f.oldest /\ Greeting(j, f).of = f.of
      BY GreetingIs
    <3> QED
      BY <2>1, <3>1
  <2>3. chain' = Append(chain, u)
    BY <1>5
  <2> HIDE DEF u
  <2>4. /\ u.of = cam.boot /\ u.next <= Len(cam.log) /\ u.oldest <= OldestOf(cam) /\ u.wire \in WireIds
        /\ cam.boot \in Nat
    BY <1>0, <1>2, <1>5, <2>1, <2>2, CamSizes DEF Sent, Hellos
  <2>5. Told(u, cam)
    BY <2>2, <2>4 DEF Told, Reach
  <2>6. Of(u, ses', up, cam)
    BY <1>2, <1>5, <2>2, <2>4 DEF Of
  <2> QED
    BY <1>5, <2>2, <2>3, <2>4, <2>5, <2>6
<1>6. CASE f.t = "hello" /\ ses.wire = f.wire /\ HelloAgain(f)
  <2> DEFINE n == Max({ses.announced, f.next})
  <2>1. ses' = [ses EXCEPT !.announced = n] /\ chain' = Append(chain, Greeting("same", f))
    BY <1>6 DEF HelloAgain
  <2> HIDE DEF n
  <2>2. /\ ses'.wire = ses.wire /\ ses'.key = ses.key /\ ses'.ready = ses.ready /\ ses'.cursor = ses.cursor
        /\ ses'.floor = ses.floor
    BY <1>0, <2>1 DEF Sessions
  <2> QED
    BY <1>3, <1>5, <1>6, <2>1, <2>2 DEF f
<1>7. CASE f.t = "hello" /\ ~(ses.wire = f.wire /\ ses.phase # "hello") /\ HelloAnew(f)
  <2>1. ses.wire = None /\ ses.key = NoKey /\ ses.ready = FALSE /\ f.wire # None
    <3>1. f.wire = cam.wire /\ cam.wire \in WireIds /\ cam.wire # None
      BY <1>0, <1>2, <1>7, CamIs, ConstantsAre DEF Sent
    <3>2. ses.wire = None
      BY <1>0, <1>7, <3>1 DEF Session
    <3> QED
      BY <1>0, <3>1, <3>2 DEF Session, Sessions
  <2>2. ses' = [[ses EXCEPT !.key = NoKey, !.ready = FALSE] EXCEPT !.phase = "syncing", !.wire = f.wire, !.announced = f.next]
        /\ chain' = Append(chain, Greeting("hello", f))
    BY <1>7, <2>1 DEF HelloAnew
  <2>3. /\ ses'.wire = f.wire /\ ses'.key = ses.key /\ ses'.ready = ses.ready /\ ses'.cursor = ses.cursor
        /\ ses'.floor = ses.floor
    BY <1>0, <2>1, <2>2 DEF Sessions
  <2>4. ASSUME NEW i \in 1 .. Len(chain), chain[i].live
        PROVE  Of(chain[i], ses', up, cam) /\ chain[i].kind # "hello"
    <3>1. Told(chain[i], cam) /\ Of(chain[i], ses, up, cam)
      BY <1>0, <2>4 DEF Waiting
    <3>2. chain[i].kind = "event"
      BY <2>1, <3>1, ConstantsAre DEF Told, Of
    <3> QED
      BY <2>1, <3>1, <3>2 DEF Of
  <2> QED
    BY <1>5, <1>7, <2>1, <2>2, <2>3, <2>4 DEF f
<1> QED
  BY <1>1, <1>4, <1>6, <1>7 DEF Hears

\* After a frame's arrival, the chain is what it was and one task more.
LEMMA LongerIs ==
  ASSUME Types, NEW u \in Tasks, chain' = Append(chain, u)
  PROVE  /\ Len(chain) \in Nat /\ Len(chain') = Len(chain) + 1 /\ chain' # <<>> /\ chain'[Len(chain')] = u
         /\ \A i \in 1 .. Len(chain') : i = Len(chain') \/ (i \in 1 .. Len(chain) /\ chain'[i] = chain[i])
         /\ chain = <<>> => T' = u
         /\ chain # <<>> => T' = T
<1>1. chain \in Seq(Tasks)
  BY DEF Types, TypeOK
<1>2. /\ Len(chain) \in Nat /\ Len(chain') = Len(chain) + 1 /\ chain'[Len(chain) + 1] = u
      /\ \A i \in 1 .. Len(chain) : chain'[i] = chain[i]
  BY <1>1, AppendIs
<1>3. \A i \in 1 .. Len(chain') : i = Len(chain') \/ i \in 1 .. Len(chain)
  BY <1>2
<1>4. chain' # <<>> /\ T' = chain'[1]
  BY <1>1 DEF T
<1>5. chain = <<>> => T' = u
  BY <1>1, <1>2, <1>4
<1>6. chain # <<>> => T' = T
  <2>1. chain # <<>> => 1 \in 1 .. Len(chain) /\ T = chain[1]
    BY <1>1, FramesAre
  <2> QED
    BY <1>2, <1>4, <2>1
<1> QED
  BY <1>2, <1>3, <1>4, <1>5, <1>6

\* Every step keeps Waiting.
LEMMA WaitingStep ==
  ASSUME Inv, Types', Next
  PROVE  Waiting'
<1>0. Types /\ Waiting
  BY DEF Inv
<1>1. CASE PhoneHears
  <2>1. PICK u \in Tasks :
           /\ chain' = Append(chain, u) /\ Told(u, cam) /\ Of(u, ses', up, cam)
           /\ \A i \in 1 .. Len(chain) : chain[i].live => Of(chain[i], ses', up, cam)
    BY <1>1, HeardIs
  <2>2. UNCHANGED <<cam, up>>
    BY <1>1 DEF PhoneHears
  <2>3. ASSUME NEW i \in 1 .. Len(chain')
        PROVE  Told(chain'[i], cam') /\ (chain'[i].live => Of(chain'[i], ses', up', cam'))
    <3>1. chain'[i] = u \/ (i \in 1 .. Len(chain) /\ chain'[i] = chain[i])
      BY <1>0, <2>1, LongerIs
    <3> QED
      BY <1>0, <2>1, <2>2, <3>1 DEF Waiting
  <2> QED
    BY <2>3 DEF Waiting
<1>2. ASSUME ~PhoneHears, NEW i \in 1 .. Len(chain'), chain'[i].live
      PROVE  Of(chain'[i], ses', up', cam')
  <2>1. CASE ChainSteps \/ TaskFails
    BY <1>2, <2>1, OfTurns
  <2>2. CASE chain' = Orphaned \/ chain' = <<>>
    BY <1>0, <1>2, <2>2, OrphansMove
  <2>3. CASE chain' = chain
    <3>1. i \in 1 .. Len(chain) /\ chain[i] \in Tasks /\ Of(chain[i], ses, up, cam) /\ Kept(chain[i], chain[i])
      BY <1>0, <1>2, <2>3, FramesAre, KeptIs DEF Waiting
    <3>2. CASE Link
      <4>1. LinkUp \/ (chain' = Orphaned \/ chain' = <<>>)
        BY <3>2 DEF Link, LinkDown, CamReboots, Kill, Wipe
      <4>2. up
        BY <3>1 DEF Of
      <4> QED
        BY <2>2, <4>1, <4>2 DEF LinkUp
    <3>3. CASE ~Link /\ ~(ChainSteps \/ TaskFails)
      <4>1. up' = up /\ cam'.boot = cam.boot
        <5>1. up' = up /\ ~CamReboots
          BY <3>3, SidesAre DEF Link
        <5> QED
          BY <1>0, <5>1, Growing DEF Grown
      <4>2. ses'.wire = ses.wire /\ ses'.key = ses.key /\ ses'.ready = ses.ready
        <5>1. CASE HelloRetry
          BY <5>1 DEF HelloRetry
        <5>2. CASE SendResume
          <6>1. PICK b \in BOOLEAN : ses' = [ses EXCEPT !.phase = "resumed", !.resync = b]
            BY <5>2 DEF SendResume
          <6> QED
            BY <1>0, <6>1, FramesAre DEF Sessions
        <5>3. CASE ses' = ses
          BY <5>3
        <5> QED
          BY <1>2, <3>3, <5>1, <5>2, <5>3, SidesAre DEF Phone
      <4> QED
        BY <2>3, <3>1, <4>1, <4>2, OfKeeps
    <3> QED
      BY <2>1, <3>2, <3>3
  <2> QED
    BY <1>2, <2>1, <2>2, <2>3, SidesAre
<1>3. CASE ~PhoneHears
  BY <1>2, <1>3, ToldStep DEF Waiting
<1> QED
  BY <1>1, <1>3

\* Every step keeps InOrder.
LEMMA OrderStep ==
  ASSUME Inv, Types', Next
  PROVE  InOrder'
<1>0. Types /\ InOrder /\ Waiting /\ InFront
  BY DEF Inv
<1>1. CASE PhoneHears
  <2>1. PICK u \in Tasks :
           /\ chain' = Append(chain, u) /\ u.step = "start" /\ u.of = cam.boot
           /\ \A i \in 1 .. Len(chain) : chain[i].live => ~(u.kind = "hello" /\ chain[i].kind = "hello")
           /\ u.kind # "event" => toPhone[1].t = "hello" /\ toPhone[1].next = u.next
    BY <1>1, HeardIs
  <2>2. ASSUME NEW i \in 1 .. Len(chain)
        PROVE  Behind(chain[i], u)
    <3>1. Told(chain[i], cam) /\ chain[i] \in Tasks
      BY <1>0, FramesAre DEF Waiting
    <3>2. chain[i].of <= u.of
      BY <2>1, <3>1 DEF Told
    <3>3. u.kind # "event" /\ chain[i].of = u.of => Reach(chain[i]) <= u.next
      <4>1. 1 \in 1 .. Len(toPhone)
        BY <1>0, <1>1, HearsIs
      <4> QED
        BY <1>0, <2>1, <4>1 DEF InFront
    <3> QED
      BY <2>1, <3>2, <3>3 DEF Behind
  <2>3. ASSUME NEW i \in 1 .. Len(chain'), NEW j \in 1 .. Len(chain'), i < j
        PROVE  Behind(chain'[i], chain'[j])
    <3>1. Len(chain) \in Nat /\ Len(chain') = Len(chain) + 1 /\ chain'[Len(chain')] = u
      BY <1>0, <2>1, LongerIs
    <3>2. i # Len(chain')
      BY <2>3, <3>1
    <3>3. i \in 1 .. Len(chain) /\ chain'[i] = chain[i]
      BY <1>0, <2>1, <3>2, LongerIs
    <3>4. j = Len(chain') \/ (j \in 1 .. Len(chain) /\ chain'[j] = chain[j])
      BY <1>0, <2>1, LongerIs
    <3> QED
      BY <1>0, <2>2, <2>3, <3>1, <3>3, <3>4 DEF InOrder
  <2> QED
    BY <2>3 DEF InOrder
<1>2. CASE ~PhoneHears
  <2>1. PICK k \in {0, 1} : Moves(chain', chain, k)
    BY <1>2, ChainMoves
  <2>2. ASSUME NEW i \in 1 .. Len(chain'), NEW j \in 1 .. Len(chain'), i < j
        PROVE  Behind(chain'[i], chain'[j])
    <3>1. i + k \in 1 .. Len(chain) /\ j + k \in 1 .. Len(chain) /\ i + k < j + k /\ j > 1
      <4>1. i + k \in 1 .. Len(chain) /\ j + k \in 1 .. Len(chain)
        BY <2>1 DEF Moves
      <4>2. i \in Nat /\ j \in Nat /\ i >= 1
        BY FramesAreNext
      <4> QED
        BY <2>2, <4>1, <4>2
    <3>2. Same(chain[i + k], chain'[i]) /\ Kept(chain[j + k], chain'[j])
      BY <2>1, <3>1 DEF Moves
    <3>3. Behind(chain[i + k], chain[j + k])
      BY <1>0, <3>1 DEF InOrder
    <3> QED
      BY <3>2, <3>3 DEF Behind, Kept, Same, Reach
  <2> QED
    BY <2>2 DEF InOrder
<1> QED
  BY <1>1, <1>2

\* Every step keeps InFront.
LEMMA FrontStep ==
  ASSUME Inv, Types', Next
  PROVE  InFront'
<1>0. Types /\ InFront
  BY DEF Inv
<1>1. CASE toPhone' = <<>>
  BY <1>1 DEF InFront
<1>2. CASE PhoneHears
  <2>1. toPhone # <<>> /\ toPhone' = Tail(toPhone)
    BY <1>2 DEF PhoneHears
  <2>2. toPhone \in Seq(Hellos \cup Events) /\ Len(toPhone) = 1
    BY <1>0, <2>1, FramesAre DEF Types, TypeOK
  <2>3. Len(toPhone') = 0
    BY <2>1, <2>2, TailIs
  <2> QED
    BY <2>3 DEF InFront
<1>3. CASE CamHears \/ CamSends
  <2>1. Waiting' /\ Flying'
    BY WaitingStep, FlyingStep
  <2>2. ASSUME NEW i \in 1 .. Len(chain'), NEW j \in 1 .. Len(toPhone'), toPhone'[j].t = "hello",
               chain'[i].of = cam'.boot
        PROVE  Reach(chain'[i]) <= toPhone'[j].next
    <3>1. Reach(chain'[i]) <= Len(cam'.log)
      BY <2>1, <2>2 DEF Waiting, Told
    <3>2. toPhone'[j].next = Len(cam'.log)
      <4>1. Len(toPhone) = 0 /\ toPhone = <<>>
        <5>1. Len(toPhone) < 1
          BY <1>3 DEF CamHears, CamSends, Air
        <5> QED
          BY <1>0, <5>1, FramesAre
      <4>2. \E f : toPhone' = <<f>> /\ (f = Hello \/ f.t = "event")
        BY <1>3, <4>1 DEF CamHears, CamSends
      <4>3. toPhone'[j] = Hello
        BY <2>2, <4>2
      <4>4. Hello.next = Len(cam.log) /\ cam'.log = cam.log
        BY <1>0, <1>3, HelloIs, CamSizes, CamSpeaks DEF CamStays
      <4> QED
        BY <4>3, <4>4
    <3> QED
      BY <3>1, <3>2
  <2> QED
    BY <2>2 DEF InFront
<1>4. CASE toPhone' = toPhone /\ ~PhoneHears /\ ~CamReboots
  <2>1. PICK k \in {0, 1} : Moves(chain', chain, k)
    BY <1>4, ChainMoves
  <2>2. cam'.boot = cam.boot
    BY <1>0, <1>4, Growing DEF Grown
  <2>3. ASSUME NEW i \in 1 .. Len(chain'), NEW j \in 1 .. Len(toPhone'), toPhone'[j].t = "hello",
               chain'[i].of = cam'.boot
        PROVE  Reach(chain'[i]) <= toPhone'[j].next
    <3>1. i + k \in 1 .. Len(chain) /\ Same(chain[i + k], chain'[i])
      BY <2>1 DEF Moves
    <3>2. Reach(chain'[i]) = Reach(chain[i + k]) /\ chain[i + k].of = cam.boot
      BY <2>2, <2>3, <3>1 DEF Same, Reach
    <3> QED
      BY <1>0, <1>4, <2>3, <3>1, <3>2 DEF InFront
  <2> QED
    BY <2>3 DEF InFront
<1> QED
  BY <1>1, <1>2, <1>3, <1>4, SidesAre DEF CamReboots, Unlinked

-----------------------------------------------------------------------------
(* The rows of the store, from one state to the next. *)

\* A boot keeps its key, and its newest seq and its floor but for what each step does to them.
Grows(b, c) ==
  /\ c.key = b.key /\ (c.max = b.max \/ (EventInserts /\ c.key = T.key /\ c.max = T.seq))
  /\ \/ c.floor = b.floor
     \/ SameEnsures /\ T.live /\ c.key = ses.key /\ c.floor = T.oldest
     \/ PruneRaises /\ \A q \in 0 .. c.floor - 1 : <<c.key, q>> \in ghost'.gone

\* Apart from a wipe and a new boot's HELLO, the rows of the boot table stay, and Grows says how.
LEMMA BootsAre ==
  ASSUME Inv, Next, ~Wipe, ~HelloEnsures
  PROVE  /\ \A c \in boots' : \E b \in boots : Grows(b, c)
         /\ \A b \in boots : \E c \in boots' : Grows(b, c)
<1>0. Types /\ Filing
  BY DEF Inv
<1>1. CASE boots' = boots
  BY <1>1 DEF Grows
<1>2. CASE SameEnsures /\ boots' # boots
  <2>1. T.live /\ ses.key # NoKey /\ ses.key \in Keys /\ EnsureBoot(ses.key, T.oldest) /\ T.oldest \in Nat
    BY <1>2, SameEnsuresIs
  <2>2. PICK n \in Boots : Ensured(n, ses.key, T.oldest) /\ boots' = {b \in boots : b.key # ses.key} \cup {n}
    BY <1>0, <2>1, EnsureIs
  <2>3. PICK b \in boots : b.key = ses.key /\ BootOf(ses.key) = {b} /\ \A c \in boots : c.key = ses.key => c = b
    <3>1. \E b \in boots : b.key = ses.key
      BY <1>0, <2>1 DEF Filing
    <3> QED
      BY <1>0, <3>1, BootOfIs
  <2>4. n.key = ses.key /\ n.max = b.max /\ n.floor \in {T.oldest, b.floor}
    BY <2>2, <2>3 DEF Ensured
  <2>5. Grows(b, n)
    BY <1>2, <2>1, <2>3, <2>4 DEF Grows
  <2>6. \A c \in boots : c.key # ses.key => Grows(c, c)
    BY DEF Grows
  <2> QED
    BY <2>2, <2>3, <2>5, <2>6
<1>3. CASE EventInserts
  <2>1. T.key \in Keys /\ T \in Tasks /\ T.seq < MaxEvents /\ InsertEvent(T.key, T)
    BY <1>3, EventInsertsIs
  <2>2. \A b, c : Raised(b, c, T.key, T.seq) => Grows(b, c)
    BY <1>3 DEF Raised, Grows
  <2>3. /\ \A c \in boots' : \E b \in boots : Raised(b, c, T.key, T.seq)
        /\ \A b \in boots : \E c \in boots' : Raised(b, c, T.key, T.seq)
    BY <1>0, <2>1, InsertIs
  <2> QED
    BY <2>2, <2>3
<1>4. CASE PruneRaises
  <2>1. PICK old \in SUBSET Unclaimed :
           /\ boots' = {[b EXCEPT !.floor = NewestOf(b, old)] : b \in boots}
           /\ ghost'.gone = ghost.gone \cup UNION {{<<b.key, q>> : q \in 0 .. NewestOf(b, old) - 1} :
                                                   b \in {c \in boots : NewestOf(c, old) > c.floor}}
    BY <1>0, <1>4, PruneRaisesIs
  <2>2. ASSUME NEW b \in boots
        PROVE  Grows(b, [b EXCEPT !.floor = NewestOf(b, old)])
    <3> DEFINE n == NewestOf(b, old)
               c == [b EXCEPT !.floor = n]
    <3>1. n \in Nat /\ b.floor <= n /\ b \in Boots
      BY <1>0, NewestIs DEF Types, TypeOK
    <3>2. n > b.floor => \A q \in 0 .. n - 1 : <<b.key, q>> \in ghost'.gone
      BY <2>1
    <3> HIDE DEF n
    <3>3. c.key = b.key /\ c.max = b.max /\ c.floor = n
      BY <3>1 DEF Boots
    <3>4. b.floor \in Nat
      BY <3>1 DEF Boots
    <3> HIDE DEF c
    <3>5. Grows(b, c)
      BY <1>4, <3>1, <3>2, <3>3, <3>4 DEF Grows
    <3> QED
      BY <3>5 DEF c, n
  <2> QED
    BY <2>1, <2>2
<1> QED
  BY <1>1, <1>2, <1>3, <1>4, StoreIs

\* A row stays what it was when it was stored, but for the drive that claims it and the prune's mark.
SameRow(r, s) ==
  /\ s.key = r.key /\ s.seq = r.seq /\ s.of = r.of /\ s.in = r.in /\ s.ignored = r.ignored /\ s.rcv = r.rcv
  /\ Facts /\ Claimable(r) => s.trip = trip.n
  /\ ~(Facts /\ Claimable(r)) => s.trip = r.trip
  /\ s.old = r.old \/ (PruneRaises /\ r.trip = None)

\* What the prune deletes.
Pruned(r) == PruneDeletes /\ r.trip = None /\ r.old /\ \A b \in BootOf(r.key) : r.seq < b.floor

\* Apart from a wipe, rows stay as SameRow says, go only by the prune, and come only by an insert.
LEMMA RowsAre ==
  ASSUME Inv, Next, ~Wipe
  PROVE  /\ \A s \in rows' : (\E r \in rows : SameRow(r, s)) \/ (EventInserts /\ s = RowOf(T.key, T))
         /\ \A r \in rows : Pruned(r) \/ \E s \in rows' : SameRow(r, s)
<1>0. Types
  BY DEF Inv
<1>1. CASE Facts
  <2>1. rows' = {[r EXCEPT !.trip = IF Claimable(r) THEN trip.n ELSE r.trip] : r \in rows}
    BY <1>1 DEF Facts
  <2>2. ASSUME NEW r \in rows
        PROVE  SameRow(r, [r EXCEPT !.trip = IF Claimable(r) THEN trip.n ELSE r.trip])
    <3> DEFINE n == IF Claimable(r) THEN trip.n ELSE r.trip
               s == [r EXCEPT !.trip = n]
    <3>1. r \in Rows
      BY <1>0 DEF Types, TypeOK
    <3>2. (Claimable(r) => n = trip.n) /\ (~Claimable(r) => n = r.trip)
      OBVIOUS
    <3> HIDE DEF n
    <3>3. s.key = r.key /\ s.seq = r.seq /\ s.of = r.of /\ s.in = r.in /\ s.ignored = r.ignored /\ s.rcv = r.rcv
          /\ s.old = r.old /\ s.trip = n
      BY <3>1 DEF Rows
    <3> HIDE DEF s
    <3>4. SameRow(r, s)
      BY <1>1, <3>2, <3>3 DEF SameRow
    <3> QED
      BY <3>4 DEF s, n
  <2> QED
    BY <2>1, <2>2
<1>2. CASE rows' \subseteq rows /\ ~Facts /\ \A r \in rows : Pruned(r) \/ r \in rows'
  <2>1. \A r \in rows : SameRow(r, r)
    BY <1>2 DEF SameRow
  <2> QED
    BY <1>2, <2>1
<1>3. CASE EventInserts /\ ~Facts
  <2>1. T.key \in Keys /\ T \in Tasks /\ T.seq < MaxEvents /\ InsertEvent(T.key, T)
    BY <1>3, EventInsertsIs
  <2>2. rows \subseteq rows' /\ rows' \subseteq rows \cup {RowOf(T.key, T)}
    BY <1>0, <2>1, InsertIs
  <2>3. \A r \in rows : SameRow(r, r)
    BY <1>3 DEF SameRow
  <2> QED
    BY <1>3, <2>2, <2>3
<1>4. CASE PruneRaises /\ ~Facts
  <2>1. PICK old \in SUBSET Unclaimed : rows' = {[r EXCEPT !.old = r.old \/ r \in old] : r \in rows}
    BY <1>0, <1>4, PruneRaisesIs
  <2>2. ASSUME NEW r \in rows
        PROVE  SameRow(r, [r EXCEPT !.old = r.old \/ r \in old])
    <3> DEFINE n == r.old \/ r \in old
               s == [r EXCEPT !.old = n]
    <3>1. r \in Rows
      BY <1>0 DEF Types, TypeOK
    <3>2. n = r.old \/ r.trip = None
      BY <3>1 DEF Unclaimed, Rows
    <3> HIDE DEF n
    <3>3. s.key = r.key /\ s.seq = r.seq /\ s.of = r.of /\ s.in = r.in /\ s.ignored = r.ignored /\ s.rcv = r.rcv
          /\ s.trip = r.trip /\ s.old = n
      BY <3>1 DEF Rows
    <3> HIDE DEF s
    <3>4. SameRow(r, s)
      BY <1>4, <3>2, <3>3 DEF SameRow
    <3> QED
      BY <3>4 DEF s, n
  <2> QED
    BY <2>1, <2>2
<1>5. CASE PruneDeletes /\ ~Facts
  <2>1. rows' = {r \in rows : ~(r.trip = None /\ r.old /\ \A b \in BootOf(r.key) : r.seq < b.floor)}
    BY <1>5 DEF PruneDeletes
  <2>2. \A r \in rows : Pruned(r) \/ r \in rows'
    BY <1>5, <2>1 DEF Pruned
  <2> QED
    BY <1>2, <1>5, <2>1, <2>2
<1> QED
  BY <1>1, <1>2, <1>3, <1>4, <1>5, StoreIs

\* The session, from one state to the next: over, as it was, or with its key, floor or cursor read.
LEMMA SessionIs ==
  ASSUME Inv, Next
  PROVE  \/ ses'.key = NoKey /\ ses'.ready = FALSE
         \/ ses'.key = ses.key /\ ses'.ready = ses.ready /\ ses'.floor = ses.floor /\ ses'.cursor = ses.cursor
            /\ cam'.boot = cam.boot
         \/ /\ HelloEnsures /\ T.live /\ T.of = cam.boot /\ cam' = cam
            /\ ses'.key = T.key /\ ses'.ready = FALSE /\ ses'.floor = StoredFloor(T.key, T.oldest)
         \/ /\ SameEnsures /\ T.live /\ T.of = cam.boot /\ cam' = cam /\ ses.key \in Keys
            /\ ses'.key = ses.key /\ ses'.ready = ses.ready /\ ses'.cursor = ses.cursor
            /\ ses'.floor = StoredFloor(ses.key, T.oldest)
         \/ /\ HelloCounts \/ Counts
            /\ cam' = cam /\ ses.key \in Keys
            /\ ses'.key = ses.key /\ ses'.floor = ses.floor /\ ses'.cursor = Cursor(ses.key, ses.floor)
<1>0. Types /\ Session /\ Waiting /\ ses \in Sessions /\ ses.key \in Keys \cup {NoKey}
  BY FramesAre, SessionFields DEF Inv
<1>1. CASE ses' = Off \/ ses' = [Off EXCEPT !.phase = "hello"]
  BY <1>1, OffIs
<1>2. CASE ses' = ses /\ ~CamReboots
  BY <1>0, <1>2, Growing DEF Grown
<1>3. CASE Link
  <2>1. CASE Wipe /\ ~up
    <3>1. ses' = ses /\ ses.key = NoKey /\ ses.ready = FALSE
      BY <1>0, <2>1 DEF Wipe, Session, Sessions
    <3> QED
      BY <3>1
  <2>2. CASE LinkUp \/ LinkDown \/ CamReboots \/ Kill \/ (Wipe /\ up)
    BY <1>1, <2>2 DEF LinkUp, LinkDown, CamReboots, Kill, Wipe, Unlinked
  <2> QED
    BY <1>3, <2>1, <2>2 DEF Link
<1>4. CASE Phone
  <2>1. CASE PhoneHears
    <3>1. cam' = cam
      BY <2>1 DEF PhoneHears
    <3>2. ses'.key = ses.key /\ ses'.ready = ses.ready /\ ses'.floor = ses.floor /\ ses'.cursor = ses.cursor
      BY <2>1, HeardIs
    <3> QED
      BY <3>1, <3>2
  <2>2. CASE HelloRetry
    BY <2>2 DEF HelloRetry
  <2>3. CASE SendResume
    <3>1. cam' = cam /\ \E b \in BOOLEAN : ses' = [ses EXCEPT !.phase = "resumed", !.resync = b]
      BY <2>3 DEF SendResume
    <3>2. ses'.key = ses.key /\ ses'.ready = ses.ready /\ ses'.floor = ses.floor /\ ses'.cursor = ses.cursor
      BY <1>0, <3>1 DEF Sessions
    <3> QED
      BY <3>1, <3>2
  <2> QED
    BY <1>4, <2>1, <2>2, <2>3 DEF Phone
<1>5. ASSUME ChainSteps \/ TaskFails, chain # <<>>, T.live
      PROVE  Of(T, ses, up, cam) /\ T.of = cam.boot
  BY <1>0, <1>5, HeadIs DEF Of
<1>6. CASE HelloLooksUp \/ EventChecks \/ EventInserts
  BY <1>6 DEF HelloLooksUp, EventChecks, EventInserts, chainOnly
<1>7. CASE HelloEnsures
  <2> DEFINE x == StoredFloor(T.key, T.oldest)
  <2>1. /\ cam' = cam /\ chain # <<>> /\ T.kind = "hello"
        /\ ((T.live /\ ses' = [ses EXCEPT !.key = T.key, !.floor = x]) \/ ses' = ses)
    BY <1>7, HelloEnsuresIs
  <2>2. T.live => T.of = cam.boot /\ ses.ready = FALSE
    BY <1>0, <1>5, <1>7, <2>1 DEF Of, ChainSteps, Sessions
  <2> HIDE DEF x
  <2>3. CASE T.live /\ ses' = [ses EXCEPT !.key = T.key, !.floor = x]
    <3>1. ses'.key = T.key /\ ses'.ready = FALSE /\ ses'.floor = x
      BY <1>0, <2>2, <2>3 DEF Sessions
    <3> QED
      BY <1>7, <2>1, <2>2, <2>3, <3>1 DEF x
  <2> QED
    BY <2>1, <2>3
<1>8. CASE SameEnsures
  <2> DEFINE x == StoredFloor(ses.key, T.oldest)
  <2>1. cam' = cam /\ chain # <<>> /\ ((T.live /\ ses.key \in Keys /\ ses' = [ses EXCEPT !.floor = x]) \/ ses' = ses)
    BY <1>8, SameEnsuresIs
  <2>2. T.live => T.of = cam.boot
    BY <1>0, <1>5, <1>8, <2>1 DEF ChainSteps
  <2> HIDE DEF x
  <2>3. CASE T.live /\ ses.key \in Keys /\ ses' = [ses EXCEPT !.floor = x]
    <3>1. ses'.key = ses.key /\ ses'.ready = ses.ready /\ ses'.floor = x /\ ses'.cursor = ses.cursor
      BY <1>0, <2>3 DEF Sessions
    <3> QED
      BY <1>8, <2>1, <2>2, <2>3, <3>1 DEF x
  <2> QED
    BY <2>1, <2>3
<1>9. CASE HelloCounts \/ Counts
  <2> DEFINE x == Cursor(T.key, ses.floor)
  <2>1. cam' = cam /\ chain # <<>> /\ T.step = "count"
    BY <1>9 DEF HelloCounts, Counts, Runs, chainOnly
  <2>2. ses' = ses \/ (T.live /\ \E b \in BOOLEAN : ses' = [ses EXCEPT !.cursor = x, !.ready = b])
    <3>1. CASE HelloCounts
      BY <3>1 DEF HelloCounts
    <3>2. CASE Counts
      <4>1. ses' = ses \/ (T.live /\ ses' = [ses EXCEPT !.cursor = x])
        BY <3>2 DEF Counts
      <4>2. [ses EXCEPT !.cursor = x] = [ses EXCEPT !.cursor = x, !.ready = ses.ready] /\ ses.ready \in BOOLEAN
        BY <1>0 DEF Sessions
      <4> QED
        BY <4>1, <4>2
    <3> QED
      BY <1>9, <3>1, <3>2
  <2>3. T.live => ses.key # NoKey /\ T.key = ses.key
    BY <1>0, <1>5, <1>9, <2>1 DEF Of, ChainSteps
  <2> HIDE DEF x
  <2>4. ASSUME T.live, NEW b \in BOOLEAN, ses' = [ses EXCEPT !.cursor = x, !.ready = b]
        PROVE  /\ HelloCounts \/ Counts
               /\ cam' = cam /\ ses.key \in Keys
               /\ ses'.key = ses.key /\ ses'.floor = ses.floor /\ ses'.cursor = Cursor(ses.key, ses.floor)
    <3>1. ses'.key = ses.key /\ ses'.floor = ses.floor /\ ses'.cursor = x
      BY <1>0, <2>4 DEF Sessions
    <3>2. ses.key \in Keys /\ x = Cursor(ses.key, ses.floor)
      BY <1>0, <2>3, <2>4 DEF x
    <3> QED
      BY <1>9, <2>1, <3>1, <3>2
  <2> QED
    BY <2>1, <2>2, <2>4
<1>10. CASE TaskFails
  <2>1. ses'.key = ses.key /\ ses'.ready = ses.ready /\ ses'.floor = ses.floor /\ ses'.cursor = ses.cursor
    BY <1>0, <1>10 DEF Sessions, TaskFails
  <2> QED
    BY <1>10, <2>1 DEF TaskFails
<1> QED
  BY <1>2, <1>3, <1>4, <1>6, <1>7, <1>8, <1>9, <1>10, SidesAre DEF ChainSteps, Link

\* A power-on is a boot more; the boot the store could not tell apart stays so.
LEMMA BootsPass ==
  ASSUME Inv, Next
  PROVE  /\ cam.boot \in Nat /\ cam.boot <= cam'.boot /\ (cam'.boot = cam.boot \/ cam'.boot = cam.boot + 1)
         /\ (CamReboots <=> cam'.boot = cam.boot + 1)
         /\ Wipe \/ ghost.blind \subseteq ghost'.blind
         /\ Wipe \/ ghost.gone \subseteq ghost'.gone
<1>0. Types
  BY DEF Inv
<1>1. cam.boot \in Nat /\ (CamReboots => cam'.boot = cam.boot + 1)
  BY <1>0, CamSizes DEF CamReboots, Types, TypeOK, Cams
<1>2. ~CamReboots => cam'.boot = cam.boot
  BY <1>0, Growing DEF Grown
<1>3. Wipe \/ ghost.blind \subseteq ghost'.blind
  BY HistoryIs, HelloEnsuresIs, EventInsertsIs
<1>4. Wipe \/ ghost.gone \subseteq ghost'.gone
  BY <1>0, HistoryIs, PruneRaisesIs
<1> QED
  BY <1>1, <1>2, <1>3, <1>4

\* After a wipe nothing is stored, and no session has a key.
LEMMA Wiped ==
  ASSUME Inv, Wipe
  PROVE  /\ rows' = {} /\ boots' = {} /\ ghost'.filed = {} /\ ghost'.blind = {} /\ ghost'.gone = {}
         /\ ghost'.owed = {}
         /\ ses'.key = NoKey /\ ses'.ready = FALSE /\ cam' = cam
<1>1. Past(ghost) /\ Session /\ ses \in Sessions
  BY TypesAre, FramesAre DEF Inv
<1>2. /\ ghost' = [ghost EXCEPT !.filed = {}, !.blind = {}, !.gone = {}, !.owed = {}] /\ rows' = {}
      /\ boots' = {} /\ cam' = cam
  BY DEF Wipe
<1>3. ghost'.filed = {} /\ ghost'.blind = {} /\ ghost'.gone = {} /\ ghost'.owed = {}
  BY <1>1, <1>2 DEF Past
<1>4. CASE up
  BY <1>2, <1>3, <1>4, OffIs DEF Wipe
<1>5. CASE ~up
  <2>1. ses' = ses /\ ses.key = NoKey /\ ses.ready = FALSE
    BY <1>1, <1>5 DEF Wipe, Session, Sessions
  <2> QED
    BY <1>2, <1>3, <2>1
<1> QED
  BY <1>4, <1>5

\* The boot a HELLO's task files, and what that makes of the boot table.
LEMMA FiledIs ==
  ASSUME Inv, HelloEnsures
  PROVE  \E n \in Boots :
           /\ Ensured(n, T.key, T.oldest) /\ boots' = {b \in boots : b.key # T.key} \cup {n} /\ n.key = T.key
           /\ BootOf(T.key) = {} => n.max = None /\ n.floor = T.oldest /\ \A p \in ghost.filed : p[1] # T.key
           /\ BootOf(T.key) # {} => \E b \in boots : b.key = T.key /\ BootOf(T.key) = {b} /\ n.max = b.max
                                                    /\ n.floor \in {T.oldest, b.floor} /\ b.max < T.next
           /\ T.key \notin ghost'.blind => \A p \in ghost.filed : p[1] = T.key => p[2] = T.of
<1>0. Types /\ Filing /\ AtHand /\ chain # <<>> /\ T.step = "ensure" /\ T.key \in Keys /\ T.oldest \in Nat
  BY HelloEnsuresIs DEF Inv
<1>1. PICK n \in Boots : Ensured(n, T.key, T.oldest) /\ boots' = {b \in boots : b.key # T.key} \cup {n}
  BY <1>0, HelloEnsuresIs, EnsureIs
<1>2. BootOf(T.key) = {} => n.max = None /\ n.floor = T.oldest /\ \A p \in ghost.filed : p[1] # T.key
  BY <1>0, <1>1 DEF Ensured, Filing, BootOf
<1>3. BootOf(T.key) # {} => \E b \in boots : b.key = T.key /\ BootOf(T.key) = {b}
  BY <1>0, BootOfIs
<1>4. \A b \in BootOf(T.key) : n.max = b.max /\ n.floor \in {T.oldest, b.floor} /\ b.max < T.next
  BY <1>0, <1>1 DEF Ensured, AtHand
<1>5. ASSUME NEW p \in ghost.filed, p[1] = T.key, p[2] # T.of
      PROVE  T.key \in ghost'.blind
  <2>1. PICK b \in boots : b.key = T.key /\ b \in BootOf(T.key)
    BY <1>0, <1>5 DEF Filing, BootOf
  <2>2. T.next > b.max
    <3>1. b.max \in Int /\ T.next \in Int /\ b.max < T.next
      <4>1. b \in Boots /\ T \in Tasks
        BY <1>0, <2>1, FramesAre DEF Types, TypeOK
      <4>2. b.max \in Int /\ T.next \in Int
        BY <4>1, ConstantsAre DEF Boots, Tasks, None
      <4> QED
        BY <1>4, <2>1, <4>2
    <3> QED
      BY <3>1
  <2>3. Taken(T.key, T.of)
    BY <1>5 DEF Taken
  <2> QED
    BY <2>1, <2>2, <2>3, HelloEnsuresIs
<1> QED
  BY <1>1, <1>2, <1>3, <1>4, <1>5 DEF Ensured

\* Every step keeps Filing.
LEMMA FilingStep ==
  ASSUME Inv, Types', Next
  PROVE  Filing'
<1>0. Types /\ Filing /\ Waiting /\ AtHand
  BY DEF Inv
<1>1. CASE Wipe
  BY <1>1, Wiped DEF Filing
<1>2. CASE HelloEnsures /\ ~Wipe
  <2>1. PICK n \in Boots :
           /\ boots' = {b \in boots : b.key # T.key} \cup {n} /\ n.key = T.key
           /\ BootOf(T.key) = {} => \A p \in ghost.filed : p[1] # T.key
           /\ T.key \notin ghost'.blind => \A p \in ghost.filed : p[1] = T.key => p[2] = T.of
    BY <1>2, FiledIs
  <2>2. ghost'.filed = ghost.filed \cup {<<T.key, T.of>>} /\ rows' = rows /\ cam' = cam /\ ghost.blind \subseteq ghost'.blind
        /\ chain # <<>> /\ T.step = "ensure"
    BY <1>2, HelloEnsuresIs
  <2>3. T.of <= cam.boot /\ T.key.gen < T.of
    BY <1>0, <2>2, HeadIs DEF Told, AtHand
  <2>4. \A b \in boots' : \E p \in ghost'.filed : p[1] = b.key
    <3>1. ASSUME NEW b \in boots'
          PROVE  \E p \in ghost'.filed : p[1] = b.key
      <4>1. CASE b = n
        <5>1. <<T.key, T.of>> \in ghost'.filed /\ <<T.key, T.of>>[1] = b.key
          BY <2>1, <2>2, <4>1
        <5> QED
          BY <5>1
      <4>2. CASE b \in boots
        BY <1>0, <2>2, <4>2 DEF Filing
      <4> QED
        BY <2>1, <4>1, <4>2
    <3> QED
      BY <3>1
  <2>5. \A p \in ghost'.filed : \E b \in boots' : b.key = p[1]
    <3>1. ASSUME NEW p \in ghost'.filed
          PROVE  \E b \in boots' : b.key = p[1]
      <4>1. CASE p[1] = T.key
        BY <2>1, <4>1
      <4>2. CASE p[1] # T.key
        <5>1. p \in ghost.filed
          BY <2>2, <4>2
        <5> QED
          BY <1>0, <2>1, <4>2, <5>1 DEF Filing
      <4> QED
        BY <4>1, <4>2
    <3> QED
      BY <3>1
  <2>6. \A p \in ghost'.filed : p[2] <= cam'.boot /\ p[1].gen < p[2]
    BY <1>0, <2>2, <2>3 DEF Filing
  <2>7. ASSUME NEW p \in ghost'.filed, NEW q \in ghost'.filed, p[1] = q[1], p[1] \notin ghost'.blind
        PROVE  p = q
    <3>1. \A r \in ghost'.filed : r \in Keys \X (1 .. MaxTroubles + 1)
      BY TypesAreNext DEF Past
    <3>2. p = <<p[1], p[2]>> /\ q = <<q[1], q[2]>>
      BY <3>1
    <3>3. CASE p[1] = T.key
      <4>1. p[2] = T.of /\ q[2] = T.of
        <5>1. \A r \in ghost'.filed : r[1] = T.key => r[2] = T.of
          <6>1. \A r \in ghost.filed : r[1] = T.key => r[2] = T.of
            BY <2>1, <2>7, <3>3
          <6> QED
            BY <2>2, <6>1
        <5> QED
          BY <2>7, <3>3, <5>1
      <4> QED
        BY <2>7, <3>2, <4>1
    <3>4. CASE p[1] # T.key
      <4>1. p \in ghost.filed /\ q \in ghost.filed /\ p[1] \notin ghost.blind
        BY <2>2, <2>7, <3>4
      <4> QED
        BY <1>0, <2>7, <4>1 DEF Filing
    <3> QED
      BY <3>3, <3>4
  <2>8. \A r \in rows' : r.key \in ghost'.blind \/ <<r.key, r.of>> \in ghost'.filed
    BY <1>0, <2>2 DEF Filing
  <2>9. ses'.key # NoKey => <<ses'.key, cam'.boot>> \in ghost'.filed
    <3>1. ses'.key = NoKey \/ ses'.key = ses.key \/ (ses'.key = T.key /\ T.of = cam.boot)
      BY SessionIs
    <3> QED
      BY <1>0, <2>2, <3>1 DEF Filing
  <2> QED
    BY <2>4, <2>5, <2>6, <2>7, <2>8, <2>9 DEF Filing
<1>3. CASE ~HelloEnsures /\ ~Wipe
  <2>1. ghost'.filed = ghost.filed /\ ghost.blind \subseteq ghost'.blind
    BY <1>3, HistoryIs, BootsPass
  <2>2. /\ \A c \in boots' : \E b \in boots : b.key = c.key
        /\ \A b \in boots : \E c \in boots' : b.key = c.key
    BY <1>3, BootsAre DEF Grows
  <2>3. \A b \in boots' : \E p \in ghost'.filed : p[1] = b.key
    BY <1>0, <2>1, <2>2 DEF Filing
  <2>4. \A p \in ghost'.filed : \E b \in boots' : b.key = p[1]
    <3>1. ASSUME NEW p \in ghost'.filed
          PROVE  \E b \in boots' : b.key = p[1]
      <4>1. PICK b \in boots : b.key = p[1]
        BY <1>0, <2>1 DEF Filing
      <4> QED
        BY <2>2, <4>1
    <3> QED
      BY <3>1
  <2>5. \A p \in ghost'.filed : p[2] <= cam'.boot /\ p[1].gen < p[2]
    <3>1. ASSUME NEW p \in ghost'.filed
          PROVE  p[2] <= cam'.boot /\ p[1].gen < p[2]
      <4>1. p[2] \in Int /\ p[2] <= cam.boot /\ p[1].gen < p[2]
        <5>1. p \in Keys \X (1 .. MaxTroubles + 1)
          BY TypesAreNext DEF Past
        <5>2. p[2] \in 1 .. MaxTroubles + 1
          BY <5>1
        <5> QED
          BY <1>0, <2>1, <5>2, ConstantsAre DEF Filing
      <4>2. cam.boot \in Int /\ cam'.boot \in Int /\ cam.boot <= cam'.boot
        BY BootsPass, CamSizesNext
      <4> QED
        BY <4>1, <4>2
    <3> QED
      BY <3>1
  <2>6. \A p, q \in ghost'.filed : p[1] = q[1] /\ p[1] \notin ghost'.blind => p = q
    BY <1>0, <2>1 DEF Filing
  <2>7. ASSUME NEW s \in rows'
        PROVE  s.key \in ghost'.blind \/ <<s.key, s.of>> \in ghost'.filed
    <3>1. CASE \E r \in rows : SameRow(r, s)
      BY <1>0, <2>1, <3>1 DEF Filing, SameRow
    <3>2. CASE EventInserts /\ s = RowOf(T.key, T)
      <4>1. s.key = T.key /\ s.of = T.of
        BY <3>2 DEF RowOf
      <4>2. T.step = "insert" /\ chain # <<>> /\ (BootOf(T.key) = {} => T.key \in ghost'.blind)
        BY <3>2, EventInsertsIs
      <4> QED
        BY <1>0, <2>1, <4>1, <4>2 DEF AtHand
    <3> QED
      BY <1>3, <3>1, <3>2, RowsAre
  <2>8. ses'.key # NoKey => <<ses'.key, cam'.boot>> \in ghost'.filed
    BY <1>0, <1>3, <2>1, SessionIs DEF Filing
  <2> QED
    BY <2>3, <2>4, <2>5, <2>6, <2>7, <2>8 DEF Filing
<1> QED
  BY <1>1, <1>2, <1>3

\* A HELLO on its way is the one that was, or says all the dashcam has made.
LEMMA HelloOnAir ==
  ASSUME Inv, Types', Next, NEW j \in 1 .. Len(toPhone'), toPhone'[j].t = "hello"
  PROVE  (toPhone' = toPhone /\ cam'.boot = cam.boot /\ j \in 1 .. Len(toPhone)) \/ toPhone'[j].next = NextSeq'
<1>0. Types
  BY DEF Inv
<1>1. CASE CamHears \/ CamSends
  <2>1. Len(toPhone) = 0 /\ toPhone = <<>>
    <3>1. Len(toPhone) < 1
      BY <1>1 DEF CamHears, CamSends, Air
    <3> QED
      BY <1>0, <3>1, FramesAre
  <2>2. \E f : toPhone' = <<f>> /\ (f = Hello \/ f.t = "event")
    BY <1>1, <2>1 DEF CamHears, CamSends
  <2>3. toPhone'[j] = Hello
    BY <2>2
  <2>4. Hello.next = NextSeq /\ NextSeq' = NextSeq
    BY <1>0, <1>1, HelloIs, CamSpeaks DEF CamStays, NextSeq
  <2> QED
    BY <2>3, <2>4
<1>2. CASE PhoneHears
  <2>1. toPhone # <<>> /\ toPhone' = Tail(toPhone)
    BY <1>2 DEF PhoneHears
  <2>2. toPhone \in Seq(Hellos \cup Events) /\ Len(toPhone) = 1
    BY <1>0, <2>1, FramesAre DEF Types, TypeOK
  <2>3. Len(toPhone') = 0
    BY <2>1, <2>2, TailIs
  <2> QED
    BY <2>3
<1>3. CASE toPhone' = toPhone /\ ~CamReboots
  BY <1>0, <1>3, Growing DEF Grown
<1>4. CASE toPhone' = <<>>
  BY <1>4
<1> QED
  BY <1>1, <1>2, <1>3, <1>4, SidesAre DEF CamReboots, Unlinked

\* The numbers that are compared.
LEMMA NumbersAre ==
  ASSUME Types
  PROVE  /\ \A b \in boots : b \in Boots /\ b.max \in Int /\ b.floor \in Nat /\ b.key \in Keys
         /\ \A t \in Tasks : t.next \in Nat /\ t.seq \in Nat /\ t.of \in Nat /\ t.oldest \in Nat
         /\ \A f \in Hellos : f.next \in Nat
         /\ \A p \in ghost.filed : p[1] \in Keys /\ p[2] \in Nat /\ p = <<p[1], p[2]>>
<1>1. \A b \in boots : b \in Boots
  BY DEF Types, TypeOK
<1>2. \A b \in Boots : b.max \in Int /\ b.floor \in Nat /\ b.key \in Keys
  BY ConstantsAre DEF Boots, None
<1>3. \A t \in Tasks : t.next \in Nat /\ t.seq \in Nat /\ t.of \in Nat /\ t.oldest \in Nat
  BY DEF Tasks
<1>4. \A f \in Hellos : f.next \in Nat
  BY DEF Hellos
<1>5. \A p \in ghost.filed : p \in Keys \X (1 .. MaxTroubles + 1)
  BY TypesAre DEF Past
<1>6. \A p \in Keys \X (1 .. MaxTroubles + 1) : p[1] \in Keys /\ p[2] \in Nat /\ p = <<p[1], p[2]>>
  OBVIOUS
<1> QED
  BY <1>1, <1>2, <1>3, <1>4, <1>5, <1>6

\* The same, after a step.
LEMMA NumbersAreNext ==
  ASSUME Types'
  PROVE  /\ \A b \in boots' : b \in Boots /\ b.max \in Int /\ b.floor \in Nat /\ b.key \in Keys
         /\ \A p \in ghost'.filed : p[1] \in Keys /\ p[2] \in Nat /\ p = <<p[1], p[2]>>
<1>1. \A b \in boots' : b \in Boots
  BY DEF Types, TypeOK
<1>2. \A b \in Boots : b.max \in Int /\ b.floor \in Nat /\ b.key \in Keys
  BY ConstantsAre DEF Boots, None
<1>5. \A p \in ghost'.filed : p \in Keys \X (1 .. MaxTroubles + 1)
  BY TypesAreNext DEF Past
<1>6. \A p \in Keys \X (1 .. MaxTroubles + 1) : p[1] \in Keys /\ p[2] \in Nat /\ p = <<p[1], p[2]>>
  OBVIOUS
<1> QED
  BY <1>1, <1>2, <1>5, <1>6

\* What the first task is to the others and to a HELLO on its way.
LEMMA FirstIs ==
  ASSUME Inv, chain # <<>>
  PROVE  /\ T \in Tasks /\ T = chain[1] /\ 1 \in 1 .. Len(chain) /\ Len(chain) \in Nat /\ Told(T, cam)
         /\ T.of <= cam.boot
         /\ \A i \in 1 .. Len(chain) : i # 1 => Behind(T, chain[i])
         /\ \A j \in 1 .. Len(toPhone) : toPhone[j].t = "hello" /\ T.of = cam.boot => Reach(T) <= toPhone[j].next
         /\ T.of = cam.boot => Reach(T) <= NextSeq
<1>1. Types /\ Waiting /\ InOrder /\ InFront /\ NextSeq = Len(cam.log)
  BY CamSizes DEF Inv
<1>2. T \in Tasks /\ T = chain[1] /\ 1 \in 1 .. Len(chain) /\ Told(T, cam) /\ Len(chain) \in Nat
  BY <1>1, HeadIs, FramesAre
<1>3. \A i \in 1 .. Len(chain) : i # 1 => 1 < i
  BY <1>2
<1>4. \A i \in 1 .. Len(chain) : i # 1 => Behind(T, chain[i])
  BY <1>1, <1>2, <1>3 DEF InOrder
<1> QED
  BY <1>1, <1>2, <1>4 DEF InFront, Told

\* The same, for a task that is heard.
LEMMA NewestHears ==
  ASSUME Inv, Types', PhoneHears
  PROVE  Newest'
<1>0. Types /\ Newest /\ Filing
  BY DEF Inv
<1>1. Next /\ ~Wipe /\ ~HelloEnsures
  BY DEF Next, Phone, PhoneHears, Wipe, HelloEnsures, chainOnly, wires
<1>2. /\ ghost'.filed = ghost.filed /\ boots' = boots /\ cam' = cam /\ toPhone # <<>> /\ toPhone' = Tail(toPhone)
      /\ 1 \in 1 .. Len(toPhone) /\ NextSeq' = NextSeq
  <2>1. ghost'.filed = ghost.filed
    BY <1>1, HistoryIs
  <2> QED
    BY <1>0, <2>1, HearsIs DEF PhoneHears, db, NextSeq
<1>3. Len(toPhone') = 0
  <2>1. toPhone \in Seq(Hellos \cup Events) /\ Len(toPhone) = 1
    BY <1>0, <1>2, FramesAre DEF Types, TypeOK
  <2> QED
    BY <1>2, <2>1, TailIs
<1>4. PICK u \in Tasks :
        /\ chain' = Append(chain, u) /\ u.of = cam.boot
        /\ u.kind # "event" => toPhone[1].t = "hello" /\ toPhone[1].next = u.next
  BY HeardIs
<1>5. ASSUME NEW i \in 1 .. Len(chain')
      PROVE  chain'[i] = u \/ (i \in 1 .. Len(chain) /\ chain'[i] = chain[i])
  <2>1. /\ chain'[Len(chain')] = u
        /\ \A j \in 1 .. Len(chain') : j = Len(chain') \/ (j \in 1 .. Len(chain) /\ chain'[j] = chain[j])
    BY <1>0, <1>4, LongerIs
  <2> QED
    BY <2>1
<1>6. ASSUME NEW p \in ghost.filed, NEW i \in 1 .. Len(chain')
      PROVE  p[2] <= chain'[i].of
  <2>1. chain'[i] = u \/ (i \in 1 .. Len(chain) /\ chain'[i] = chain[i])
    BY <1>5
  <2>2. CASE chain'[i] = u
    BY <1>0, <1>4, <2>2 DEF Filing
  <2> QED
    BY <1>0, <2>1, <2>2 DEF Newest
<1>7. ASSUME NEW b \in boots, NEW i \in 1 .. Len(chain'), <<b.key, chain'[i].of>> \in ghost.filed,
             chain'[i].kind # "event"
      PROVE  b.max < chain'[i].next
  <2>1. chain'[i] = u \/ (i \in 1 .. Len(chain) /\ chain'[i] = chain[i])
    BY <1>5
  <2>2. CASE chain'[i] = u
    <3>1. toPhone[1].t = "hello" /\ toPhone[1].next = u.next
      BY <1>4, <1>7, <2>2
    <3>2. b.max < toPhone[1].next
      BY <1>0, <1>2, <1>4, <1>7, <2>2, <3>1 DEF Newest
    <3> QED
      BY <2>2, <3>1, <3>2
  <2> QED
    BY <1>0, <1>7, <2>1, <2>2 DEF Newest
<1>8. \A b \in boots : <<b.key, cam.boot>> \in ghost.filed => b.max < NextSeq
  BY <1>0 DEF Newest
<1>9. ASSUME NEW b \in boots', <<b.key, cam'.boot>> \in ghost'.filed
      PROVE  b.max < NextSeq' /\ \A j \in 1 .. Len(toPhone') : toPhone'[j].t = "hello" => b.max < toPhone'[j].next
  <2>1. b.max < NextSeq
    BY <1>2, <1>8, <1>9
  <2>2. 1 .. Len(toPhone') = {}
    BY <1>3
  <2> QED
    BY <1>2, <2>1, <2>2
<1> QED
  BY <1>2, <1>6, <1>7, <1>9 DEF Newest

\* The same, for a handshake that files its boot.
LEMMA NewestFiles ==
  ASSUME Inv, Types', HelloEnsures
  PROVE  Newest'
<1>0. Types /\ Newest /\ Filing /\ chain # <<>>
  BY HelloEnsuresIs DEF Inv
<1>1. ChainSteps \/ TaskFails
  BY DEF ChainSteps
<1>2. /\ cam' = cam /\ toPhone' = toPhone /\ NextSeq' = NextSeq /\ NextSeq \in Nat
      /\ ghost'.filed = ghost.filed \cup {<<T.key, T.of>>} /\ T.kind = "hello" /\ T.key \in Keys
  BY <1>0, HelloEnsuresIs, CamSizes DEF NextSeq
<1>3. PICK n \in Boots :
           /\ boots' = {b \in boots : b.key # T.key} \cup {n} /\ n.key = T.key
           /\ BootOf(T.key) = {} => n.max = None
           /\ BootOf(T.key) # {} => \E b \in boots : b.key = T.key /\ n.max = b.max /\ b.max < T.next
  BY FiledIs
<1>4. PICK k \in {0, 1} : Moves(chain', chain, k)
  BY <1>0, <1>1, ChainTurns, DoneMoves DEF Turns
<1>5. \A i \in 1 .. Len(chain') : i + k \in 1 .. Len(chain) /\ Same(chain[i + k], chain'[i])
  BY <1>4 DEF Moves
<1>6. /\ T \in Tasks /\ T = chain[1] /\ 1 \in 1 .. Len(chain) /\ T.of <= cam.boot /\ T.of \in Nat /\ T.next \in Nat
      /\ \A i \in 1 .. Len(chain) : i = 1 \/ Behind(T, chain[i])
      /\ \A j \in 1 .. Len(toPhone) : toPhone[j].t = "hello" /\ T.of = cam.boot => Reach(T) <= toPhone[j].next
      /\ T.of = cam.boot => Reach(T) <= NextSeq
  BY <1>0, FirstIs, NumbersAre
<1>7. Reach(T) = T.next
  BY <1>2 DEF Reach
\* The boot at hand has less than the handshake tells of.
<1>8. n.max < T.next /\ n.max \in Int
  <2>1. n.max \in Int
    BY <1>3, ConstantsAre DEF Boots, None
  <2> QED
    BY <1>3, <1>6, <2>1 DEF None
<1>9. \A i \in 1 .. Len(chain) : chain[i] \in Tasks
  BY <1>0, FramesAre
<1>10. ASSUME NEW p \in ghost'.filed, NEW i \in 1 .. Len(chain')
       PROVE  p[2] <= chain'[i].of
  <2>1. i + k \in 1 .. Len(chain) /\ chain'[i].of = chain[i + k].of
    BY <1>5 DEF Same
  <2>2. T.of <= chain[i + k].of
    <3>1. i + k = 1 \/ Behind(T, chain[i + k])
      BY <1>6, <2>1
    <3> QED
      BY <1>6, <3>1 DEF Behind
  <2>3. p \in ghost.filed => p[2] <= chain[i + k].of
    BY <1>0, <2>1 DEF Newest
  <2> QED
    BY <1>2, <2>1, <2>2, <2>3
<1>11. ASSUME NEW b \in boots', NEW i \in 1 .. Len(chain'), <<b.key, chain'[i].of>> \in ghost'.filed,
              chain'[i].kind # "event"
       PROVE  b.max < chain'[i].next
  <2> DEFINE c == chain[i + k]
  <2>1. /\ i + k \in 1 .. Len(chain) /\ chain'[i].of = c.of /\ chain'[i].next = c.next
        /\ chain'[i].kind = c.kind /\ c \in Tasks
    BY <1>5, <1>9 DEF Same
  <2>2. c = T \/ Behind(T, c)
    BY <1>6, <2>1
  <2>3. CASE b \in boots /\ b.key # T.key
    <3>1. <<b.key, c.of>> \in ghost.filed
      BY <1>2, <1>11, <2>1, <2>3
    <3> QED
      BY <1>0, <1>11, <2>1, <2>3, <3>1 DEF Newest
  <2>4. CASE b = n
    <3>1. CASE c.of = T.of
      <4>1. T.next <= c.next /\ c.next \in Nat
        BY <1>6, <1>7, <1>11, <2>1, <2>2, <3>1, NumbersAre, <1>0 DEF Behind
      <4> QED
        BY <1>6, <1>8, <2>1, <2>4, <4>1
    <3>2. CASE c.of # T.of
      <4>1. <<n.key, c.of>> \in ghost.filed
        BY <1>2, <1>11, <2>1, <2>4, <3>2
      <4>2. CASE BootOf(T.key) = {}
        <5>1. \A p \in ghost.filed : p[1] # T.key
          BY <4>2, FiledIs
        <5> QED
          BY <1>3, <4>1, <5>1
      <4>3. CASE BootOf(T.key) # {}
        <5>1. PICK d \in boots : d.key = T.key /\ n.max = d.max
          BY <1>3, <4>3
        <5> QED
          BY <1>0, <1>3, <1>11, <2>1, <2>4, <4>1, <5>1 DEF Newest
      <4> QED
        BY <4>2, <4>3
    <3> QED
      BY <3>1, <3>2
  <2> QED
    BY <1>3, <2>3, <2>4
<1>12. ASSUME NEW b \in boots', <<b.key, cam.boot>> \in ghost'.filed
       PROVE  b.max < NextSeq /\ \A j \in 1 .. Len(toPhone) : toPhone[j].t = "hello" => b.max < toPhone[j].next
  <2>1. CASE b \in boots /\ b.key # T.key
    <3>1. <<b.key, cam.boot>> \in ghost.filed
      BY <1>2, <1>12, <2>1
    <3> QED
      BY <1>0, <2>1, <3>1 DEF Newest
  <2>2. CASE b = n /\ T.of = cam.boot
    <3>1. b.max < NextSeq
      BY <1>2, <1>6, <1>7, <1>8, <2>2
    <3>2. ASSUME NEW j \in 1 .. Len(toPhone), toPhone[j].t = "hello"
          PROVE  b.max < toPhone[j].next
      <4>1. toPhone[j].next \in Nat
        <5>1. toPhone[j] \in Hellos
          BY <1>0, <3>2, FramesAre DEF Hellos, Events
        <5> QED
          BY <1>0, <5>1, NumbersAre
      <4>2. T.next <= toPhone[j].next
        BY <1>6, <1>7, <2>2, <3>2
      <4> QED
        BY <1>6, <1>8, <2>2, <4>1, <4>2
    <3> QED
      BY <3>1, <3>2
  <2>3. CASE b = n /\ T.of # cam.boot
    <3>1. <<n.key, cam.boot>> \in ghost.filed
      BY <1>2, <1>12, <2>3
    <3>2. CASE BootOf(T.key) = {}
      <4>1. \A p \in ghost.filed : p[1] # T.key
        BY <3>2, FiledIs
      <4> QED
        BY <1>3, <3>1, <4>1
    <3>3. CASE BootOf(T.key) # {}
      <4>1. PICK d \in boots : d.key = T.key /\ n.max = d.max
        BY <1>3, <3>3
      <4> QED
        BY <1>0, <1>3, <2>3, <3>1, <4>1 DEF Newest
    <3> QED
      BY <3>2, <3>3
  <2> QED
    BY <1>3, <2>1, <2>2, <2>3
<1> QED
  BY <1>2, <1>10, <1>11, <1>12 DEF Newest

\* The same, for the steps that file no boot and hear no frame.
LEMMA NewestMoves ==
  ASSUME Inv, Types', Next, ~PhoneHears, ~HelloEnsures, ~Wipe
  PROVE  Newest'
<1>0. Types /\ Newest /\ Filing /\ Waiting
  BY DEF Inv
<1>1. ghost'.filed = ghost.filed
  BY HistoryIs
<1>2. PICK k \in {0, 1} : Moves(chain', chain, k)
  BY ChainMoves
<1>3. ASSUME NEW i \in 1 .. Len(chain')
      PROVE  /\ i + k \in 1 .. Len(chain) /\ chain[i + k] \in Tasks /\ chain'[i].of = chain[i + k].of
             /\ chain'[i].kind = chain[i + k].kind /\ chain'[i].next = chain[i + k].next
  <2>1. i + k \in 1 .. Len(chain) /\ Same(chain[i + k], chain'[i])
    BY <1>2 DEF Moves
  <2> QED
    BY <1>0, <2>1, FramesAre DEF Same
<1>4. /\ cam.boot \in Nat /\ (cam'.boot = cam.boot \/ cam'.boot = cam.boot + 1)
      /\ NextSeq \in Nat /\ NextSeq' \in Nat /\ NextSeq = Len(cam.log) /\ NextSeq' = Len(cam'.log)
      /\ (cam'.boot = cam.boot => NextSeq <= NextSeq')
  <2>1. cam'.boot = cam.boot => ~CamReboots
    BY BootsPass
  <2> QED
    BY <1>0, <2>1, BootsPass, CamSizes, CamSizesNext, Growing DEF Grown
\* What a boot stored last is what it stored last before, or the event at hand.
<1>5. ASSUME NEW c \in boots'
      PROVE  \E b \in boots : b.key = c.key /\ (c.max = b.max \/ (EventInserts /\ c.key = T.key /\ c.max = T.seq))
  <2>1. PICK b \in boots : Grows(b, c)
    BY BootsAre
  <2> QED
    BY <2>1 DEF Grows
<1>6. ASSUME EventInserts
      PROVE  /\ chain # <<>> /\ Reach(T) = T.seq + 1 /\ T.seq \in Nat /\ T.of \in Nat /\ T.of <= cam.boot
             /\ UNCHANGED <<cam, toPhone>>
             /\ \A i \in 1 .. Len(chain) : i = 1 \/ Behind(T, chain[i])
             /\ T = chain[1] /\ T.kind = "event" /\ 1 \in 1 .. Len(chain)
             /\ \A j \in 1 .. Len(toPhone) : toPhone[j].t = "hello" /\ T.of = cam.boot => Reach(T) <= toPhone[j].next
             /\ T.of = cam.boot => Reach(T) <= NextSeq
  <2>1. chain # <<>> /\ T \in Tasks /\ T.kind = "event" /\ UNCHANGED <<cam, toPhone>>
    BY <1>6, EventInsertsIs
  <2> QED
    BY <1>0, <2>1, FirstIs, NumbersAre DEF Reach
<1>7. ASSUME NEW p \in ghost'.filed, NEW i \in 1 .. Len(chain')
      PROVE  p[2] <= chain'[i].of
  BY <1>0, <1>1, <1>3 DEF Newest
<1>8. ASSUME NEW c \in boots', NEW i \in 1 .. Len(chain'), <<c.key, chain'[i].of>> \in ghost'.filed,
             chain'[i].kind # "event"
      PROVE  c.max < chain'[i].next
  <2>1. PICK b \in boots : b.key = c.key /\ (c.max = b.max \/ (EventInserts /\ c.key = T.key /\ c.max = T.seq))
    BY <1>5
  <2> DEFINE t == chain[i + k]
  <2>2. /\ i + k \in 1 .. Len(chain) /\ t \in Tasks /\ chain'[i].of = t.of /\ chain'[i].next = t.next
        /\ t.kind # "event"
        /\ <<c.key, t.of>> \in ghost.filed
    BY <1>1, <1>3, <1>8
  <2>3. CASE c.max = b.max
    BY <1>0, <2>1, <2>2, <2>3 DEF Newest
  <2>4. CASE EventInserts /\ c.max = T.seq
    <3>1. i + k # 1 /\ Behind(T, t)
      BY <1>6, <2>2, <2>4
    <3>2. t.of <= T.of
      BY <1>0, <1>6, <2>2, <2>4 DEF Newest
    <3>3. t.of \in Nat /\ t.next \in Nat
      BY <1>0, <2>2, NumbersAre
    <3>4. T.of = t.of
      BY <1>6, <2>4, <3>1, <3>2, <3>3 DEF Behind
    <3>5. Reach(T) <= t.next
      BY <2>2, <3>1, <3>4 DEF Behind
    <3> QED
      BY <1>6, <2>2, <2>4, <3>3, <3>5
  <2> QED
    BY <2>1, <2>3, <2>4
<1>9. ASSUME NEW c \in boots', <<c.key, cam'.boot>> \in ghost'.filed
      PROVE  c.max < NextSeq' /\ \A j \in 1 .. Len(toPhone') : toPhone'[j].t = "hello" => c.max < toPhone'[j].next
  <2>1. PICK b \in boots : b.key = c.key /\ (c.max = b.max \/ (EventInserts /\ c.key = T.key /\ c.max = T.seq))
    BY <1>5
  <2>2. cam'.boot = cam.boot
    <3>1. cam'.boot <= cam.boot
      BY <1>0, <1>1, <1>9 DEF Filing
    <3> QED
      BY <1>4, <3>1
  <2>3. <<c.key, cam.boot>> \in ghost.filed /\ c.max \in Int /\ b.max \in Int
    BY <1>0, <1>1, <1>9, <2>2, NumbersAre, NumbersAreNext
  <2>4. CASE c.max = b.max
    <3>1. b.max < NextSeq /\ \A j \in 1 .. Len(toPhone) : toPhone[j].t = "hello" => b.max < toPhone[j].next
      BY <1>0, <2>1, <2>3 DEF Newest
    <3>2. c.max < NextSeq'
      BY <1>4, <2>2, <2>3, <2>4, <3>1
    <3>3. ASSUME NEW j \in 1 .. Len(toPhone'), toPhone'[j].t = "hello"
          PROVE  c.max < toPhone'[j].next
      <4>1. (toPhone' = toPhone /\ j \in 1 .. Len(toPhone)) \/ toPhone'[j].next = NextSeq'
        BY <3>3, HelloOnAir
      <4> QED
        BY <2>4, <3>1, <3>2, <3>3, <4>1
    <3> QED
      BY <3>2, <3>3
  <2>5. CASE EventInserts /\ c.max = T.seq
    <3>1. \A i \in 1 .. Len(chain) : cam.boot <= chain[i].of
      BY <1>0, <2>1, <2>3 DEF Newest
    <3>2. T.of = cam.boot
      BY <1>4, <1>6, <2>5, <3>1
    <3>3. c.max < NextSeq'
      BY <1>4, <1>6, <2>2, <2>5, <3>2
    <3>4. ASSUME NEW j \in 1 .. Len(toPhone'), toPhone'[j].t = "hello"
          PROVE  c.max < toPhone'[j].next
      <4>1. toPhone' = toPhone /\ Reach(T) <= toPhone[j].next
        BY <1>6, <2>5, <3>2, <3>4
      <4>2. toPhone[j].next \in Nat
        <5>1. toPhone[j] \in Hellos
          BY <1>0, <3>4, <4>1, FramesAre DEF Hellos, Events
        <5> QED
          BY <1>0, <5>1, NumbersAre
      <4> QED
        BY <1>6, <2>5, <4>1, <4>2
    <3> QED
      BY <3>3, <3>4
  <2> QED
    BY <2>1, <2>4, <2>5
<1> QED
  BY <1>7, <1>8, <1>9 DEF Newest

\* Every step keeps Newest.
LEMMA NewestStep ==
  ASSUME Inv, Types', Next
  PROVE  Newest'
<1>1. CASE Wipe
  <2>1. boots' = {} /\ ghost'.filed = {}
    BY <1>1, Wiped
  <2> QED
    BY <2>1 DEF Newest
<1> QED
  BY <1>1, NewestHears, NewestFiles, NewestMoves

-----------------------------------------------------------------------------
(* The key at hand. *)

\* The first task, after a step.
LEMMA FirstNext ==
  ASSUME Types', chain' # <<>>
  PROVE  T' = chain'[1] /\ 1 \in 1 .. Len(chain') /\ chain'[1] \in Tasks
<1>1. chain' \in Seq(Tasks)
  BY DEF Types, TypeOK
<1>2. Len(chain') \in Nat \ {0} /\ Head(chain') = chain'[1] /\ chain'[1] \in Tasks
  BY <1>1, TailIs
<1> QED
  BY <1>2 DEF T

\* What AtHand says of a task, a boot table and what is filed.
HandOf(t, bs, filed) ==
  /\ t.step \in {"ensure", "insert"} => t.key \in Keys /\ t.key.gen < t.of
  /\ t.step = "ensure" => \A b \in bs : b.key = t.key => b.max < t.next
  /\ t.step = "insert" => (\A b \in bs : b.key # t.key) \/ <<t.key, t.of>> \in filed

\* AtHand, before and after a step.
LEMMA HandIs ==
  /\ AtHand <=> (chain # <<>> => HandOf(T, boots, ghost.filed))
  /\ AtHand' <=> (chain' # <<>> => HandOf(T', boots', ghost'.filed))
  BY DEF AtHand, HandOf, BootOf

\* The steps of the chain keep AtHand.
LEMMA AtHandTurns ==
  ASSUME Inv, Types', ChainSteps \/ TaskFails, chain' # <<>>
  PROVE  HandOf(chain'[1], boots', ghost'.filed)
<1>0. Types /\ Filing /\ Waiting /\ chain # <<>> /\ T \in Tasks /\ 1 \in 1 .. Len(chain')
  BY ChainTurns, FirstNext DEF Inv
<1>1. CASE Done
  <2>1. 2 \in 1 .. Len(chain) /\ chain'[1] = chain[2]
    BY <1>0, <1>1, DoneMoves
  <2>2. Behind(T, chain[2])
    BY <1>0, <2>1, FirstIs
  <2> QED
    BY <2>1, <2>2 DEF Behind, HandOf
<1>2. CASE HelloLooksUp /\ T.kind = "hello" /\ Turns("ensure", BootKey(T))
  <2>1. boots' = boots
    BY <1>2 DEF HelloLooksUp, db
  <2>2. /\ chain'[1].step = "ensure" /\ chain'[1].key = BootKey(T) /\ chain'[1].of = T.of /\ chain'[1].next = T.next
    BY <1>2 DEF Turns, Same
  <2>3. /\ BootKey(T) \in Keys /\ BootKey(T).gen < T.of
        /\ \A b \in BootOf(BootKey(T)) : b.max < T.next
    BY <1>0, <1>2, BootKeyIs
  <2> QED
    BY <2>1, <2>2, <2>3 DEF HandOf, BootOf
<1>3. CASE EventChecks /\ T.live /\ ses.key \in Keys /\ Turns("insert", ses.key)
  <2>1. ghost' = ghost
    BY <1>3 DEF EventChecks
  <2>2. chain'[1].step = "insert" /\ chain'[1].key = ses.key /\ chain'[1].of = T.of
    BY <1>3 DEF Turns, Same
  <2>3. T.of = cam.boot
    BY <1>0, <1>3, HeadIs DEF Of
  <2>4. <<ses.key, cam.boot>> \in ghost.filed
    BY <1>0, <1>3, KeysAre DEF Filing
  <2>5. <<ses.key, cam.boot>>[1] = ses.key /\ <<ses.key, cam.boot>>[2] = cam.boot
    OBVIOUS
  <2>6. ses.key.gen < cam.boot
    BY <1>0, <2>4, <2>5 DEF Filing
  <2> QED
    BY <1>3, <2>1, <2>2, <2>3, <2>4, <2>6 DEF HandOf
<1>4. ASSUME NEW key, Turns("count", key)
      PROVE  HandOf(chain'[1], boots', ghost'.filed)
  BY <1>4 DEF Turns, HandOf
<1> QED
  BY <1>1, <1>2, <1>3, <1>4, ChainTurns

\* Every step keeps AtHand.
LEMMA AtHandStep ==
  ASSUME Inv, Types', Next
  PROVE  AtHand'
<1>0. Types /\ (chain # <<>> => HandOf(T, boots, ghost.filed))
  BY HandIs DEF Inv
<1>1. SUFFICES ASSUME chain' # <<>>
               PROVE  HandOf(chain'[1], boots', ghost'.filed)
  BY FirstNext, HandIs
<1>2. CASE ChainSteps \/ TaskFails
  BY <1>1, <1>2, AtHandTurns
<1>3. CASE PhoneHears
  <2>1. PICK u \in Tasks : chain' = Append(chain, u) /\ u.step = "start"
    BY <1>3, HeardIs
  <2>2. chain'[1] = T' /\ (chain = <<>> => T' = u) /\ (chain # <<>> => T' = T)
    BY <1>0, <1>1, <2>1, LongerIs, FirstNext
  <2>3. boots' = boots /\ ghost'.filed = ghost.filed
    <3>1. ~HelloEnsures /\ ~Wipe
      BY <1>3 DEF PhoneHears, Wipe, HelloEnsures, chainOnly, wires
    <3> QED
      BY <1>3, <3>1, HistoryIs DEF PhoneHears, db
  <2>4. CASE chain = <<>>
    BY <2>1, <2>2, <2>4 DEF HandOf
  <2>5. CASE chain # <<>>
    BY <1>0, <2>2, <2>3, <2>5
  <2> QED
    BY <2>4, <2>5
<1>4. CASE ~PhoneHears /\ ~(ChainSteps \/ TaskFails)
  <2>1. chain' = chain \/ chain' = Orphaned
    BY <1>1, <1>4, SidesAre
  <2>2. Len(chain') = Len(chain) /\ 1 \in 1 .. Len(chain') /\ Kept(chain[1], chain'[1])
    BY <1>0, <1>1, <2>1, FirstNext, Stays, OrphansMove
  <2>3. chain # <<>> /\ T = chain[1]
    <3>1. chain # <<>>
      BY <2>2
    <3> QED
      BY <1>0, <3>1, FramesAre
  <2>4. HandOf(T, boots, ghost.filed)
    BY <1>0, <2>3
  <2>5. chain'[1].step = T.step /\ chain'[1].key = T.key /\ chain'[1].of = T.of /\ chain'[1].next = T.next
    BY <2>2, <2>3 DEF Kept, Same
  <2>6. ~EventInserts /\ ~HelloEnsures
    BY <1>4 DEF ChainSteps
  <2>7. CASE Wipe
    BY <2>4, <2>5, <2>7, Wiped DEF HandOf
  <2>8. CASE ~Wipe
    <3>1. \A c \in boots' : \E b \in boots : b.key = c.key /\ b.max = c.max
      BY <2>6, <2>8, BootsAre DEF Grows
    <3>2. ghost'.filed = ghost.filed
      BY <2>6, <2>8, HistoryIs
    <3> QED
      BY <2>4, <2>5, <3>1, <3>2 DEF HandOf
  <2> QED
    BY <2>7, <2>8
<1> QED
  BY <1>2, <1>3, <1>4

-----------------------------------------------------------------------------
(* The floors. *)

\* What is lost stays lost, while the dashcam keeps its boot.
LEMMA LostStays ==
  ASSUME Inv, Types', Next, ~Wipe, cam'.boot = cam.boot
  PROVE  \A key, q : q \in Nat /\ LostOf(key, q, cam, ghost.gone) => LostOf(key, q, cam', ghost'.gone)
<1>1. Types /\ ~CamReboots /\ ghost.gone \subseteq ghost'.gone
  BY BootsPass DEF Inv
<1>2. OldestOf(cam) <= OldestOf(cam') /\ OldestOf(cam) \in Nat /\ OldestOf(cam') \in Nat
  BY <1>1, Growing, CamSizes, CamSizesNext DEF Grown
<1> QED
  BY <1>1, <1>2 DEF LostOf

\* What lies below a boot's floor.
BelowLost(key, floor, c, gone) == \A q \in 0 .. floor - 1 : LostOf(key, q, c, gone)

\* Floors, before and after a step.
LEMMA FloorsAre ==
  /\ Floors <=> /\ \A b \in boots : b.key \notin ghost.blind /\ <<b.key, cam.boot>> \in ghost.filed =>
                     BelowLost(b.key, b.floor, cam, ghost.gone)
                /\ ses.key # NoKey /\ ses.key \notin ghost.blind => BelowLost(ses.key, ses.floor, cam, ghost.gone)
  /\ Floors' <=> /\ \A b \in boots' : b.key \notin ghost'.blind /\ <<b.key, cam'.boot>> \in ghost'.filed =>
                      BelowLost(b.key, b.floor, cam', ghost'.gone)
                 /\ ses'.key # NoKey /\ ses'.key \notin ghost'.blind => BelowLost(ses'.key, ses'.floor, cam', ghost'.gone)
  BY DEF Floors, BelowLost

\* What a task of the dashcam's boot was told is the oldest, is past.
LEMMA OldestToldIs ==
  ASSUME Inv, Types', Next, ~Wipe, cam' = cam, chain # <<>>, T.kind # "event", T.of = cam.boot, NEW key
  PROVE  BelowLost(key, T.oldest, cam', ghost'.gone)
<1>1. Types /\ Waiting
  BY DEF Inv
<1>2. T \in Tasks /\ Told(T, cam) /\ OldestOf(cam) \in Nat
  BY <1>1, HeadIs, CamSizes
<1>3. T.oldest \in Nat /\ T.oldest <= OldestOf(cam)
  BY <1>1, <1>2, NumbersAre DEF Told
<1> QED
  BY <1>2, <1>3 DEF BelowLost, LostOf

\* Below the floor of the dashcam's boot all is lost, after every step: a floor is raised to what
\* the dashcam said is its oldest, or by the prune.
LEMMA BootFloors ==
  ASSUME Inv, Types', Next, ~Wipe, NEW c \in boots', c.key \notin ghost'.blind, <<c.key, cam'.boot>> \in ghost'.filed
  PROVE  cam'.boot = cam.boot /\ BelowLost(c.key, c.floor, cam', ghost'.gone)
<1>0. Types /\ Filing /\ Waiting
      /\ \A b \in boots : b.key \notin ghost.blind /\ <<b.key, cam.boot>> \in ghost.filed =>
           BelowLost(b.key, b.floor, cam, ghost.gone)
  BY FloorsAre DEF Inv
<1>1. c.key \notin ghost.blind
  BY BootsPass
<1>2. c.floor \in Nat
  BY NumbersAreNext
<1>3. CASE ~HelloEnsures
  <2>1. ghost'.filed = ghost.filed
    BY <1>3, HistoryIs
  <2>2. cam'.boot = cam.boot
    <3>1. cam'.boot <= cam.boot
      BY <1>0, <2>1 DEF Filing
    <3> QED
      BY <3>1, BootsPass
  <2>3. PICK b \in boots : Grows(b, c)
    BY <1>3, BootsAre
  <2>4. b.key = c.key /\ BelowLost(c.key, b.floor, cam, ghost.gone)
    BY <1>0, <1>1, <2>1, <2>2, <2>3 DEF Grows
  <2>5. CASE c.floor = b.floor
    BY <1>2, <2>2, <2>4, <2>5, LostStays DEF BelowLost
  <2>6. CASE SameEnsures /\ T.live /\ c.floor = T.oldest
    <3>1. chain # <<>> /\ T.kind = "same" /\ cam' = cam
      BY <2>6, SameEnsuresIs
    <3>2. T.of = cam.boot
      BY <1>0, <2>6, <3>1, HeadIs DEF Of
    <3> QED
      BY <2>2, <2>6, <3>1, <3>2, OldestToldIs
  <2>7. CASE \A q \in 0 .. c.floor - 1 : <<c.key, q>> \in ghost'.gone
    BY <2>2, <2>7 DEF BelowLost, LostOf
  <2> QED
    BY <2>3, <2>5, <2>6, <2>7 DEF Grows
<1>4. CASE HelloEnsures
  <2>1. /\ cam' = cam /\ chain # <<>> /\ T.kind = "hello" /\ T.key \in Keys /\ T.oldest \in Nat
        /\ ghost'.filed = ghost.filed \cup {<<T.key, T.of>>}
    BY <1>4, HelloEnsuresIs
  <2>2. PICK n \in Boots :
             /\ boots' = {b \in boots : b.key # T.key} \cup {n} /\ n.key = T.key
             /\ BootOf(T.key) = {} => n.floor = T.oldest
             /\ BootOf(T.key) # {} => \E b \in boots : b.key = T.key /\ n.floor \in {T.oldest, b.floor}
             /\ T.key \notin ghost'.blind => \A p \in ghost.filed : p[1] = T.key => p[2] = T.of
    BY <1>4, FiledIs
  <2>3. CASE c \in boots /\ c.key # T.key
    <3>1. BelowLost(c.key, c.floor, cam, ghost.gone)
      BY <1>0, <1>1, <2>1, <2>3
    <3> QED
      BY <1>2, <2>1, <3>1, LostStays DEF BelowLost
  <2>4. CASE c = n
    <3>1. \A p \in ghost.filed : p[1] = T.key => p[2] = T.of
      BY <2>2, <2>4
    <3>2. T.of = cam.boot
      <4>1. <<T.key, cam.boot>> \in ghost.filed \/ <<T.key, cam.boot>> = <<T.key, T.of>>
        BY <2>1, <2>2, <2>4
      <4>2. <<T.key, cam.boot>>[1] = T.key /\ <<T.key, cam.boot>>[2] = cam.boot
        OBVIOUS
      <4>3. <<T.key, cam.boot>> = <<T.key, T.of>> => T.of = cam.boot
        OBVIOUS
      <4> QED
        BY <3>1, <4>1, <4>2, <4>3
    <3>3. BelowLost(T.key, T.oldest, cam', ghost'.gone)
      BY <2>1, <3>2, OldestToldIs
    <3>4. ASSUME NEW b \in boots, b.key = T.key
          PROVE  BelowLost(T.key, b.floor, cam', ghost'.gone)
      <4>1. PICK p \in ghost.filed : p[1] = b.key
        BY <1>0 DEF Filing
      <4>2. p = <<b.key, cam.boot>>
        BY <1>0, <3>1, <3>2, <3>4, <4>1, NumbersAre
      <4>3. BelowLost(b.key, b.floor, cam, ghost.gone)
        BY <1>0, <1>1, <2>2, <2>4, <3>4, <4>2
      <4>4. b.floor \in Nat
        BY <1>0, NumbersAre
      <4> QED
        BY <2>1, <3>4, <4>3, <4>4, LostStays DEF BelowLost
    <3>5. n.floor = T.oldest \/ \E b \in boots : b.key = T.key /\ n.floor = b.floor
      BY <2>2
    <3> QED
      BY <2>1, <2>2, <2>4, <3>3, <3>4, <3>5
  <2> QED
    BY <2>2, <2>3, <2>4
<1> QED
  BY <1>3, <1>4

\* The session's floor is that of the boot it files its events under.
LEMMA SessionFloor ==
  ASSUME Inv, Types', Next, ~Wipe, ses'.key # NoKey, ses'.key \notin ghost'.blind
  PROVE  cam'.boot = cam.boot /\ BelowLost(ses'.key, ses'.floor, cam', ghost'.gone)
<1>0. /\ Types /\ Filing /\ Waiting /\ ses \in Sessions /\ ses' \in Sessions
      /\ (ses.key # NoKey /\ ses.key \notin ghost.blind => BelowLost(ses.key, ses.floor, cam, ghost.gone))
  BY FloorsAre, FramesAre, FramesAreNext DEF Inv
<1>1. ses'.key \notin ghost.blind /\ ses'.floor \in Nat /\ ses.floor \in Nat
  BY <1>0, BootsPass DEF Sessions
<1>2. CASE ses'.key = ses.key /\ ses'.floor = ses.floor /\ cam'.boot = cam.boot
  <2>1. BelowLost(ses.key, ses.floor, cam, ghost.gone)
    BY <1>0, <1>1, <1>2
  <2> QED
    BY <1>1, <1>2, <2>1, LostStays DEF BelowLost
<1>3. ASSUME NEW n \in boots', n.key = ses'.key, n.floor = ses'.floor,
             <<ses'.key, cam.boot>> \in ghost'.filed, cam' = cam
      PROVE  cam'.boot = cam.boot /\ BelowLost(ses'.key, ses'.floor, cam', ghost'.gone)
  BY <1>3, BootFloors
<1>4. CASE /\ HelloEnsures /\ T.of = cam.boot /\ cam' = cam /\ ses'.key = T.key
           /\ ses'.floor = StoredFloor(T.key, T.oldest)
  <2>1. PICK n \in Boots : Ensured(n, T.key, T.oldest) /\ boots' = {b \in boots : b.key # T.key} \cup {n}
    BY <1>4, FiledIs
  <2>2. <<T.key, cam.boot>> \in ghost'.filed
    BY <1>4, HelloEnsuresIs
  <2> QED
    BY <1>3, <1>4, <2>1, <2>2 DEF Ensured
<1>5. CASE SameEnsures /\ T.live /\ cam' = cam /\ ses.key \in Keys /\ ses'.key = ses.key
           /\ ses'.floor = StoredFloor(ses.key, T.oldest)
  <2>1. EnsureBoot(ses.key, T.oldest) /\ ghost' = ghost /\ T.oldest \in Nat
    BY <1>5, KeysAre, SameEnsuresIs DEF SameEnsures
  <2>2. PICK n \in Boots : Ensured(n, ses.key, T.oldest) /\ boots' = {b \in boots : b.key # ses.key} \cup {n}
    BY <1>0, <1>5, <2>1, EnsureIs
  <2>3. <<ses.key, cam.boot>> \in ghost'.filed
    BY <1>0, <1>5, <2>1, KeysAre DEF Filing
  <2> QED
    BY <1>3, <1>5, <2>2, <2>3 DEF Ensured
<1> QED
  BY <1>2, <1>4, <1>5, SessionIs

\* Every step keeps Floors.
LEMMA FloorsStep ==
  ASSUME Inv, Types', Next
  PROVE  Floors'
<1>1. CASE Wipe
  <2>1. boots' = {} /\ ses'.key = NoKey
    BY <1>1, Wiped
  <2> QED
    BY <2>1, FloorsAre
<1>2. CASE ~Wipe
  BY <1>2, BootFloors, SessionFloor, FloorsAre
<1> QED
  BY <1>1, <1>2

-----------------------------------------------------------------------------
(* The cursor. *)

\* A seq is stored, or lost.
Covered(key, q, rs, c, gone) ==
  (\E r \in rs : r.key = key /\ r.seq = q /\ r.of = c.boot) \/ LostOf(key, q, c, gone)

\* CursorHonest, before and after a step.
LEMMA CursorHonestIs ==
  /\ CursorHonest <=> (ses.ready /\ ses.key \notin ghost.blind =>
                         \A q \in 0 .. ses.cursor - 1 : Covered(ses.key, q, rows, cam, ghost.gone))
  /\ CursorHonest' <=> (ses'.ready /\ ses'.key \notin ghost'.blind =>
                          \A q \in 0 .. ses'.cursor - 1 : Covered(ses'.key, q, rows', cam', ghost'.gone))
  BY DEF CursorHonest, Alone, Has, Lost, Covered, LostOf, OldestOf, Oldest, NextSeq

\* The session's boot is filed and stored, and below its floors all is lost.
LEMMA KeyFloors ==
  ASSUME Inv, ses.key # NoKey, ses.key \notin ghost.blind
  PROVE  /\ <<ses.key, cam.boot>> \in ghost.filed
         /\ BelowLost(ses.key, ses.floor, cam, ghost.gone)
         /\ BootOf(ses.key) # {}
         /\ \A b \in BootOf(ses.key) : b.key = ses.key /\ BelowLost(ses.key, b.floor, cam, ghost.gone)
<1>1. Filing /\ Floors
  BY DEF Inv
<1>2. <<ses.key, cam.boot>> \in ghost.filed /\ <<ses.key, cam.boot>>[1] = ses.key
  BY <1>1 DEF Filing
<1>3. \E b \in boots : b.key = ses.key
  BY <1>1, <1>2 DEF Filing
<1> QED
  BY <1>1, <1>2, <1>3, FloorsAre DEF BootOf

\* A seq that is covered stays so, under the session's key.
LEMMA CoveredStays ==
  ASSUME Inv, Types', Next, ~Wipe, cam'.boot = cam.boot, ses.key # NoKey, ses.key \notin ghost.blind,
         NEW q \in Nat, Covered(ses.key, q, rows, cam, ghost.gone)
  PROVE  Covered(ses.key, q, rows', cam', ghost'.gone)
<1>1. CASE LostOf(ses.key, q, cam, ghost.gone)
  BY <1>1, LostStays DEF Covered
<1>2. CASE \E r \in rows : r.key = ses.key /\ r.seq = q /\ r.of = cam.boot
  <2>1. PICK r \in rows : r.key = ses.key /\ r.seq = q /\ r.of = cam.boot
    BY <1>2
  <2>2. CASE Pruned(r)
    <3>1. PICK b \in BootOf(ses.key) : BelowLost(ses.key, b.floor, cam, ghost.gone)
      BY KeyFloors
    <3>2. q < b.floor /\ b \in boots
      BY <2>1, <2>2 DEF Pruned, BootOf
    <3>3. b.floor \in Nat
      <4>1. Types
        BY DEF Inv
      <4> QED
        BY <3>2, <4>1, NumbersAre
    <3>4. LostOf(ses.key, q, cam, ghost.gone)
      BY <3>1, <3>2, <3>3 DEF BelowLost
    <3> QED
      BY <3>4, LostStays DEF Covered
  <2>3. CASE ~Pruned(r)
    <3>1. \E s \in rows' : SameRow(r, s)
      BY <2>3, RowsAre
    <3> QED
      BY <2>1, <3>1 DEF Covered, SameRow
  <2> QED
    BY <2>2, <2>3
<1> QED
  BY <1>1, <1>2 DEF Covered

\* All below a cursor that was read is covered.
LEMMA CursorCovers ==
  ASSUME Inv, ses.key \in Keys, ses.key \notin ghost.blind
  PROVE  \A q \in 0 .. Cursor(ses.key, ses.floor) - 1 : Covered(ses.key, q, rows, cam, ghost.gone)
<1>0. Types /\ Filing /\ ses \in Sessions
  BY FramesAre DEF Inv
<1>1. ses.floor \in Nat /\ ses.key # NoKey
  BY <1>0, SessionFields, KeysAre
<1>2. ASSUME NEW q \in 0 .. Cursor(ses.key, ses.floor) - 1
      PROVE  Covered(ses.key, q, rows, cam, ghost.gone)
  <2> DEFINE f == StoredFloor(ses.key, ses.floor)
  <2>1. /\ Cursor(ses.key, ses.floor) \in Nat
        /\ \A p \in f .. Cursor(ses.key, ses.floor) - 1 : p \in Stored(ses.key)
    BY <1>0, <1>1, CursorIs
  <2>2. f \in Nat /\ \A b \in BootOf(ses.key) : f \in {ses.floor, b.floor}
    BY <1>0, <1>1, FloorIs
  <2> HIDE DEF f
  <2>3. CASE q < f
    <3>1. PICK b \in BootOf(ses.key) : BelowLost(ses.key, b.floor, cam, ghost.gone)
      BY <1>1, KeyFloors
    <3>2. BelowLost(ses.key, f, cam, ghost.gone)
      BY <1>1, <2>2, <3>1, KeyFloors
    <3>3. q \in 0 .. f - 1
      BY <2>1, <2>2, <2>3
    <3> QED
      BY <3>2, <3>3 DEF BelowLost, Covered
  <2>4. CASE f <= q
    <3>1. q \in f .. Cursor(ses.key, ses.floor) - 1
      BY <2>1, <2>2, <2>4
    <3>2. q \in Stored(ses.key)
      BY <2>1, <3>1
    <3>3. PICK r \in rows : r.key = ses.key /\ r.seq = q
      BY <3>2 DEF Stored
    <3>4. <<ses.key, r.of>> \in ghost.filed
      BY <1>0, <3>3 DEF Filing
    <3>5. <<ses.key, cam.boot>> \in ghost.filed
      BY <1>1, KeyFloors
    <3>6. <<ses.key, r.of>>[1] = ses.key /\ <<ses.key, cam.boot>>[1] = ses.key
      OBVIOUS
    <3>7. <<ses.key, r.of>> = <<ses.key, cam.boot>>
      BY <1>0, <3>4, <3>5, <3>6 DEF Filing
    <3>8. r.of = cam.boot
      BY <3>7
    <3> QED
      BY <3>3, <3>8 DEF Covered
  <2> QED
    BY <2>1, <2>2, <2>3, <2>4
<1> QED
  BY <1>2

\* Every step keeps CursorHonest.
LEMMA CursorStep ==
  ASSUME Inv, Types', Next
  PROVE  CursorHonest'
<1>0. /\ Types /\ Session /\ ses \in Sessions
      /\ (ses.ready /\ ses.key \notin ghost.blind =>
            \A q \in 0 .. ses.cursor - 1 : Covered(ses.key, q, rows, cam, ghost.gone))
  BY FramesAre, CursorHonestIs DEF Inv
<1>1. CASE Wipe
  <2>1. ses'.ready = FALSE
    BY <1>1, Wiped
  <2> QED
    BY <2>1, CursorHonestIs
<1>2. CASE ~Wipe
  <2>1. SUFFICES ASSUME ses'.ready, ses'.key \notin ghost'.blind, NEW q \in 0 .. ses'.cursor - 1
                 PROVE  Covered(ses'.key, q, rows', cam', ghost'.gone)
    BY CursorHonestIs
  <2>2. q \in Nat
    BY <2>1
  <2>3. ses'.key \notin ghost.blind
    BY <1>2, <2>1, BootsPass
  <2>4. CASE ses'.key = ses.key /\ ses'.ready = ses.ready /\ ses'.cursor = ses.cursor /\ cam'.boot = cam.boot
    <3>1. ses.key # NoKey /\ Covered(ses.key, q, rows, cam, ghost.gone)
      BY <1>0, <2>1, <2>3, <2>4 DEF Session
    <3> QED
      BY <1>2, <2>2, <2>3, <2>4, <3>1, CoveredStays
  <2>5. CASE (HelloCounts \/ Counts) /\ cam' = cam /\ ses.key \in Keys /\ ses'.key = ses.key
             /\ ses'.cursor = Cursor(ses.key, ses.floor)
    <3>1. rows' = rows /\ ghost' = ghost
      BY <2>5 DEF HelloCounts, Counts, db
    <3> QED
      BY <2>1, <2>3, <2>5, <3>1, CursorCovers
  <2> QED
    BY <2>1, <2>4, <2>5, SessionIs
<1> QED
  BY <1>1, <1>2

-----------------------------------------------------------------------------
(* What happened. *)

\* How a drive goes on: a new one, a step of the one under way, or one taken up again.
Passes(t, u, again) ==
  \/ u = t
  \/ t.st = "none" /\ u.n = t.n + 1 /\ u.st # "none"
  \/ u.n = t.n /\ u.st \in {"none", "cut"} /\ t.st # "none"
  \/ u.n = t.n /\ t.st \notin {"none", "cut"} /\ u.st \notin {"none", "cut", "rolling"}
  \/ u.n = t.n /\ t.st = "cut" /\ u.st \notin {"none", "rolling"} /\ t.n \in again

\* Every step takes the drive on as Passes says.
LEMMA TripIs ==
  ASSUME Types, Next
  PROVE  Passes(trip, trip', ghost'.again) /\ trip.n \in Nat /\ trip'.n \in Nat /\ trip'.n >= trip.n
<1>0. trip \in Trips /\ Past(ghost) /\ MaxDrives \in Nat
  BY TypesAre, ConstantsAre
<1>1. trip.n \in Nat
  BY <1>0 DEF Trips
<1>2. CASE CarRolls \/ DriveOpens
  <2>1. \/ trip.st = "none" /\ trip'.n = trip.n + 1 /\ trip'.st \in {"rolling", "open"}
        \/ trip.st = "rolling" /\ trip'.n = trip.n /\ trip'.st \in {"none", "open"}
    BY <1>0, <1>2 DEF CarRolls, DriveOpens, Trips
  <2> QED
    BY <1>1, <2>1 DEF Passes
<1>3. CASE DriveReopens
  <2>1. trip.st = "cut" /\ trip'.n = trip.n /\ trip'.st = "open" /\ trip.n \in ghost'.again
    BY <1>0, <1>3 DEF DriveReopens, Trips, Past
  <2> QED
    BY <1>1, <2>1 DEF Passes
<1>4. CASE DriveEnds \/ BeforeFinalize
  <2>1. trip.st \in {"open", "ending"} /\ trip'.n = trip.n /\ trip'.st \in {"ending", "stamped"}
    BY <1>0, <1>4 DEF DriveEnds, BeforeFinalize, Trips
  <2> QED
    BY <1>1, <2>1 DEF Passes
<1>5. CASE Facts
  <2>1. trip.st \in {"stamped", "cut"} /\ trip'.n = trip.n /\ trip'.st = "none"
    BY <1>0, <1>5 DEF Facts, Trips
  <2> QED
    BY <1>1, <2>1 DEF Passes
<1>6. CASE Kill
  <2>1. trip' = trip \/ (trip.st \in {"open", "ending", "stamped"} /\ trip'.n = trip.n /\ trip'.st = "cut")
    BY <1>0, <1>6 DEF Kill, Trips, DriveOpen
  <2> QED
    BY <1>1, <2>1 DEF Passes
<1>7. CASE trip' = trip
  BY <1>1, <1>7 DEF Passes
<1> QED
  BY <1>2, <1>3, <1>4, <1>5, <1>6, <1>7, StoreIs DEF Drive, DriveRow

\* What is said of an event's time stays true, ...
LEMMA InTimeStays ==
  ASSUME Inv, Next, NEW x, x.in \in Nat, InTime(x, trip, ghost.again)
  PROVE  InTime(x, trip', ghost'.again)
<1>1. Passes(trip, trip', ghost'.again) /\ trip.n \in Nat /\ trip'.n \in Nat /\ trip'.n >= trip.n
  BY TripIs DEF Inv
<1>2. ghost.again \subseteq ghost'.again
  <2>1. CASE DriveReopens
    BY <2>1, TypesAre DEF DriveReopens, Past, Inv
  <2>2. CASE ~DriveReopens
    BY <2>2, HistoryIs
  <2> QED
    BY <2>1, <2>2
<1> QED
  BY <1>1, <1>2 DEF InTime, Passes

\* ... and what is over stays over.
LEMMA OverStays ==
  ASSUME Types, Next, NEW d \in Nat, Over(d, trip)
  PROVE  Over(d, trip')
<1>1. Passes(trip, trip', ghost'.again) /\ trip.n \in Nat /\ trip'.n \in Nat /\ trip'.n >= trip.n
  BY TripIs
<1> QED
  BY <1>1 DEF Over, Passes

\* What is recorded stays as it was recorded.
LEMMA RecordedStays ==
  ASSUME Inv, Types', Next, NEW r \in rows, NEW s, SameRow(r, s)
  PROVE  Recorded(s, cam', trip', ghost'.again)
<1>0. Types /\ Recorded(r, cam, trip, ghost.again) /\ r \in Rows
  BY DEF Inv, Happened, Types, TypeOK
<1>1. r.in \in Nat /\ r.seq \in Nat /\ r.of \in Nat
  BY <1>0, ConstantsAre DEF Rows
<1>2. s.in = r.in /\ s.ignored = r.ignored /\ s.rcv = r.rcv /\ s.seq = r.seq /\ s.of = r.of
  BY DEF SameRow
<1>3. InTime(r, trip', ghost'.again)
  BY <1>0, <1>1, InTimeStays DEF Recorded
<1>4. InTime(s, trip', ghost'.again)
  BY <1>2, <1>3 DEF InTime
<1>5. s.trip \in {None, s.in}
  <2>1. Claimable(r) => r.in = trip.n
    BY DEF Claimable
  <2> QED
    BY <1>0, <1>2, <2>1 DEF SameRow, Recorded
<1>6. ASSUME s.old
      PROVE  Over(s.in, trip')
  <2>1. CASE r.old
    BY <1>0, <1>1, <1>2, <2>1, OverStays DEF Recorded
  <2>2. CASE PruneRaises
    <3>1. trip.st = "none" /\ trip.n \in Nat
      BY <1>0, <2>2, TripIs DEF PruneRaises
    <3>2. r.in <= trip.n
      BY <1>0 DEF Recorded, InTime
    <3>3. Over(r.in, trip)
      BY <1>1, <3>1, <3>2 DEF Over
    <3> QED
      BY <1>0, <1>1, <1>2, <3>3, OverStays
  <2> QED
    BY <1>6, <2>1, <2>2 DEF SameRow
<1>7. /\ cam.boot \in Nat /\ cam'.boot \in Nat /\ cam.boot <= cam'.boot
      /\ (cam'.boot = cam.boot \/ cam'.boot = cam.boot + 1) /\ (CamReboots <=> cam'.boot = cam.boot + 1)
  BY BootsPass, CamSizesNext
<1>8. s.of <= cam'.boot
  BY <1>0, <1>1, <1>2, <1>7 DEF Recorded
<1>9. ASSUME s.of = cam'.boot
      PROVE  s.seq < Len(cam'.log) /\ s.in = cam'.log[s.seq + 1]
  <2>1. r.of <= cam.boot
    BY <1>0 DEF Recorded
  <2>2. r.of = cam.boot /\ ~CamReboots
    BY <1>1, <1>2, <1>7, <1>9, <2>1
  <2>3. r.seq < Len(cam.log) /\ r.in = cam.log[r.seq + 1]
    BY <1>0, <2>2 DEF Recorded
  <2>4. /\ Len(cam.log) \in Nat /\ Len(cam'.log) \in Nat /\ Len(cam.log) <= Len(cam'.log)
        /\ \A k \in 1 .. Len(cam.log) : cam'.log[k] = cam.log[k]
    BY <1>0, <2>2, Growing, CamSizes, CamSizesNext DEF Grown
  <2>5. r.seq + 1 \in 1 .. Len(cam.log)
    BY <1>1, <2>3, <2>4
  <2> QED
    BY <1>1, <1>2, <2>3, <2>4, <2>5
<1> QED
  BY <1>4, <1>5, <1>6, <1>8, <1>9 DEF Recorded

\* A task's event is recorded as it was told.
LEMMA RecordsTold ==
  ASSUME Inv, Types', Next, EventInserts
  PROVE  Recorded(RowOf(T.key, T), cam', trip', ghost'.again)
<1>0. /\ Types /\ Waiting /\ chain # <<>> /\ T \in Tasks /\ T.kind = "event" /\ UNCHANGED <<cam, trip>>
      /\ ghost'.again = ghost.again
  BY EventInsertsIs DEF Inv
<1>1. T = chain[1] /\ 1 \in 1 .. Len(chain) /\ Told(T, cam)
  BY <1>0, HeadIs
<1>2. InTime(T, trip, ghost.again)
  BY <1>0, <1>1 DEF Inv, Happened
<1> DEFINE r == RowOf(T.key, T)
<1>3. /\ r.in = T.in /\ r.ignored = T.ignored /\ r.rcv = T.rcv /\ r.seq = T.seq /\ r.of = T.of
      /\ r.trip = None /\ r.old = FALSE
  BY DEF RowOf
<1> HIDE DEF r
<1>4. InTime(r, trip, ghost.again)
  BY <1>2, <1>3 DEF InTime
<1>5. T.seq \in Nat /\ Len(cam.log) \in Nat
  BY <1>0, NumbersAre, CamSizes
<1>6. r.of <= cam.boot /\ (r.of = cam.boot => r.seq < Len(cam.log) /\ r.in = cam.log[r.seq + 1])
  BY <1>0, <1>1, <1>3, <1>5 DEF Told, Reach
<1> QED
  BY <1>0, <1>3, <1>4, <1>6 DEF Recorded, r

\* No event of the log is of a drive still to come, after every step.
LEMMA LogStep ==
  ASSUME Inv, Types', Next
  PROVE  \A k \in 1 .. Len(cam'.log) : cam'.log[k] <= trip'.n
<1>0. Types /\ Happened
  BY DEF Inv
<1>1. trip.n \in Nat /\ trip'.n \in Nat /\ trip.n <= trip'.n
  BY <1>0, TripIs
<1>2. cam.log \in Seq(0 .. MaxDrives) /\ MaxDrives \in Nat
  BY <1>0, CamIs, ConstantsAre
<1>3. \A k \in 1 .. Len(cam.log) : cam.log[k] \in Nat /\ cam.log[k] <= trip'.n
  <2>1. \A k \in 1 .. Len(cam.log) : cam.log[k] \in Nat
    BY <1>2, EntryIs
  <2> QED
    BY <1>0, <1>1, <2>1 DEF Happened
<1>4. CASE EventHappens
  <2>1. InDrive \in Nat /\ InDrive <= trip.n
    BY <1>1 DEF InDrive
  <2>2. cam'.log = Append(cam.log, InDrive)
    BY <1>0, <1>4 DEF EventHappens, Types, TypeOK, Cams
  <2>3. InDrive \in 0 .. MaxDrives
    <3>1. trip.n \in 0 .. MaxDrives
      BY <1>0, TypesAre DEF Trips
    <3> QED
      BY <1>2, <3>1 DEF InDrive
  <2>4. /\ Len(cam'.log) = Len(cam.log) + 1 /\ Len(cam.log) \in Nat /\ cam'.log[Len(cam.log) + 1] = InDrive
        /\ \A k \in 1 .. Len(cam.log) : cam'.log[k] = cam.log[k]
    BY <1>2, <2>2, <2>3, AppendIs
  <2>5. ASSUME NEW k \in 1 .. Len(cam'.log)
        PROVE  cam'.log[k] <= trip'.n
    <3>1. k = Len(cam.log) + 1 \/ k \in 1 .. Len(cam.log)
      BY <2>4
    <3> QED
      BY <1>1, <1>3, <2>1, <2>4, <3>1
  <2> QED
    BY <2>5
<1>5. CASE CamReboots
  <2>1. cam'.log = <<>>
    BY <1>0, <1>5 DEF CamReboots, Types, TypeOK, Cams
  <2> QED
    BY <2>1
<1>6. CASE CamStays
  BY <1>3, <1>6 DEF CamStays
<1> QED
  BY <1>0, <1>4, <1>5, <1>6, CamKeeps

\* The same of the events on their way, ...
LEMMA FrameTimes ==
  ASSUME Inv, Types', Next
  PROVE  \A i \in 1 .. Len(toPhone') : toPhone'[i].t = "event" => toPhone'[i].in <= trip'.n
<1>0. Types /\ Happened /\ Flying
  BY DEF Inv
<1>1. trip.n \in Nat /\ trip'.n \in Nat /\ trip.n <= trip'.n
  BY <1>0, TripIs
<1>2. SUFFICES ASSUME NEW i \in 1 .. Len(toPhone'), toPhone'[i].t = "event"
               PROVE  toPhone'[i].in <= trip'.n
  OBVIOUS
\* A frame tells of an event that is in the log.
<1>3. Flying' /\ \A k \in 1 .. Len(cam'.log) : cam'.log[k] <= trip'.n
  BY FlyingStep, LogStep
<1>4. toPhone'[i] \in Events
  BY <1>2, FramesAreNext DEF Hellos, Events
<1>5. toPhone'[i].seq \in Nat /\ Len(cam'.log) \in Nat
  BY <1>4, ConstantsAre, CamSizesNext DEF Events
<1>6. toPhone'[i].seq < Len(cam'.log) /\ toPhone'[i].in = cam'.log[toPhone'[i].seq + 1]
  BY <1>2, <1>3 DEF Flying, Sent
<1>7. toPhone'[i].seq + 1 \in 1 .. Len(cam'.log)
  BY <1>5, <1>6
<1> QED
  BY <1>3, <1>6, <1>7

\* ... and of those on the chain, which say truly whether a drive was open.
LEMMA TaskTimes ==
  ASSUME Inv, Types', Next
  PROVE  \A i \in 1 .. Len(chain') : chain'[i].kind = "event" => InTime(chain'[i], trip', ghost'.again)
<1>0. Types /\ Happened
  BY DEF Inv
<1>1. \A i \in 1 .. Len(chain) : chain[i] \in Tasks /\ chain[i].in \in Nat
  BY <1>0, FramesAre, ConstantsAre DEF Tasks
<1>2. CASE PhoneHears
  <2>1. PICK u \in Tasks :
          /\ chain' = Append(chain, u)
          /\ u.kind = "event" => toPhone[1] \in Events /\ HeardEvent(toPhone[1], u)
    BY <1>2, HeardIs
  <2>2. \A i \in 1 .. Len(chain') : chain'[i] = u \/ (i \in 1 .. Len(chain) /\ chain'[i] = chain[i])
    <3>1. /\ chain'[Len(chain')] = u
          /\ \A j \in 1 .. Len(chain') : j = Len(chain') \/ (j \in 1 .. Len(chain) /\ chain'[j] = chain[j])
      BY <1>0, <2>1, LongerIs
    <3> QED
      BY <3>1
  <2>3. trip' = trip /\ ghost'.again = ghost.again /\ 1 \in 1 .. Len(toPhone) /\ trip.n \in Nat /\ trip \in Trips
    <3>2. trip.n \in Nat /\ trip \in Trips
      BY <1>0, TripIs, TypesAre
    <3>3. ghost'.again = ghost.again
      BY <1>0, <1>2, HearsIs, TypesAre DEF Past
    <3> QED
      BY <1>0, <1>2, <3>2, <3>3, HearsIs
  <2>4. ASSUME u.kind = "event"
        PROVE  InTime(u, trip, ghost.again)
    <3>1. u.in = toPhone[1].in /\ u.ignored = (~DriveOpen) /\ u.rcv = Opened /\ toPhone[1].t = "event"
      BY <2>1, <2>4 DEF HeardEvent, Events
    <3>2. u.in <= trip.n
      BY <1>0, <2>3, <3>1 DEF Happened
    <3>3. trip.st \notin {"none", "cut"} => DriveOpen \/ Opened < trip.n
      BY <2>3 DEF Trips, DriveOpen, Opened
    <3> QED
      BY <3>1, <3>2, <3>3 DEF InTime
  <2> QED
    BY <1>0, <2>2, <2>3, <2>4 DEF Happened
<1>3. CASE ~PhoneHears
  <2>1. PICK k \in {0, 1} : Moves(chain', chain, k)
    BY <1>3, ChainMoves
  <2>2. ASSUME NEW i \in 1 .. Len(chain'), chain'[i].kind = "event"
        PROVE  InTime(chain'[i], trip', ghost'.again)
    <3>1. i + k \in 1 .. Len(chain) /\ Same(chain[i + k], chain'[i])
      BY <2>1 DEF Moves
    <3>2. InTime(chain[i + k], trip, ghost.again)
      BY <1>0, <2>2, <3>1 DEF Happened, Same
    <3>3. InTime(chain[i + k], trip', ghost'.again)
      BY <1>1, <3>1, <3>2, InTimeStays
    <3> QED
      BY <3>1, <3>3 DEF Same, InTime
  <2> QED
    BY <2>2
<1> QED
  BY <1>2, <1>3

\* Every step keeps Happened.
LEMMA HappenedStep ==
  ASSUME Inv, Types', Next
  PROVE  Happened'
<1>0. Types /\ Happened
  BY DEF Inv
<1>1. ASSUME NEW s \in rows'
      PROVE  Recorded(s, cam', trip', ghost'.again)
  <2>1. CASE Wipe
    BY <1>1, <2>1, Wiped
  <2>2. CASE ~Wipe
    <3>1. (\E r \in rows : SameRow(r, s)) \/ (EventInserts /\ s = RowOf(T.key, T))
      BY <1>1, <2>2, RowsAre
    <3> QED
      BY <3>1, RecordedStays, RecordsTold
  <2> QED
    BY <2>1, <2>2
<1>2. trip'.st # "none" => trip'.n > 0
  <2>1. Passes(trip, trip', ghost'.again) /\ trip.n \in Nat
    BY <1>0, TripIs
  <2> QED
    BY <1>0, <2>1 DEF Passes, Happened
<1> QED
  BY <1>1, <1>2, LogStep, FrameTimes, TaskTimes DEF Happened

-----------------------------------------------------------------------------
(* What drives are owed. *)

\* Only its facts end a drive that has opened.
LEMMA EndsIn ==
  ASSUME Types, Next, trip.st \notin {"none", "rolling"}, trip'.st = "none"
  PROVE  Facts
<1>0. trip \in Trips
  BY TypesAre
<1>1. CASE Kill
  BY <1>0, <1>1 DEF Kill, Trips, DriveOpen
<1>2. CASE CarRolls \/ DriveOpens \/ DriveReopens \/ DriveRow \/ DriveEnds \/ BeforeFinalize
  BY <1>0, <1>2 DEF CarRolls, DriveOpens, DriveReopens, DriveRow, DriveEnds, BeforeFinalize, Trips
<1> QED
  BY <1>1, <1>2, StoreIs DEF Drive

\* A row that a drive was owed is there for it.
LEMMA HeldStays ==
  ASSUME Inv, Types', Next, ~Wipe, NEW o, o.drive \in Nat,
         o.drive < trip.n \/ (o.drive = trip.n /\ trip.st # "rolling"), NEW r \in rows, Holds(o, r, trip)
  PROVE  \E s \in rows' : Holds(o, s, trip')
<1>0. Types /\ Recorded(r, cam, trip, ghost.again) /\ trip \in Trips /\ trip.n \in Nat /\ trip'.n \in Nat
  BY TypesAre, TripIs DEF Inv, Happened
<1>1. ~Pruned(r)
  <2>1. Over(o.drive, trip) => r.trip # None
    BY DEF Holds, None
  <2> QED
    BY <2>1 DEF Pruned, Holds
<1>2. PICK s \in rows' : SameRow(r, s)
  BY <1>1, RowsAre
<1>3. s.of = o.of /\ s.seq = o.seq /\ s.in = o.drive /\ s.ignored = r.ignored /\ s.rcv = r.rcv /\ r.in = o.drive
  BY <1>2 DEF SameRow, Holds
<1>4. Passes(trip, trip', ghost'.again)
  BY <1>0, TripIs
<1>5. ASSUME Over(o.drive, trip')
      PROVE  s.trip = o.drive
  <2>1. Claimable(r) => trip.n = o.drive
    BY <1>3 DEF Claimable
  <2>2. CASE Over(o.drive, trip)
    BY <1>2, <2>1, <2>2 DEF Holds, SameRow
  <2>3. CASE ~Over(o.drive, trip)
    <3>1. o.drive = trip.n /\ trip.st \notin {"none", "rolling"}
      BY <1>0, <2>3 DEF Over
    <3>2. trip'.st = "none"
      BY <1>0, <1>4, <1>5, <3>1 DEF Passes, Over
    <3>3. Facts
      BY <1>0, <3>1, <3>2, EndsIn
    <3>4. r.trip \in {None, trip.n}
      BY <1>0, <1>3, <3>1 DEF Recorded
    <3>5. Claimable(r)
      BY <1>3, <2>3, <3>1, <3>4 DEF Claimable, Holds
    <3> QED
      BY <1>2, <3>1, <3>3, <3>5 DEF SameRow
  <2> QED
    BY <2>2, <2>3
<1>6. ASSUME ~Over(o.drive, trip')
      PROVE  ~s.old /\ (~s.ignored \/ s.rcv < o.drive)
  <2>1. ~Over(o.drive, trip)
    BY <1>0, <1>6, OverStays
  <2>2. ~r.old /\ (~r.ignored \/ r.rcv < o.drive)
    BY <2>1 DEF Holds
  <2>3. ~PruneRaises
    <3>1. trip.st = "none" => Over(o.drive, trip)
      BY <1>0 DEF Over
    <3> QED
      BY <2>1, <3>1 DEF PruneRaises
  <2> QED
    BY <1>2, <1>3, <2>2, <2>3 DEF SameRow
<1> QED
  BY <1>2, <1>3, <1>5, <1>6 DEF Holds

\* What a stamp says is owed, is held.
LEMMA StampHolds ==
  ASSUME Inv, DriveRow \/ (BeforeFinalize /\ Synced), Alone, NEW o, Due(o)
  PROVE  /\ o.drive = trip'.n /\ trip'.st # "rolling"
         /\ o.drive \notin ghost.again => \E s \in rows' : Holds(o, s, trip')
<1>0. Types /\ Session /\ CursorHonest /\ trip \in Trips /\ trip.n \in Nat /\ ses \in Sessions /\ ghost.told \in Nat
  <2>1. Types /\ Session /\ CursorHonest
    BY DEF Inv
  <2>2. trip \in Trips /\ ses \in Sessions /\ ghost.told \in Nat
    BY <2>1, TypesAre, FramesAre
  <2> QED
    BY <2>1, <2>2 DEF Trips
<1>1. /\ Synced /\ trip.st \in {"open", "ending"} /\ trip'.n = trip.n /\ trip'.st \in {"open", "stamped"}
      /\ rows' = rows
  BY <1>0 DEF DriveRow, BeforeFinalize, Trips
<1>2. ses.ready /\ ghost.told <= ses.cursor
  <2>1. ses.ready /\ ses.announced <= ses.cursor
    BY <1>0, <1>1, SessionFields DEF Synced
  <2>2. ses.wire # None
    BY <1>0, <2>1 DEF Session
  <2>3. ghost.told <= ses.announced
    BY <1>0, <2>2 DEF Session
  <2> QED
    BY <1>0, <2>1, <2>3, SessionFields
<1>3. Has(o.seq)
  <2>1. o.seq \in 0 .. ses.cursor - 1
    BY <1>0, <1>2, SessionFields DEF Due
  <2> QED
    BY <1>0, <1>2, <2>1 DEF Due, CursorHonest
<1>4. PICK r \in rows : r.key = ses.key /\ r.seq = o.seq /\ r.of = cam.boot
  BY <1>3 DEF Has
<1>5. Recorded(r, cam, trip, ghost.again)
  BY DEF Inv, Happened
<1>6. r.in = trip.n /\ o.drive = trip.n /\ o.of = cam.boot
  BY <1>4, <1>5 DEF Recorded, Due
<1>7. ~r.old
  BY <1>0, <1>1, <1>5, <1>6 DEF Recorded, Over
<1>8. trip.n \notin ghost.again => ~r.ignored \/ r.rcv < trip.n
  BY <1>1, <1>5, <1>6 DEF Recorded, InTime
<1>9. ~Over(trip.n, trip')
  BY <1>0, <1>1 DEF Over
<1>10. o.drive \notin ghost.again => Holds(o, r, trip')
  BY <1>4, <1>6, <1>7, <1>8, <1>9 DEF Holds
<1> QED
  BY <1>1, <1>6, <1>10

\* Every step keeps Owes.
LEMMA OwesStep ==
  ASSUME Inv, Types', Next
  PROVE  Owes'
<1>0. Types /\ Owes
  BY DEF Inv
<1>1. CASE Wipe
  <2>1. ghost'.owed = {}
    BY <1>1, Wiped
  <2> QED
    BY <2>1 DEF Owes
<1>2. CASE ~Wipe
  <2>1. ghost.again \subseteq ghost'.again
    <3>1. CASE DriveReopens
      BY <1>0, <3>1, TypesAre DEF DriveReopens, Past
    <3> QED
      BY <3>1, HistoryIs
  <2>2. ASSUME NEW o \in ghost.owed
        PROVE  /\ o.drive < trip'.n \/ (o.drive = trip'.n /\ trip'.st # "rolling")
               /\ o.drive \notin ghost'.again => \E r \in rows' : Holds(o, r, trip')
    <3>1. o.drive \in Nat
      BY <1>0, TypesAre DEF Past
    <3>2. Passes(trip, trip', ghost'.again) /\ trip.n \in Nat /\ trip'.n \in Nat /\ trip.n <= trip'.n
      BY <1>0, TripIs
    <3>3. o.drive < trip.n \/ (o.drive = trip.n /\ trip.st # "rolling")
      BY <1>0 DEF Owes
    <3>4. o.drive < trip'.n \/ (o.drive = trip'.n /\ trip'.st # "rolling")
      BY <3>1, <3>2, <3>3 DEF Passes
    <3>5. o.drive \notin ghost'.again => \E r \in rows' : Holds(o, r, trip')
      BY <1>0, <1>2, <2>1, <3>1, <3>3, HeldStays DEF Owes
    <3> QED
      BY <3>4, <3>5
  <2>3. ASSUME NEW o \in ghost'.owed, o \notin ghost.owed
        PROVE  /\ o.drive = trip'.n /\ trip'.st # "rolling"
               /\ o.drive \notin ghost'.again => \E r \in rows' : Holds(o, r, trip')
    <3>1. ghost'.owed # ghost.owed
      BY <2>3
    <3>2. DriveRow \/ (BeforeFinalize /\ Synced)
      BY <1>2, <3>1, HistoryIs DEF BeforeFinalize
    <3>3. Stamps
      BY <3>2 DEF DriveRow, BeforeFinalize
    <3>4. Alone /\ Due(o) /\ ghost'.again = ghost.again
      BY <1>0, <2>3, <3>3, StampsIs
    <3> QED
      BY <3>2, <3>4, StampHolds
  <2> QED
    BY <2>2, <2>3 DEF Owes
<1> QED
  BY <1>1, <1>2

-----------------------------------------------------------------------------
(* The theorems. *)

\* The invariant holds at the start, ...
LEMMA InitHolds ==
  ASSUME Init
  PROVE  Inv
<1>1. PICK r \in Rings :
        cam = [boot |-> 1, wire |-> CHOOSE w \in WireIds : TRUE, ring |-> r, log |-> <<>>, made |-> 0, at |-> Held]
  BY DEF Init
<1>2. /\ up = FALSE /\ toPhone = <<>> /\ toCam = <<>> /\ ses = Off /\ chain = <<>> /\ rows = {} /\ boots = {}
      /\ pruning = FALSE /\ trip = [n |-> 0, st |-> "none"] /\ left = MaxTroubles
      /\ ghost = [told |-> 0, filed |-> {}, blind |-> {}, gone |-> {}, again |-> {}, owed |-> {}]
  BY DEF Init
<1>3. /\ ghost.told = 0 /\ ghost.filed = {} /\ ghost.blind = {} /\ ghost.gone = {} /\ ghost.again = {}
      /\ ghost.owed = {}
      /\ Past(ghost)
  BY <1>2 DEF Past
<1>4. (CHOOSE w \in WireIds : TRUE) \in WireIds
  BY ConstantsAre
<1>5. cam \in Cams /\ cam.boot = 1 /\ cam.log = <<>> /\ cam.made = 0 /\ cam.at = Held
  BY <1>1, <1>4, ConstantsAre DEF Cams, Held
<1>6. Types
  <2>1. Ends(left, cam, toPhone)
    BY <1>2, <1>5, ConstantsAre DEF Ends, Air, Held
  <2>2. Asked(left, toCam)
    BY <1>2, ConstantsAre DEF Asked, Cap
  <2>3. Queue(chain) /\ Tabled(boots) /\ trip \in Trips /\ rows \subseteq Rows
    BY <1>2, ConstantsAre DEF Queue, Tabled, Trips, Cap
  <2> QED
    BY <1>2, <1>3, <2>1, <2>2, <2>3, OffIs, TypesAre
<1>7. Session
  BY <1>2, <1>3, OffIs DEF Session, Off
<1>8. Flying /\ Waiting /\ InOrder /\ InFront
  BY <1>2 DEF Flying, Waiting, InOrder, InFront
<1>9. Filing /\ Newest /\ AtHand /\ Floors /\ CursorHonest
  BY <1>2, <1>3, OffIs DEF Filing, Newest, AtHand, Floors, CursorHonest
<1>10. Happened /\ Owes
  BY <1>2, <1>3, <1>5 DEF Happened, Owes
<1> QED
  BY <1>6, <1>7, <1>8, <1>9, <1>10 DEF Inv

\* ... after every step, ...
LEMMA StepKeeps ==
  ASSUME Inv, Next
  PROVE  Inv'
<1>1. Types'
  BY TypesStep DEF Inv
<1> QED
  BY <1>1, SessionStep, FlyingStep, WaitingStep, OrderStep, FrontStep, FilingStep, NewestStep, AtHandStep,
     FloorsStep, 
     CursorStep, HappenedStep, OwesStep DEF Inv

\* ... and where nothing changes.
LEMMA StutterKeeps ==
  ASSUME Inv, UNCHANGED vars
  PROVE  Inv'
<1>1. UNCHANGED <<cam, up, toPhone, toCam, ses, chain, rows, boots, pruning, trip, left, ghost>>
  BY DEF vars, wires
<1>2. Types' /\ Session' /\ CursorHonest'
  BY <1>1 DEF Inv, Types, TypeOK, NextSeq, Session, CursorHonest, Alone, Has, Lost, Oldest
<1>3. Flying' /\ Waiting' /\ InOrder' /\ InFront'
  BY <1>1 DEF Inv, Flying, Waiting, InOrder, InFront
<1>4. Filing'
  BY <1>1 DEF Inv, Filing
<1>5. Newest'
  BY <1>1 DEF Inv, Newest, NextSeq
<1>6. AtHand' /\ Floors'
  BY <1>1, HandIs, FloorsAre DEF Inv, T
<1>7. Happened' /\ Owes'
  BY <1>1 DEF Inv, Happened, Owes
<1> QED
  BY <1>2, <1>3, <1>4, <1>5, <1>6, <1>7 DEF Inv

\* The invariant holds of every state the link, the chain, the store and the drives can reach.
THEOREM AlwaysInv == Spec => []Inv
<1>1. Init => Inv
  BY InitHolds
<1>2. Inv /\ [Next]_vars => Inv'
  BY StepKeeps, StutterKeeps
<1> QED
  BY <1>1, <1>2, PTL DEF Spec

\* Every variable holds what it is meant to: no boot's key is of a generation past the power-ons, no
\* two rows of the boot table share a key, and no queue is longer than link and chain let it be.
THEOREM TypeCorrect == Spec => []TypeOK
<1>1. Inv => TypeOK
  BY DEF Inv, Types
<1> QED
  BY <1>1, AlwaysInv, PTL

\* Every seq below the cursor that a ready session acknowledges is stored, or lost for good, whatever
\* drops, power-ons, wipes, failing statements and prunes come between the statements of the chain.
THEOREM CursorIsHonest == Spec => []CursorHonest
<1>1. Inv => CursorHonest
  BY DEF Inv
<1> QED
  BY <1>1, AlwaysInv, PTL

\* A drive stamped as synced has claimed every event of it that the phone had been told of by then,
\* once its facts are written (but for a drive taken up again after its process died).
THEOREM DrivesComplete == Spec => []SyncedDriveComplete
<1>1. Inv => SyncedDriveComplete
  <2>1. ASSUME Inv, NEW o \in ghost.owed, Finished(o.drive), o.drive \notin ghost.again
        PROVE  \E r \in rows : r.of = o.of /\ r.seq = o.seq /\ r.trip = o.drive
    <3>1. Over(o.drive, trip)
      BY <2>1 DEF Finished, Over
    <3>2. PICK r \in rows : Holds(o, r, trip)
      BY <2>1 DEF Inv, Owes
    <3> QED
      BY <3>1, <3>2 DEF Holds
  <2> QED
    BY <2>1 DEF SyncedDriveComplete
<1> QED
  BY <1>1, AlwaysInv, PTL
=====
