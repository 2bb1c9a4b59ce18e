---------------------------- MODULE DashEvents ----------------------------
(***************************************************************************)
(* The DashPal's events on their way into a drive: the phone side of the   *)
(* link (link.ts), the event store (store.ts) and what a finished drive    *)
(* claims (facts.ts), against a dashcam that keeps its events in a bounded *)
(* ring, replays them on RESUME and starts a new boot with every power-on. *)
(*                                                                         *)
(* Frames travel in order on each way of a connection and are lost with    *)
(* it.  The phone takes HELLO and EVENT frames in as they arrive but works *)
(* them off on one serial chain, a database statement at a time; link      *)
(* changes, wipes and the prune fall between any two statements.           *)
(***************************************************************************)
EXTENDS Integers, Sequences, FiniteSets, FiniteSetsExt

CONSTANTS
  WireIds,     \* the boot ids a dashcam may draw (two boots may draw the same)
  MaxEvents,   \* events, over all boots
  Rings,       \* how many events a dashcam's ring may hold
  MaxDrives,
  MaxTroubles, \* disturbances in all ...
  Troubles,    \* ... and the kinds of them: "drop", "reboot", "kill", "fault", "wipe"
  Failing      \* the kinds of chain tasks a database statement may fail in

ASSUME BoundsAssumption ==
  /\ WireIds # {} /\ WireIds \subseteq Nat
  /\ {MaxEvents, MaxDrives, MaxTroubles} \subseteq Nat
  /\ Rings \subseteq Nat \ {0} /\ Failing \subseteq {"hello", "same", "event"}

VARIABLES
  cam,       \* the dashcam: its boot and that one's wire id, its log of events and what its ring holds of
             \* them, and `at`, the next seq to send
  up,        \* whether phone and dashcam are connected
  toPhone, toCam,
  ses,       \* the phone's session
  chain,     \* the serial chain of persistence tasks
  rows,      \* dashcam_events
  boots,     \* dashcam_boots
  pruning,   \* the prune is between its two statements
  trip,      \* the drive: its number, and how far it is
  left,      \* disturbances still to come
  ghost      \* history the properties speak of; no action's guard reads it

vars == <<cam, up, toPhone, toCam, ses, chain, rows, boots, pruning, trip, left, ghost>>
wires == <<toPhone, toCam>>
db == <<rows, boots, pruning>>

None == -1
Held == -1                                  \* `at` while events are withheld until a RESUME
Air == 1                                     \* frames on their way to the phone
Cap == 2                                     \* ... to the dashcam, and tasks on the chain
NoKey == [wire |-> None, gen |-> 0]

NextSeq == Len(cam.log)                       \* the seq of the dashcam's next event
Oldest == Max({0, NextSeq - cam.ring})
Hello == [t |-> "hello", of |-> cam.boot, wire |-> cam.wire, next |-> NextSeq, oldest |-> Oldest]

\* A drive is open from its start until its finalize has finished; what happens from its traced-back
\* start to its end happens in it.
DriveOpen == trip.st \in {"open", "ending", "stamped"}
InDrive == IF trip.st \in {"rolling", "open"} THEN trip.n ELSE 0
\* Drives opened so far: what an arrival time is compared with.
Opened == IF trip.st = "rolling" THEN trip.n - 1 ELSE trip.n

Off == [phase |-> "off", wire |-> None, key |-> NoKey, ready |-> FALSE,
        floor |-> 0, cursor |-> 0, announced |-> 0, resync |-> FALSE]

Synced == ses.phase = "resumed" /\ ses.ready /\ ses.cursor >= ses.announced

Trouble(kind) == kind \in Troubles /\ left > 0 /\ left' = left - 1

----------------------------------------------------------------------------
(* The store.                                                              *)

BootOf(key) == {b \in boots : b.key = key}
StoredFloor(key, floor) == Max({floor} \cup {b.floor : b \in BootOf(key)})
Stored(key) == {r.seq : r \in {x \in rows : x.key = key}}

CursorAtNewest(key, floor) == Max({StoredFloor(key, floor)} \cup {q + 1 : q \in Stored(key)})   \* holes ignored

\* The lowest seq at or above the floor that is not stored.
Cursor(key, floor) ==
  LET f == StoredFloor(key, floor)
  IN  Min((f .. f + MaxEvents) \ Stored(key))

\* The newest local generation stored for a wire boot id.
Latest(wire) ==
  LET known == {b \in boots : b.key.wire = wire}
  IN  {b \in known : \A c \in known : c.key.gen <= b.key.gen}

EnsureBootAdding(key, floor) ==               \* no upsert
  boots' = boots \cup
           {[key |-> key, floor |-> StoredFloor(key, floor), max |-> Max({None} \cup {b.max : b \in BootOf(key)})]}

EnsureBoot(key, floor) ==
  boots' = (boots \ BootOf(key)) \cup
           {[key |-> key, floor |-> StoredFloor(key, floor), max |-> Max({None} \cup {b.max : b \in BootOf(key)})]}

\* The first copy of a seq stands, and nothing comes back below the boot's stored floor.
Refused(key, seq) == seq \in Stored(key) \/ \E b \in BootOf(key) : b.floor > seq

InsertEvent(key, e) ==
  /\ rows' = IF Refused(key, e.seq) THEN rows
             ELSE rows \cup {[key |-> key, seq |-> e.seq, of |-> e.of, in |-> e.in, ignored |-> e.ignored,
                              rcv |-> e.rcv, trip |-> None, old |-> FALSE]}
  /\ boots' = {[b EXCEPT !.max = IF b.key = key THEN Max({@, e.seq}) ELSE @] : b \in boots}

----------------------------------------------------------------------------
Init ==
  /\ \E r \in Rings :
       cam = [boot |-> 1, wire |-> CHOOSE w \in WireIds : TRUE, ring |-> r, log |-> <<>>, made |-> 0, at |-> Held]
  /\ up = FALSE /\ toPhone = <<>> /\ toCam = <<>> /\ ses = Off /\ chain = <<>>
  /\ rows = {} /\ boots = {} /\ pruning = FALSE
  /\ trip = [n |-> 0, st |-> "none"]
  /\ left = MaxTroubles
  /\ ghost = [told |-> 0, filed |-> {}, blind |-> {}, gone |-> {}, again |-> {}, owed |-> {}]

(***************************************************************************)
(* The dashcam.                                                            *)
(***************************************************************************)

EventHappens ==
  /\ cam.made < MaxEvents
  /\ cam' = [cam EXCEPT !.log = Append(@, InDrive), !.made = @ + 1]
  /\ UNCHANGED <<up, wires, ses, chain, db, trip, left, ghost>>

CamHears ==
  /\ toCam # <<>> /\ Len(toPhone) < Air
  /\ LET f == Head(toCam) IN
     cam' = [cam EXCEPT !.at = CASE f.t = "ask" -> Held
                                 [] f.t = "resume" /\ f.wire = cam.wire /\ f.from <= NextSeq -> Max({f.from, Oldest})
                                 [] OTHER -> Oldest]
  /\ toPhone' = Append(toPhone, Hello)
  /\ toCam' = Tail(toCam)
  /\ UNCHANGED <<up, ses, chain, db, trip, left, ghost>>

\* Two seconds after its HELLO with no RESUME: the whole ring.
CamWaitedEnough ==
  /\ up /\ cam.at = Held /\ ses.phase = "syncing"
  /\ cam' = [cam EXCEPT !.at = Oldest]
  /\ UNCHANGED <<up, wires, ses, chain, db, trip, left, ghost>>

\* The next event of the ring; a HELLO first when the ring has moved past it.
CamSends ==
  /\ up /\ cam.at # Held /\ cam.at < NextSeq /\ Len(toPhone) < Air
  /\ IF cam.at < Oldest
     THEN /\ toPhone' = Append(toPhone, Hello)
          /\ cam' = [cam EXCEPT !.at = Oldest]
     ELSE /\ toPhone' = Append(toPhone, [t |-> "event", seq |-> cam.at, of |-> cam.boot, in |-> cam.log[cam.at + 1]])
          /\ cam' = [cam EXCEPT !.at = @ + 1]
  /\ UNCHANGED <<up, toCam, ses, chain, db, trip, left, ghost>>

(***************************************************************************)
(* The link.                                                               *)
(***************************************************************************)

\* Work queued for a session that is over finds `session !== s`.
Orphaned == [i \in DOMAIN chain |-> [chain[i] EXCEPT !.live = FALSE]]

\* COMMAND 7; a write that fails is reported and left to the retry.
AskHello ==
  \/ toCam' = Append(toCam, [t |-> "ask"]) /\ UNCHANGED left
  \/ toCam' = toCam /\ Trouble("fault")

LinkUp ==
  /\ ~up /\ up' = TRUE
  /\ ses' = [Off EXCEPT !.phase = "hello"]
  /\ AskHello
  /\ ghost' = [ghost EXCEPT !.told = 0]
  /\ UNCHANGED <<cam, toPhone, chain, db, trip>>

Unlinked ==
  /\ up' = FALSE /\ toPhone' = <<>> /\ toCam' = <<>> /\ ses' = Off

LinkDown ==
  /\ up /\ Trouble("drop") /\ Unlinked
  /\ cam' = [cam EXCEPT !.at = Held]
  /\ chain' = Orphaned
  /\ UNCHANGED <<db, trip, ghost>>

\* A power-on: a new boot with a random id and an empty ring; the connection is gone.
CamReboots ==
  /\ Trouble("reboot") /\ Unlinked
  /\ \E w \in WireIds : cam' = [cam EXCEPT !.boot = @ + 1, !.wire = w, !.log = <<>>, !.at = Held]
  /\ chain' = Orphaned
  /\ UNCHANGED <<db, trip, ghost>>

\* The process dies: its session and its chain go, the open drive stays a row `recording`.
Kill ==
  /\ Trouble("kill") /\ Unlinked
  /\ cam' = [cam EXCEPT !.at = Held]
  /\ chain' = <<>> /\ pruning' = FALSE
  /\ trip' = [trip EXCEPT !.st = IF DriveOpen THEN "cut" ELSE @]
  /\ UNCHANGED <<rows, boots, ghost>>

\* A sign-out empties the tables and restarts the link on the same connection.
Wipe ==
  /\ trip.st = "none" /\ Trouble("wipe")
  /\ rows' = {} /\ boots' = {}
  /\ chain' = Orphaned
  /\ IF up THEN /\ ses' = [Off EXCEPT !.phase = "hello"]
                /\ toCam' = Append(toCam, [t |-> "ask"])
           ELSE UNCHANGED <<ses, toCam>>
  /\ ghost' = [ghost EXCEPT !.filed = {}, !.blind = {}, !.gone = {}, !.owed = {}]
  /\ UNCHANGED <<cam, up, toPhone, pruning, trip>>

----------------------------------------------------------------------------
(* Frames, as they arrive.                                                 *)

Task(kind) == [kind |-> kind, live |-> TRUE, step |-> "start", key |-> NoKey, wire |-> None, next |-> 0,
               oldest |-> 0, seq |-> 0, of |-> 0, in |-> 0, ignored |-> FALSE, rcv |-> 0]
Greeting(kind, h) == [Task(kind) EXCEPT !.of = h.of, !.wire = h.wire, !.next = h.next, !.oldest = h.oldest]

\* The answer to a RESUME, or a second hello: no new handshake.
HelloAgain(h) ==
  /\ ses' = [ses EXCEPT !.announced = Max({@, h.next})]
  /\ chain' = Append(chain, Greeting("same", h))

\* A handshake.  Another boot than the session's forgets what it knew of the first.
HelloAnew(h) ==
  /\ ses' = LET s == IF ses.wire = h.wire THEN ses ELSE [ses EXCEPT !.key = NoKey, !.ready = FALSE]
            IN  [s EXCEPT !.phase = "syncing", !.wire = h.wire, !.announced = h.next]
  /\ chain' = Append(chain, Greeting("hello", h))

OnEvent(e) ==
  /\ ses' = [ses EXCEPT !.announced = Max({@, e.seq + 1})]
  /\ chain' = Append(chain, [Task("event") EXCEPT !.seq = e.seq, !.of = e.of, !.in = e.in,
                                                  !.ignored = ~DriveOpen, !.rcv = Opened])

PhoneHears ==
  /\ toPhone # <<>> /\ Len(chain) < Cap
  /\ LET f == Head(toPhone) IN
     /\ CASE f.t = "event" -> OnEvent(f)
          [] f.t = "hello" /\ ses.wire = f.wire /\ ses.phase # "hello" -> HelloAgain(f)
          [] OTHER -> HelloAnew(f)
     /\ ghost' = [ghost EXCEPT !.told = Max({@, IF f.t = "event" THEN f.seq + 1 ELSE f.next})]
  /\ toPhone' = Tail(toPhone)
  /\ UNCHANGED <<cam, up, toCam, db, trip, left>>

\* No HELLO two seconds after asking.
HelloRetry ==
  /\ ses.phase = "hello" /\ toCam = <<>> /\ \A i \in DOMAIN toPhone : toPhone[i].t # "hello"
  /\ AskHello
  /\ UNCHANGED <<cam, up, toPhone, ses, chain, db, trip, ghost>>

\* RESUME from the cursor; a write that fails (heard or not) is tried again shortly.
SendResume ==
  /\ ses.ready
  /\ ses.phase = "syncing" \/ (ses.phase = "resumed" /\ ses.resync)
  /\ Len(toCam) < Cap
  /\ \/ /\ ses' = [ses EXCEPT !.phase = "resumed", !.resync = FALSE]
        /\ toCam' = Append(toCam, [t |-> "resume", wire |-> ses.wire, from |-> ses.cursor])
        /\ UNCHANGED left
     \/ /\ ses' = [ses EXCEPT !.phase = "resumed", !.resync = TRUE]
        /\ toCam' \in {toCam, Append(toCam, [t |-> "resume", wire |-> ses.wire, from |-> ses.cursor])}
        /\ Trouble("fault")
  /\ UNCHANGED <<cam, up, toPhone, chain, db, trip, ghost>>

----------------------------------------------------------------------------
(* The chain, a statement at a time.                                       *)

T == Head(chain)
Runs(kind, step) == chain # <<>> /\ T.kind = kind /\ T.step = step
Done == chain' = Tail(chain)
Then(step) == chain' = <<[T EXCEPT !.step = step]>> \o Tail(chain)
ThenAs(step, key) == chain' = <<[T EXCEPT !.step = step, !.key = key]>> \o Tail(chain)
chainOnly == <<cam, up, wires, trip, left>>

BootKeyKnown(h) ==                             \* a known id taken for the same boot
  IF Latest(h.wire) = {} THEN [wire |-> h.wire, gen |-> 0] ELSE (CHOOSE b \in Latest(h.wire) : TRUE).key

\* A stored boot with this id but more events than the dashcam says it made is another boot.
BootKey(h) ==
  LET known == Latest(h.wire)
      k == CHOOSE b \in known : TRUE
  IN  CASE known = {} -> [wire |-> h.wire, gen |-> 0]
        [] known # {} /\ h.next < k.max + 1 -> [k.key EXCEPT !.gen = @ + 1]
        [] OTHER -> k.key

HelloLooksUp ==
  /\ Runs("hello", "start")
  /\ IF T.live THEN ThenAs("ensure", BootKey(T)) ELSE Done
  /\ UNCHANGED <<chainOnly, ses, db, ghost>>

\* Whether another boot's events are filed under this key; it cannot be told when this one made more.
Taken(key, of) == \E p \in ghost.filed : p[1] = key /\ p[2] # of

HelloEnsures ==
  /\ Runs("hello", "ensure")
  /\ EnsureBoot(T.key, T.oldest)
  /\ IF T.live /\ ses.wire = T.wire
     THEN /\ Then("count")
          /\ ses' = [ses EXCEPT !.key = T.key, !.floor = StoredFloor(T.key, T.oldest)]
     ELSE Done /\ UNCHANGED ses
  /\ ghost' = [ghost EXCEPT !.filed = @ \cup {<<T.key, T.of>>},
                            !.blind = @ \cup {b.key : b \in {c \in BootOf(T.key) : Taken(T.key, T.of) /\ T.next > c.max}}]
  /\ UNCHANGED <<chainOnly, rows, pruning>>

HelloCounts ==
  /\ Runs("hello", "count") /\ Done
  /\ ses' = IF T.live THEN [ses EXCEPT !.cursor = Cursor(T.key, ses.floor), !.ready = TRUE] ELSE ses
  /\ UNCHANGED <<chainOnly, db, ghost>>

SameEnsures ==
  /\ Runs("same", "start")
  /\ IF T.live /\ ses.key # NoKey
     THEN /\ EnsureBoot(ses.key, T.oldest)
          /\ ses' = [ses EXCEPT !.floor = StoredFloor(ses.key, T.oldest)]
          /\ ThenAs("count", ses.key)
     ELSE Done /\ UNCHANGED <<boots, ses>>
  /\ UNCHANGED <<chainOnly, rows, pruning, ghost>>

EventChecks ==
  /\ Runs("event", "start")
  /\ IF T.live /\ ses.ready /\ ses.key # NoKey THEN ThenAs("insert", ses.key) ELSE Done
  /\ UNCHANGED <<chainOnly, ses, db, ghost>>

EventInserts ==
  /\ Runs("event", "insert")
  /\ InsertEvent(T.key, T) /\ Then("count")
  /\ ghost' = IF BootOf(T.key) = {} THEN [ghost EXCEPT !.blind = @ \cup {T.key}] ELSE ghost
  /\ UNCHANGED <<chainOnly, ses, pruning>>

\* The cursor is read again for a HELLO of the same boot, and for an event at or past it.
Counts ==
  /\ Runs("event", "count") \/ Runs("same", "count")
  /\ Done
  /\ ses' = IF T.live /\ (T.kind = "same" \/ T.seq >= ses.cursor)
            THEN [ses EXCEPT !.cursor = Cursor(T.key, ses.floor)] ELSE ses
  /\ UNCHANGED <<chainOnly, db, ghost>>

TaskFailsQuietly ==                            \* no replay asked for
  /\ chain # <<>> /\ T.kind \in Failing
  /\ T.kind = "event" => T.step # "start"
  /\ Trouble("fault") /\ Done
  /\ UNCHANGED <<cam, up, wires, ses, db, trip, ghost>>

\* A statement throws: the task is dropped, and the dashcam asked to replay once resumed.
TaskFails ==
  /\ chain # <<>> /\ T.kind \in Failing
  /\ T.kind = "event" => T.step # "start"
  /\ Trouble("fault") /\ Done
  /\ ses' = [ses EXCEPT !.resync = @ \/ ses.phase = "resumed"]
  /\ UNCHANGED <<cam, up, wires, db, trip, ghost>>

(***************************************************************************)
(* The prune, in the foreground jobs.                                      *)
(***************************************************************************)

Unclaimed == {r \in rows : r.trip = None}

\* A week on: each boot's floor is raised past the newest of the events no drive claimed ...
PruneRaises ==
  /\ ~pruning /\ trip.st = "none"
  /\ \E old \in SUBSET Unclaimed :
     LET newest(b) == Max({b.floor} \cup {r.seq + 1 : r \in {x \in old : x.key = b.key}})
     IN  /\ old # {}
         /\ rows' = {[r EXCEPT !.old = @ \/ r \in old] : r \in rows}
         /\ boots' = {[b EXCEPT !.floor = newest(b)] : b \in boots}
         /\ ghost' = [ghost EXCEPT !.gone = @ \cup UNION {{<<b.key, q>> : q \in 0 .. newest(b) - 1} :
                                                          b \in {c \in boots : newest(c) > c.floor}}]
  /\ pruning' = TRUE
  /\ UNCHANGED <<cam, up, wires, ses, chain, trip, left>>

\* ... and then what lies below it goes.
PruneDeletes ==
  /\ pruning /\ pruning' = FALSE
  /\ rows' = {r \in rows : ~(r.trip = None /\ r.old /\ \A b \in BootOf(r.key) : r.seq < b.floor)}
  /\ UNCHANGED <<cam, up, wires, ses, chain, boots, trip, left, ghost>>

(***************************************************************************)
(* Drives.                                                                 *)
(***************************************************************************)

driveOnly == <<cam, up, wires, ses, chain, boots, pruning, left>>

\* The car moves off: what an automatic drive, once confirmed, is traced back to.  Or it was nothing.
CarRolls ==
  /\ \/ trip.st = "none" /\ trip.n < MaxDrives /\ trip' = [n |-> trip.n + 1, st |-> "rolling"]
     \/ trip.st = "rolling" /\ trip' = [trip EXCEPT !.st = "none"]
  /\ UNCHANGED <<driveOnly, rows, ghost>>

DriveOpens ==
  /\ \/ trip.st = "none" /\ trip.n < MaxDrives /\ trip' = [n |-> trip.n + 1, st |-> "open"]
     \/ trip.st = "rolling" /\ trip' = [trip EXCEPT !.st = "open"]
  /\ UNCHANGED <<driveOnly, rows, ghost>>

\* A launch takes up again the drive the process died in.
DriveReopens ==
  /\ trip.st = "cut" /\ trip' = [trip EXCEPT !.st = "open"]
  /\ ghost' = [ghost EXCEPT !.again = @ \cup {trip.n}]
  /\ UNCHANGED <<driveOnly, rows>>

\* The coverage is stamped: from here the drive says the phone held every event.  What the dashcam
\* had told the phone of by then, and was not lost for good, the drive owes.
Alone == ses.key \notin ghost.blind
Lost(q) == q < Oldest \/ <<ses.key, q>> \in ghost.gone
Has(q) == \E r \in rows : r.key = ses.key /\ r.seq = q /\ r.of = cam.boot
Stamps == ghost' = IF Alone
                   THEN [ghost EXCEPT !.owed = @ \cup
                          {[drive |-> trip.n, of |-> cam.boot, seq |-> q] :
                             q \in {x \in 0 .. ghost.told - 1 : cam.log[x + 1] = trip.n /\ (Has(x) \/ ~Lost(x))}}]
                   ELSE ghost

\* A live row of the drive.
DriveRow ==
  /\ trip.st = "open" /\ Synced /\ Stamps
  /\ UNCHANGED <<driveOnly, trip, rows>>

DriveEnds ==
  /\ trip.st = "open" /\ trip' = [trip EXCEPT !.st = "ending"]
  /\ UNCHANGED <<driveOnly, rows, ghost>>

\* The drive's end waits for the phone to catch up, three seconds at most.
BeforeFinalize ==
  /\ trip.st = "ending" /\ trip' = [trip EXCEPT !.st = "stamped"]
  /\ IF Synced THEN Stamps ELSE UNCHANGED ghost
  /\ UNCHANGED <<driveOnly, rows>>

\* The facts of a finished drive (or of one recovery finalizes): it claims what happened in it, had
\* not arrived ignored after it opened, and is no other drive's.
Claimable(r) == r.in = trip.n /\ (~r.ignored \/ r.rcv < trip.n) /\ r.trip \in {None, trip.n}
Facts ==
  /\ trip.st \in {"stamped", "cut"} /\ trip' = [trip EXCEPT !.st = "none"]
  /\ rows' = {[r EXCEPT !.trip = IF Claimable(r) THEN trip.n ELSE @] : r \in rows}
  /\ UNCHANGED <<driveOnly, ghost>>

----------------------------------------------------------------------------
Cam == EventHappens \/ CamHears \/ CamWaitedEnough \/ CamSends
Link == LinkUp \/ LinkDown \/ CamReboots \/ Kill \/ Wipe
Phone == PhoneHears \/ HelloRetry \/ SendResume
ChainSteps ==
  \/ HelloLooksUp \/ HelloEnsures \/ HelloCounts \/ SameEnsures
  \/ EventChecks \/ EventInserts \/ Counts
Prune == PruneRaises \/ PruneDeletes
Drive == CarRolls \/ DriveOpens \/ DriveReopens \/ DriveRow \/ DriveEnds \/ BeforeFinalize \/ Facts
Next == Cam \/ Link \/ Phone \/ ChainSteps \/ TaskFails \/ Prune \/ Drive
Spec == Init /\ [][Next]_vars

\* Frames get through, timers fire, the chain runs on, and a phone in range connects again.
FairSpec ==
  /\ Spec
  /\ WF_vars(CamHears \/ CamWaitedEnough \/ CamSends)
  /\ WF_vars(LinkUp \/ PhoneHears \/ HelloRetry \/ SendResume \/ ChainSteps)

----------------------------------------------------------------------------
(* Properties.                                                             *)

Keys == [wire : WireIds, gen : 0 .. MaxTroubles]
Cams == [boot : 1 .. MaxTroubles + 1, wire : WireIds, ring : Rings, log : Seq(0 .. MaxDrives),
         made : 0 .. MaxEvents, at : Int]
Hellos == [t : {"hello"}, of : 1 .. MaxTroubles + 1, wire : WireIds, next : Nat, oldest : Nat]
Events == [t : {"event"}, seq : 0 .. MaxEvents - 1, of : 1 .. MaxTroubles + 1, in : 0 .. MaxDrives]
Requests == [t : {"ask"}] \cup [t : {"resume"}, wire : WireIds, from : Nat]
Sessions == [phase : {"off", "hello", "syncing", "resumed"}, wire : WireIds \cup {None}, key : Keys \cup {NoKey},
             ready : BOOLEAN, floor : Nat, cursor : Nat, announced : Nat, resync : BOOLEAN]
Tasks == [kind : {"hello", "same", "event"}, live : BOOLEAN, step : {"start", "ensure", "insert", "count"},
          key : Keys \cup {NoKey}, wire : WireIds \cup {None}, next : Nat, oldest : Nat, seq : Nat,
          of : 1 .. MaxTroubles + 1, in : 0 .. MaxDrives, ignored : BOOLEAN, rcv : Int]
Rows == [key : Keys, seq : 0 .. MaxEvents - 1, of : 1 .. MaxTroubles + 1, in : 0 .. MaxDrives,
         ignored : BOOLEAN, rcv : Int, trip : {None} \cup 1 .. MaxDrives, old : BOOLEAN]
Boots == [key : Keys, floor : Nat, max : None .. MaxEvents - 1]

\* What every variable holds: no boot's key past the generations there are boots for, no two rows for
\* one key of the boot table, and the queues within what the link and the chain let wait.
TypeOK ==
  /\ cam \in Cams /\ Len(cam.log) <= cam.made /\ cam.at \in Held .. NextSeq
  /\ up \in BOOLEAN /\ pruning \in BOOLEAN
  /\ toPhone \in Seq(Hellos \cup Events) /\ Len(toPhone) <= Air
  /\ toCam \in Seq(Requests) /\ Len(toCam) + left <= Cap + MaxTroubles
  /\ ses \in Sessions
  /\ chain \in Seq(Tasks) /\ Len(chain) <= Cap
  /\ rows \subseteq Rows
  /\ boots \subseteq Boots /\ \A b, c \in boots : b.key = c.key => b = c
  /\ trip \in [n : 0 .. MaxDrives, st : {"none", "rolling", "open", "ending", "stamped", "cut"}]
  /\ left \in 0 .. MaxTroubles

\* Every seq below the cursor the phone acknowledges and resumes from is stored, gone from the
\* dashcam, or given up by the prune, however tasks, drops, wipes and the prune fall together.
CursorHonest == ses.ready /\ Alone => \A q \in 0 .. ses.cursor - 1 : Has(q) \/ Lost(q)

\* A drive stamped as synced has claimed every event that happened in it and that the phone had been
\* told of: none was filed as ignored, left unclaimed, or taken for a copy.  (But for a drive taken up
\* again after its process died: what arrived in between was filed as of no drive.)
Finished(d) == trip.n > d \/ (trip.n = d /\ trip.st = "none")
SyncedDriveComplete ==
  \A o \in ghost.owed : Finished(o.drive) /\ o.drive \notin ghost.again =>
    \E r \in rows : r.of = o.of /\ r.seq = o.seq /\ r.trip = o.drive

\* Once what disturbs them is over, phone and dashcam agree: everything told, everything held.
CatchesUp == <>[](Synced /\ toPhone = <<>> /\ ghost.told = NextSeq)

============================================================================
