---------------------------- MODULE DriveJournal ----------------------------
(***************************************************************************)
(* A drive recorded on an iPhone, from its first row to the stored trip.   *)
(* Three parts hold a copy of it:                                          *)
(*   - the native detector (modules/drive-sense/ios) decides that a drive  *)
(*     has begun, writes its rows to a journal file and sends them on;     *)
(*   - the host (src/drive/host.ts), whose queue runs one task at a time,  *)
(*     takes rows from events and from the journal into the engine         *)
(*     (src/core/engine/machine.ts), which closes the drive;               *)
(*   - SQLite keeps the rows of the last checkpoint, then the stored trip. *)
(* Native and host share a process.  It may die between any two awaits;    *)
(* the next launch puts the drive together again from file and database.   *)
(*                                                                         *)
(* Drives are numbered in the order they begin; a drive's trip has the     *)
(* drive's number (an older build's trips, found through the journal link, *)
(* are left out).  A row is its time, from which its drive and its seq can *)
(* be told: the engine sees the time only, the host the seq only.          *)
(*                                                                         *)
(* Left out too: the Start card and plain captures, sign-outs, power loss  *)
(* (a file keeps every row written), the rotation that deletes the oldest  *)
(* of too many files, a failing write of the empty trip row a drive begins *)
(* with (the next checkpoint writes it), a failing write or removal of the *)
(* cancel's marker, and a native that answers a cancel with an error.      *)
(***************************************************************************)
EXTENDS Integers, FiniteSets, FiniteSetsExt, Sequences

CONSTANTS
  NDrives,         \* drives the car makes
  MaxRows,         \* rows a drive records at most
  CheckpointRows,  \* CHECKPOINT_ROWS: the engine checkpoints every so many rows
  PageRows,        \* JOURNAL_READ_ROWS: rows read from the journal at a time
  ReplayCap,       \* MAX_JOURNAL_REPLAY_ROWS: rows of the live drive a boot replays
  RowBuffer,       \* EVENT_BUFFER_MAX: rows native holds for a host not yet there
  ResumeGap,       \* RESUME_SEQ_GAP: seqs skipped when a relaunch resumes a drive
  DroveAt,         \* the row by which the car has reached driving speed
  MaxKills, MaxTaps, MaxFaults,
  Faults,          \* what may fail, at most MaxFaults times in all
  Early            \* when native may begin a drive before the host is ready for it

ASSUME ParametersAssumption ==
  /\ {NDrives, MaxRows, CheckpointRows, PageRows, ReplayCap, DroveAt} \subseteq Nat \ {0}
  /\ RowBuffer \in Nat \ {0}
  /\ {ResumeGap, MaxKills, MaxTaps, MaxFaults} \subseteq Nat
  /\ Faults \subseteq {"read", "list", "checkpoint", "store", "ride", "drop"}
  /\ Early \subseteq {"starting", "behind"}

VARIABLES
  record,     \* DetectStateRecord: the drive native is recording, on disk
  journal,    \* the journal files; the rows of a deleted one are remembered
  trip,       \* SQLite: the trips, with the rows stored
  marker,     \* SQLite: CANCEL_KEY, the "Not driving?" under way
  rides,      \* SQLite: passenger rides queued
  engine,     \* the engine's open drive and the rows it has taken in
  live,       \* liveDrive: the native drive the host holds, and its lastSeq
  captureOn,  \* whether the host believes native captures
  discards,   \* discardQueue: journals of stored drives
  failed,     \* unfinalized: a closed drive whose finalize failed
  inbox,      \* events and taps waiting for the host, oldest first
  job,        \* the task under way
  boot,       \* the launch under way
  closed,     \* history: how each drive was closed, and the rows it was judged on
  cancelled,  \* history: drives the driver cancelled
  unqueued,   \* history: cancelled drives whose ride's own enqueue threw
  used        \* kills, taps and faults so far (bounds the model)

native == <<record, journal>>
stored == <<trip, marker, rides>>
memory == <<engine, live, captureOn, discards, failed>>
history == <<closed, cancelled, unqueued>>
vars == <<native, stored, memory, inbox, job, boot, history, used>>

-----------------------------------------------------------------------------
NoDrive == 0
Drives == 1 .. NDrives
MaxSeq == MaxRows + MaxKills * ResumeGap
Row(d, seq) == d * (MaxSeq + 1) + seq
SeqOf(row) == row % (MaxSeq + 1)
Rows == {Row(d, seq) : d \in Drives, seq \in 1 .. MaxSeq}
RowSets == SUBSET Rows

Session(d, rows) == [d |-> d, rows |-> rows]
NoSession == Session(NoDrive, {})
NotLive == [d |-> NoDrive, seq |-> 0]
NoCancel == [d |-> NoDrive, held |-> FALSE]
Uncapped == MaxSeq + ReplayCap

\* The last row taken, and the first n rows of a set of them.
LastOf(rows) == IF rows = {} THEN 0 ELSE Max(rows)
LastSeq(rows) == IF rows = {} THEN 0 ELSE SeqOf(Max(rows))
FirstRows(rows, n) == {r \in rows : Cardinality({t \in rows : t <= r}) <= n}

\* job.pc: where the task stands; d: its drive; row: the live row it began with;
\* how: what a drain is for, or why a drive closes; left: rows it may replay.
Job(pc, d, row, how, left) == [pc |-> pc, d |-> d, row |-> row, how |-> how, left |-> left]
At(pc) == Job(pc, NoDrive, 0, "none", 0)
Drain(d, row, how, left) == Job("drain", d, row, how, left)
Close(how) == Job("close", NoDrive, 0, how, 0)
Cancel(pc, d) == Job(pc, d, 0, "none", 0)

NoBoot == [on |-> FALSE, todo |-> {}, adopt |-> NoDrive, live |-> NoDrive]

Journaled(d) == journal[d].state = "here"
Begun(d) == journal[d].state # "none"
Open == {d \in Drives : trip[d].status = "recording"}

\* The launch has not yet attached native's listeners: events wait in native.
Starting == boot.on /\ job.pc \in {"marker", "ride", "drop", "clear", "recover", "boot"}
Running == job.pc # "down"

TypeOK ==
  /\ record \in Drives \cup {NoDrive}
  /\ journal \in [Drives -> [state : {"none", "here", "gone"}, rows : RowSets, top : 0 .. MaxSeq]]
  /\ trip \in [Drives -> [status : {"absent", "recording", "stored"}, rows : RowSets]]
  /\ marker \in [d : Drives \cup {NoDrive}, held : BOOLEAN]
  /\ rides \subseteq Drives
  /\ engine \in [d : Drives \cup {NoDrive}, rows : RowSets]
  /\ live \in [d : Drives \cup {NoDrive}, seq : 0 .. MaxSeq]
  /\ captureOn \in BOOLEAN
  /\ discards \subseteq Drives
  /\ failed \in [d : Drives \cup {NoDrive}, rows : RowSets]
  /\ inbox \in Seq([k : {"row", "started", "ended", "cancelled", "end", "again", "cancel"}, d : Drives, row : Rows \cup {0}])
  /\ job \in [pc : {"down", "marker", "ride", "drop", "clear", "recover", "boot", "ended", "live", "tell",
                    "drain", "drained", "close", "store", "after", "discard", "ready"},
              d : Drives \cup {NoDrive}, row : Rows \cup {0},
              how : {"none", "begun", "gap", "ended", "adopted", "native", "driver", "auto"},
              left : 0 .. Uncapped]
  /\ boot \in [on : BOOLEAN, todo : SUBSET Drives, adopt : Drives \cup {NoDrive}, live : Drives \cup {NoDrive}]
  /\ closed \in [Drives -> [how : {"no", "native", "driver", "auto", "recovery"}, rows : RowSets]]
  /\ cancelled \subseteq Drives /\ unqueued \subseteq Drives
  /\ used \in [kills : 0 .. MaxKills, taps : 0 .. MaxTaps, faults : 0 .. MaxFaults]

-----------------------------------------------------------------------------
(* Native: the detector, its journal and its events. *)

Task(k, d, row) == [k |-> k, d |-> d, row |-> row]

RowsIn(q) == {i \in DOMAIN q : q[i].k = "row"}
Without(q, i) == SubSeq(q, 1, i - 1) \o SubSeq(q, i + 1, Len(q))

\* With nobody listening, the oldest row makes room for the next.
Emitted(q, t) ==
  IF Starting /\ t.k = "row" /\ Cardinality(RowsIn(q)) >= RowBuffer
  THEN Append(Without(q, Min(RowsIn(q))), t)
  ELSE Append(q, t)

\* Those of a queue that are of the kinds ks, in their order.
OfKinds(q, ks) ==
  LET f[i \in 0 .. Len(q)] ==
        IF i = 0 THEN <<>> ELSE IF q[i].k \in ks THEN Append(f[i - 1], q[i]) ELSE f[i - 1]
  IN  f[Len(q)]

\* What waited goes to the listeners as they attach: rows, then starts, then ends.
Delivered(q) == OfKinds(q, {"row"}) \o OfKinds(q, {"started"}) \o OfKinds(q, {"ended", "cancelled"})

\* The detector confirms a drive, whose first row it had buffered.
NativeBegins ==
  /\ Running /\ record = NoDrive
  /\ \/ Starting /\ "starting" \in Early
     \/ ~Starting /\ "behind" \in Early
     \/ job.pc = "ready" /\ engine.d = NoDrive /\ inbox = <<>>
  /\ \E d \in Drives :
       /\ ~Begun(d) /\ \A e \in Drives : e < d => Begun(e)
       /\ record' = d
       /\ journal' = [journal EXCEPT ![d] = [state |-> "here", rows |-> {Row(d, 1)}, top |-> 1]]
       /\ inbox' = Emitted(Emitted(inbox, Task("row", d, Row(d, 1))), Task("started", d, 0))
  /\ UNCHANGED <<stored, memory, job, boot, history, used>>

NativeRow ==
  /\ Running /\ record # NoDrive
  /\ Cardinality(journal[record].rows) < MaxRows
  /\ LET row == Row(record, journal[record].top + 1)
     IN  /\ journal' = [journal EXCEPT ![record].rows = @ \cup {row}, ![record].top = SeqOf(row)]
         /\ inbox' = Emitted(inbox, Task("row", record, row))
  /\ UNCHANGED <<record, stored, memory, job, boot, history, used>>

\* The safety stop: native ends the drive on its own.
NativeEnds ==
  /\ Running /\ record # NoDrive
  /\ record' = NoDrive
  /\ inbox' = Emitted(inbox, Task("ended", record, 0))
  /\ UNCHANGED <<journal, stored, memory, job, boot, history, used>>

Kill ==
  /\ Running /\ used.kills < MaxKills
  /\ used' = [used EXCEPT !.kills = @ + 1]
  /\ engine' = NoSession /\ live' = NotLive /\ captureOn' = FALSE
  /\ discards' = {} /\ failed' = NoSession
  /\ inbox' = <<>> /\ job' = At("down") /\ boot' = NoBoot
  /\ UNCHANGED <<native, stored, history>>

Launches == ~Running /\ job' = At("marker") /\ boot' = [NoBoot EXCEPT !.on = TRUE]

\* Nothing was recording.
LaunchAtRest ==
  /\ Launches /\ record = NoDrive
  /\ UNCHANGED <<native, stored, memory, inbox, history, used>>

\* The last row is recent: the drive goes on, its seqs past a gap.
ResumeDrive ==
  /\ Launches /\ record # NoDrive
  /\ journal' = [journal EXCEPT ![record].top = @ + ResumeGap]
  /\ UNCHANGED <<record, stored, memory, inbox, history, used>>

\* It is not: native ends the drive where it stopped.
OrphanAtLaunch ==
  /\ Launches /\ record # NoDrive
  /\ record' = NoDrive
  /\ inbox' = <<Task("ended", record, 0)>>
  /\ UNCHANGED <<journal, stored, memory, history, used>>

-----------------------------------------------------------------------------
(* The engine and the database. *)

Fault(kind) ==
  /\ kind \in Faults /\ used.faults < MaxFaults
  /\ used' = [used EXCEPT !.faults = @ + 1]

\* A step that may fail: it does what it should, or it throws.
Fails(kind, bad) == IF bad THEN Fault(kind) ELSE UNCHANGED used

\* onCheckpoint: the rows past the durable mark are stored.
Checkpoint(d, rows) ==
  IF trip[d].status = "stored" THEN trip
  ELSE [trip EXCEPT ![d] = [status |-> "recording",
                            rows |-> @.rows \cup {r \in rows : r > LastOf(@.rows)}]]

\* The engine takes rows later than its last one only.
Taken(rows) == engine.rows \cup {r \in rows : r > LastOf(engine.rows)}

\* Rows go in; the engine checkpoints on every CheckpointRows-th, unless that throws.
TakeIn(rows, bad) ==
  LET taken == Taken(rows)
      due == CheckpointRows * (Cardinality(taken) \div CheckpointRows)
  IN  /\ engine' = [engine EXCEPT !.rows = taken]
      /\ Fails("checkpoint", bad)
      /\ bad => due > Cardinality(engine.rows)
      /\ trip' = IF due > Cardinality(engine.rows) /\ ~bad
                 THEN Checkpoint(engine.d, FirstRows(taken, due))
                 ELSE trip

\* The last of the rows is one at which the drive ends by the engine's own rules.
TakeInAndEnd(rows) ==
  /\ engine' = [engine EXCEPT !.rows = Taken(rows)]
  /\ job' = Close("auto")
  /\ UNCHANGED <<trip, used>>

\* rebuildFromSamples: the session a drive had at its last checkpoint.
Rebuilt(d) == Session(d, trip[d].rows)

\* A drive opens, rebuilt or new; an unfinalized one is let go.
OpenDrive(s) ==
  /\ engine' = s
  /\ failed' = NoSession
  /\ trip' = IF trip[s.d].status = "absent" THEN Checkpoint(s.d, {}) ELSE trip

\* Mutant: a drive that is not kept leaves its trip row behind.
CloseDriveLeaving(s) ==
  IF trip[s.d].status = "stored" \/ ~\E r \in s.rows : SeqOf(r) >= DroveAt THEN trip
  ELSE [trip EXCEPT ![s.d] = [status |-> "stored", rows |-> s.rows]]

\* closeDrive keeps a drive only if it reached driving speed.
Drove(rows) == \E r \in rows : SeqOf(r) >= DroveAt
Absent == [status |-> "absent", rows |-> {}]
CloseDrive(s) ==
  IF trip[s.d].status = "stored" THEN trip
  ELSE [trip EXCEPT ![s.d] = IF Drove(s.rows) THEN [status |-> "stored", rows |-> s.rows] ELSE Absent]

\* Mutant: dropTrip deletes whatever is there.
DroppedAlways(d) == [trip EXCEPT ![d] = Absent]

\* dropTrip deletes a trip unless it is stored.
Dropped(d) == IF trip[d].status = "stored" THEN trip ELSE [trip EXCEPT ![d] = Absent]

Judge(d, how, rows) == closed' = [closed EXCEPT ![d] = [how |-> how, rows |-> rows]]

-----------------------------------------------------------------------------
(* The host takes journal rows in, page by page (drainJournal). *)

\* Mutant: the read starts a row late.
UnreadPastNext == IF Journaled(job.d) THEN {r \in journal[job.d].rows : SeqOf(r) > live.seq + 1} ELSE {}

\* readRows: the rows after the last one taken; a deleted file has none.
Unread == IF Journaled(job.d) THEN {r \in journal[job.d].rows : SeqOf(r) > live.seq} ELSE {}

\* Mutant: a page is never cut to what the boot may still replay.
PageUncut == PageRows

PageLimit == IF job.left < PageRows THEN job.left ELSE PageRows
Page == FirstRows(Unread, PageLimit)

\* Mutant: one page is read, whatever it holds.
AfterOnePage == [job EXCEPT !.pc = "drained"]

\* A short page is the file's last.  A drain whose cap is spent stops unfinished.
AfterPage ==
  LET left == IF job.left = Uncapped THEN Uncapped ELSE job.left - Cardinality(Page)
  IN  [job EXCEPT !.pc = IF Cardinality(Page) < PageLimit \/ left = 0 THEN "drained" ELSE "drain",
                  !.left = left]

Reach(rows) == live' = [live EXCEPT !.seq = IF rows = {} THEN @ ELSE LastSeq(rows)]

ReadPage ==
  /\ job.pc = "drain"
  /\ \/ (\E bad \in BOOLEAN : TakeIn(Page, bad)) /\ Reach(Page) /\ job' = AfterPage
     \/ \E last \in Page : LET rows == {r \in Page : r <= last}
                           IN  TakeInAndEnd(rows) /\ Reach(rows)
  /\ UNCHANGED <<native, marker, rides, captureOn, discards, failed, inbox, boot, history>>

\* readRows throws: the drain stops with rows unread.
ReadFails ==
  /\ job.pc = "drain"
  /\ Fault("read")
  /\ job' = [job EXCEPT !.pc = "drained", !.left = 0]
  /\ UNCHANGED <<native, stored, memory, inbox, boot, history>>

ReadToItsEnd == job.left > 0
Back == IF boot.on THEN At("ended") ELSE At("after")

\* The drive just begun has its journal; what could not be read comes with later rows.
TakenUp ==
  /\ job.pc = "drained" /\ job.how = "begun"
  /\ job' = At("after")
  /\ UNCHANGED <<native, stored, memory, inbox, boot, history, used>>

\* A live row enters the engine; it may be one at which the drive ends.
TakeLiveRow(row) ==
  /\ live' = [live EXCEPT !.seq = SeqOf(row)]
  /\ \/ (\E bad \in BOOLEAN : TakeIn({row}, bad)) /\ job' = At("after")
     \/ TakeInAndEnd({row})
  /\ UNCHANGED <<native, marker, rides, captureOn, discards, failed, boot, history>>

\* The gap was read: its live row follows, unless the journal gave that row too.
GapFilled ==
  /\ job.pc = "drained" /\ job.how = "gap"
  /\ UNCHANGED inbox
  /\ IF SeqOf(job.row) > live.seq
     THEN TakeLiveRow(job.row)
     ELSE job' = At("after") /\ UNCHANGED <<native, stored, memory, boot, history, used>>

\* The journal of a drive native ended was read to its end: the drive ends there.
NativeEndTaken ==
  /\ job.pc = "drained" /\ job.how \in {"ended", "adopted"} /\ ReadToItsEnd
  /\ job' = Close("native")
  /\ UNCHANGED <<native, stored, memory, inbox, boot, history, used>>

\* It was not: the drive goes from memory, still recording in storage.
ReleaseDrive ==
  /\ job.pc = "drained" /\ job.how \in {"ended", "adopted"} /\ ~ReadToItsEnd
  /\ \E bad \in BOOLEAN :
       /\ Fails("checkpoint", bad)
       /\ trip' = IF bad THEN trip ELSE Checkpoint(engine.d, engine.rows)
  /\ engine' = NoSession /\ live' = NotLive
  /\ job' = Back
  /\ UNCHANGED <<native, marker, rides, captureOn, discards, failed, inbox, boot, history>>

-----------------------------------------------------------------------------
(* A drive closes: a checkpoint of any rows pending, then closeDrive. *)

CloseCheckpoint ==
  /\ job.pc = "close"
  /\ \E bad \in BOOLEAN :
       /\ Fails("checkpoint", bad)
       /\ bad => trip[engine.d].rows # engine.rows
       /\ trip' = IF bad THEN trip ELSE Checkpoint(engine.d, engine.rows)
  /\ Judge(engine.d, job.how, engine.rows)
  /\ job' = At("store")
  /\ UNCHANGED <<native, marker, rides, memory, inbox, boot, cancelled, unqueued>>

\* The session closing: the engine's, or the one an earlier attempt left.
Closing == IF engine.d # NoDrive THEN engine ELSE failed

StoreDrive ==
  /\ job.pc = "store"
  /\ trip' = CloseDrive(Closing)
  /\ discards' = IF live.d = Closing.d THEN discards \cup {live.d} ELSE discards
  /\ failed' = IF failed.d = Closing.d THEN NoSession ELSE failed
  /\ engine' = NoSession /\ live' = NotLive
  /\ job' = Back
  /\ UNCHANGED <<native, marker, rides, captureOn, inbox, boot, history, used>>

\* Mutant: the journal goes even so.
StoreFailsDiscarding ==
  /\ job.pc = "store"
  /\ Fault("store")
  /\ failed' = Closing
  /\ discards' = IF live.d = Closing.d THEN discards \cup {live.d} ELSE discards
  /\ engine' = NoSession /\ live' = NotLive
  /\ job' = Back
  /\ UNCHANGED <<native, stored, captureOn, inbox, boot, history>>

\* The transaction throws: the drive is unfinalized, kept in memory.
StoreFails ==
  /\ job.pc = "store"
  /\ Fault("store")
  /\ failed' = Closing
  /\ engine' = NoSession /\ live' = NotLive
  /\ job' = Back
  /\ UNCHANGED <<native, stored, captureOn, discards, inbox, boot, history>>

\* Mutant: native is stopped only for a drive that was stored.
OverrunStored == captureOn /\ engine.d = NoDrive /\ discards # {}

\* reconcileCapture: no drive is open, so what native records is to end.
Overrun == captureOn /\ engine.d = NoDrive

StopCapture ==
  /\ job.pc = "after" /\ Overrun
  /\ captureOn' = FALSE
  /\ record' = NoDrive
  /\ job' = At("discard")
  /\ UNCHANGED <<journal, stored, engine, live, discards, failed, inbox, boot, history, used>>

\* Journals of stored drives go, unless the drive is held again or still records.
DiscardJournals ==
  /\ job.pc = "discard" \/ (job.pc = "after" /\ ~Overrun)
  /\ journal' = [d \in Drives |-> IF d \in discards \ {live.d, record}
                                  THEN [journal[d] EXCEPT !.state = "gone"] ELSE journal[d]]
  /\ discards' = discards \cap {live.d}
  /\ job' = At("ready")
  /\ UNCHANGED <<record, stored, engine, live, captureOn, failed, inbox, boot, history, used>>

-----------------------------------------------------------------------------
(* "Not driving?": a marker, native, the passenger ride, the trip, the marker again. *)

\* Mutant: the marker is written only for a drive native has a journal of.
CancelUnmarked(d, held) ==
  /\ marker' = IF held THEN [d |-> d, held |-> held] ELSE marker
  /\ cancelled' = cancelled \cup {d}
  /\ captureOn' = FALSE
  /\ engine' = NoSession /\ live' = NotLive
  /\ failed' = IF failed.d = d THEN NoSession ELSE failed
  /\ job' = Cancel("tell", d)
  /\ UNCHANGED <<native, trip, rides, discards, boot, closed, unqueued, used>>

CancelDrive(d, held) ==
  /\ marker' = [d |-> d, held |-> held]
  /\ cancelled' = cancelled \cup {d}
  /\ captureOn' = FALSE
  /\ engine' = NoSession /\ live' = NotLive
  /\ failed' = IF failed.d = d THEN NoSession ELSE failed
  /\ job' = Cancel("tell", d)
  /\ UNCHANGED <<native, trip, rides, discards, boot, closed, unqueued, used>>

\* Mutant: native is told, and its journals left to it.
ForgottenByNative == {record}

\* Native cancels the drive it records, whichever that is; the file of the cancel's own
\* drive goes too, should native have ended it before.
Forgotten == {record} \cup (IF marker.held THEN {job.d} ELSE {})

TellNative ==
  /\ job.pc = "tell"
  /\ record' = NoDrive
  /\ journal' = [d \in Drives |-> IF Journaled(d) /\ d \in Forgotten
                                  THEN [journal[d] EXCEPT !.state = "gone"] ELSE journal[d]]
  /\ inbox' = IF record = NoDrive THEN inbox ELSE Emitted(inbox, Task("cancelled", record, 0))
  /\ job' = Cancel("ride", job.d)
  /\ UNCHANGED <<stored, memory, boot, history, used>>

\* The ride is queued, unless that throws: the cancel goes on all the same.
QueueRide ==
  /\ job.pc = "ride"
  /\ \E bad \in BOOLEAN :
       /\ Fails("ride", bad)
       /\ rides' = IF bad THEN rides ELSE rides \cup {job.d}
       /\ unqueued' = IF bad THEN unqueued \cup {job.d} ELSE unqueued
  /\ job' = Cancel("drop", job.d)
  /\ UNCHANGED <<native, trip, marker, memory, inbox, boot, closed, cancelled>>

DropTrip ==
  /\ job.pc = "drop"
  /\ trip' = Dropped(job.d)
  /\ job' = Cancel("clear", job.d)
  /\ UNCHANGED <<native, marker, rides, memory, inbox, boot, history, used>>

\* After a cancel: the launch goes on to recovery, a live host to its next task.
CancelOver ==
  IF boot.on
  THEN job' = At("recover") /\ boot' = [boot EXCEPT !.todo = Open]
  ELSE job' = At("after") /\ UNCHANGED boot

\* dropTrip throws: the marker is kept for the next launch.
DropFails ==
  /\ job.pc = "drop"
  /\ Fault("drop")
  /\ CancelOver
  /\ UNCHANGED <<native, stored, memory, inbox, history>>

ClearMarker ==
  /\ job.pc = "clear"
  /\ marker' = NoCancel
  /\ CancelOver
  /\ UNCHANGED <<native, trip, rides, memory, inbox, history, used>>

-----------------------------------------------------------------------------
(* A launch: a pending cancel, the recovery, then the journals (bootIos). *)

NoPendingCancel ==
  /\ job.pc = "marker" /\ marker.d = NoDrive
  /\ CancelOver
  /\ UNCHANGED <<native, stored, memory, inbox, history, used>>

\* Native cancels the drive if it records it, else deletes its file.
FinishPendingCancel ==
  /\ job.pc = "marker" /\ marker.d # NoDrive
  /\ journal' = IF marker.held THEN [journal EXCEPT ![marker.d].state = "gone"] ELSE journal
  /\ IF marker.held /\ record = marker.d
     THEN record' = NoDrive /\ inbox' = Emitted(inbox, Task("cancelled", record, 0))
     ELSE UNCHANGED <<record, inbox>>
  /\ job' = Cancel("ride", marker.d)
  /\ UNCHANGED <<stored, memory, boot, history, used>>

\* recoverRecordingTrips takes the open trips oldest first.
NextOpen == Min(boot.todo)
Newest == boot.todo = {NextOpen}
Recovering == job.pc = "recover" /\ boot.todo # {}
Recovered == boot' = [boot EXCEPT !.todo = @ \ {NextOpen}]

RecoverEmpty ==
  /\ Recovering /\ trip[NextOpen].rows = {}
  /\ trip' = [trip EXCEPT ![NextOpen] = Absent]
  /\ Recovered
  /\ UNCHANGED <<native, marker, rides, memory, inbox, job, history, used>>

\* The newest may be continued: native has its journal, or captures.
RecoverNewest ==
  /\ Recovering /\ trip[NextOpen].rows # {} /\ Newest
  /\ \E listed \in BOOLEAN :
       /\ Fails("list", ~listed)
       /\ (listed /\ Journaled(NextOpen)) \/ record # NoDrive
  /\ boot' = [boot EXCEPT !.todo = {}, !.adopt = NextOpen]
  /\ UNCHANGED <<native, stored, memory, inbox, job, history>>

\* Any other is an orphan: finalized from the rows stored.  (One closed before, whose store
\* failed, has been judged; its rows went in with its last checkpoint.)
RecoverOrphan ==
  /\ Recovering /\ trip[NextOpen].rows # {}
  /\ IF Newest
     THEN /\ record = NoDrive
          /\ \E listed \in BOOLEAN : Fails("list", ~listed) /\ ~(listed /\ Journaled(NextOpen))
     ELSE UNCHANGED used
  /\ trip' = CloseDrive(Rebuilt(NextOpen))
  /\ IF closed[NextOpen].how = "no"
     THEN Judge(NextOpen, "recovery", trip[NextOpen].rows)
     ELSE UNCHANGED closed
  /\ Recovered
  /\ UNCHANGED <<native, marker, rides, memory, inbox, job, cancelled, unqueued>>

\* Its transaction throws: it stays open for the next launch.
RecoverFails ==
  /\ Recovering /\ trip[NextOpen].rows # {}
  /\ ~(Newest /\ (Journaled(NextOpen) \/ record # NoDrive))
  /\ Fault("store")
  /\ Recovered
  /\ UNCHANGED <<native, stored, memory, inbox, job, history>>

RecoveryOver ==
  /\ job.pc = "recover" /\ boot.todo = {}
  /\ job' = At("boot")
  /\ UNCHANGED <<native, stored, memory, inbox, boot, history, used>>

\* The host boots: native's events are let through, its state and journals read.
BootReads ==
  /\ job.pc = "boot"
  /\ inbox' = Delivered(inbox)
  /\ captureOn' = (record # NoDrive)
  /\ \E listed \in BOOLEAN :
       /\ Fails("list", ~listed)
       /\ boot' = [boot EXCEPT !.todo = {d \in Drives : listed /\ Journaled(d) /\ d # record},
                              !.live = record]
  /\ job' = At("ended")
  /\ UNCHANGED <<native, stored, engine, live, discards, failed, history>>

\* A drive native ended: taken in from where SQLite stops, or its file deleted if stored.
AdoptEnded(d) ==
  IF trip[d].status = "stored"
  THEN /\ discards' = discards \cup {d}
       /\ job' = Back
       /\ UNCHANGED <<trip, engine, live, failed>>
  ELSE /\ OpenDrive(Rebuilt(d))
       /\ live' = [d |-> d, seq |-> LastSeq(trip[d].rows)]
       /\ job' = Drain(d, 0, "adopted", Uncapped)
       /\ UNCHANGED discards

BootAdoptsEnded ==
  /\ job.pc = "ended" /\ boot.todo # {}
  /\ AdoptEnded(Min(boot.todo))
  /\ boot' = [boot EXCEPT !.todo = @ \ {Min(boot.todo)},
                         !.adopt = IF @ = Min(boot.todo) THEN NoDrive ELSE @]
  /\ UNCHANGED <<native, marker, rides, captureOn, inbox, history, used>>

BootGoesOn == job.pc = "ended" /\ boot.todo = {} /\ boot' = NoBoot

\* The recovered drive goes on though native records another, or none.
BootContinues ==
  /\ BootGoesOn /\ boot.adopt \notin {NoDrive, boot.live}
  /\ OpenDrive(Rebuilt(boot.adopt))
  /\ job' = At("after")
  /\ UNCHANGED <<native, marker, rides, live, captureOn, discards, inbox, history, used>>

\* The live drive is taken up from where SQLite stops, its replay capped.
BootTakesLive ==
  /\ BootGoesOn /\ boot.live # NoDrive /\ boot.adopt \in {NoDrive, boot.live}
  /\ trip[boot.live].status # "stored"
  /\ OpenDrive(Rebuilt(boot.live))
  /\ live' = [d |-> boot.live, seq |-> LastSeq(trip[boot.live].rows)]
  /\ captureOn' = TRUE
  /\ job' = Drain(boot.live, 0, "begun", ReplayCap)
  /\ UNCHANGED <<native, marker, rides, discards, inbox, history, used>>

\* Nothing is live, or a drive already stored (which reconcileCapture then stops).
BootRests ==
  /\ BootGoesOn /\ boot.adopt = NoDrive
  /\ boot.live # NoDrive => trip[boot.live].status = "stored"
  /\ job' = At("after")
  /\ UNCHANGED <<native, stored, memory, inbox, history, used>>

-----------------------------------------------------------------------------
(* The host's queue: events and taps, one task at a time. *)

Takes(k) == job.pc = "ready" /\ inbox # <<>> /\ Head(inbox).k = k /\ inbox' = Tail(inbox)
Event == Head(inbox)
PassOver == job' = At("after") /\ UNCHANGED <<native, stored, memory, boot, history>>

\* The drive the host holds is this one.
Holding(d) == live.d # NoDrive /\ live.d = d

\* A live row: the next in order, a repeat, or past a gap the journal fills first.
OnLiveRow ==
  /\ Takes("row")
  /\ IF live.d = NoDrive \/ SeqOf(Event.row) <= live.seq
     THEN PassOver /\ UNCHANGED used
     ELSE IF SeqOf(Event.row) > live.seq + 1
     THEN /\ job' = Drain(live.d, Event.row, "gap", Uncapped)
          /\ UNCHANGED <<native, stored, memory, boot, history, used>>
     ELSE TakeLiveRow(Event.row)

\* driveStarted: begun unless held, another is open, or its journal is gone.
Begins(listed) == ~Holding(Event.d) /\ engine.d = NoDrive /\ (listed => Journaled(Event.d))
OnDriveStarted ==
  /\ Takes("started")
  /\ \E listed \in BOOLEAN :
       /\ Fails("list", ~listed)
       /\ listed \/ Begins(listed)
       /\ IF Begins(listed)
          THEN /\ OpenDrive(Session(Event.d, {}))
               /\ live' = [d |-> Event.d, seq |-> 0]
               /\ captureOn' = TRUE
               /\ job' = Drain(Event.d, 0, "begun", Uncapped)
               /\ UNCHANGED <<native, marker, rides, discards, boot, history>>
          ELSE PassOver

\* An ended drive the host does not hold is taken in while no other is open.
TakesIn(listed) == engine.d = NoDrive /\ listed /\ Journaled(Event.d) /\ record # Event.d

\* driveEnded: the rest of the held drive's rows, then its end.
OnDriveEnded ==
  /\ Takes("ended")
  /\ IF Holding(Event.d)
     THEN /\ captureOn' = FALSE
          /\ job' = Drain(Event.d, 0, "ended", Uncapped)
          /\ UNCHANGED <<native, stored, engine, live, discards, failed, boot, history, used>>
     ELSE \E listed \in BOOLEAN :
          /\ Fails("list", ~listed)
          /\ listed \/ engine.d = NoDrive
          /\ IF TakesIn(listed)
             THEN /\ AdoptEnded(Event.d)
                  /\ UNCHANGED <<native, marker, rides, captureOn, boot, history>>
             ELSE PassOver

\* driveEnded, cancelled: only the host cancels, and it lets go of the drive first.
OnDriveCancelled ==
  /\ Takes("cancelled")
  /\ IF Holding(Event.d) THEN CancelDrive(Event.d, FALSE) ELSE PassOver /\ UNCHANGED used

\* The driver's End closes the drive that is open by now.
OnEnd ==
  /\ Takes("end")
  /\ IF engine.d # NoDrive
     THEN job' = Close("driver") /\ UNCHANGED <<native, stored, memory, boot, history, used>>
     ELSE PassOver /\ UNCHANGED used

\* End on a drive whose finalize failed: it is finalized again, from memory.
FinalizeAgain ==
  /\ Takes("again")
  /\ IF engine.d = NoDrive /\ failed.d = Event.d
     THEN job' = At("store") /\ UNCHANGED <<native, stored, memory, boot, history, used>>
     ELSE PassOver /\ UNCHANGED used

OnCancel ==
  /\ Takes("cancel")
  /\ IF engine.d # NoDrive THEN CancelDrive(engine.d, live.d = engine.d) ELSE PassOver /\ UNCHANGED used

\* The engine's own end: still, walking, parked, or twelve hours.
Tick ==
  /\ job.pc = "ready" /\ engine.d # NoDrive
  /\ job' = Close("auto")
  /\ UNCHANGED <<native, stored, memory, inbox, boot, history, used>>

-----------------------------------------------------------------------------
(* The driver, on the drive the screen shows.  A tap while that drive closes is void. *)

Shown == Running /\ ~Starting /\ job.pc \notin {"close", "store"}
Taps(t) ==
  /\ Shown /\ used.taps < MaxTaps
  /\ used' = [used EXCEPT !.taps = @ + 1]
  /\ inbox' = Append(inbox, t)
  /\ UNCHANGED <<native, stored, memory, job, boot, history>>

TapEnd == engine.d # NoDrive /\ Taps(Task("end", engine.d, 0))
TapEndAgain == engine.d = NoDrive /\ failed.d # NoDrive /\ Taps(Task("again", failed.d, 0))
TapCancel == engine.d # NoDrive /\ Taps(Task("cancel", engine.d, 0))

-----------------------------------------------------------------------------
Init ==
  /\ record = NoDrive
  /\ journal = [d \in Drives |-> [state |-> "none", rows |-> {}, top |-> 0]]
  /\ trip = [d \in Drives |-> Absent]
  /\ marker = NoCancel /\ rides = {}
  /\ engine = NoSession /\ live = NotLive /\ captureOn = FALSE
  /\ discards = {} /\ failed = NoSession
  /\ inbox = <<>> /\ job = At("ready") /\ boot = NoBoot
  /\ closed = [d \in Drives |-> [how |-> "no", rows |-> {}]]
  /\ cancelled = {} /\ unqueued = {}
  /\ used = [kills |-> 0, taps |-> 0, faults |-> 0]

Native == NativeBegins \/ NativeRow \/ NativeEnds
Launch == LaunchAtRest \/ ResumeDrive \/ OrphanAtLaunch
Recovery ==
  \/ NoPendingCancel \/ FinishPendingCancel
  \/ RecoverEmpty \/ RecoverNewest \/ RecoverOrphan \/ RecoverFails \/ RecoveryOver
Boot == BootReads \/ BootAdoptsEnded \/ BootContinues \/ BootTakesLive \/ BootRests
Reading == ReadPage \/ ReadFails \/ TakenUp \/ GapFilled \/ NativeEndTaken \/ ReleaseDrive
Ending == CloseCheckpoint \/ StoreDrive \/ StoreFails \/ StopCapture \/ DiscardJournals
Cancelling == TellNative \/ QueueRide \/ DropTrip \/ DropFails \/ ClearMarker
Tasks ==
  \/ OnLiveRow \/ OnDriveStarted \/ OnDriveEnded \/ OnDriveCancelled
  \/ OnEnd \/ FinalizeAgain \/ OnCancel \/ Tick
Host == Recovery \/ Boot \/ Reading \/ Ending \/ Cancelling \/ Tasks
Driver == TapEnd \/ TapEndAgain \/ TapCancel

\* The last drive is over: the model's end, not the program's.
Over ==
  /\ job.pc = "ready" /\ inbox = <<>> /\ record = NoDrive
  /\ \A d \in Drives : Begun(d)
  /\ UNCHANGED vars

Next == Native \/ Launch \/ Kill \/ Host \/ Driver \/ Over
Spec == Init /\ [][Next]_vars

\* The host's queue never stalls, a dead app is opened again, and native's own stop ends
\* every drive at last.
Fairness == WF_vars(Host) /\ WF_vars(Launch) /\ WF_vars(NativeEnds)
FairSpec == Spec /\ Fairness

-----------------------------------------------------------------------------
(* What the parts promise together. *)

\* No holes: of a drive's journal, what the engine and the database hold is a first part; and none
\* to come: the drive held is the one open, and lastSeq the last row taken in of it, so that no row
\* is passed over as a repeat without having been taken.
Holds(d, rows) == \A r \in rows, j \in journal[d].rows : j < r => j \in rows
NoHoles ==
  /\ \A d \in Drives : Holds(d, trip[d].rows)
  /\ engine.d # NoDrive => Holds(engine.d, engine.rows)
  /\ live.d # NoDrive =>
       /\ engine.d = live.d
       /\ LastSeq(engine.rows) = live.seq
       /\ engine.rows \subseteq journal[live.d].rows

\* A drive native ended, or the recovery of a launch closes, is judged on every row of its
\* journal ("never finalized (nor its journal deleted) with rows still unread").
JudgedOnAll(d) == journal[d].rows \subseteq closed[d].rows
RecoveryReadsAll == \A d \in Drives : closed[d].how = "recovery" => JudgedOnAll(d)
NothingUnread == RecoveryReadsAll /\ \A d \in Drives : closed[d].how = "native" => JudgedOnAll(d)

\* A journal file is deleted only once nothing more is to be read from it: the drive is
\* cancelled, or closed and no longer recording in the database.
JournalKept ==
  \A d \in Drives : journal[d].state = "gone" =>
    d \in cancelled \/ (closed[d].how # "no" /\ trip[d].status # "recording")

\* A drive the driver cancelled is never stored, whatever dies in between.
CancelledStaysGone == \A d \in cancelled : trip[d].status # "stored"

\* A cancelled drive's passenger ride is queued, or the marker still says to queue it: nothing
\* that dies and no other step that fails loses it, only its own enqueue throwing (which the
\* host reports and passes over). No other drive leaves one.
RideOwed == rides \subseteq cancelled /\ cancelled \subseteq rides \cup {marker.d} \cup unqueued

\* With nothing left for the host to do, native records no drive the host does not hold.
Quiet == job.pc = "ready" /\ inbox = <<>>
NothingUnheld == Quiet /\ record # NoDrive => live.d = record

\* A stored trip stays as it was stored.
StoredForGood == [][\A d \in Drives : trip[d].status = "stored" => trip'[d] = trip[d]]_vars

\* In the end no trip is left recording, no cancel unfinished, and no journal file stays
\* but that of a stored drive (a kill as native was to be stopped leaves it until a later launch).
EverythingSettles ==
  <>[](/\ marker.d = NoDrive
       /\ \A d \in Drives : trip[d].status # "recording" /\ (Journaled(d) => trip[d].status = "stored"))
=============================================================================
