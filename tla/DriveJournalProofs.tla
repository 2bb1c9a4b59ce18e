------------------------- MODULE DriveJournalProofs -------------------------
(***************************************************************************)
(* Proofs about DriveJournal, for any number of drives, rows, kills, taps  *)
(* and faults of every kind, and however early native begins a drive; the  *)
(* last three theorems name the faults they exclude (Told, Steady).        *)
(*                                                                         *)
(* That a stored trip stays as it is needs, beside how each write of the   *)
(* table of trips treats a stored one, that a recovery has only open trips *)
(* still to look at (TodoOpen): it writes without asking again.  That a    *)
(* cancel's ride is owed needs to know where in a task a marker may stand  *)
(* for a ride not yet queued (RideInv): nowhere a second cancel could      *)
(* begin and write the marker over.                                        *)
(*                                                                         *)
(* That all is well typed is the second part.  Types adds to the types     *)
(* what they need: what seqs a file has and has skipped (Files), which     *)
(* drive the engine and the host hold where a task stands (Control), and   *)
(* that a live row that waits is one.  Knows adds what is so of native,    *)
(* queue, launch and host together.                                        *)
(*                                                                         *)
(* The third part follows a cancelled drive (CancelInv), the fourth what   *)
(* native records and the journals that go (Sync, KeptInv).                *)
(***************************************************************************)
EXTENDS DriveJournal, Extremes

\* The job, the launch and the table of trips are put together as they should be.
Shape ==
  /\ job = Job(job.pc, job.d, job.row, job.how, job.left)
  /\ boot = [on |-> boot.on, todo |-> boot.todo, adopt |-> boot.adopt, live |-> boot.live]
  /\ trip = [d \in Drives |-> trip[d]]

\* What a recovery has still to look at is open: it never comes to a trip stored since.
TodoOpen == job.pc = "recover" => boot.todo \subseteq Open

TripInv == Shape /\ TodoOpen

\* A table of trips in which the stored ones are as they were.
Keeps(t) ==
  /\ t = [d \in Drives |-> t[d]]
  /\ \A d \in Drives : trip[d].status = "stored" => t[d] = trip[d]

-----------------------------------------------------------------------------
(* What is done to the table of trips leaves the stored ones alone. *)

\* A checkpoint.
LEMMA CheckpointKeeps ==
  ASSUME Shape, NEW d, NEW rows
  PROVE  Keeps(Checkpoint(d, rows))
BY DEF Shape, Keeps, Checkpoint

\* The close of a drive.
LEMMA CloseKeeps ==
  ASSUME Shape, NEW s
  PROVE  Keeps(CloseDrive(s))
BY DEF Shape, Keeps, CloseDrive

\* The drop of a cancelled drive.
LEMMA DropKeeps ==
  ASSUME Shape, NEW d
  PROVE  Keeps(Dropped(d))
BY DEF Shape, Keeps, Dropped

\* The opening of one.
LEMMA OpenKeeps ==
  ASSUME Shape, NEW s, OpenDrive(s)
  PROVE  Keeps(trip')
BY CheckpointKeeps DEF Shape, Keeps, OpenDrive

\* Rows going in.
LEMMA TakeInKeeps ==
  ASSUME Shape, NEW rows, NEW bad, TakeIn(rows, bad)
  PROVE  Keeps(trip')
BY CheckpointKeeps DEF Shape, Keeps, TakeIn

\* The least of what a recovery has to look at is one of them.
LEMMA NextIsOpen ==
  ASSUME TripInv, Recovering
  PROVE  NextOpen \in boot.todo /\ NextOpen \in Drives /\ trip[NextOpen].status = "recording"
<1>1. boot.todo # {} /\ boot.todo \subseteq Open
  BY DEF TripInv, TodoOpen, Recovering
<1>2. boot.todo \in SUBSET Int /\ 0 \in Int /\ \A d \in boot.todo : 0 <= d
  BY <1>1, ParametersAssumption DEF Open, Drives
<1>3. PICK m \in boot.todo : \A d \in boot.todo : m <= d
  <2> DEFINE todo == boot.todo
  <2>1. todo \in SUBSET Int /\ todo # {} /\ \A d \in todo : 0 <= d
    BY <1>1, <1>2
  <2> HIDE DEF todo
  <2>2. \E m \in todo : \A d \in todo : m <= d
    BY <1>2, <2>1, LeastExists
  <2> QED
    BY <2>2 DEF todo
<1>4. NextOpen \in boot.todo
  BY <1>3 DEF NextOpen, Min
<1> QED
  BY <1>1, <1>4 DEF Open

-----------------------------------------------------------------------------
(* A stored trip stays as it was stored: the steps, group by group. *)

\* What a step does that comes to no recovery, or leaves the one under way alone.
GoesOn ==
  /\ Shape' /\ Keeps(trip')
  /\ job'.pc = "recover" => job.pc = "recover" /\ boot' = boot /\ trip' = trip

\* Such a step keeps the invariant.
LEMMA GoesOnKeeps ==
  ASSUME TripInv, GoesOn
  PROVE  TripInv' /\ Keeps(trip')
BY DEF TripInv, TodoOpen, GoesOn, Open

\* A step that leaves the table alone.
LEMMA SameKeeps ==
  ASSUME Shape, trip' = trip
  PROVE  Keeps(trip')
BY DEF Shape, Keeps

\* Native writes its own two tables only; a kill loses what is in memory only.
LEMMA NativeGoesOn ==
  ASSUME TripInv, Native \/ Launch \/ Kill \/ Driver
  PROVE  GoesOn
<1>1. CASE Native
  BY <1>1, SameKeeps DEF TripInv, Shape, GoesOn, Native, NativeBegins, NativeRow, NativeEnds, stored
<1>2. CASE Launch
  BY <1>2, SameKeeps DEF TripInv, Shape, GoesOn, Launch, LaunchAtRest, ResumeDrive, OrphanAtLaunch, Launches,
       stored, At, Job, NoBoot
<1>3. CASE Kill
  BY <1>3, SameKeeps DEF TripInv, Shape, GoesOn, Kill, stored, At, Job, NoBoot
<1>4. CASE Driver
  BY <1>4, SameKeeps DEF TripInv, Shape, GoesOn, Driver, TapEnd, TapEndAgain, TapCancel, Taps, stored
<1> QED
  BY <1>1, <1>2, <1>3, <1>4

\* A pending cancel is finished and the launch goes on to its recovery, over what is open.
LEMMA CancelOverKeeps ==
  ASSUME TripInv, CancelOver, trip' = trip
  PROVE  TripInv' /\ Keeps(trip')
BY SameKeeps DEF TripInv, TodoOpen, Shape, CancelOver, At, Job, Open

\* A trip with no rows, and one closed by the recovery, is open until then.
LEMMA RecoveryKeeps ==
  ASSUME TripInv, Recovery
  PROVE  TripInv' /\ Keeps(trip')
<1>1. Shape
  BY DEF TripInv
<1>2. CASE NoPendingCancel
  BY <1>2, CancelOverKeeps DEF NoPendingCancel, stored
<1>3. CASE FinishPendingCancel
  <2>1. GoesOn
    BY <1>1, <1>3, SameKeeps DEF Shape, GoesOn, FinishPendingCancel, stored, Cancel, Job
  <2> QED
    BY <2>1, GoesOnKeeps
<1>4. CASE RecoverEmpty
  <2>1. NextOpen \in Drives /\ trip[NextOpen].status = "recording"
    BY <1>4, NextIsOpen DEF RecoverEmpty
  <2>2. Keeps(trip') /\ \A d \in Drives \ {NextOpen} : trip'[d] = trip[d]
    BY <1>1, <1>4, <2>1 DEF RecoverEmpty, Keeps, Shape
  <2>3. job' = job /\ boot' = [boot EXCEPT !.todo = @ \ {NextOpen}]
    BY <1>4 DEF RecoverEmpty, Recovered
  <2> QED
    BY <1>1, <2>2, <2>3 DEF TripInv, Shape, Keeps, TodoOpen, Open
<1>5. CASE RecoverNewest
  BY <1>1, <1>5, SameKeeps DEF RecoverNewest, TripInv, Shape, TodoOpen, Open, stored
<1>6. CASE RecoverOrphan
  <2>1. NextOpen \in Drives /\ trip[NextOpen].status = "recording"
    BY <1>6, NextIsOpen DEF RecoverOrphan
  <2>2. Keeps(trip')
    BY <1>1, <1>6, CloseKeeps DEF RecoverOrphan
  <2>3. \A d \in Drives \ {NextOpen} : trip'[d] = trip[d]
    BY <1>1, <1>6, <2>1 DEF RecoverOrphan, CloseDrive, Rebuilt, Session, Shape
  <2>4. job' = job /\ boot' = [boot EXCEPT !.todo = @ \ {NextOpen}]
    BY <1>6 DEF RecoverOrphan, Recovered
  <2> QED
    BY <1>1, <2>2, <2>3, <2>4 DEF TripInv, Shape, Keeps, TodoOpen, Open
<1>7. CASE RecoverFails
  BY <1>1, <1>7, SameKeeps DEF RecoverFails, Recovered, TripInv, Shape, TodoOpen, Open, stored
<1>8. CASE RecoveryOver
  BY <1>1, <1>8, SameKeeps DEF RecoveryOver, TripInv, Shape, TodoOpen, stored, At, Job
<1> QED
  BY <1>2, <1>3, <1>4, <1>5, <1>6, <1>7, <1>8 DEF Recovery

\* A launch takes drives up; none of them is stored anew.
LEMMA BootStepGoesOn ==
  ASSUME TripInv, Boot
  PROVE  GoesOn
<1>1. Shape
  BY DEF TripInv
<1>2. CASE BootReads
  BY <1>1, <1>2, SameKeeps DEF BootReads, Shape, GoesOn, stored, At, Job
<1>3. CASE BootAdoptsEnded
  <2>1. AdoptEnded(Min(boot.todo))
    BY <1>3 DEF BootAdoptsEnded
  <2>2. Keeps(trip')
    BY <1>1, <2>1, SameKeeps, OpenKeeps DEF AdoptEnded
  <2>3. job' = Job(job'.pc, job'.d, job'.row, job'.how, job'.left) /\ job'.pc # "recover"
    BY <2>1 DEF AdoptEnded, Back, At, Drain, Job
  <2>4. boot' = [on |-> boot'.on, todo |-> boot'.todo, adopt |-> boot'.adopt, live |-> boot'.live]
    BY <1>1, <1>3 DEF BootAdoptsEnded, Shape
  <2> QED
    BY <2>2, <2>3, <2>4 DEF GoesOn, Shape, Keeps
<1>4. CASE BootContinues
  BY <1>1, <1>4, OpenKeeps DEF BootContinues, BootGoesOn, NoBoot, Shape, GoesOn, Keeps, At, Job
<1>5. CASE BootTakesLive
  BY <1>1, <1>5, OpenKeeps DEF BootTakesLive, BootGoesOn, NoBoot, Shape, GoesOn, Keeps, Drain, Job
<1>6. CASE BootRests
  BY <1>1, <1>6, SameKeeps DEF BootRests, BootGoesOn, NoBoot, Shape, GoesOn, stored, At, Job
<1> QED
  BY <1>2, <1>3, <1>4, <1>5, <1>6 DEF Boot

\* A live row goes in.
LEMMA LiveRowGoesOn ==
  ASSUME Shape, NEW row, TakeLiveRow(row)
  PROVE  GoesOn
<1>1. Keeps(trip')
  BY TakeInKeeps, SameKeeps DEF TakeLiveRow, TakeInAndEnd
<1> QED
  BY <1>1 DEF TakeLiveRow, TakeInAndEnd, Shape, GoesOn, Keeps, At, Close, Job

\* The drain goes on over the same drive, or is done.
LEMMA PageShape ==
  ASSUME Shape
  PROVE  /\ AfterPage = Job(AfterPage.pc, AfterPage.d, AfterPage.row, AfterPage.how, AfterPage.left)
         /\ AfterPage.pc \in {"drain", "drained"}
<1> DEFINE left == IF job.left = Uncapped THEN Uncapped ELSE job.left - Cardinality(Page)
           pc == IF Cardinality(Page) < PageLimit \/ left = 0 THEN "drained" ELSE "drain"
<1>1. AfterPage = [job EXCEPT !.pc = pc, !.left = left]
  BY DEF AfterPage
<1>2. pc \in {"drain", "drained"}
  OBVIOUS
<1> HIDE DEF left, pc
<1>3. AfterPage = Job(pc, job.d, job.row, job.how, left)
  BY <1>1 DEF Shape, Job
<1> QED
  BY <1>2, <1>3 DEF Job

\* Rows are read and go in, or the drive is let go.
LEMMA ReadingGoesOn ==
  ASSUME TripInv, Reading
  PROVE  GoesOn
<1>1. Shape
  BY DEF TripInv
<1>2. CASE ReadPage
  <2>1. Keeps(trip')
    BY <1>1, <1>2, TakeInKeeps, SameKeeps DEF ReadPage, TakeInAndEnd
  <2>2. job' = Job(job'.pc, job'.d, job'.row, job'.how, job'.left) /\ job'.pc # "recover"
    <3>1. job' = AfterPage \/ job' = Close("auto")
      BY <1>2 DEF ReadPage, TakeInAndEnd
    <3> QED
      BY <1>1, <3>1, PageShape DEF Close, Job
  <2>3. boot' = boot
    BY <1>2 DEF ReadPage
  <2> QED
    BY <1>1, <2>1, <2>2, <2>3 DEF GoesOn, Shape, Keeps
<1>3. CASE ReadFails
  BY <1>1, <1>3, SameKeeps DEF ReadFails, Shape, GoesOn, stored, Job
<1>4. CASE TakenUp
  BY <1>1, <1>4, SameKeeps DEF TakenUp, Shape, GoesOn, stored, At, Job
<1>5. CASE GapFilled
  <2>1. CASE SeqOf(job.row) > live.seq
    BY <1>1, <1>5, <2>1, LiveRowGoesOn DEF GapFilled
  <2>2. CASE ~(SeqOf(job.row) > live.seq)
    BY <1>1, <1>5, <2>2, SameKeeps DEF GapFilled, Shape, GoesOn, stored, At, Job
  <2> QED
    BY <2>1, <2>2
<1>6. CASE NativeEndTaken
  BY <1>1, <1>6, SameKeeps DEF NativeEndTaken, Shape, GoesOn, stored, Close, Job
<1>7. CASE ReleaseDrive
  <2>1. Keeps(trip')
    BY <1>1, <1>7, CheckpointKeeps, SameKeeps DEF ReleaseDrive
  <2> QED
    BY <1>1, <1>7, <2>1 DEF ReleaseDrive, Back, Shape, GoesOn, Keeps, At, Job
<1> QED
  BY <1>2, <1>3, <1>4, <1>5, <1>6, <1>7 DEF Reading

\* A drive closes: it is stored, dropped, or kept in memory.
LEMMA EndingGoesOn ==
  ASSUME TripInv, Ending
  PROVE  GoesOn
<1>1. Shape
  BY DEF TripInv
<1>2. CASE CloseCheckpoint
  <2>1. Keeps(trip')
    BY <1>1, <1>2, CheckpointKeeps, SameKeeps DEF CloseCheckpoint
  <2> QED
    BY <1>1, <1>2, <2>1 DEF CloseCheckpoint, Shape, GoesOn, Keeps, At, Job
<1>3. CASE StoreDrive
  <2>1. Keeps(trip')
    BY <1>1, <1>3, CloseKeeps DEF StoreDrive
  <2> QED
    BY <1>1, <1>3, <2>1 DEF StoreDrive, Back, Shape, GoesOn, Keeps, At, Job
<1>4. CASE StoreFails
  BY <1>1, <1>4, SameKeeps DEF StoreFails, Back, Shape, GoesOn, stored, At, Job
<1>5. CASE StopCapture
  BY <1>1, <1>5, SameKeeps DEF StopCapture, Shape, GoesOn, stored, At, Job
<1>6. CASE DiscardJournals
  BY <1>1, <1>6, SameKeeps DEF DiscardJournals, Shape, GoesOn, stored, At, Job
<1> QED
  BY <1>2, <1>3, <1>4, <1>5, <1>6 DEF Ending

\* A cancel drops its trip unless it is stored.
LEMMA CancellingKeeps ==
  ASSUME TripInv, Cancelling
  PROVE  TripInv' /\ Keeps(trip')
<1>1. Shape
  BY DEF TripInv
<1>2. CASE TellNative
  <2>1. GoesOn
    BY <1>1, <1>2, SameKeeps DEF TellNative, Shape, GoesOn, stored, Cancel, Job
  <2> QED
    BY <2>1, GoesOnKeeps
<1>3. CASE QueueRide
  <2>1. GoesOn
    BY <1>1, <1>3, SameKeeps DEF QueueRide, Shape, GoesOn, Cancel, Job
  <2> QED
    BY <2>1, GoesOnKeeps
<1>4. CASE DropTrip
  <2>1. Keeps(trip')
    BY <1>1, <1>4, DropKeeps DEF DropTrip
  <2>2. GoesOn
    BY <1>1, <1>4, <2>1 DEF DropTrip, Shape, GoesOn, Keeps, Cancel, Job
  <2> QED
    BY <2>2, GoesOnKeeps
<1>5. CASE DropFails
  BY <1>5, CancelOverKeeps DEF DropFails, stored
<1>6. CASE ClearMarker
  BY <1>6, CancelOverKeeps DEF ClearMarker
<1> QED
  BY <1>2, <1>3, <1>4, <1>5, <1>6 DEF Cancelling

\* "Not driving?", as its marker is written.
LEMMA CancelDriveGoesOn ==
  ASSUME Shape, NEW d, NEW held, CancelDrive(d, held)
  PROVE  GoesOn
BY SameKeeps DEF CancelDrive, Shape, GoesOn, Cancel, Job

\* An event passed over.
LEMMA PassOverGoesOn ==
  ASSUME Shape, PassOver
  PROVE  GoesOn
BY SameKeeps DEF PassOver, Shape, GoesOn, stored, At, Job

\* The host's tasks, each as it begins.
LEMMA TasksGoOn ==
  ASSUME TripInv, Tasks
  PROVE  GoesOn
<1>1. Shape
  BY DEF TripInv
<1>2. CASE OnLiveRow
  <2>1. \/ PassOver
        \/ job' = Drain(live.d, Event.row, "gap", Uncapped) /\ UNCHANGED <<stored, boot>>
        \/ TakeLiveRow(Event.row)
    BY <1>2 DEF OnLiveRow
  <2>2. CASE job' = Drain(live.d, Event.row, "gap", Uncapped) /\ UNCHANGED <<stored, boot>>
    BY <1>1, <2>2, SameKeeps DEF Shape, GoesOn, stored, Drain, Job
  <2> QED
    BY <1>1, <2>1, <2>2, PassOverGoesOn, LiveRowGoesOn
<1>3. CASE OnDriveStarted
  <2>1. \/ PassOver
        \/ /\ OpenDrive(Session(Event.d, {}))
           /\ job' = Drain(Event.d, 0, "begun", Uncapped) /\ UNCHANGED boot
    BY <1>3 DEF OnDriveStarted
  <2>2. CASE /\ OpenDrive(Session(Event.d, {}))
             /\ job' = Drain(Event.d, 0, "begun", Uncapped) /\ UNCHANGED boot
    <3>1. Keeps(trip')
      BY <1>1, <2>2, OpenKeeps
    <3> QED
      BY <1>1, <2>2, <3>1 DEF Shape, GoesOn, Keeps, Drain, Job
  <2> QED
    BY <1>1, <2>1, <2>2, PassOverGoesOn
<1>4. CASE OnDriveEnded
  <2>1. \/ PassOver
        \/ job' = Drain(Event.d, 0, "ended", Uncapped) /\ UNCHANGED <<stored, boot>>
        \/ AdoptEnded(Event.d) /\ UNCHANGED boot
    BY <1>4 DEF OnDriveEnded
  <2>2. CASE job' = Drain(Event.d, 0, "ended", Uncapped) /\ UNCHANGED <<stored, boot>>
    BY <1>1, <2>2, SameKeeps DEF Shape, GoesOn, stored, Drain, Job
  <2>3. CASE AdoptEnded(Event.d) /\ UNCHANGED boot
    <3>1. Keeps(trip')
      BY <1>1, <2>3, SameKeeps, OpenKeeps DEF AdoptEnded
    <3>2. job' = Job(job'.pc, job'.d, job'.row, job'.how, job'.left) /\ job'.pc # "recover"
      BY <2>3 DEF AdoptEnded, Back, At, Drain, Job
    <3> QED
      BY <1>1, <2>3, <3>1, <3>2 DEF Shape, GoesOn, Keeps
  <2> QED
    BY <1>1, <2>1, <2>2, <2>3, PassOverGoesOn
<1>5. CASE OnDriveCancelled
  BY <1>1, <1>5, CancelDriveGoesOn, PassOverGoesOn DEF OnDriveCancelled
<1>6. CASE OnEnd
  BY <1>1, <1>6, PassOverGoesOn, SameKeeps DEF OnEnd, Shape, GoesOn, stored, Close, Job
<1>7. CASE FinalizeAgain
  BY <1>1, <1>7, PassOverGoesOn, SameKeeps DEF FinalizeAgain, Shape, GoesOn, stored, At, Job
<1>8. CASE OnCancel
  BY <1>1, <1>8, CancelDriveGoesOn, PassOverGoesOn DEF OnCancel
<1>9. CASE Tick
  BY <1>1, <1>9, SameKeeps DEF Tick, Shape, GoesOn, stored, Close, Job
<1> QED
  BY <1>2, <1>3, <1>4, <1>5, <1>6, <1>7, <1>8, <1>9 DEF Tasks

\* Every step keeps the invariant, and the stored trips.
LEMMA StepKeeps ==
  ASSUME TripInv, [Next]_vars
  PROVE  TripInv' /\ Keeps(trip')
<1>1. CASE Native \/ Launch \/ Kill \/ Driver
  BY <1>1, NativeGoesOn, GoesOnKeeps
<1>2. CASE Recovery
  BY <1>2, RecoveryKeeps
<1>3. CASE Boot
  BY <1>3, BootStepGoesOn, GoesOnKeeps
<1>4. CASE Reading
  BY <1>4, ReadingGoesOn, GoesOnKeeps
<1>5. CASE Ending
  BY <1>5, EndingGoesOn, GoesOnKeeps
<1>6. CASE Cancelling
  BY <1>6, CancellingKeeps
<1>7. CASE Tasks
  BY <1>7, TasksGoOn, GoesOnKeeps
<1>8. CASE UNCHANGED vars
  <2>1. UNCHANGED <<trip, job, boot>>
    BY <1>8 DEF vars, stored
  <2>2. GoesOn
    BY <2>1, SameKeeps DEF TripInv, Shape, GoesOn
  <2> QED
    BY <2>2, GoesOnKeeps
<1>9. Over => UNCHANGED vars
  BY DEF Over
<1> QED
  BY <1>1, <1>2, <1>3, <1>4, <1>5, <1>6, <1>7, <1>8, <1>9 DEF Next, Host

\* A trip once stored stays exactly as it was stored: no checkpoint, recovery, second close or
\* "Not driving?" rewrites or drops it, whatever dies or fails on the way (closeDrive, dropTrip,
\* saveCheckpoint of the trips repository).
THEOREM StoredStays == Spec => StoredForGood
<1>1. Init => TripInv
  BY DEF Init, TripInv, Shape, TodoOpen, At, Job, NoBoot
<1>2. TripInv /\ [Next]_vars => TripInv'
  BY StepKeeps
<1>3. TripInv /\ [Next]_vars => [\A d \in Drives : trip[d].status = "stored" => trip'[d] = trip[d]]_vars
  BY StepKeeps DEF Keeps
<1> QED
  BY <1>1, <1>2, <1>3, PTL DEF Spec, StoredForGood

-----------------------------------------------------------------------------
(* A cancelled drive's ride is queued, or the marker says to queue it. *)

\* Where the marker may stand for a ride not yet queued.
Marked == {"down", "marker", "tell", "ride"}

RideInv ==
  /\ RideOwed
  /\ NoDrive \notin cancelled
  /\ marker.d = NoDrive \/ marker.d \in cancelled
  /\ job.pc \in {"tell", "ride"} => job.d = marker.d /\ marker.d # NoDrive
  /\ job.pc \notin Marked => marker.d = NoDrive \/ marker.d \in rides \cup unqueued

\* What a step does that is no part of a cancel: there is none under way that it could break.
NoCancelling ==
  /\ UNCHANGED <<marker, rides, cancelled, unqueued>>
  /\ \/ job' = job
     \/ job'.pc \in {"down", "marker"}
     \/ job.pc \notin Marked /\ job'.pc \notin {"tell", "ride"}

\* Such a step keeps what is owed.
LEMMA NoCancellingKeeps ==
  ASSUME RideInv, NoCancelling
  PROVE  RideInv'
BY DEF RideInv, RideOwed, NoCancelling, Marked

\* Native, launches, kills and taps are no part of one; a launch comes to the marker first.
LEMMA NativeCancelsNothing ==
  ASSUME Native \/ Launch \/ Kill \/ Driver
  PROVE  NoCancelling
<1>1. CASE Native
  BY <1>1 DEF NoCancelling, Native, NativeBegins, NativeRow, NativeEnds, stored, history
<1>2. CASE Launch
  BY <1>2 DEF NoCancelling, Launch, LaunchAtRest, ResumeDrive, OrphanAtLaunch, Launches, stored, history, At, Job
<1>3. CASE Kill
  BY <1>3 DEF NoCancelling, Kill, stored, history, At, Job
<1>4. CASE Driver
  BY <1>4 DEF NoCancelling, Driver, TapEnd, TapEndAgain, TapCancel, Taps, stored, history
<1> QED
  BY <1>1, <1>2, <1>3, <1>4

\* Nor is taking drives up at a launch,
LEMMA BootCancelsNothing ==
  ASSUME Boot
  PROVE  NoCancelling
<1>1. CASE BootReads
  BY <1>1 DEF BootReads, NoCancelling, Marked, stored, history, At, Job
<1>2. CASE BootAdoptsEnded
  BY <1>2 DEF BootAdoptsEnded, AdoptEnded, Back, NoCancelling, Marked, history, At, Drain, Job
<1>3. CASE BootContinues
  BY <1>3 DEF BootContinues, BootGoesOn, NoCancelling, Marked, history, At, Job
<1>4. CASE BootTakesLive
  BY <1>4 DEF BootTakesLive, BootGoesOn, NoCancelling, Marked, history, Drain, Job
<1>5. CASE BootRests
  BY <1>5 DEF BootRests, BootGoesOn, NoCancelling, Marked, stored, history, At, Job
<1> QED
  BY <1>1, <1>2, <1>3, <1>4, <1>5 DEF Boot

\* a live row going in,
LEMMA LiveRowCancelsNothing ==
  ASSUME NEW row, TakeLiveRow(row), job.pc \notin Marked
  PROVE  NoCancelling
BY DEF TakeLiveRow, TakeInAndEnd, NoCancelling, history, At, Close, Job

\* the reading of a journal,
LEMMA ReadingCancelsNothing ==
  ASSUME Shape, Reading
  PROVE  NoCancelling
<1>1. CASE ReadPage
  <2>1. job' = AfterPage \/ job' = Close("auto")
    BY <1>1 DEF ReadPage, TakeInAndEnd
  <2>2. job'.pc \in {"drain", "drained", "close"}
    BY <2>1, PageShape DEF Close, Job
  <2> QED
    BY <1>1, <2>2 DEF ReadPage, NoCancelling, Marked, history
<1>2. CASE ReadFails
  BY <1>2 DEF ReadFails, Shape, NoCancelling, Marked, stored, history, Job
<1>3. CASE TakenUp
  BY <1>3 DEF TakenUp, NoCancelling, Marked, stored, history, At, Job
<1>4. CASE GapFilled
  BY <1>4, LiveRowCancelsNothing DEF GapFilled, NoCancelling, Marked, stored, history, At, Job
<1>5. CASE NativeEndTaken
  BY <1>5 DEF NativeEndTaken, NoCancelling, Marked, stored, history, Close, Job
<1>6. CASE ReleaseDrive
  BY <1>6 DEF ReleaseDrive, Back, NoCancelling, Marked, history, At, Job
<1> QED
  BY <1>1, <1>2, <1>3, <1>4, <1>5, <1>6 DEF Reading

\* or a drive closing.
LEMMA EndingCancelsNothing ==
  ASSUME Ending
  PROVE  NoCancelling
<1>1. CASE CloseCheckpoint
  BY <1>1 DEF CloseCheckpoint, NoCancelling, Marked, At, Job
<1>2. CASE StoreDrive
  BY <1>2 DEF StoreDrive, Back, NoCancelling, Marked, history, At, Job
<1>3. CASE StoreFails
  BY <1>3 DEF StoreFails, Back, NoCancelling, Marked, stored, history, At, Job
<1>4. CASE StopCapture
  BY <1>4 DEF StopCapture, NoCancelling, Marked, stored, history, At, Job
<1>5. CASE DiscardJournals
  BY <1>5 DEF DiscardJournals, NoCancelling, Marked, stored, history, At, Job
<1> QED
  BY <1>1, <1>2, <1>3, <1>4, <1>5 DEF Ending

\* A cancel begins: the one before it is over, its ride queued or its enqueue thrown, so the marker may be written over.
LEMMA CancelBegins ==
  ASSUME RideInv, job.pc = "ready", NEW d, d # NoDrive, NEW held, CancelDrive(d, held)
  PROVE  RideInv'
<1>1. cancelled \subseteq rides \cup unqueued
  BY DEF RideInv, RideOwed, Marked
<1> QED
  BY <1>1 DEF RideInv, RideOwed, CancelDrive, Marked, Cancel, Job

\* Of the tasks two begin a cancel.
LEMMA TasksKeepRides ==
  ASSUME RideInv, Tasks
  PROVE  RideInv'
<1>1. CASE OnDriveCancelled
  <2>1. CASE Holding(Event.d)
    BY <1>1, <2>1, CancelBegins DEF OnDriveCancelled, Holding, Takes
  <2>2. CASE ~Holding(Event.d)
    <3>1. NoCancelling
      BY <1>1, <2>2 DEF OnDriveCancelled, Takes, PassOver, NoCancelling, Marked, stored, history, At, Job
    <3> QED
      BY <3>1, NoCancellingKeeps
  <2> QED
    BY <2>1, <2>2
<1>2. CASE OnCancel
  <2>1. CASE engine.d # NoDrive
    BY <1>2, <2>1, CancelBegins DEF OnCancel, Takes
  <2>2. CASE engine.d = NoDrive
    <3>1. NoCancelling
      BY <1>2, <2>2 DEF OnCancel, Takes, PassOver, NoCancelling, Marked, stored, history, At, Job
    <3> QED
      BY <3>1, NoCancellingKeeps
  <2> QED
    BY <2>1, <2>2
<1>3. CASE OnLiveRow \/ OnDriveStarted \/ OnDriveEnded \/ OnEnd \/ FinalizeAgain \/ Tick
  <2> SUFFICES NoCancelling
    BY NoCancellingKeeps
  <2>1. CASE OnLiveRow
    BY <2>1, LiveRowCancelsNothing
       DEF OnLiveRow, Takes, PassOver, NoCancelling, Marked, stored, history, At, Drain, Job
  <2>2. CASE OnDriveStarted
    BY <2>2 DEF OnDriveStarted, Takes, PassOver, NoCancelling, Marked, stored, history, At, Drain, Job
  <2>3. CASE OnDriveEnded
    BY <2>3 DEF OnDriveEnded, AdoptEnded, Back, Takes, PassOver, NoCancelling, Marked, stored, history,
         At, Drain, Job
  <2>4. CASE OnEnd \/ FinalizeAgain \/ Tick
    BY <2>4 DEF OnEnd, FinalizeAgain, Tick, Takes, PassOver, NoCancelling, Marked, stored, history,
         At, Close, Job
  <2> QED
    BY <1>3, <2>1, <2>2, <2>3, <2>4
<1> QED
  BY <1>1, <1>2, <1>3 DEF Tasks

\* The launch goes through a pending cancel again, from native on.
LEMMA RecoveryKeepsRides ==
  ASSUME RideInv, Recovery
  PROVE  RideInv'
<1>1. CASE NoPendingCancel
  BY <1>1 DEF NoPendingCancel, CancelOver, RideInv, RideOwed, Marked, stored, history, At, Job
<1>2. CASE FinishPendingCancel
  BY <1>2 DEF FinishPendingCancel, RideInv, RideOwed, Marked, stored, history, Cancel, Job
<1>3. CASE RecoverEmpty \/ RecoverNewest \/ RecoverOrphan \/ RecoverFails \/ RecoveryOver
  <2>1. NoCancelling
    BY <1>3 DEF RecoverEmpty, RecoverNewest, RecoverOrphan, RecoverFails, RecoveryOver, NoCancelling, Marked,
         stored, history, At, Job
  <2> QED
    BY <2>1, NoCancellingKeeps
<1> QED
  BY <1>1, <1>2, <1>3 DEF Recovery

\* The ride is queued before the trip goes and the marker with it.
LEMMA CancellingKeepsRides ==
  ASSUME RideInv, Cancelling
  PROVE  RideInv'
<1>1. CASE TellNative
  BY <1>1 DEF TellNative, RideInv, RideOwed, Marked, stored, history, Cancel, Job
<1>2. CASE QueueRide
  BY <1>2 DEF QueueRide, RideInv, RideOwed, Marked, Cancel, Job
<1>3. CASE DropTrip
  BY <1>3 DEF DropTrip, RideInv, RideOwed, Marked, history, Cancel, Job
<1>4. CASE DropFails
  BY <1>4 DEF DropFails, CancelOver, RideInv, RideOwed, Marked, stored, history, At, Job
<1>5. CASE ClearMarker
  BY <1>5 DEF ClearMarker, CancelOver, NoCancel, RideInv, RideOwed, Marked, history, At, Job
<1> QED
  BY <1>1, <1>2, <1>3, <1>4, <1>5 DEF Cancelling

\* Every step keeps what is owed.
LEMMA StepKeepsRides ==
  ASSUME TripInv, RideInv, [Next]_vars
  PROVE  RideInv'
<1>1. CASE Native \/ Launch \/ Kill \/ Driver
  BY <1>1, NativeCancelsNothing, NoCancellingKeeps
<1>2. CASE Recovery
  BY <1>2, RecoveryKeepsRides
<1>3. CASE Boot
  BY <1>3, BootCancelsNothing, NoCancellingKeeps
<1>4. CASE Reading
  BY <1>4, ReadingCancelsNothing, NoCancellingKeeps DEF TripInv
<1>5. CASE Ending
  BY <1>5, EndingCancelsNothing, NoCancellingKeeps
<1>6. CASE Cancelling
  BY <1>6, CancellingKeepsRides
<1>7. CASE Tasks
  BY <1>7, TasksKeepRides
<1>8. CASE UNCHANGED vars
  BY <1>8 DEF vars, stored, history, RideInv, RideOwed, Marked
<1>9. Over => UNCHANGED vars
  BY DEF Over
<1> QED
  BY <1>1, <1>2, <1>3, <1>4, <1>5, <1>6, <1>7, <1>8, <1>9 DEF Next, Host

\* A "Not driving?" leaves its passenger ride, or the marker that says to queue it, whatever dies
\* and whichever step fails between the marker, native, the ride and the trip, the ride's own
\* enqueue alone excepted; and no other drive leaves one (onCancel and finishPendingCancel of the
\* host).
THEOREM RideIsOwed == Spec => []RideOwed
<1>1. Init => TripInv /\ RideInv
  BY DEF Init, TripInv, Shape, TodoOpen, At, Job, NoBoot, RideInv, RideOwed, NoCancel, Marked
<1>2. TripInv /\ RideInv /\ [Next]_vars => TripInv' /\ RideInv'
  BY StepKeeps, StepKeepsRides
<1>3. RideInv => RideOwed
  BY DEF RideInv
<1> QED
  BY <1>1, <1>2, <1>3, PTL DEF Spec

-----------------------------------------------------------------------------
(* What waits for the host, put together of its kinds. *)

\* Those of some kinds are a queue of the same things.
LEMMA OfKindsIs ==
  ASSUME NEW S, NEW q \in Seq(S), NEW ks
  PROVE  OfKinds(q, ks) \in Seq(S)
<1> DEFINE Next1(f, i) == IF i = 0 THEN <<>> ELSE IF q[i].k \in ks THEN Append(f[i - 1], q[i]) ELSE f[i - 1]
           Solved(f, n) == f \in [0 .. n -> Seq(S)] /\ \A i \in 0 .. n : f[i] = Next1(f, i)
           F == CHOOSE f : f = [i \in 0 .. Len(q) |-> Next1(f, i)]
           Bad == {n \in 0 .. Len(q) : ~\E f : Solved(f, n)}
<1>0. Len(q) \in Nat /\ \A i \in 1 .. Len(q) : q[i] \in S
  OBVIOUS
<1>1. Bad = {}
  <2>1. SUFFICES ASSUME Bad # {}
                 PROVE  FALSE
    OBVIOUS
  <2>2. PICK m \in Bad : \A n \in Bad : m <= n
    <3>1. Bad \in SUBSET Int /\ 0 \in Int /\ \A n \in Bad : 0 <= n
      BY <1>0
    <3> HIDE DEF Bad
    <3> QED
      BY <2>1, <3>1, LeastExists
  <2>3. m \in 0 .. Len(q) /\ ~\E f : Solved(f, m)
    OBVIOUS
  <2>4. CASE m = 0
    <3>1. Solved([i \in 0 .. 0 |-> <<>>], 0)
      OBVIOUS
    <3> QED
      BY <2>3, <2>4, <3>1
  <2>5. CASE m # 0
    <3>0. m \in Int /\ m - 1 \in 0 .. Len(q) /\ ~(m <= m - 1)
      BY <1>0, <2>3, <2>5
    <3>1. m - 1 \in 0 .. Len(q) /\ m - 1 \notin Bad
      <4> HIDE DEF Bad
      <4> QED
        BY <2>2, <3>0
    <3>2. PICK f : Solved(f, m - 1)
      BY <3>1
    <3> DEFINE g == [i \in 0 .. m |-> IF i < m THEN f[i] ELSE Next1(f, m)]
    <3>3. f[m - 1] \in Seq(S) /\ q[m] \in S
      BY <1>0, <2>3, <2>5, <3>2
    <3>4. Next1(f, m) \in Seq(S)
      BY <2>5, <3>3
    <3>5. g \in [0 .. m -> Seq(S)]
      BY <2>3, <3>2, <3>4
    <3>6. ASSUME NEW i \in 0 .. m
          PROVE  g[i] = Next1(g, i)
      <4>1. CASE i = 0
        BY <2>3, <2>5, <3>2, <4>1
      <4>2. CASE i # 0
        <5>1. g[i - 1] = f[i - 1]
          BY <2>3, <4>2
        <5>2. i < m => f[i] = Next1(f, i)
          <6>1. i < m => i \in 0 .. m - 1
            BY <2>3
          <6> HIDE DEF Next1
          <6> QED
            BY <3>2, <6>1
        <5>3. g[i] = Next1(f, i)
          BY <2>3, <5>2
        <5> QED
          BY <4>2, <5>1, <5>3
      <4> QED
        BY <4>1, <4>2
    <3>7. Solved(g, m)
      BY <3>5, <3>6
    <3> QED
      BY <2>3, <3>7
  <2> QED
    BY <2>4, <2>5
<1>2. PICK g : Solved(g, Len(q))
  <2>1. Len(q) \in 0 .. Len(q)
    BY <1>0
  <2> HIDE DEF Solved
  <2> QED
    BY <1>1, <2>1
<1>3. g = [i \in 0 .. Len(q) |-> Next1(g, i)]
  BY <1>2
<1>4. F = [i \in 0 .. Len(q) |-> Next1(F, i)]
  <2> HIDE DEF Next1
  <2> QED
    BY <1>3
<1>5. \A i \in 0 .. Len(q) : F[i] = Next1(F, i)
  <2> HIDE DEF Next1, F
  <2> QED
    BY <1>4
<1>6. F[Len(q)] \in Seq(S)
  <2> DEFINE Wrong == {n \in 0 .. Len(q) : F[n] \notin Seq(S)}
  <2> HIDE DEF F
  <2>1. SUFFICES ASSUME Wrong # {}
                 PROVE  FALSE
    BY <1>0
  <2>2. PICK m \in Wrong : \A n \in Wrong : m <= n
    <3>1. Wrong \in SUBSET Int /\ 0 \in Int /\ \A n \in Wrong : 0 <= n
      BY <1>0
    <3> HIDE DEF Wrong
    <3> QED
      BY <2>1, <3>1, LeastExists
  <2>3. m \in 0 .. Len(q) /\ F[m] \notin Seq(S) /\ F[m] = Next1(F, m)
    BY <1>5
  <2>4. CASE m = 0
    BY <2>3, <2>4
  <2>5. CASE m # 0
    <3>1. m - 1 \in 0 .. Len(q) /\ m - 1 \notin Wrong
      BY <1>0, <2>2, <2>3, <2>5
    <3>2. F[m - 1] \in Seq(S) /\ q[m] \in S
      BY <1>0, <2>3, <2>5, <3>1
    <3> QED
      BY <2>3, <2>5, <3>2
  <2> QED
    BY <2>4, <2>5
<1>7. OfKinds(q, ks) = F[Len(q)]
  BY DEF OfKinds
<1> QED
  BY <1>6, <1>7

-----------------------------------------------------------------------------
(* The numbers. *)

\* What the assumption says of the constants, a constant at a time.
LEMMA ConstantsAre ==
  /\ NDrives \in Nat \ {0} /\ MaxRows \in Nat \ {0} /\ CheckpointRows \in Nat \ {0} /\ PageRows \in Nat \ {0}
  /\ ReplayCap \in Nat \ {0} /\ RowBuffer \in Nat \ {0} /\ ResumeGap \in Nat
  /\ MaxKills \in Nat /\ MaxTaps \in Nat /\ MaxFaults \in Nat
<1>1. NDrives \in Nat \ {0} /\ MaxRows \in Nat \ {0} /\ CheckpointRows \in Nat \ {0}
  BY ParametersAssumption
<1>2. PageRows \in Nat \ {0} /\ ReplayCap \in Nat \ {0} /\ RowBuffer \in Nat \ {0} /\ ResumeGap \in Nat
  BY ParametersAssumption
<1>3. MaxKills \in Nat /\ MaxTaps \in Nat /\ MaxFaults \in Nat
  BY ParametersAssumption
<1> QED
  BY <1>1, <1>2, <1>3

\* A product of numbers is one, and grows with them.
LEMMA Products ==
  ASSUME NEW a \in Nat, NEW b \in Nat, NEW c \in Nat, a <= b
  PROVE  a * c \in Nat /\ b * c \in Nat /\ a * c <= b * c /\ (b - a) * c = b * c - a * c
  BY SMTT(30)

\* There is a greatest seq, and it is a row's.
LEMMA SeqsAre ==
  /\ MaxSeq \in Nat \ {0} /\ MaxRows <= MaxSeq
  /\ Uncapped \in Nat \ {0} /\ Uncapped > MaxSeq /\ Uncapped > ReplayCap
<1>1. MaxKills * ResumeGap \in Nat
  BY ConstantsAre, Products
<1>2. MaxSeq \in Nat \ {0} /\ MaxRows <= MaxSeq
  BY <1>1, ConstantsAre DEF MaxSeq
<1> QED
  BY <1>2, ConstantsAre DEF Uncapped

\* What a number leaves over of another.
LEMMA Remainder ==
  ASSUME NEW m \in Nat \ {0}, NEW d \in Nat, NEW s \in 0 .. m - 1
  PROVE  (d * m + s) % m = s
  BY SMTT(30)

\* A row tells its seq, and is no other row's number.
LEMMA RowIs ==
  ASSUME NEW d \in Drives, NEW s \in 1 .. MaxSeq
  PROVE  Row(d, s) \in Rows /\ Row(d, s) \in Nat \ {0} /\ SeqOf(Row(d, s)) = s
<1> DEFINE m == MaxSeq + 1
<1>1. m \in Nat \ {0} /\ d \in Nat /\ s \in 0 .. m - 1 /\ s > 0
  BY SeqsAre DEF Drives
<1>2. Row(d, s) = d * m + s /\ SeqOf(Row(d, s)) = (d * m + s) % m
  BY DEF Row, SeqOf
<1> HIDE DEF m
<1>3. SeqOf(Row(d, s)) = s
  BY <1>1, <1>2, Remainder
<1>4. Row(d, s) \in Nat \ {0}
  <2>1. d * m \in Nat
    BY <1>1, Products
  <2> QED
    BY <1>1, <1>2, <2>1
<1> QED
  BY <1>3, <1>4 DEF Rows

\* Every row is a number with a seq, and none is beyond the last drive's last.
LEMMA RowsAre ==
  ASSUME NEW r \in Rows
  PROVE  r \in Nat \ {0} /\ SeqOf(r) \in 1 .. MaxSeq /\ r <= (NDrives + 1) * (MaxSeq + 1)
<1>1. PICK d \in Drives, s \in 1 .. MaxSeq : r = Row(d, s)
  BY DEF Rows
<1>2. r \in Nat \ {0} /\ SeqOf(r) \in 1 .. MaxSeq
  BY <1>1, RowIs
<1>3. r <= (NDrives + 1) * (MaxSeq + 1)
  <2> DEFINE m == MaxSeq + 1
  <2>1. m \in Nat /\ s <= m /\ s \in Nat /\ d \in Nat /\ d + 1 \in Nat /\ NDrives + 1 \in Nat
    BY SeqsAre, ConstantsAre DEF Drives
  <2>2. r = d * m + s
    BY <1>1 DEF Row
  <2>3. d + 1 <= NDrives + 1
    BY ConstantsAre DEF Drives
  <2> HIDE DEF m
  <2>4. (d + 1) * m <= (NDrives + 1) * m /\ d * m \in Nat /\ (NDrives + 1) * m \in Nat
    BY <2>1, <2>3, Products
  <2>5. (d + 1) * m = d * m + m
    BY <2>1, SMTT(30)
  <2>6. r <= (NDrives + 1) * m
    BY <2>1, <2>2, <2>4, <2>5
  <2> QED
    BY <2>6 DEF m
<1> QED
  BY <1>2, <1>3

\* There are finitely many rows.
LEMMA RowsFinite ==
  ASSUME NEW S \in SUBSET Rows
  PROVE  S \in SUBSET Int /\ IsFiniteSet(S) /\ Cardinality(S) \in Nat
<1>1. (NDrives + 1) * (MaxSeq + 1) \in Nat
  BY ConstantsAre, SeqsAre, Products
<1> DEFINE b == (NDrives + 1) * (MaxSeq + 1)
<1>2. S \subseteq 0 .. b /\ b \in Int
  <2>1. \A r \in S : r \in Nat /\ r <= b
    BY RowsAre
  <2> HIDE DEF b
  <2>2. b \in Nat
    BY <1>1 DEF b
  <2> QED
    BY <2>1, <2>2
<1> HIDE DEF b
<1>3. IsFiniteSet(0 .. b)
  BY <1>2, FS_Interval
<1>4. IsFiniteSet(S)
  BY <1>2, <1>3, FS_Subset
<1> QED
  BY <1>2, <1>4, FS_CardinalityType

\* The greatest of some rows.
LEMMA LastRow ==
  ASSUME NEW S \in SUBSET Rows, S # {}
  PROVE  Max(S) \in S /\ \A r \in S : r <= Max(S)
<1> DEFINE b == (NDrives + 1) * (MaxSeq + 1)
<1>1. b \in Int /\ S \in SUBSET Int /\ \A r \in S : r <= b
  <2>1. b \in Nat
    BY ConstantsAre, SeqsAre, Products
  <2>2. \A r \in S : r <= b
    BY RowsAre
  <2> QED
    BY <2>1, <2>2, RowsFinite
<1> HIDE DEF b
<1>2. PICK m \in S : \A r \in S : r <= m
  BY <1>1, GreatestExists
<1> QED
  BY <1>1, <1>2 DEF Max

\* The last of some rows, and its seq.
LEMMA LastIs ==
  ASSUME NEW S \in SUBSET Rows
  PROVE  LastOf(S) \in Nat /\ LastSeq(S) \in 0 .. MaxSeq
<1>1. CASE S = {}
  BY <1>1, SeqsAre DEF LastOf, LastSeq
<1>2. CASE S # {}
  <2>1. Max(S) \in Rows
    BY <1>2, LastRow
  <2> QED
    BY <1>2, <2>1, RowsAre DEF LastOf, LastSeq
<1> QED
  BY <1>1, <1>2

\* The first n of some rows are n of them at most.
LEMMA FirstRowsAre ==
  ASSUME NEW S \in SUBSET Rows, NEW n \in Nat
  PROVE  FirstRows(S, n) \subseteq S /\ Cardinality(FirstRows(S, n)) \in Nat /\ Cardinality(FirstRows(S, n)) <= n
<1> DEFINE F == FirstRows(S, n)
<1>1. F \in SUBSET Rows /\ F \subseteq S
  BY DEF FirstRows
<1>2. CASE F = {}
  BY <1>1, <1>2, FS_EmptySet
<1>3. CASE F # {}
  <2>1. Max(F) \in F /\ \A r \in F : r <= Max(F)
    <3> HIDE DEF F
    <3> QED
      BY <1>1, <1>3, LastRow
  <2> DEFINE U == {t \in S : t <= Max(F)}
  <2>2. Cardinality(U) <= n
    BY <2>1 DEF FirstRows
  <2>3. F \subseteq U
    BY <1>1, <2>1
  <2>4. IsFiniteSet(U) /\ Cardinality(U) \in Nat
    <3>1. U \in SUBSET Rows
      OBVIOUS
    <3> HIDE DEF U
    <3> QED
      BY <3>1, RowsFinite
  <2>5. Cardinality(F) <= Cardinality(U) /\ Cardinality(F) \in Nat
    <3> HIDE DEF F, U
    <3> QED
      BY <1>1, <2>3, <2>4, FS_Subset, RowsFinite
  <2> HIDE DEF F, U
  <2>6. Cardinality(F) <= n
    BY <2>2, <2>4, <2>5
  <2> QED
    BY <1>1, <2>5, <2>6 DEF F
<1> QED
  BY <1>2, <1>3

-----------------------------------------------------------------------------
(* What waits. *)

\* An event joins what waits.
LEMMA EmittedIs ==
  ASSUME NEW S, NEW q \in Seq(S), NEW t \in S
  PROVE  Emitted(q, t) \in Seq(S)
<1>1. CASE ~(Starting /\ t.k = "row" /\ Cardinality(RowsIn(q)) >= RowBuffer)
  BY <1>1 DEF Emitted
<1>2. CASE Starting /\ t.k = "row" /\ Cardinality(RowsIn(q)) >= RowBuffer
  <2>1. RowsIn(q) # {}
    <3>1. Cardinality(RowsIn(q)) >= 1
      <4> DEFINE n == Cardinality(RowsIn(q))
      <4>1. n >= RowBuffer
        BY <1>2
      <4>2. n \in Nat
        <5>1. RowsIn(q) \subseteq 1 .. Len(q) /\ 1 \in Int /\ Len(q) \in Int
          BY DEF RowsIn
        <5> QED
          BY <5>1, FS_Interval, FS_Subset, FS_CardinalityType
      <4> HIDE DEF n
      <4>3. n >= 1
        BY <4>1, <4>2, ConstantsAre
      <4> QED
        BY <4>3 DEF n
    <3>2. RowsIn(q) = {} => Cardinality(RowsIn(q)) = 0
      BY FS_EmptySet
    <3> QED
      BY <3>1, <3>2
  <2>2. RowsIn(q) \in SUBSET Int /\ \A i \in RowsIn(q) : 0 <= i
    BY DEF RowsIn
  <2> DEFINE R == RowsIn(q)
  <2>3. PICK m \in R : \A i \in R : m <= i
    <3>1. R # {} /\ R \in SUBSET Int /\ \A i \in R : 0 <= i
      BY <2>1, <2>2
    <3>2. 0 \in Int
      OBVIOUS
    <3> HIDE DEF R
    <3> QED
      BY <3>1, <3>2, LeastExists
  <2>4. Min(R) \in R
    <3> HIDE DEF R
    <3> QED
      BY <2>3 DEF Min
  <2>5. Min(RowsIn(q)) \in 1 .. Len(q)
    BY <2>4 DEF RowsIn
  <2>6. Without(q, Min(RowsIn(q))) \in Seq(S)
    <3> DEFINE i == Min(RowsIn(q))
    <3> HIDE DEF i
    <3>1. i \in 1 .. Len(q)
      BY <2>5 DEF i
    <3>2. SubSeq(q, 1, i - 1) \in Seq(S) /\ SubSeq(q, i + 1, Len(q)) \in Seq(S)
      BY <3>1
    <3>3. Without(q, i) \in Seq(S)
      BY <3>2 DEF Without
    <3> QED
      BY <3>3 DEF i
  <2> QED
    BY <1>2, <2>6 DEF Emitted
<1> QED
  BY <1>1, <1>2

\* Nothing but what waited is delivered.
LEMMA DeliveredIs ==
  ASSUME NEW S, NEW q \in Seq(S)
  PROVE  Delivered(q) \in Seq(S)
  BY OfKindsIs DEF Delivered

-----------------------------------------------------------------------------
(* The types: the files, and where the host stands. *)

\* No file skips more seqs than a relaunch did for each kill that is over.
Relaunches == used.kills - (IF job.pc = "down" THEN 1 ELSE 0)
Files ==
  /\ job.pc = "down" => used.kills > 0
  /\ \A d \in Drives :
       /\ journal[d].rows \subseteq {Row(d, s) : s \in 1 .. journal[d].top}
       /\ Cardinality(journal[d].rows) <= MaxRows
       /\ journal[d].top <= Cardinality(journal[d].rows) + Relaunches * ResumeGap
  /\ record # NoDrive => Journaled(record)

\* The drive the engine and the host hold where the task stands, and which tasks a launch runs.
AtRest == {"down", "marker", "tell", "ride", "drop", "clear", "recover", "boot", "ended"}
Control ==
  /\ live.d # NoDrive => engine.d = live.d
  /\ job.pc \in AtRest \cup {"discard"} => engine.d = NoDrive
  /\ job.pc \in {"drain", "drained"} => live.d # NoDrive /\ job.d = live.d /\ (job.how = "gap" => job.row \in Rows)
  /\ job.pc = "close" => engine.d # NoDrive /\ job.how \in {"native", "driver", "auto"}
  /\ job.pc = "store" => Closing.d # NoDrive /\ (boot.on => engine.d # NoDrive)
  /\ job.pc \in {"tell", "ride", "drop", "clear"} => job.d = marker.d /\ marker.d # NoDrive
  /\ boot.on => \/ job.pc \in {"marker", "ride", "drop", "clear", "recover", "boot", "ended", "close", "store"}
                \/ job.pc \in {"drain", "drained"} /\ job.how = "adopted"
  /\ ~boot.on => boot = NoBoot /\ job.pc \notin {"marker", "recover", "boot", "ended"}
  /\ boot.on /\ job.pc \in {"marker", "ride", "drop", "clear"} => boot = [NoBoot EXCEPT !.on = TRUE]

\* What waits for the host: a live row is one.
TaskType ==
  [k : {"row", "started", "ended", "cancelled", "end", "again", "cancel"}, d : Drives, row : Rows \cup {0}]
Tasked == {t \in TaskType : t.k = "row" => t.row \in Rows}

Types == TypeOK /\ Files /\ Control /\ inbox \in Seq(Tasked)

\* No drive is none.
LEMMA DrivesAre == NoDrive \notin Drives /\ Drives \subseteq Nat
  BY ConstantsAre DEF NoDrive, Drives

\* A queue of such things is one of the types.
LEMMA TaskedIs ==
  ASSUME NEW q \in Seq(Tasked)
  PROVE  q \in Seq(TaskType)
  BY DEF Tasked

\* A row goes to a file.
LEMMA FileGrows ==
  ASSUME NEW A, NEW B, NEW C, journal \in [Drives -> [state : A, rows : B, top : C]], NEW d \in Drives,
         NEW row, NEW n \in C, journal[d].rows \cup {row} \in B,
         journal' = [journal EXCEPT ![d].rows = @ \cup {row}, ![d].top = n]
  PROVE  /\ journal'[d].state = journal[d].state
         /\ journal'[d].rows = journal[d].rows \cup {row}
         /\ journal'[d].top = n
         /\ \A e \in Drives \ {d} : journal'[e] = journal[e]
         /\ journal' \in [Drives -> [state : A, rows : B, top : C]]
  OBVIOUS

\* The row native writes next has a seq, no matter how many were skipped.
LEMMA NextRowIs ==
  ASSUME Types, NativeRow
  PROVE  /\ record \in Drives /\ journal[record].top + 1 \in 1 .. MaxSeq
         /\ Row(record, journal[record].top + 1) \in Rows /\ Row(record, journal[record].top + 1) \in Nat
         /\ SeqOf(Row(record, journal[record].top + 1)) = journal[record].top + 1
<1> DEFINE top == journal[record].top  c == Cardinality(journal[record].rows)  k == Relaunches * ResumeGap
<1>1. TypeOK /\ Files
  BY DEF Types
<1>2. record \in Drives /\ c < MaxRows /\ job.pc # "down"
  BY <1>1 DEF NativeRow, TypeOK, Running
<1>3. journal[record].rows \in SUBSET Rows /\ top \in Nat
  BY <1>1, <1>2, SeqsAre DEF TypeOK, RowSets
<1>4. c \in Nat
  BY <1>3, RowsFinite
<1>5. k \in Nat /\ k <= MaxKills * ResumeGap /\ MaxKills * ResumeGap \in Nat
  <2>1. Relaunches \in Nat /\ MaxKills \in Nat /\ Relaunches <= MaxKills
    BY <1>1, <1>2, ConstantsAre DEF TypeOK, Files, Relaunches
  <2> QED
    BY <2>1, ConstantsAre, Products
<1>6. top <= c + k
  BY <1>1, <1>2 DEF Files
<1>7. MaxSeq = MaxRows + MaxKills * ResumeGap
  BY DEF MaxSeq
<1> HIDE DEF top, c, k
<1>8. top + 1 \in 1 .. MaxSeq
  BY <1>2, <1>3, <1>4, <1>5, <1>6, <1>7, ConstantsAre
<1>9. Row(record, top + 1) \in Rows /\ Row(record, top + 1) \in Nat /\ SeqOf(Row(record, top + 1)) = top + 1
  BY <1>2, <1>8, RowIs
<1> QED
  BY <1>2, <1>8, <1>9 DEF top

\* The files a drive's row goes to, and a relaunch's gap.
LEMMA NativeTypes ==
  ASSUME Types, Native
  PROVE  Types'
<1>0. TypeOK /\ Files /\ Control /\ inbox \in Seq(Tasked)
  BY DEF Types
<1>1. ASSUME NativeBegins PROVE Types'
  <2>1. PICK d \in Drives :
          /\ ~Begun(d) /\ record' = d
          /\ journal' = [journal EXCEPT ![d] = [state |-> "here", rows |-> {Row(d, 1)}, top |-> 1]]
          /\ inbox' = Emitted(Emitted(inbox, Task("row", d, Row(d, 1))), Task("started", d, 0))
    BY <1>1 DEF NativeBegins
  <2>2. Row(d, 1) \in Rows /\ 1 \in 0 .. MaxSeq
    BY RowIs, SeqsAre
  <2>3. Task("row", d, Row(d, 1)) \in Tasked /\ Task("started", d, 0) \in Tasked
    BY <2>2 DEF Task, Tasked, TaskType
  <2>4. inbox' \in Seq(Tasked)
    BY <1>0, <2>1, <2>3, EmittedIs
  <2>5. journal' \in [Drives -> [state : {"none", "here", "gone"}, rows : RowSets, top : 0 .. MaxSeq]]
    BY <1>0, <2>1, <2>2 DEF TypeOK, RowSets
  <2>6. UNCHANGED <<stored, memory, job, boot, history, used>>
    BY <1>1 DEF NativeBegins
  <2>7. TypeOK'
    <3>1. inbox' \in Seq(TaskType)
      BY <2>4, TaskedIs
    <3> QED
      BY <1>0, <2>1, <2>5, <2>6, <3>1 DEF TypeOK, TaskType, stored, memory, history
  <2>8. Control'
    BY <1>0, <2>6 DEF Control, Closing, stored, memory, history
  <2>9. Files'
    <3>1. \A e \in Drives \ {d} : journal'[e] = journal[e]
      BY <1>0, <2>1 DEF TypeOK
    <3>2. journal'[d] = [state |-> "here", rows |-> {Row(d, 1)}, top |-> 1]
      BY <1>0, <2>1 DEF TypeOK
    <3>3. Cardinality({Row(d, 1)}) = 1
      BY FS_Singleton
    <3>4. Relaunches \in Nat /\ Relaunches * ResumeGap \in Nat
      <4>1. Relaunches \in Nat
        BY <1>0, ConstantsAre DEF TypeOK, Files, Relaunches
      <4> QED
        BY <4>1, ConstantsAre, Products
    <3>5. Row(d, 1) \in {Row(d, s) : s \in 1 .. 1}
      OBVIOUS
    <3>6. (job.pc = "down" => used.kills > 0)'
      BY <1>0, <2>6 DEF Files
    <3>7. \A e \in Drives : (/\ journal[e].rows \subseteq {Row(e, s) : s \in 1 .. journal[e].top}
                             /\ Cardinality(journal[e].rows) <= MaxRows
                             /\ journal[e].top <= Cardinality(journal[e].rows) + Relaunches * ResumeGap)'
      <4>1. TAKE e \in Drives
      <4>2. CASE e = d
        <5>1. journal'[e].rows = {Row(d, 1)} /\ journal'[e].top = 1
          BY <3>2, <4>2
        <5>2. Relaunches' = Relaunches
          BY <2>6 DEF Relaunches
        <5>3. Cardinality(journal'[e].rows) <= MaxRows
          BY <3>3, <5>1, ConstantsAre
        <5>4. 1 <= 1 + Relaunches * ResumeGap
          BY <3>4
        <5>5. journal'[e].rows \subseteq {Row(e, s) : s \in 1 .. journal'[e].top}
          BY <3>5, <4>2, <5>1
        <5> QED
          BY <3>3, <5>1, <5>2, <5>3, <5>4, <5>5
      <4>3. CASE e # d
        BY <1>0, <2>6, <3>1, <4>3 DEF Files, Relaunches
      <4> QED
        BY <4>2, <4>3
    <3>8. (record # NoDrive => Journaled(record))'
      BY <2>1, <3>2 DEF Journaled
    <3> QED
      BY <3>6, <3>7, <3>8 DEF Files
  <2> QED
    BY <2>4, <2>7, <2>8, <2>9 DEF Types
<1>2. ASSUME NativeRow PROVE Types'
  <2> DEFINE top == journal[record].top  row == Row(record, top + 1)  k == Relaunches * ResumeGap
  <2>1. /\ record \in Drives /\ Cardinality(journal[record].rows) < MaxRows /\ job.pc # "down"
        /\ journal' = [journal EXCEPT ![record].rows = @ \cup {row}, ![record].top = SeqOf(row)]
        /\ inbox' = Emitted(inbox, Task("row", record, row))
        /\ UNCHANGED <<record, stored, memory, job, boot, history, used>>
    BY <1>0, <1>2 DEF NativeRow, TypeOK, Running
  <2>2. journal[record].rows \in SUBSET Rows /\ top \in Nat
    BY <1>0, <2>1 DEF TypeOK, RowSets
  <2>3. Cardinality(journal[record].rows) \in Nat /\ IsFiniteSet(journal[record].rows)
    BY <2>2, RowsFinite
  <2>4. k \in Nat /\ k <= MaxKills * ResumeGap /\ MaxKills * ResumeGap \in Nat
    <3>1. Relaunches \in Nat /\ MaxKills \in Nat /\ Relaunches <= MaxKills
      BY <1>0, <2>1, ConstantsAre DEF TypeOK, Files, Relaunches
    <3> QED
      BY <3>1, ConstantsAre, Products
  <2>5. journal[record].top <= Cardinality(journal[record].rows) + k
    BY <1>0, <2>1 DEF Files
  <2> HIDE DEF k
  <2>6. top + 1 \in 1 .. MaxSeq
    BY <1>0, <1>2, NextRowIs DEF Types
  <2>7. row \in Rows /\ SeqOf(row) = top + 1 /\ row \in Nat
    BY <1>0, <1>2, NextRowIs DEF Types
  <2>8. row \notin journal[record].rows
    <3>1. ASSUME row \in journal[record].rows PROVE FALSE
      <4>0. journal[record].rows \subseteq {Row(record, s) : s \in 1 .. top}
        BY <1>0, <2>1 DEF Files
      <4>1. PICK s \in 1 .. top : row = Row(record, s)
        <5> HIDE DEF row
        <5> QED
          BY <3>1, <4>0
      <4>2. s \in 1 .. MaxSeq
        BY <2>2, <2>6, SeqsAre
      <4>3. SeqOf(row) = s
        BY <2>1, <4>1, <4>2, RowIs
      <4> QED
        BY <2>2, <2>7, <4>1, <4>3
    <3> QED
      BY <3>1
  <2>9. Cardinality(journal[record].rows \cup {row}) = Cardinality(journal[record].rows) + 1
    BY <2>3, <2>8, FS_AddElement
  <2> HIDE DEF row, top
  <2>10. /\ journal'[record].state = journal[record].state
         /\ journal'[record].rows = journal[record].rows \cup {row}
         /\ journal'[record].top = top + 1
         /\ \A e \in Drives \ {record} : journal'[e] = journal[e]
         /\ journal' \in [Drives -> [state : {"none", "here", "gone"}, rows : RowSets, top : 0 .. MaxSeq]]
    <3> DEFINE n == top + 1
    <3>1. journal' = [journal EXCEPT ![record].rows = @ \cup {row}, ![record].top = n]
      BY <2>1, <2>7
    <3>2. journal \in [Drives -> [state : {"none", "here", "gone"}, rows : RowSets, top : 0 .. MaxSeq]]
      BY <1>0 DEF TypeOK
    <3>3. n \in 0 .. MaxSeq /\ journal[record].rows \cup {row} \in RowSets
      BY <2>2, <2>6, <2>7, SeqsAre DEF RowSets
    <3> HIDE DEF n
    <3> QED
      BY <2>1, <3>1, <3>2, <3>3, FileGrows DEF n
  <2>12. inbox' \in Seq(Tasked)
    <3>1. Task("row", record, row) \in Tasked
      BY <2>1, <2>7 DEF Task, Tasked, TaskType
    <3> QED
      BY <1>0, <2>1, <3>1, EmittedIs
  <2>13. TypeOK'
    <3>1. inbox' \in Seq(TaskType)
      BY <2>12, TaskedIs
    <3> QED
      BY <1>0, <2>1, <2>10, <3>1 DEF TypeOK, TaskType, stored, memory, history
  <2>14. Control'
    BY <1>0, <2>1 DEF Control, Closing, stored, memory, history
  <2>15. journal'[record].rows \subseteq {Row(record, s) : s \in 1 .. journal'[record].top}
    <3>1. \A r \in journal[record].rows : \E s \in 1 .. top : r = Row(record, s)
      BY <1>0, <2>1 DEF Files, top
    <3>2. row = Row(record, top + 1)
      BY DEF row, top
    <3> QED
      BY <2>2, <2>10, <3>1, <3>2
  <2>16. /\ Cardinality(journal'[record].rows) <= MaxRows
         /\ journal'[record].top <= Cardinality(journal'[record].rows) + k
    <3>1. journal'[record].rows = journal[record].rows \cup {row} /\ journal'[record].top = top + 1
      BY <2>10
    <3>2. top = journal[record].top
      BY DEF top
    <3> DEFINE c == Cardinality(journal[record].rows)  e == Cardinality(journal[record].rows \cup {row})
    <3>3. c \in Nat /\ c < MaxRows /\ e = c + 1 /\ top <= c + k /\ k \in Nat /\ top \in Nat
      BY <2>1, <2>2, <2>3, <2>4, <2>5, <2>9, <3>2
    <3> HIDE DEF c, e
    <3>4. e <= MaxRows /\ top + 1 <= e + k
      BY <3>3, ConstantsAre
    <3> QED
      BY <3>1, <3>4 DEF e
  <2>17. Files'
    <3>1. k' = k
      BY <2>1 DEF k, Relaunches
    <3>2. Begun(record) /\ Journaled(record) /\ journal[record].state = "here"
      BY <1>0, <2>1, DrivesAre DEF Files, Begun, Journaled
    <3>3. (job.pc = "down" => used.kills > 0)'
      BY <1>0, <2>1 DEF Files
    <3>4. \A d \in Drives : (/\ journal[d].rows \subseteq {Row(d, s) : s \in 1 .. journal[d].top}
                             /\ Cardinality(journal[d].rows) <= MaxRows
                             /\ journal[d].top <= Cardinality(journal[d].rows) + Relaunches * ResumeGap)'
      <4>1. TAKE d \in Drives
      <4>2. CASE d = record
        BY <2>1, <2>15, <2>16, <3>1, <4>2 DEF k
      <4>3. CASE d # record
        BY <1>0, <2>1, <2>10, <4>3 DEF Files, Relaunches
      <4> QED
        BY <4>2, <4>3
    <3>6. (record # NoDrive => Journaled(record))'
      BY <2>1, <2>10, <3>2 DEF Journaled
    <3> QED
      BY <3>3, <3>4, <3>6 DEF Files
  <2> QED
    BY <2>12, <2>13, <2>14, <2>17 DEF Types
<1>3. ASSUME NativeEnds PROVE Types'
  <2>1. /\ record \in Drives /\ record' = NoDrive /\ inbox' = Emitted(inbox, Task("ended", record, 0))
        /\ UNCHANGED <<journal, stored, memory, job, boot, history, used>>
    BY <1>0, <1>3 DEF NativeEnds, TypeOK
  <2>2. inbox' \in Seq(Tasked)
    <3>1. Task("ended", record, 0) \in Tasked
      BY <2>1 DEF Task, Tasked, TaskType
    <3> QED
      BY <1>0, <2>1, <3>1, EmittedIs
  <2>3. inbox' \in Seq(TaskType)
    BY <2>2, TaskedIs
  <2>4. TypeOK'
    BY <1>0, <2>1, <2>3 DEF TypeOK, TaskType, stored, memory, history
  <2>5. Files' /\ Control'
    BY <1>0, <2>1 DEF Files, Control, Relaunches, Journaled, Closing, stored, memory
  <2> QED
    BY <2>2, <2>4, <2>5 DEF Types
<1> QED
  BY <1>1, <1>2, <1>3 DEF Native

-----------------------------------------------------------------------------
(* The types, part by part. *)

NativeOK ==
  /\ record \in Drives \cup {NoDrive}
  /\ journal \in [Drives -> [state : {"none", "here", "gone"}, rows : RowSets, top : 0 .. MaxSeq]]
StoredOK ==
  /\ trip \in [Drives -> [status : {"absent", "recording", "stored"}, rows : RowSets]]
  /\ marker \in [d : Drives \cup {NoDrive}, held : BOOLEAN]
  /\ rides \subseteq Drives
MemoryOK ==
  /\ engine \in [d : Drives \cup {NoDrive}, rows : RowSets]
  /\ live \in [d : Drives \cup {NoDrive}, seq : 0 .. MaxSeq]
  /\ captureOn \in BOOLEAN
  /\ discards \subseteq Drives
  /\ failed \in [d : Drives \cup {NoDrive}, rows : RowSets]
JobOK ==
  job \in [pc : {"down", "marker", "ride", "drop", "clear", "recover", "boot", "ended", "live", "tell",
                 "drain", "drained", "close", "store", "after", "discard", "ready"},
           d : Drives \cup {NoDrive}, row : Rows \cup {0},
           how : {"none", "begun", "gap", "ended", "adopted", "native", "driver", "auto"},
           left : 0 .. Uncapped]
BootOK ==
  boot \in [on : BOOLEAN, todo : SUBSET Drives, adopt : Drives \cup {NoDrive}, live : Drives \cup {NoDrive}]
HistoryOK ==
  /\ closed \in [Drives -> [how : {"no", "native", "driver", "auto", "recovery"}, rows : RowSets]]
  /\ cancelled \subseteq Drives /\ unqueued \subseteq Drives
UsedOK == used \in [kills : 0 .. MaxKills, taps : 0 .. MaxTaps, faults : 0 .. MaxFaults]
QueueOK == inbox \in Seq(Tasked)

\* The types are their parts.
LEMMA TypesAre ==
  ASSUME Types
  PROVE  NativeOK /\ StoredOK /\ MemoryOK /\ JobOK /\ BootOK /\ HistoryOK /\ UsedOK /\ QueueOK /\ Files /\ Control
<1>1. TypeOK /\ Files /\ Control /\ QueueOK
  BY DEF Types, QueueOK
<1>2. NativeOK /\ StoredOK /\ MemoryOK
  BY <1>1, Zenon DEF TypeOK, NativeOK, StoredOK, MemoryOK
<1>3. JobOK /\ BootOK /\ HistoryOK /\ UsedOK
  BY <1>1, Zenon DEF TypeOK, JobOK, BootOK, HistoryOK, UsedOK
<1> QED
  BY <1>1, <1>2, <1>3

\* The parts are the types, after a step.
LEMMA TypesMade ==
  ASSUME NativeOK', StoredOK', MemoryOK', JobOK', BootOK', HistoryOK', UsedOK', QueueOK', Files', Control'
  PROVE  Types'
<1>1. inbox' \in Seq(TaskType)
  BY TaskedIs DEF QueueOK
<1>2. TypeOK'
  BY <1>1, Zenon DEF TypeOK, TaskType, NativeOK, StoredOK, MemoryOK, JobOK, BootOK, HistoryOK, UsedOK
<1> QED
  BY <1>2 DEF Types, QueueOK

\* Parts a step leaves alone.
LEMMA PartsSame ==
  ASSUME Types
  PROVE  /\ UNCHANGED native => NativeOK'
         /\ UNCHANGED stored => StoredOK'
         /\ UNCHANGED memory => MemoryOK'
         /\ UNCHANGED job => JobOK'
         /\ UNCHANGED boot => BootOK'
         /\ UNCHANGED history => HistoryOK'
         /\ UNCHANGED used => UsedOK' /\ used'.kills = used.kills
         /\ UNCHANGED inbox => QueueOK'
<1>1. NativeOK /\ StoredOK /\ MemoryOK /\ JobOK /\ BootOK /\ HistoryOK /\ UsedOK /\ QueueOK
  BY TypesAre
<1>2. (UNCHANGED native => NativeOK') /\ (UNCHANGED stored => StoredOK') /\ (UNCHANGED memory => MemoryOK')
  BY <1>1 DEF native, stored, memory, NativeOK, StoredOK, MemoryOK
<1>3. (UNCHANGED job => JobOK') /\ (UNCHANGED boot => BootOK') /\ (UNCHANGED history => HistoryOK')
  BY <1>1 DEF history, JobOK, BootOK, HistoryOK
<1>4. (UNCHANGED used => UsedOK' /\ used'.kills = used.kills) /\ (UNCHANGED inbox => QueueOK')
  BY <1>1 DEF UsedOK, QueueOK
<1> QED
  BY <1>2, <1>3, <1>4

\* A fault is counted, and no kill.
LEMMA FaultCounted ==
  ASSUME UsedOK, NEW k, NEW bad, Fault(k) \/ Fails(k, bad)
  PROVE  UsedOK' /\ used'.kills = used.kills
<1>1. CASE Fault(k)
  BY <1>1, ConstantsAre DEF Fault, UsedOK
<1>2. CASE Fails(k, bad)
  BY <1>2, ConstantsAre DEF Fails, Fault, UsedOK
<1> QED
  BY <1>1, <1>2

\* Nothing open, held or launched is of the types.
LEMMA NothingIs ==
  /\ NoSession \in [d : Drives \cup {NoDrive}, rows : RowSets] /\ NoSession.d = NoDrive
  /\ NotLive \in [d : Drives \cup {NoDrive}, seq : 0 .. MaxSeq] /\ NotLive.d = NoDrive
  /\ NoCancel \in [d : Drives \cup {NoDrive}, held : BOOLEAN] /\ NoCancel.d = NoDrive
  /\ NoBoot \in [on : BOOLEAN, todo : SUBSET Drives, adopt : Drives \cup {NoDrive}, live : Drives \cup {NoDrive}]
  /\ ~NoBoot.on
  BY SeqsAre DEF NoSession, Session, NotLive, NoCancel, NoBoot, RowSets

PCs == {"down", "marker", "ride", "drop", "clear", "recover", "boot", "ended", "live", "tell",
        "drain", "drained", "close", "store", "after", "discard", "ready"}
Hows == {"none", "begun", "gap", "ended", "adopted", "native", "driver", "auto"}

\* The tasks the host goes on with are of the types.
LEMMA AtIs ==
  ASSUME NEW pc \in PCs, job' = At(pc)
  PROVE  JobOK' /\ job'.pc = pc /\ job'.d = NoDrive /\ job'.how = "none"
  BY SeqsAre DEF JobOK, At, Job, PCs

\* A close,
LEMMA CloseIs ==
  ASSUME NEW how \in Hows, job' = Close(how)
  PROVE  JobOK' /\ job'.pc = "close" /\ job'.d = NoDrive /\ job'.how = how
  BY SeqsAre DEF JobOK, Close, Job, Hows

\* a cancel,
LEMMA CancelIs ==
  ASSUME NEW pc \in PCs, NEW d \in Drives \cup {NoDrive}, job' = Cancel(pc, d)
  PROVE  JobOK' /\ job'.pc = pc /\ job'.d = d /\ job'.how = "none"
  BY SeqsAre DEF JobOK, Cancel, Job, PCs

\* and a drain.
LEMMA DrainIs ==
  ASSUME NEW d \in Drives \cup {NoDrive}, NEW row \in Rows \cup {0}, NEW how \in Hows, NEW left \in 0 .. Uncapped,
         job' = Drain(d, row, how, left)
  PROVE  JobOK' /\ job'.pc = "drain" /\ job'.d = d /\ job'.row = row /\ job'.how = how
  BY DEF JobOK, Drain, Job, Hows

-----------------------------------------------------------------------------
(* The types: kills, launches, taps. *)

\* A step that writes no row, and begins no launch, leaves the files as they should be.
LEMMA FilesKept ==
  ASSUME Files, (job'.pc = "down") = (job.pc = "down"), used'.kills = used.kills,
         \A d \in Drives : journal'[d].rows = journal[d].rows /\ journal'[d].top = journal[d].top,
         record' # NoDrive => Journaled(record)'
  PROVE  Files'
<1>1. Relaunches' = Relaunches
  BY DEF Relaunches
<1>2. (job.pc = "down" => used.kills > 0)'
  BY DEF Files
<1>3. \A d \in Drives : (/\ journal[d].rows \subseteq {Row(d, s) : s \in 1 .. journal[d].top}
                         /\ Cardinality(journal[d].rows) <= MaxRows
                         /\ journal[d].top <= Cardinality(journal[d].rows) + Relaunches * ResumeGap)'
  BY <1>1 DEF Files
<1> QED
  BY <1>2, <1>3 DEF Files

\* So does one that leaves native alone.
LEMMA FilesSame ==
  ASSUME Files, (job'.pc = "down") = (job.pc = "down"), used'.kills = used.kills, UNCHANGED native
  PROVE  Files'
<1>1. record' = record /\ journal' = journal
  BY DEF native
<1>2. record' # NoDrive => Journaled(record)'
  BY <1>1 DEF Files, Journaled
<1> QED
  BY <1>1, <1>2, FilesKept

\* A kill, and what it leaves of memory.
LEMMA KillTypes ==
  ASSUME Types, Kill
  PROVE  Types'
<1>0. NativeOK /\ StoredOK /\ MemoryOK /\ JobOK /\ BootOK /\ HistoryOK /\ UsedOK /\ QueueOK /\ Files /\ Control
  BY TypesAre
<1>1. /\ job.pc # "down" /\ used.kills < MaxKills /\ used' = [used EXCEPT !.kills = @ + 1]
      /\ engine' = NoSession /\ live' = NotLive /\ captureOn' = FALSE /\ discards' = {} /\ failed' = NoSession
      /\ inbox' = <<>> /\ job' = At("down") /\ boot' = NoBoot /\ UNCHANGED <<native, stored, history>>
  BY DEF Kill, Running
<1>2. used.kills \in Nat
  BY <1>0, ConstantsAre DEF UsedOK
<1>3. UsedOK' /\ used'.kills = used.kills + 1 /\ used'.kills > 0
  BY <1>0, <1>1, <1>2, ConstantsAre DEF UsedOK
<1>4. MemoryOK' /\ BootOK' /\ QueueOK'
  <2>1. MemoryOK' /\ BootOK'
    BY <1>1, NothingIs DEF MemoryOK, BootOK
  <2>2. <<>> \in Seq(Tasked)
    OBVIOUS
  <2> QED
    BY <1>1, <2>1, <2>2 DEF QueueOK
<1>5. NativeOK' /\ StoredOK' /\ HistoryOK'
  BY <1>1, PartsSame
<1>6. JobOK' /\ job'.pc = "down"
  BY <1>1, AtIs DEF PCs
<1>7. Control'
  BY <1>1, <1>6, NothingIs DEF Control, AtRest
<1>8. Files'
  <2>1. Relaunches' = Relaunches
    BY <1>1, <1>2, <1>3, <1>6 DEF Relaunches
  <2>2. record' = record /\ journal' = journal
    BY <1>1 DEF native
  <2>3. \A d \in Drives : (/\ journal[d].rows \subseteq {Row(d, s) : s \in 1 .. journal[d].top}
                           /\ Cardinality(journal[d].rows) <= MaxRows
                           /\ journal[d].top <= Cardinality(journal[d].rows) + Relaunches * ResumeGap)'
    BY <1>0, <2>1, <2>2 DEF Files
  <2>4. (record # NoDrive => Journaled(record))'
    BY <1>0, <2>2 DEF Files, Journaled
  <2> QED
    BY <1>3, <2>3, <2>4 DEF Files
<1> QED
  BY <1>3, <1>4, <1>5, <1>6, <1>7, <1>8, TypesMade

\* No file skips more seqs as a launch begins than before it.
LEMMA LaunchSkips ==
  ASSUME UsedOK, Files, job.pc = "down", job'.pc # "down", UNCHANGED used
  PROVE  /\ Relaunches * ResumeGap \in Nat /\ MaxKills * ResumeGap \in Nat
         /\ Relaunches' * ResumeGap = Relaunches * ResumeGap + ResumeGap
         /\ Relaunches' * ResumeGap <= MaxKills * ResumeGap
<1>1. used.kills \in Int /\ used.kills >= 0 /\ used.kills <= MaxKills
  BY ConstantsAre DEF UsedOK
<1>2. used.kills > 0 /\ used'.kills = used.kills
  BY DEF Files
<1>3. Relaunches = used.kills - 1 /\ Relaunches' = used.kills
  BY <1>1, <1>2 DEF Relaunches
<1> DEFINE k == used.kills
<1>4. k \in Nat /\ k - 1 \in Nat /\ k <= MaxKills /\ MaxKills \in Nat /\ ResumeGap \in Nat
  BY <1>1, <1>2, ConstantsAre
<1> HIDE DEF k
<1>5. (k - 1) * ResumeGap \in Nat /\ k * ResumeGap = (k - 1) * ResumeGap + ResumeGap
  BY <1>4, SMTT(30)
<1>6. k * ResumeGap <= MaxKills * ResumeGap /\ MaxKills * ResumeGap \in Nat
  BY <1>4, Products
<1> QED
  BY <1>3, <1>5, <1>6 DEF k

\* A file's rows and seqs are numbers.
LEMMA FileNumbers ==
  ASSUME NativeOK, NEW d \in Drives
  PROVE  journal[d].rows \in SUBSET Rows /\ journal[d].top \in Nat /\ Cardinality(journal[d].rows) \in Nat
<1>1. journal[d].rows \in SUBSET Rows /\ journal[d].top \in Nat
  BY SeqsAre DEF NativeOK, RowSets
<1> QED
  BY <1>1, RowsFinite

\* A launch leaves the files it does not write as they should be.
LEMMA LaunchFile ==
  ASSUME NativeOK, UsedOK, Files, job.pc = "down", job'.pc # "down", UNCHANGED used, NEW d \in Drives
  PROVE  journal[d].top <= Cardinality(journal[d].rows) + Relaunches' * ResumeGap
<1> DEFINE a == Relaunches * ResumeGap  b == Relaunches' * ResumeGap
           c == Cardinality(journal[d].rows)  t == journal[d].top
<1>1. a \in Nat /\ b = a + ResumeGap /\ c \in Nat /\ t \in Nat
  BY LaunchSkips, FileNumbers
<1>2. t <= c + a
  BY DEF Files
<1> HIDE DEF a, b, c, t
<1>3. t <= c + b
  BY <1>1, <1>2, ConstantsAre
<1> QED
  BY <1>3 DEF b, c, t

\* A launch: a drive that is resumed skips seqs, as many as the kill before it allows.
LEMMA LaunchTypes ==
  ASSUME Types, Launch
  PROVE  Types'
<1>0. NativeOK /\ StoredOK /\ MemoryOK /\ JobOK /\ BootOK /\ HistoryOK /\ UsedOK /\ QueueOK /\ Files /\ Control
  BY TypesAre
<1>1. /\ job.pc = "down" /\ job' = At("marker") /\ boot' = [NoBoot EXCEPT !.on = TRUE]
      /\ UNCHANGED <<stored, memory, history, used>>
  BY DEF Launch, LaunchAtRest, ResumeDrive, OrphanAtLaunch, Launches, Running
<1>2. JobOK' /\ job'.pc = "marker"
  BY <1>1, AtIs DEF PCs
<1>3. BootOK' /\ boot'.on
  BY <1>1 DEF BootOK, NoBoot
<1>4. StoredOK' /\ MemoryOK' /\ HistoryOK' /\ UsedOK' /\ used' = used
  BY <1>1, PartsSame
<1>5. Control'
  <2>1. UNCHANGED <<engine, live, failed, marker>>
    BY <1>1 DEF memory, stored
  <2> QED
    BY <1>0, <1>1, <1>2, <1>3, <2>1 DEF Control, AtRest
<1>6. \A d \in Drives : journal[d].top <= Cardinality(journal[d].rows) + Relaunches' * ResumeGap
  BY <1>0, <1>1, <1>2, <1>4, LaunchFile
<1>7. ASSUME journal' = journal, record' # NoDrive => record' = record
      PROVE  Files'
  <2>1. \A d \in Drives : (/\ journal[d].rows \subseteq {Row(d, s) : s \in 1 .. journal[d].top}
                           /\ Cardinality(journal[d].rows) <= MaxRows
                           /\ journal[d].top <= Cardinality(journal[d].rows) + Relaunches * ResumeGap)'
    BY <1>0, <1>6, <1>7 DEF Files
  <2>2. (job.pc = "down" => used.kills > 0)'
    BY <1>2
  <2>3. (record # NoDrive => Journaled(record))'
    BY <1>0, <1>7 DEF Files, Journaled
  <2> QED
    BY <2>1, <2>2, <2>3 DEF Files
<1>8. CASE LaunchAtRest
  <2>1. record' = record /\ journal' = journal /\ inbox' = inbox /\ UNCHANGED native
    BY <1>8 DEF LaunchAtRest, native
  <2>2. Files' /\ NativeOK' /\ QueueOK'
    BY <1>7, <2>1, PartsSame
  <2> QED
    BY <1>2, <1>3, <1>4, <1>5, <2>2, TypesMade
<1>9. CASE OrphanAtLaunch
  <2>1. record' = NoDrive /\ journal' = journal /\ inbox' = <<Task("ended", record, 0)>> /\ record \in Drives
    BY <1>0, <1>9 DEF OrphanAtLaunch, NativeOK
  <2>2. Files' /\ NativeOK'
    BY <1>0, <1>7, <2>1 DEF NativeOK
  <2>3. QueueOK'
    <3>1. Task("ended", record, 0) \in Tasked
      BY <2>1 DEF Task, Tasked, TaskType
    <3> QED
      BY <2>1, <3>1 DEF QueueOK
  <2> QED
    BY <1>2, <1>3, <1>4, <1>5, <2>2, <2>3, TypesMade
<1>10. CASE ResumeDrive
  <2> DEFINE n == journal[record].top + ResumeGap
  <2>1. record' = record /\ record \in Drives /\ inbox' = inbox /\ journal' = [journal EXCEPT ![record].top = n]
    BY <1>0, <1>10 DEF ResumeDrive, NativeOK
  <2>2. n \in 0 .. MaxSeq /\ n <= Cardinality(journal[record].rows) + Relaunches' * ResumeGap /\ n >= journal[record].top
    <3> DEFINE a == Relaunches * ResumeGap  b == Relaunches' * ResumeGap  m == MaxKills * ResumeGap
               c == Cardinality(journal[record].rows)  t == journal[record].top
    <3>1. /\ a \in Nat /\ b = a + ResumeGap /\ b <= m /\ m \in Nat
          /\ n = t + ResumeGap /\ MaxSeq = MaxRows + m
      BY <1>0, <1>1, <1>2, <1>4, LaunchSkips DEF MaxSeq
    <3>2. c \in Nat /\ t \in Nat /\ c <= MaxRows /\ t <= c + a
      BY <1>0, <2>1, FileNumbers DEF Files
    <3> HIDE DEF a, b, m, c, t, n
    <3>3. n \in 0 .. MaxSeq /\ n <= c + b /\ n >= t
      BY <3>1, <3>2, ConstantsAre
    <3> QED
      BY <3>3 DEF b, c, t
  <2> HIDE DEF n
  <2>3. /\ journal'[record].rows = journal[record].rows /\ journal'[record].top = n
        /\ journal'[record].state = journal[record].state /\ \A d \in Drives \ {record} : journal'[d] = journal[d]
    BY <1>0, <2>1 DEF NativeOK
  <2>4. NativeOK'
    BY <1>0, <2>1, <2>2 DEF NativeOK
  <2>5. QueueOK'
    BY <2>1, PartsSame
  <2>6. Files'
    <3>1. \A d \in Drives : (/\ journal[d].rows \subseteq {Row(d, s) : s \in 1 .. journal[d].top}
                             /\ Cardinality(journal[d].rows) <= MaxRows
                             /\ journal[d].top <= Cardinality(journal[d].rows) + Relaunches * ResumeGap)'
      <4>1. TAKE d \in Drives
      <4>2. CASE d = record
        <5>1. \A r \in journal[d].rows : \E s \in 1 .. journal[d].top : r = Row(d, s)
          BY <1>0 DEF Files
        <5>2. journal[d].top \in Nat /\ n \in Nat /\ journal[d].top <= n
          BY <1>0, <2>2, <4>2, FileNumbers, SeqsAre
        <5>3. journal[d].rows \subseteq {Row(d, s) : s \in 1 .. n}
          BY <5>1, <5>2
        <5>4. Cardinality(journal[d].rows) <= MaxRows
          BY <1>0 DEF Files
        <5> QED
          BY <2>2, <2>3, <4>2, <5>3, <5>4
      <4>3. CASE d # record
        BY <1>0, <1>6, <2>3, <4>3 DEF Files
      <4> QED
        BY <4>2, <4>3
    <3>2. (job.pc = "down" => used.kills > 0)'
      BY <1>2
    <3>3. (record # NoDrive => Journaled(record))'
      BY <1>0, <2>1, <2>3 DEF Journaled, Files
    <3> QED
      BY <3>1, <3>2, <3>3 DEF Files
  <2> QED
    BY <1>2, <1>3, <1>4, <1>5, <2>4, <2>5, <2>6, TypesMade
<1> QED
  BY <1>8, <1>9, <1>10 DEF Launch

\* A tap waits with the rest.
LEMMA DriverTypes ==
  ASSUME Types, Driver
  PROVE  Types'
<1>0. NativeOK /\ StoredOK /\ MemoryOK /\ JobOK /\ BootOK /\ HistoryOK /\ UsedOK /\ QueueOK /\ Files /\ Control
  BY TypesAre
<1>1. PICK t \in {Task("end", engine.d, 0), Task("again", failed.d, 0), Task("cancel", engine.d, 0)} :
        t.d # NoDrive /\ Taps(t)
  BY DEF Driver, TapEnd, TapEndAgain, TapCancel, Task
<1>2. t \in Tasked
  BY <1>0, <1>1 DEF Task, Tasked, TaskType, MemoryOK
<1>3. /\ used.taps < MaxTaps /\ used' = [used EXCEPT !.taps = @ + 1] /\ inbox' = Append(inbox, t)
      /\ UNCHANGED <<native, stored, memory, job, boot, history>>
  BY <1>1 DEF Taps
<1>4. QueueOK'
  BY <1>0, <1>2, <1>3 DEF QueueOK
<1>5. UsedOK' /\ used'.kills = used.kills
  BY <1>0, <1>3, ConstantsAre DEF UsedOK
<1>6. NativeOK' /\ StoredOK' /\ MemoryOK' /\ JobOK' /\ BootOK' /\ HistoryOK'
  BY <1>3, PartsSame
<1>7. Control'
  BY <1>0, <1>3 DEF Control, Closing, stored, memory
<1>8. Files'
  BY <1>0, <1>3, <1>5, FilesSame
<1> QED
  BY <1>4, <1>5, <1>6, <1>7, <1>8, TypesMade

-----------------------------------------------------------------------------
(* The types: what is done to the table of trips and to the open drive. *)

TripType == [Drives -> [status : {"absent", "recording", "stored"}, rows : RowSets]]
SessionType == [d : Drives, rows : RowSets]

\* A checkpoint,
LEMMA CheckpointIs ==
  ASSUME StoredOK, NEW d \in Drives, NEW rows \in RowSets
  PROVE  Checkpoint(d, rows) \in TripType
<1>1. trip[d].rows \cup {r \in rows : r > LastOf(trip[d].rows)} \in RowSets
  BY DEF StoredOK, RowSets
<1> QED
  BY <1>1 DEF StoredOK, TripType, Checkpoint

\* a close,
LEMMA ClosedIs ==
  ASSUME StoredOK, NEW s \in SessionType
  PROVE  CloseDrive(s) \in TripType
  BY DEF StoredOK, TripType, SessionType, CloseDrive, Absent, RowSets

\* and a drop leave a table of trips.
LEMMA DroppedIs ==
  ASSUME StoredOK, NEW d \in Drives
  PROVE  Dropped(d) \in TripType
  BY DEF StoredOK, TripType, Dropped, Absent, RowSets

\* A drive opened again has the rows stored.
LEMMA RebuiltIs ==
  ASSUME StoredOK, NEW d \in Drives
  PROVE  Rebuilt(d) \in SessionType /\ Rebuilt(d).d = d /\ Rebuilt(d).rows = trip[d].rows
  BY DEF StoredOK, SessionType, Rebuilt, Session

\* A drive opens.
LEMMA OpenIs ==
  ASSUME StoredOK, NEW s \in SessionType, OpenDrive(s)
  PROVE  trip' \in TripType /\ engine' = s /\ failed' = NoSession
<1>1. {} \in RowSets /\ s.d \in Drives
  BY DEF RowSets, SessionType
<1>2. Checkpoint(s.d, {}) \in TripType
  BY <1>1, CheckpointIs
<1> QED
  BY <1>2 DEF OpenDrive, StoredOK, TripType

\* The engine's rows are rows, with those it takes in.
LEMMA TakenIs ==
  ASSUME MemoryOK, NEW rows \in RowSets
  PROVE  Taken(rows) \in RowSets
  BY DEF MemoryOK, RowSets, Taken

\* Rows go in.
LEMMA TakeInIs ==
  ASSUME StoredOK, MemoryOK, UsedOK, NEW rows \in RowSets, NEW bad \in BOOLEAN, engine.d \in Drives, TakeIn(rows, bad)
  PROVE  /\ trip' \in TripType /\ UsedOK' /\ used'.kills = used.kills
         /\ engine' = [engine EXCEPT !.rows = Taken(rows)]
<1>1. Fails("checkpoint", bad) /\ engine' = [engine EXCEPT !.rows = Taken(rows)]
  BY DEF TakeIn
<1>2. trip' = trip \/ \E n : trip' = Checkpoint(engine.d, FirstRows(Taken(rows), n))
  BY DEF TakeIn
<1>3. \A n : FirstRows(Taken(rows), n) \in RowSets
  BY TakenIs DEF FirstRows, RowSets
<1>4. trip' \in TripType
  BY <1>2, <1>3, CheckpointIs DEF StoredOK, TripType
<1> QED
  BY <1>1, <1>4, FaultCounted

\* The engine and what the host holds, as rows go in.
LEMMA EngineTakes ==
  ASSUME MemoryOK, NEW rows \in RowSets, engine' = [engine EXCEPT !.rows = Taken(rows)],
         live' = live \/ \E n \in 0 .. MaxSeq : live' = [live EXCEPT !.seq = n],
         UNCHANGED <<captureOn, discards, failed>>
  PROVE  MemoryOK' /\ engine'.d = engine.d /\ live'.d = live.d
<1>1. engine' \in [d : Drives \cup {NoDrive}, rows : RowSets] /\ engine'.d = engine.d
  BY TakenIs DEF MemoryOK
<1>2. live' \in [d : Drives \cup {NoDrive}, seq : 0 .. MaxSeq] /\ live'.d = live.d
  BY DEF MemoryOK
<1> QED
  BY <1>1, <1>2 DEF MemoryOK

\* A live row enters the engine, and may end the drive.
LEMMA TakeLiveRowTypes ==
  ASSUME Types, NEW row \in Rows, TakeLiveRow(row), engine.d # NoDrive, live.d # NoDrive,
         job.pc \in {"ready", "drained"}, ~boot.on
  PROVE  NativeOK' /\ StoredOK' /\ MemoryOK' /\ JobOK' /\ BootOK' /\ HistoryOK' /\ UsedOK' /\ Files' /\ Control'
<1>0. NativeOK /\ StoredOK /\ MemoryOK /\ JobOK /\ BootOK /\ HistoryOK /\ UsedOK /\ QueueOK /\ Files /\ Control
  BY TypesAre
<1>1. engine.d \in Drives /\ {row} \in RowSets /\ SeqOf(row) \in 0 .. MaxSeq
  BY <1>0, RowsAre, SeqsAre DEF MemoryOK, RowSets
<1>2. /\ engine' = [engine EXCEPT !.rows = Taken({row})] /\ trip' \in TripType /\ UsedOK' /\ used'.kills = used.kills
      /\ (job' = At("after") \/ job' = Close("auto"))
  <2>1. CASE (\E bad \in BOOLEAN : TakeIn({row}, bad)) /\ job' = At("after")
    BY <1>0, <1>1, <2>1, TakeInIs
  <2>2. CASE TakeInAndEnd({row})
    BY <1>0, <2>2, PartsSame DEF TakeInAndEnd, StoredOK, TripType
  <2> QED
    BY <2>1, <2>2 DEF TakeLiveRow
<1>3. live' = [live EXCEPT !.seq = SeqOf(row)] /\ UNCHANGED <<native, marker, rides, captureOn, discards, failed, boot, history>>
  BY DEF TakeLiveRow
<1>4. MemoryOK' /\ engine'.d = engine.d /\ live'.d = live.d
  BY <1>0, <1>1, <1>2, <1>3, EngineTakes
<1>5. StoredOK'
  BY <1>0, <1>2, <1>3 DEF StoredOK, TripType
<1>6. NativeOK' /\ BootOK' /\ HistoryOK'
  BY <1>3, PartsSame
<1>7. JobOK' /\ (job'.pc = "after" \/ (job'.pc = "close" /\ job'.how = "auto"))
  BY <1>2, AtIs, CloseIs DEF PCs, Hows
<1>8. Control'
  BY <1>0, <1>3, <1>4, <1>7 DEF Control, AtRest
<1>9. Files'
  <2>1. (job'.pc = "down") = (job.pc = "down")
    BY <1>7
  <2> QED
    BY <1>0, <1>2, <1>3, <2>1, FilesSame
<1> QED
  BY <1>2, <1>4, <1>5, <1>6, <1>7, <1>8, <1>9

\* The least of the drives still to look at.
LEMMA NextIs ==
  ASSUME BootOK, boot.todo # {}
  PROVE  Min(boot.todo) \in boot.todo /\ Min(boot.todo) \in Drives /\ \A d \in boot.todo : Min(boot.todo) <= d
<1> DEFINE S == boot.todo
<1>1. S \subseteq Drives
  BY DEF BootOK
<1>2. S \in SUBSET Int /\ 0 \in Int /\ \A d \in S : 0 <= d
  <2> HIDE DEF S
  <2>1. \A d \in S : d \in Nat
    BY <1>1, DrivesAre
  <2> QED
    BY <2>1
<1>3. S # {}
  OBVIOUS
<1> HIDE DEF S
<1>4. PICK m \in S : \A d \in S : m <= d
  BY <1>2, <1>3, LeastExists
<1>5. Min(S) \in S /\ \A d \in S : Min(S) <= d
  BY <1>4 DEF Min
<1>6. Min(S) \in Drives
  BY <1>1, <1>5
<1> QED
  BY <1>5, <1>6 DEF S

-----------------------------------------------------------------------------
(* The types: the cancel and the recovery. *)

\* A cancel is over.
LEMMA CancelOverTypes ==
  ASSUME Types, CancelOver, UNCHANGED <<engine, live, failed>>, engine.d = NoDrive,
         job.pc \in {"marker", "ride", "drop", "clear"}
  PROVE  JobOK' /\ BootOK' /\ Control' /\ job'.pc # "down"
<1>0. BootOK /\ Control /\ live.d = NoDrive
  BY TypesAre DEF Control
<1>1. CASE boot.on
  <2>1. job' = At("recover") /\ boot' = [boot EXCEPT !.todo = Open]
    BY <1>1 DEF CancelOver
  <2>2. JobOK' /\ job'.pc = "recover"
    BY <2>1, AtIs DEF PCs
  <2>3. BootOK' /\ boot'.on
    BY <1>0, <1>1, <2>1 DEF BootOK, Open
  <2> QED
    BY <1>0, <2>2, <2>3 DEF Control, AtRest
<1>2. CASE ~boot.on
  <2>1. job' = At("after") /\ boot' = boot
    BY <1>2 DEF CancelOver
  <2>2. JobOK' /\ job'.pc = "after"
    BY <2>1, AtIs DEF PCs
  <2> QED
    BY <1>0, <1>2, <2>1, <2>2 DEF Control, AtRest, BootOK
<1> QED
  BY <1>1, <1>2

\* "Not driving?", as it begins.
LEMMA CancelDriveTypes ==
  ASSUME Types, NEW d \in Drives, NEW held \in BOOLEAN, CancelDrive(d, held), job.pc = "ready"
  PROVE  NativeOK' /\ StoredOK' /\ MemoryOK' /\ JobOK' /\ BootOK' /\ HistoryOK' /\ UsedOK' /\ Files' /\ Control'
<1>0. NativeOK /\ StoredOK /\ MemoryOK /\ JobOK /\ BootOK /\ HistoryOK /\ UsedOK /\ QueueOK /\ Files /\ Control
  BY TypesAre
<1>1. /\ marker' = [d |-> d, held |-> held] /\ cancelled' = cancelled \cup {d} /\ captureOn' = FALSE
      /\ engine' = NoSession /\ live' = NotLive /\ failed' = (IF failed.d = d THEN NoSession ELSE failed)
      /\ job' = Cancel("tell", d) /\ UNCHANGED <<native, trip, rides, discards, boot, closed, unqueued, used>>
  BY DEF CancelDrive
<1>2. JobOK' /\ job'.pc = "tell" /\ job'.d = d
  BY <1>1, CancelIs DEF PCs
<1>3. MemoryOK'
  BY <1>0, <1>1, NothingIs DEF MemoryOK
<1>4. StoredOK' /\ HistoryOK' /\ marker'.d = d
  BY <1>0, <1>1 DEF StoredOK, HistoryOK
<1>5. NativeOK' /\ BootOK' /\ UsedOK' /\ used'.kills = used.kills
  BY <1>1, PartsSame
<1>6. Control'
  <2>1. ~boot.on
    BY <1>0 DEF Control
  <2> QED
    BY <1>0, <1>1, <1>2, <1>4, <2>1, NothingIs, DrivesAre DEF Control, AtRest
<1>7. Files'
  <2>1. (job'.pc = "down") = (job.pc = "down")
    BY <1>2
  <2> QED
    BY <1>0, <1>1, <1>5, <2>1, FilesSame
<1> QED
  BY <1>2, <1>3, <1>4, <1>5, <1>6, <1>7

\* Its steps.
LEMMA CancellingTypes ==
  ASSUME Types, Cancelling
  PROVE  Types'
<1>0. NativeOK /\ StoredOK /\ MemoryOK /\ JobOK /\ BootOK /\ HistoryOK /\ UsedOK /\ QueueOK /\ Files /\ Control
  BY TypesAre
<1>1. job.pc \in {"tell", "ride", "drop", "clear"}
  BY DEF Cancelling, TellNative, QueueRide, DropTrip, DropFails, ClearMarker
<1>2. job.d = marker.d /\ marker.d # NoDrive /\ job.d \in Drives /\ engine.d = NoDrive
  BY <1>0, <1>1 DEF Control, AtRest, JobOK
<1>3. CASE TellNative
  <2>1. /\ record' = NoDrive /\ job' = Cancel("ride", job.d) /\ UNCHANGED <<stored, memory, boot, history, used>>
        /\ journal' = [d \in Drives |-> IF Journaled(d) /\ d \in Forgotten
                                        THEN [journal[d] EXCEPT !.state = "gone"] ELSE journal[d]]
        /\ inbox' = (IF record = NoDrive THEN inbox ELSE Emitted(inbox, Task("cancelled", record, 0)))
        /\ job.pc = "tell"
    BY <1>3 DEF TellNative
  <2>2. \A d \in Drives : /\ journal'[d].rows = journal[d].rows /\ journal'[d].top = journal[d].top
                          /\ journal'[d] \in [state : {"none", "here", "gone"}, rows : RowSets, top : 0 .. MaxSeq]
    BY <1>0, <2>1 DEF NativeOK
  <2>3. NativeOK'
    BY <2>1, <2>2 DEF NativeOK
  <2>4. QueueOK'
    <3>1. record # NoDrive => Task("cancelled", record, 0) \in Tasked
      BY <1>0 DEF Task, Tasked, TaskType, NativeOK
    <3> QED
      BY <1>0, <2>1, <3>1, EmittedIs DEF QueueOK
  <2>5. JobOK' /\ job'.pc = "ride" /\ job'.d = job.d
    BY <1>2, <2>1, CancelIs DEF PCs
  <2>6. StoredOK' /\ MemoryOK' /\ BootOK' /\ HistoryOK' /\ UsedOK' /\ used'.kills = used.kills
    BY <2>1, PartsSame
  <2>7. Control'
    <3>1. UNCHANGED <<engine, live, failed, marker>> /\ ~boot.on
      BY <1>0, <2>1 DEF memory, stored, Control
    <3> QED
      BY <1>0, <1>2, <2>1, <2>5, <3>1 DEF Control, AtRest
  <2>8. Files'
    <3>1. (job'.pc = "down") = (job.pc = "down")
      BY <1>1, <2>5
    <3> QED
      BY <1>0, <2>1, <2>2, <2>6, <3>1, FilesKept
  <2> QED
    BY <2>3, <2>4, <2>5, <2>6, <2>7, <2>8, TypesMade
<1>4. CASE QueueRide \/ DropTrip
  <2>1. PICK pc \in {"drop", "clear"} : job' = Cancel(pc, job.d)
    BY <1>4 DEF QueueRide, DropTrip
  <2>2. JobOK' /\ job'.pc = pc /\ job'.d = job.d
    BY <1>2, <2>1, CancelIs DEF PCs
  <2>3. UNCHANGED <<native, marker, memory, inbox, boot, closed, cancelled>>
    BY <1>4 DEF QueueRide, DropTrip, history
  <2>4. StoredOK'
    <3>1. CASE QueueRide
      BY <1>0, <1>2, <3>1 DEF QueueRide, StoredOK
    <3>2. CASE DropTrip
      BY <1>0, <1>2, <3>2, DroppedIs DEF DropTrip, StoredOK, TripType
    <3> QED
      BY <1>4, <3>1, <3>2
  <2>5. NativeOK' /\ MemoryOK' /\ QueueOK' /\ BootOK' /\ HistoryOK' /\ UsedOK' /\ used'.kills = used.kills
    <3>1. NativeOK' /\ MemoryOK' /\ QueueOK' /\ BootOK'
      BY <2>3, PartsSame
    <3>2. UsedOK' /\ used'.kills = used.kills
      BY <1>0, <1>4, FaultCounted DEF QueueRide, DropTrip, Fails, UsedOK
    <3>3. HistoryOK'
      BY <1>0, <1>2, <1>4, <2>3 DEF QueueRide, DropTrip, HistoryOK, history
    <3> QED
      BY <3>1, <3>2, <3>3
  <2>6. Control'
    <3>1. UNCHANGED <<engine, live, failed>> /\ job.pc \in {"ride", "drop"}
      BY <1>4, <2>3 DEF memory, QueueRide, DropTrip
    <3> QED
      BY <1>0, <1>2, <2>2, <2>3, <3>1 DEF Control, AtRest
  <2>7. Files'
    <3>1. (job'.pc = "down") = (job.pc = "down")
      BY <1>1, <2>2
    <3> QED
      BY <1>0, <2>3, <2>5, <3>1, FilesSame
  <2> QED
    BY <2>2, <2>4, <2>5, <2>6, <2>7, TypesMade
<1>5. CASE DropFails \/ ClearMarker
  <2>1. /\ CancelOver /\ job.pc \in {"drop", "clear"}
        /\ UNCHANGED <<native, memory, inbox, history>> /\ UNCHANGED <<trip, rides>> /\ (marker' = marker \/ marker' = NoCancel)
    BY <1>5 DEF DropFails, ClearMarker, stored
  <2>2. UNCHANGED <<engine, live, failed>>
    BY <2>1 DEF memory
  <2>3. JobOK' /\ BootOK' /\ Control' /\ job'.pc # "down"
    BY <1>2, <2>1, <2>2, CancelOverTypes
  <2>4. StoredOK'
    BY <1>0, <2>1, NothingIs DEF StoredOK
  <2>5. UsedOK' /\ used'.kills = used.kills
    BY <1>0, <1>5, FaultCounted DEF DropFails, ClearMarker, UsedOK
  <2>6. NativeOK' /\ MemoryOK' /\ QueueOK' /\ HistoryOK'
    BY <2>1, PartsSame
  <2>7. Files'
    <3>1. (job'.pc = "down") = (job.pc = "down")
      BY <1>1, <2>3
    <3> QED
      BY <1>0, <2>1, <2>5, <3>1, FilesSame
  <2> QED
    BY <2>3, <2>4, <2>5, <2>6, <2>7, TypesMade
<1> QED
  BY <1>3, <1>4, <1>5 DEF Cancelling

\* A step of the recovery that leaves the task where it is, and only takes from what it has to look at.
LEMMA RecoveryGoesOn ==
  ASSUME Types, job.pc = "recover", job' = job, boot' \in [on : {boot.on}, todo : SUBSET Drives,
           adopt : Drives \cup {NoDrive}, live : Drives \cup {NoDrive}],
         UNCHANGED <<engine, live, failed, marker>>, UNCHANGED native, used'.kills = used.kills
  PROVE  JobOK' /\ BootOK' /\ Files' /\ Control'
<1>0. JobOK /\ BootOK /\ Files /\ Control /\ boot.on
  BY TypesAre DEF Control
<1>1. BootOK' /\ boot'.on
  BY <1>0 DEF BootOK
<1>2. JobOK' /\ Files'
  BY <1>0, PartsSame, FilesSame
<1>3. Control'
  BY <1>0, <1>1 DEF Control, AtRest
<1> QED
  BY <1>1, <1>2, <1>3

\* The recovery.
LEMMA RecoveryTypes ==
  ASSUME Types, Recovery
  PROVE  Types'
<1>0. NativeOK /\ StoredOK /\ MemoryOK /\ JobOK /\ BootOK /\ HistoryOK /\ UsedOK /\ QueueOK /\ Files /\ Control
  BY TypesAre
<1>1. engine.d = NoDrive /\ live.d = NoDrive /\ boot.on
  BY <1>0 DEF Control, AtRest, Recovery, NoPendingCancel, FinishPendingCancel, RecoverEmpty, RecoverNewest, RecoverOrphan,
       RecoverFails, RecoveryOver, Recovering
<1>2. CASE NoPendingCancel
  <2>1. CancelOver /\ job.pc = "marker" /\ UNCHANGED <<native, stored, memory, inbox, history, used>>
    BY <1>2 DEF NoPendingCancel
  <2>2. UNCHANGED <<engine, live, failed>>
    BY <2>1 DEF memory
  <2>3. JobOK' /\ BootOK' /\ Control' /\ job'.pc # "down"
    BY <1>1, <2>1, <2>2, CancelOverTypes
  <2>4. NativeOK' /\ StoredOK' /\ MemoryOK' /\ HistoryOK' /\ UsedOK' /\ QueueOK' /\ used'.kills = used.kills
    BY <2>1, PartsSame
  <2>5. Files'
    <3>1. (job'.pc = "down") = (job.pc = "down")
      BY <2>1, <2>3
    <3> QED
      BY <1>0, <2>1, <2>4, <3>1, FilesSame
  <2> QED
    BY <2>3, <2>4, <2>5, TypesMade
<1>3. CASE FinishPendingCancel
  <2>1. /\ job.pc = "marker" /\ marker.d # NoDrive /\ job' = Cancel("ride", marker.d)
        /\ journal' = (IF marker.held THEN [journal EXCEPT ![marker.d].state = "gone"] ELSE journal)
        /\ UNCHANGED <<stored, memory, boot, history, used>>
        /\ IF marker.held /\ record = marker.d
           THEN record' = NoDrive /\ inbox' = Emitted(inbox, Task("cancelled", record, 0))
           ELSE UNCHANGED <<record, inbox>>
    BY <1>3 DEF FinishPendingCancel
  <2>2. marker.d \in Drives
    BY <1>0, <2>1 DEF StoredOK
  <2>3. /\ \A d \in Drives : journal'[d].rows = journal[d].rows /\ journal'[d].top = journal[d].top
        /\ \A d \in Drives : d # marker.d \/ ~marker.held => journal'[d] = journal[d]
        /\ journal' \in [Drives -> [state : {"none", "here", "gone"}, rows : RowSets, top : 0 .. MaxSeq]]
    BY <1>0, <2>1, <2>2 DEF NativeOK
  <2>4. NativeOK'
    BY <1>0, <2>1, <2>3 DEF NativeOK
  <2>5. QueueOK'
    <3>1. record = marker.d => Task("cancelled", record, 0) \in Tasked
      BY <2>2 DEF Task, Tasked, TaskType
    <3> QED
      BY <1>0, <2>1, <3>1, EmittedIs DEF QueueOK
  <2>6. JobOK' /\ job'.pc = "ride" /\ job'.d = marker.d
    BY <2>1, <2>2, CancelIs DEF PCs
  <2>7. StoredOK' /\ MemoryOK' /\ BootOK' /\ HistoryOK' /\ UsedOK' /\ used'.kills = used.kills
    BY <2>1, PartsSame
  <2>8. Control'
    <3>1. UNCHANGED <<engine, live, failed, marker>>
      BY <2>1 DEF memory, stored
    <3> QED
      BY <1>0, <1>1, <2>1, <2>6, <3>1 DEF Control, AtRest
  <2>9. Files'
    <3>1. (job'.pc = "down") = (job.pc = "down")
      BY <2>1, <2>6
    <3>2. record' # NoDrive => Journaled(record)'
      <4>1. record' # NoDrive => record' = record /\ record \in Drives /\ (record # marker.d \/ ~marker.held)
        BY <1>0, <2>1 DEF NativeOK
      <4> QED
        BY <1>0, <2>3, <4>1 DEF Files, Journaled
    <3> QED
      BY <1>0, <2>1, <2>3, <2>7, <3>1, <3>2, FilesKept
  <2> QED
    BY <2>4, <2>5, <2>6, <2>7, <2>8, <2>9, TypesMade
<1>4. CASE RecoverEmpty \/ RecoverNewest \/ RecoverOrphan \/ RecoverFails
  <2>1. /\ job.pc = "recover" /\ job' = job /\ boot.todo # {}
        /\ UNCHANGED <<native, marker, rides, memory, inbox, cancelled, unqueued>>
        /\ Recovered \/ boot' = [boot EXCEPT !.todo = {}, !.adopt = NextOpen]
    BY <1>4 DEF RecoverEmpty, RecoverNewest, RecoverOrphan, RecoverFails, Recovering, stored, history
  <2>2. NextOpen \in Drives
    BY <1>0, <2>1, NextIs DEF NextOpen
  <2>3. boot' \in [on : {boot.on}, todo : SUBSET Drives, adopt : Drives \cup {NoDrive}, live : Drives \cup {NoDrive}]
    BY <1>0, <2>1, <2>2 DEF BootOK, Recovered
  <2>4. UsedOK' /\ used'.kills = used.kills
    BY <1>0, <1>4, FaultCounted DEF RecoverEmpty, RecoverNewest, RecoverOrphan, RecoverFails, UsedOK
  <2>5. StoredOK' /\ HistoryOK'
    <3>1. CASE RecoverEmpty
      BY <1>0, <2>1, <2>2, <3>1 DEF RecoverEmpty, StoredOK, HistoryOK, Absent, RowSets, history
    <3>2. CASE RecoverNewest \/ RecoverFails
      BY <3>2, PartsSame DEF RecoverNewest, RecoverFails
    <3>3. CASE RecoverOrphan
      <4>1. /\ trip' = CloseDrive(Rebuilt(NextOpen))
            /\ closed' = closed \/ Judge(NextOpen, "recovery", trip[NextOpen].rows)
        BY <3>3 DEF RecoverOrphan
      <4>2. trip' \in TripType
        BY <1>0, <2>2, <4>1, RebuiltIs, ClosedIs
      <4>3. trip[NextOpen].rows \in RowSets
        BY <1>0, <2>2 DEF StoredOK
      <4>4. HistoryOK'
        BY <1>0, <2>1, <2>2, <4>1, <4>3 DEF HistoryOK, Judge
      <4> QED
        BY <1>0, <2>1, <4>2, <4>4 DEF StoredOK, TripType
    <3> QED
      BY <1>4, <3>1, <3>2, <3>3
  <2>6. NativeOK' /\ MemoryOK' /\ QueueOK'
    BY <2>1, PartsSame
  <2>7. JobOK' /\ BootOK' /\ Files' /\ Control'
    <3>1. UNCHANGED <<engine, live, failed, marker>>
      BY <2>1 DEF memory
    <3> QED
      BY <2>1, <2>3, <2>4, <3>1, RecoveryGoesOn
  <2> QED
    BY <2>4, <2>5, <2>6, <2>7, TypesMade
<1>5. CASE RecoveryOver
  <2>1. job.pc = "recover" /\ job' = At("boot") /\ UNCHANGED <<native, stored, memory, inbox, boot, history, used>>
    BY <1>5 DEF RecoveryOver
  <2>2. JobOK' /\ job'.pc = "boot"
    BY <2>1, AtIs DEF PCs
  <2>3. NativeOK' /\ StoredOK' /\ MemoryOK' /\ BootOK' /\ HistoryOK' /\ UsedOK' /\ QueueOK' /\ used'.kills = used.kills
    BY <2>1, PartsSame
  <2>4. Control'
    <3>1. UNCHANGED <<engine, live, failed, marker>>
      BY <2>1 DEF memory, stored
    <3> QED
      BY <1>0, <1>1, <2>1, <2>2, <3>1 DEF Control, AtRest
  <2>5. Files'
    <3>1. (job'.pc = "down") = (job.pc = "down")
      BY <2>1, <2>2
    <3> QED
      BY <1>0, <2>1, <2>3, <3>1, FilesSame
  <2> QED
    BY <2>2, <2>3, <2>4, <2>5, TypesMade
<1> QED
  BY <1>2, <1>3, <1>4, <1>5 DEF Recovery

-----------------------------------------------------------------------------
(* The types: drives taken up at a launch. *)

\* A drive native ended is taken in, or its file is to go.
LEMMA AdoptEndedTypes ==
  ASSUME Types, NEW d \in Drives, AdoptEnded(d), UNCHANGED <<marker, rides, captureOn>>,
         engine.d = NoDrive, live.d = NoDrive
  PROVE  /\ StoredOK' /\ MemoryOK' /\ JobOK'
         /\ \/ /\ job'.pc = (IF boot.on THEN "ended" ELSE "after") /\ engine'.d = NoDrive /\ live'.d = NoDrive
               /\ trip' = trip
            \/ /\ job'.pc = "drain" /\ job'.d = d /\ job'.how = "adopted" /\ engine'.d = d /\ live'.d = d
               /\ OpenDrive(Rebuilt(d)) /\ trip[d].status # "stored"
<1>0. StoredOK /\ MemoryOK
  BY TypesAre
<1>1. CASE trip[d].status = "stored"
  <2>1. discards' = discards \cup {d} /\ job' = Back /\ UNCHANGED <<trip, engine, live, failed>>
    BY <1>1 DEF AdoptEnded
  <2>2. JobOK' /\ job'.pc = (IF boot.on THEN "ended" ELSE "after")
    BY <2>1, AtIs DEF Back, PCs
  <2>3. StoredOK' /\ MemoryOK'
    BY <1>0, <2>1 DEF StoredOK, MemoryOK
  <2> QED
    BY <2>1, <2>2, <2>3
<1>2. CASE trip[d].status # "stored"
  <2>1. /\ OpenDrive(Rebuilt(d)) /\ live' = [d |-> d, seq |-> LastSeq(trip[d].rows)]
        /\ job' = Drain(d, 0, "adopted", Uncapped) /\ UNCHANGED discards
    BY <1>2 DEF AdoptEnded
  <2>2. trip' \in TripType /\ engine' = Rebuilt(d) /\ failed' = NoSession
    BY <1>0, <2>1, RebuiltIs, OpenIs
  <2>3. JobOK' /\ job'.pc = "drain" /\ job'.d = d /\ job'.how = "adopted"
    BY <2>1, SeqsAre, DrainIs DEF Hows
  <2>4. LastSeq(trip[d].rows) \in 0 .. MaxSeq
    BY <1>0, LastIs DEF StoredOK, RowSets
  <2>5. live' \in [d : Drives \cup {NoDrive}, seq : 0 .. MaxSeq] /\ live'.d = d
    BY <2>1, <2>4
  <2>6. engine' \in [d : Drives \cup {NoDrive}, rows : RowSets] /\ engine'.d = d
    BY <1>0, <2>2, RebuiltIs DEF SessionType
  <2>7. StoredOK' /\ MemoryOK'
    BY <1>0, <2>1, <2>2, <2>5, <2>6, NothingIs DEF StoredOK, MemoryOK, TripType
  <2> QED
    BY <1>2, <2>1, <2>3, <2>5, <2>6, <2>7
<1> QED
  BY <1>1, <1>2

\* The launch takes drives up.
LEMMA BootTypes ==
  ASSUME Types, Boot
  PROVE  Types'
<1>0. NativeOK /\ StoredOK /\ MemoryOK /\ JobOK /\ BootOK /\ HistoryOK /\ UsedOK /\ QueueOK /\ Files /\ Control
  BY TypesAre
<1>1. job.pc \in {"boot", "ended"} /\ engine.d = NoDrive /\ live.d = NoDrive /\ boot.on
  BY <1>0 DEF Control, AtRest, Boot, BootReads, BootAdoptsEnded, BootContinues, BootTakesLive, BootRests, BootGoesOn
<1>2. CASE BootReads
  <2>1. /\ job.pc = "boot" /\ inbox' = Delivered(inbox) /\ captureOn' = (record # NoDrive) /\ job' = At("ended")
        /\ UNCHANGED <<native, stored, engine, live, discards, failed, history>>
    BY <1>2 DEF BootReads
  <2>2. PICK listed \in BOOLEAN :
          /\ Fails("list", ~listed)
          /\ boot' = [boot EXCEPT !.todo = {d \in Drives : listed /\ Journaled(d) /\ d # record}, !.live = record]
    BY <1>2 DEF BootReads
  <2>3. BootOK' /\ boot'.on
    BY <1>0, <1>1, <2>2 DEF BootOK, NativeOK
  <2>4. UsedOK' /\ used'.kills = used.kills
    BY <1>0, <2>2, FaultCounted
  <2>5. QueueOK'
    BY <1>0, <2>1, DeliveredIs DEF QueueOK
  <2>6. MemoryOK'
    <3>1. captureOn' \in BOOLEAN
      BY <2>1
    <3> QED
      BY <1>0, <2>1, <3>1 DEF MemoryOK
  <2>7. JobOK' /\ job'.pc = "ended"
    BY <2>1, AtIs DEF PCs
  <2>8. NativeOK' /\ StoredOK' /\ HistoryOK'
    BY <2>1, PartsSame
  <2>9. Control'
    BY <1>0, <1>1, <2>1, <2>3, <2>7 DEF Control, AtRest
  <2>10. Files'
    <3>1. (job'.pc = "down") = (job.pc = "down")
      BY <2>1, <2>7
    <3> QED
      BY <1>0, <2>1, <2>4, <3>1, FilesSame
  <2> QED
    BY <2>3, <2>4, <2>5, <2>6, <2>7, <2>8, <2>9, <2>10, TypesMade
<1>3. CASE BootAdoptsEnded
  <2>1. /\ boot.todo # {} /\ AdoptEnded(Min(boot.todo)) /\ UNCHANGED <<native, marker, rides, captureOn, inbox, history, used>>
        /\ boot' = [boot EXCEPT !.todo = @ \ {Min(boot.todo)}, !.adopt = IF @ = Min(boot.todo) THEN NoDrive ELSE @]
    BY <1>3 DEF BootAdoptsEnded
  <2>2. Min(boot.todo) \in Drives
    BY <1>0, <2>1, NextIs
  <2>3. BootOK' /\ boot'.on
    BY <1>0, <1>1, <2>1 DEF BootOK
  <2>4. /\ StoredOK' /\ MemoryOK' /\ JobOK'
        /\ \/ job'.pc = "ended" /\ engine'.d = NoDrive /\ live'.d = NoDrive
           \/ /\ job'.pc = "drain" /\ job'.d = live'.d /\ job'.how = "adopted"
              /\ engine'.d = live'.d /\ live'.d # NoDrive
    BY <1>1, <2>1, <2>2, AdoptEndedTypes, DrivesAre
  <2>5. NativeOK' /\ HistoryOK' /\ UsedOK' /\ QueueOK' /\ used'.kills = used.kills
    BY <2>1, PartsSame
  <2>6. Control'
    BY <1>0, <1>1, <2>3, <2>4 DEF Control, AtRest
  <2>7. Files'
    <3>1. (job'.pc = "down") = (job.pc = "down")
      BY <1>1, <2>4
    <3> QED
      BY <1>0, <2>1, <2>5, <3>1, FilesSame
  <2> QED
    BY <2>3, <2>4, <2>5, <2>6, <2>7, TypesMade
<1>4. CASE BootContinues
  <2>1. /\ boot' = NoBoot /\ boot.adopt # NoDrive /\ OpenDrive(Rebuilt(boot.adopt)) /\ job' = At("after")
        /\ UNCHANGED <<native, marker, rides, live, captureOn, discards, inbox, history, used>>
    BY <1>4 DEF BootContinues, BootGoesOn
  <2>2. boot.adopt \in Drives
    BY <1>0, <2>1 DEF BootOK
  <2>3. trip' \in TripType /\ engine' = Rebuilt(boot.adopt) /\ failed' = NoSession
    BY <1>0, <2>1, <2>2, RebuiltIs, OpenIs
  <2>4. engine' \in [d : Drives \cup {NoDrive}, rows : RowSets]
    BY <1>0, <2>2, <2>3, RebuiltIs DEF SessionType
  <2>5. StoredOK' /\ MemoryOK' /\ BootOK'
    BY <1>0, <2>1, <2>3, <2>4, NothingIs DEF StoredOK, MemoryOK, BootOK, TripType
  <2>6. JobOK' /\ job'.pc = "after"
    BY <2>1, AtIs DEF PCs
  <2>7. NativeOK' /\ HistoryOK' /\ UsedOK' /\ QueueOK' /\ used'.kills = used.kills
    BY <2>1, PartsSame
  <2>8. Control'
    BY <1>1, <2>1, <2>6, NothingIs DEF Control, AtRest
  <2>9. Files'
    <3>1. (job'.pc = "down") = (job.pc = "down")
      BY <1>1, <2>6
    <3> QED
      BY <1>0, <2>1, <2>7, <3>1, FilesSame
  <2> QED
    BY <2>5, <2>6, <2>7, <2>8, <2>9, TypesMade
<1>5. CASE BootTakesLive
  <2>1. /\ boot' = NoBoot /\ boot.live # NoDrive /\ OpenDrive(Rebuilt(boot.live)) /\ captureOn' = TRUE
        /\ live' = [d |-> boot.live, seq |-> LastSeq(trip[boot.live].rows)]
        /\ job' = Drain(boot.live, 0, "begun", ReplayCap)
        /\ UNCHANGED <<native, marker, rides, discards, inbox, history, used>>
    BY <1>5 DEF BootTakesLive, BootGoesOn
  <2>2. boot.live \in Drives
    BY <1>0, <2>1 DEF BootOK
  <2>3. trip' \in TripType /\ engine' = Rebuilt(boot.live) /\ failed' = NoSession
    BY <1>0, <2>1, <2>2, RebuiltIs, OpenIs
  <2>4. engine' \in [d : Drives \cup {NoDrive}, rows : RowSets] /\ engine'.d = boot.live
    BY <1>0, <2>2, <2>3, RebuiltIs DEF SessionType
  <2>5. live' \in [d : Drives \cup {NoDrive}, seq : 0 .. MaxSeq] /\ live'.d = boot.live
    <3>1. LastSeq(trip[boot.live].rows) \in 0 .. MaxSeq
      BY <1>0, <2>2, LastIs DEF StoredOK, RowSets
    <3> QED
      BY <2>1, <2>2, <3>1
  <2>6. StoredOK' /\ MemoryOK' /\ BootOK'
    BY <1>0, <2>1, <2>3, <2>4, <2>5, NothingIs DEF StoredOK, MemoryOK, BootOK, TripType
  <2>7. JobOK' /\ job'.pc = "drain" /\ job'.d = boot.live /\ job'.how = "begun"
    <3>1. ReplayCap \in 0 .. Uncapped /\ 0 \in Rows \cup {0} /\ boot.live \in Drives \cup {NoDrive}
      BY <2>2, SeqsAre, ConstantsAre
    <3> QED
      BY <2>1, <3>1, DrainIs DEF Hows
  <2>8. NativeOK' /\ HistoryOK' /\ UsedOK' /\ QueueOK' /\ used'.kills = used.kills
    BY <2>1, PartsSame
  <2>9. Control'
    BY <1>1, <2>1, <2>4, <2>5, <2>7, NothingIs DEF Control, AtRest
  <2>10. Files'
    <3>1. (job'.pc = "down") = (job.pc = "down")
      BY <1>1, <2>7
    <3> QED
      BY <1>0, <2>1, <2>8, <3>1, FilesSame
  <2> QED
    BY <2>6, <2>7, <2>8, <2>9, <2>10, TypesMade
<1>6. CASE BootRests
  <2>1. boot' = NoBoot /\ job' = At("after") /\ UNCHANGED <<native, stored, memory, inbox, history, used>>
    BY <1>6 DEF BootRests, BootGoesOn
  <2>2. JobOK' /\ job'.pc = "after"
    BY <2>1, AtIs DEF PCs
  <2>3. NativeOK' /\ StoredOK' /\ MemoryOK' /\ HistoryOK' /\ UsedOK' /\ QueueOK' /\ used'.kills = used.kills
    BY <2>1, PartsSame
  <2>4. BootOK'
    BY <2>1, NothingIs DEF BootOK
  <2>5. Control'
    <3>1. UNCHANGED <<engine, live>>
      BY <2>1 DEF memory
    <3> QED
      BY <1>1, <2>1, <2>2, <3>1, NothingIs DEF Control, AtRest
  <2>6. Files'
    <3>1. (job'.pc = "down") = (job.pc = "down")
      BY <1>1, <2>2
    <3> QED
      BY <1>0, <2>1, <2>3, <3>1, FilesSame
  <2> QED
    BY <2>2, <2>3, <2>4, <2>5, <2>6, TypesMade
<1> QED
  BY <1>2, <1>3, <1>4, <1>5, <1>6 DEF Boot

-----------------------------------------------------------------------------
(* The types: rows read, drives closed, events taken. *)

\* A page is of the file's rows, and no more than may be replayed.
LEMMA PageIs ==
  ASSUME Types, job.pc = "drain"
  PROVE  /\ Page \in RowSets /\ Cardinality(Page) \in Nat /\ Cardinality(Page) <= job.left
         /\ job.left \in Nat /\ job.left <= Uncapped
<1>0. NativeOK /\ JobOK /\ MemoryOK /\ Control
  BY TypesAre
<1>1. job.d \in Drives /\ job.left \in Nat /\ job.left <= Uncapped
  <2>1. job.d \in Drives
    BY <1>0 DEF Control, MemoryOK
  <2>2. job.left \in 0 .. Uncapped
    BY <1>0 DEF JobOK
  <2> QED
    BY <2>1, <2>2, SeqsAre
<1>2. Unread \in SUBSET Rows
  BY <1>0, <1>1 DEF Unread, NativeOK, RowSets
<1>3. PageLimit \in Nat /\ PageLimit <= job.left
  BY <1>1, ConstantsAre DEF PageLimit
<1> DEFINE U == Unread  n == PageLimit
<1>4. U \in SUBSET Rows /\ n \in Nat /\ n <= job.left
  BY <1>2, <1>3
<1>5. Page = FirstRows(U, n)
  BY DEF Page
<1> HIDE DEF U, n
<1>6. FirstRows(U, n) \subseteq U /\ Cardinality(FirstRows(U, n)) \in Nat /\ Cardinality(FirstRows(U, n)) <= n
  BY <1>4, FirstRowsAre
<1> QED
  BY <1>1, <1>4, <1>5, <1>6 DEF RowSets

\* The drain after a page.
LEMMA AfterPageIs ==
  ASSUME Types, job.pc = "drain", job' = AfterPage
  PROVE  JobOK' /\ job'.pc \in {"drain", "drained"} /\ job'.d = job.d /\ job'.how = job.how /\ job'.row = job.row
<1> DEFINE left == IF job.left = Uncapped THEN Uncapped ELSE job.left - Cardinality(Page)
           pc == IF Cardinality(Page) < PageLimit \/ left = 0 THEN "drained" ELSE "drain"
<1>1. JobOK
  BY TypesAre
<1>2. job' = [job EXCEPT !.pc = pc, !.left = left]
  BY DEF AfterPage
<1>3. pc \in {"drain", "drained"}
  OBVIOUS
<1>4. left \in 0 .. Uncapped
  <2> DEFINE c == Cardinality(Page)
  <2>1. c \in Nat /\ c <= job.left /\ job.left \in Nat /\ job.left <= Uncapped
    BY PageIs
  <2> HIDE DEF c
  <2>2. (IF job.left = Uncapped THEN Uncapped ELSE job.left - c) \in 0 .. Uncapped
    BY <2>1, SeqsAre
  <2> QED
    BY <2>2 DEF c
<1> HIDE DEF left, pc
<1> QED
  BY <1>1, <1>2, <1>3, <1>4 DEF JobOK

\* Rows are read and go in, or the drive is let go.
LEMMA ReadingTypes ==
  ASSUME Types, Reading
  PROVE  Types'
<1>0. NativeOK /\ StoredOK /\ MemoryOK /\ JobOK /\ BootOK /\ HistoryOK /\ UsedOK /\ QueueOK /\ Files /\ Control
  BY TypesAre
<1>1. job.pc \in {"drain", "drained"}
  BY DEF Reading, ReadPage, ReadFails, TakenUp, GapFilled, NativeEndTaken, ReleaseDrive
<1>2. /\ live.d # NoDrive /\ engine.d = live.d /\ live.d \in Drives /\ job.d = live.d
      /\ job.how = "gap" => job.row \in Rows
  BY <1>0, <1>1 DEF Control, MemoryOK
<1>3. CASE ReadPage
  <2>1. job.pc = "drain" /\ UNCHANGED <<native, marker, rides, captureOn, discards, failed, inbox, boot, history>>
    BY <1>3 DEF ReadPage
  <2>2. PICK rows \in RowSets :
          /\ Reach(rows)
          /\ \/ (\E bad \in BOOLEAN : TakeIn(rows, bad)) /\ job' = AfterPage
             \/ TakeInAndEnd(rows)
    <3>1. Page \in RowSets /\ \A last \in Page : {r \in Page : r <= last} \in RowSets
      BY <2>1, PageIs DEF RowSets
    <3>2. CASE (\E bad \in BOOLEAN : TakeIn(Page, bad)) /\ Reach(Page) /\ job' = AfterPage
      BY <3>1, <3>2
    <3>3. CASE \E last \in Page : LET rows == {r \in Page : r <= last} IN TakeInAndEnd(rows) /\ Reach(rows)
      BY <3>1, <3>3
    <3> QED
      BY <1>3, <3>2, <3>3 DEF ReadPage
  <2>3. /\ engine' = [engine EXCEPT !.rows = Taken(rows)] /\ trip' \in TripType /\ UsedOK' /\ used'.kills = used.kills
        /\ (job' = AfterPage \/ job' = Close("auto"))
    <3>1. CASE (\E bad \in BOOLEAN : TakeIn(rows, bad)) /\ job' = AfterPage
      BY <1>0, <1>2, <3>1, TakeInIs
    <3>2. CASE TakeInAndEnd(rows)
      BY <1>0, <3>2, PartsSame DEF TakeInAndEnd, StoredOK, TripType
    <3> QED
      BY <2>2, <3>1, <3>2
  <2>4. \E n \in 0 .. MaxSeq : live' = [live EXCEPT !.seq = n]
    <3>1. rows \in SUBSET Rows
      BY DEF RowSets
    <3>2. rows # {} => LastSeq(rows) \in 0 .. MaxSeq
      BY <3>1, LastIs
    <3> DEFINE n == IF rows = {} THEN live.seq ELSE LastSeq(rows)
    <3>3. n \in 0 .. MaxSeq /\ live' = [live EXCEPT !.seq = n]
      BY <1>0, <2>2, <3>2 DEF Reach, MemoryOK
    <3> HIDE DEF n
    <3> QED
      BY <3>3
  <2>5. MemoryOK' /\ engine'.d = engine.d /\ live'.d = live.d
    BY <1>0, <2>1, <2>3, <2>4, EngineTakes
  <2>6. StoredOK'
    BY <1>0, <2>1, <2>3 DEF StoredOK, TripType
  <2>7. NativeOK' /\ BootOK' /\ HistoryOK' /\ QueueOK'
    BY <2>1, PartsSame
  <2>8. /\ JobOK'
        /\ \/ job'.pc \in {"drain", "drained"} /\ job'.d = job.d /\ job'.how = job.how /\ job'.row = job.row
           \/ job'.pc = "close" /\ job'.how = "auto"
    BY <2>1, <2>3, AfterPageIs, CloseIs DEF Hows
  <2>9. Control'
    BY <1>0, <1>2, <2>1, <2>5, <2>8 DEF Control, AtRest
  <2>10. Files'
    <3>1. (job'.pc = "down") = (job.pc = "down")
      BY <1>1, <2>8
    <3> QED
      BY <1>0, <2>1, <2>3, <3>1, FilesSame
  <2> QED
    BY <2>3, <2>5, <2>6, <2>7, <2>8, <2>9, <2>10, TypesMade
<1>4. CASE ReadFails
  <2>1. Fault("read") /\ job' = [job EXCEPT !.pc = "drained", !.left = 0]
        /\ UNCHANGED <<native, stored, memory, inbox, boot, history>>
    BY <1>4 DEF ReadFails
  <2>2. JobOK' /\ job'.pc = "drained" /\ job'.d = job.d /\ job'.how = job.how /\ job'.row = job.row
    <3>1. 0 \in 0 .. Uncapped
      BY SeqsAre
    <3> QED
      BY <1>0, <2>1, <3>1 DEF JobOK
  <2>3. UsedOK' /\ used'.kills = used.kills
    BY <1>0, <2>1, FaultCounted
  <2>4. NativeOK' /\ StoredOK' /\ MemoryOK' /\ BootOK' /\ HistoryOK' /\ QueueOK'
    BY <2>1, PartsSame
  <2>5. Control'
    <3>1. UNCHANGED <<engine, live>>
      BY <2>1 DEF memory
    <3> QED
      BY <1>0, <1>1, <1>2, <2>1, <2>2, <3>1 DEF Control, AtRest
  <2>6. Files'
    <3>1. (job'.pc = "down") = (job.pc = "down")
      BY <1>1, <2>2
    <3> QED
      BY <1>0, <2>1, <2>3, <3>1, FilesSame
  <2> QED
    BY <2>2, <2>3, <2>4, <2>5, <2>6, TypesMade
<1>5. CASE GapFilled /\ SeqOf(job.row) > live.seq
  <2>1. TakeLiveRow(job.row) /\ job.row \in Rows /\ UNCHANGED inbox /\ job.pc = "drained" /\ ~boot.on
    BY <1>0, <1>2, <1>5 DEF GapFilled, Control
  <2> QED
    BY <1>2, <2>1, TakeLiveRowTypes, PartsSame, TypesMade
<1>6. CASE TakenUp \/ NativeEndTaken \/ (GapFilled /\ ~(SeqOf(job.row) > live.seq))
  <2>1. /\ UNCHANGED <<native, stored, memory, inbox, boot, history, used>>
        /\ \/ job' = Close("native")
           \/ job' = At("after") /\ job.how \in {"begun", "gap"}
    BY <1>6 DEF TakenUp, NativeEndTaken, GapFilled
  <2>2. JobOK' /\ ((job'.pc = "close" /\ job'.how = "native") \/ (job'.pc = "after" /\ job.how \in {"begun", "gap"}))
    <3>1. CASE job' = Close("native")
      <4>1. "native" \in Hows
        BY DEF Hows
      <4> QED
        BY <3>1, <4>1, CloseIs
    <3>2. CASE job' = At("after") /\ job.how \in {"begun", "gap"}
      BY <3>2, AtIs DEF PCs
    <3> QED
      BY <2>1, <3>1, <3>2
  <2>3. NativeOK' /\ StoredOK' /\ MemoryOK' /\ BootOK' /\ HistoryOK' /\ QueueOK' /\ UsedOK' /\ used'.kills = used.kills
    BY <2>1, PartsSame
  <2>4. Control'
    <3>1. UNCHANGED <<engine, live, boot>>
      BY <2>1 DEF memory
    <3>2. job'.pc = "after" => ~boot.on
      BY <1>0, <1>1, <2>2 DEF Control
    <3> QED
      BY <1>0, <1>1, <1>2, <2>2, <3>1, <3>2 DEF Control, AtRest
  <2>5. Files'
    <3>1. (job'.pc = "down") = (job.pc = "down")
      BY <1>1, <2>2
    <3> QED
      BY <1>0, <2>1, <2>3, <3>1, FilesSame
  <2> QED
    BY <2>2, <2>3, <2>4, <2>5, TypesMade
<1>7. CASE ReleaseDrive
  <2>1. /\ engine' = NoSession /\ live' = NotLive /\ job' = Back
        /\ UNCHANGED <<native, marker, rides, captureOn, discards, failed, inbox, boot, history>>
    BY <1>7 DEF ReleaseDrive
  <2>2. PICK bad \in BOOLEAN :
          Fails("checkpoint", bad) /\ trip' = (IF bad THEN trip ELSE Checkpoint(engine.d, engine.rows))
    BY <1>7 DEF ReleaseDrive
  <2>3. trip' \in TripType
    <3>1. engine.d \in Drives /\ engine.rows \in RowSets
      BY <1>0, <1>2 DEF MemoryOK
    <3>2. Checkpoint(engine.d, engine.rows) \in TripType /\ trip \in TripType
      BY <1>0, <3>1, CheckpointIs DEF StoredOK, TripType
    <3> QED
      BY <2>2, <3>2
  <2>4. StoredOK' /\ MemoryOK'
    BY <1>0, <2>1, <2>3, NothingIs DEF StoredOK, MemoryOK, TripType
  <2>5. UsedOK' /\ used'.kills = used.kills
    BY <1>0, <2>2, FaultCounted
  <2>6. JobOK' /\ job'.pc = (IF boot.on THEN "ended" ELSE "after")
    BY <2>1, AtIs DEF Back, PCs
  <2>7. NativeOK' /\ BootOK' /\ HistoryOK' /\ QueueOK'
    BY <2>1, PartsSame
  <2>8. Control'
    BY <1>0, <1>1, <2>1, <2>6, NothingIs DEF Control, AtRest
  <2>9. Files'
    <3>1. (job'.pc = "down") = (job.pc = "down")
      BY <1>1, <2>6
    <3> QED
      BY <1>0, <2>1, <2>5, <3>1, FilesSame
  <2> QED
    BY <2>4, <2>5, <2>6, <2>7, <2>8, <2>9, TypesMade
<1> QED
  BY <1>3, <1>4, <1>5, <1>6, <1>7 DEF Reading

\* A drive closes.
LEMMA EndingTypes ==
  ASSUME Types, Ending
  PROVE  Types'
<1>0. NativeOK /\ StoredOK /\ MemoryOK /\ JobOK /\ BootOK /\ HistoryOK /\ UsedOK /\ QueueOK /\ Files /\ Control
  BY TypesAre
<1>1. job.pc \in {"close", "store", "after", "discard"}
  BY DEF Ending, CloseCheckpoint, StoreDrive, StoreFails, StopCapture, DiscardJournals
<1>2. CASE CloseCheckpoint
  <2>1. /\ job.pc = "close" /\ Judge(engine.d, job.how, engine.rows) /\ job' = At("store")
        /\ UNCHANGED <<native, marker, rides, memory, inbox, boot, cancelled, unqueued>>
    BY <1>2 DEF CloseCheckpoint
  <2>2. PICK bad \in BOOLEAN :
          Fails("checkpoint", bad) /\ trip' = (IF bad THEN trip ELSE Checkpoint(engine.d, engine.rows))
    BY <1>2 DEF CloseCheckpoint
  <2>3. engine.d \in Drives /\ engine.rows \in RowSets /\ job.how \in {"native", "driver", "auto"}
    BY <1>0, <2>1 DEF MemoryOK, Control
  <2>4. StoredOK'
    <3>1. Checkpoint(engine.d, engine.rows) \in TripType /\ trip \in TripType
      BY <1>0, <2>3, CheckpointIs DEF StoredOK, TripType
    <3> QED
      BY <1>0, <2>1, <2>2, <3>1 DEF StoredOK, TripType
  <2>5. HistoryOK'
    BY <1>0, <2>1, <2>3 DEF HistoryOK, Judge
  <2>6. UsedOK' /\ used'.kills = used.kills
    BY <1>0, <2>2, FaultCounted
  <2>7. JobOK' /\ job'.pc = "store"
    BY <2>1, AtIs DEF PCs
  <2>8. NativeOK' /\ MemoryOK' /\ BootOK' /\ QueueOK'
    BY <2>1, PartsSame
  <2>9. Control'
    <3>1. UNCHANGED <<engine, live, failed>>
      BY <2>1 DEF memory
    <3> QED
      BY <1>0, <2>1, <2>3, <2>7, <3>1 DEF Control, AtRest, Closing
  <2>10. Files'
    <3>1. (job'.pc = "down") = (job.pc = "down")
      BY <2>1, <2>7
    <3> QED
      BY <1>0, <2>1, <2>6, <3>1, FilesSame
  <2> QED
    BY <2>4, <2>5, <2>6, <2>7, <2>8, <2>9, <2>10, TypesMade
<1>3. CASE StoreDrive \/ StoreFails
  <2>0. Closing.d \in Drives /\ Closing \in SessionType
    BY <1>0, <1>3 DEF StoreDrive, StoreFails, Control, Closing, MemoryOK, SessionType
  <2>1. /\ job.pc = "store" /\ engine' = NoSession /\ live' = NotLive /\ job' = Back
        /\ UNCHANGED <<native, marker, rides, captureOn, inbox, boot, history>>
    BY <1>3 DEF StoreDrive, StoreFails, stored
  <2>2. trip' \in TripType
    BY <1>0, <1>3, <2>0, ClosedIs DEF StoreDrive, StoreFails, stored, StoredOK, TripType
  <2>3. MemoryOK'
    <3>1. discards' \subseteq Drives
      BY <1>0, <1>3, <2>0 DEF StoreDrive, StoreFails, MemoryOK
    <3>2. failed' \in [d : Drives \cup {NoDrive}, rows : RowSets]
      BY <1>0, <1>3, <2>0, NothingIs DEF StoreDrive, StoreFails, MemoryOK, SessionType
    <3> QED
      BY <1>0, <2>1, <3>1, <3>2, NothingIs DEF MemoryOK
  <2>4. StoredOK'
    BY <1>0, <2>1, <2>2 DEF StoredOK, TripType
  <2>5. UsedOK' /\ used'.kills = used.kills
    BY <1>0, <1>3, FaultCounted DEF StoreDrive, StoreFails, UsedOK
  <2>6. JobOK' /\ job'.pc = (IF boot.on THEN "ended" ELSE "after")
    BY <2>1, AtIs DEF Back, PCs
  <2>7. NativeOK' /\ BootOK' /\ HistoryOK' /\ QueueOK'
    BY <2>1, PartsSame
  <2>8. Control'
    BY <1>0, <2>1, <2>6, NothingIs DEF Control, AtRest
  <2>9. Files'
    <3>1. (job'.pc = "down") = (job.pc = "down")
      BY <2>1, <2>6
    <3> QED
      BY <1>0, <2>1, <2>5, <3>1, FilesSame
  <2> QED
    BY <2>3, <2>4, <2>5, <2>6, <2>7, <2>8, <2>9, TypesMade
<1>4. CASE StopCapture
  <2>1. /\ job.pc = "after" /\ captureOn' = FALSE /\ record' = NoDrive /\ job' = At("discard") /\ engine.d = NoDrive
        /\ UNCHANGED <<journal, stored, engine, live, discards, failed, inbox, boot, history, used>>
    BY <1>4 DEF StopCapture, Overrun
  <2>2. NativeOK' /\ MemoryOK'
    BY <1>0, <2>1 DEF NativeOK, MemoryOK
  <2>3. JobOK' /\ job'.pc = "discard"
    BY <2>1, AtIs DEF PCs
  <2>4. StoredOK' /\ BootOK' /\ HistoryOK' /\ QueueOK' /\ UsedOK' /\ used'.kills = used.kills
    BY <2>1, PartsSame
  <2>5. Control'
    BY <1>0, <2>1, <2>3 DEF Control, AtRest
  <2>6. Files'
    <3>1. (job'.pc = "down") = (job.pc = "down")
      BY <2>1, <2>3
    <3> QED
      BY <1>0, <2>1, <2>4, <3>1, FilesKept
  <2> QED
    BY <2>2, <2>3, <2>4, <2>5, <2>6, TypesMade
<1>5. CASE DiscardJournals
  <2>1. /\ job.pc \in {"discard", "after"} /\ discards' = discards \cap {live.d} /\ job' = At("ready")
        /\ journal' = [d \in Drives |-> IF d \in discards \ {live.d, record}
                                        THEN [journal[d] EXCEPT !.state = "gone"] ELSE journal[d]]
        /\ UNCHANGED <<record, stored, engine, live, captureOn, failed, inbox, boot, history, used>>
    BY <1>5 DEF DiscardJournals
  <2>2. \A d \in Drives : /\ journal'[d].rows = journal[d].rows /\ journal'[d].top = journal[d].top
                          /\ journal'[d] \in [state : {"none", "here", "gone"}, rows : RowSets, top : 0 .. MaxSeq]
    BY <1>0, <2>1 DEF NativeOK
  <2>3. NativeOK'
    BY <1>0, <2>1, <2>2 DEF NativeOK
  <2>4. MemoryOK'
    BY <1>0, <2>1 DEF MemoryOK
  <2>5. JobOK' /\ job'.pc = "ready"
    BY <2>1, AtIs DEF PCs
  <2>6. StoredOK' /\ BootOK' /\ HistoryOK' /\ QueueOK' /\ UsedOK' /\ used'.kills = used.kills
    BY <2>1, PartsSame
  <2>7. Control'
    BY <1>0, <2>1, <2>5 DEF Control, AtRest
  <2>8. Files'
    <3>1. (job'.pc = "down") = (job.pc = "down")
      BY <2>1, <2>5
    <3>2. record' # NoDrive => Journaled(record)'
      <4>1. record' # NoDrive => record' = record /\ record \in Drives /\ journal'[record] = journal[record]
        BY <1>0, <2>1 DEF NativeOK
      <4> QED
        BY <1>0, <4>1 DEF Files, Journaled
    <3> QED
      BY <1>0, <2>1, <2>2, <2>6, <3>1, <3>2, FilesKept
  <2> QED
    BY <2>3, <2>4, <2>5, <2>6, <2>7, <2>8, TypesMade
<1> QED
  BY <1>2, <1>3, <1>4, <1>5 DEF Ending

\* The event a task takes.
LEMMA TakesIs ==
  ASSUME QueueOK, NEW k, Takes(k)
  PROVE  /\ Event \in Tasked /\ Event.d \in Drives /\ (k = "row" => Event.row \in Rows) /\ QueueOK'
         /\ job.pc = "ready" /\ inbox \in Seq(Tasked) /\ Len(inbox) > 0 /\ inbox' = Tail(inbox)
<1>1. inbox \in Seq(Tasked) /\ inbox # <<>> /\ inbox' = Tail(inbox) /\ Head(inbox).k = k /\ job.pc = "ready"
  BY DEF QueueOK, Takes
<1>2. Head(inbox) \in Tasked /\ Tail(inbox) \in Seq(Tasked) /\ Len(inbox) > 0
  BY <1>1
<1> QED
  BY <1>1, <1>2 DEF Event, QueueOK, Tasked, TaskType

\* An event passed over.
LEMMA PassOverTypes ==
  ASSUME Types, PassOver, job.pc = "ready", used'.kills = used.kills
  PROVE  NativeOK' /\ StoredOK' /\ MemoryOK' /\ JobOK' /\ BootOK' /\ HistoryOK' /\ Files' /\ Control'
<1>0. Files /\ Control
  BY TypesAre
<1>1. job' = At("after") /\ UNCHANGED <<native, stored, memory, boot, history>>
  BY DEF PassOver
<1>2. JobOK' /\ job'.pc = "after"
  BY <1>1, AtIs DEF PCs
<1>3. NativeOK' /\ StoredOK' /\ MemoryOK' /\ BootOK' /\ HistoryOK'
  BY <1>1, PartsSame
<1>4. Control'
  <2>1. UNCHANGED <<engine, live, boot>>
    BY <1>1 DEF memory
  <2> QED
    BY <1>0, <1>2, <2>1 DEF Control, AtRest
<1>5. Files'
  <2>1. (job'.pc = "down") = (job.pc = "down")
    BY <1>2
  <2> QED
    BY <1>0, <1>1, <2>1, FilesSame
<1> QED
  BY <1>2, <1>3, <1>4, <1>5

\* A close, or a finalize again, is begun.
LEMMA CloseBegins ==
  ASSUME Types, job.pc = "ready", UNCHANGED <<native, stored, memory, boot, history, used>>,
         \/ engine.d # NoDrive /\ \E how \in {"driver", "auto"} : job' = Close(how)
         \/ engine.d = NoDrive /\ failed.d # NoDrive /\ job' = At("store")
  PROVE  NativeOK' /\ StoredOK' /\ MemoryOK' /\ JobOK' /\ BootOK' /\ HistoryOK' /\ UsedOK' /\ Files' /\ Control'
<1>0. Files /\ Control
  BY TypesAre
<1>1. /\ JobOK'
      /\ \/ job'.pc = "close" /\ engine.d # NoDrive /\ job'.how \in {"driver", "auto"}
         \/ job'.pc = "store" /\ engine.d = NoDrive /\ failed.d # NoDrive
  <2>1. CASE engine.d # NoDrive /\ \E how \in {"driver", "auto"} : job' = Close(how)
    <3>1. PICK how \in {"driver", "auto"} : job' = Close(how)
      BY <2>1
    <3>2. how \in Hows
      BY DEF Hows
    <3> QED
      BY <2>1, <3>1, <3>2, CloseIs
  <2>2. CASE engine.d = NoDrive /\ failed.d # NoDrive /\ job' = At("store")
    BY <2>2, AtIs DEF PCs
  <2> QED
    BY <2>1, <2>2
<1>2. NativeOK' /\ StoredOK' /\ MemoryOK' /\ BootOK' /\ HistoryOK' /\ UsedOK' /\ used'.kills = used.kills
  BY PartsSame
<1>3. Control'
  <2>1. UNCHANGED <<engine, live, failed, boot>>
    BY DEF memory
  <2> QED
    BY <1>0, <1>1, <2>1 DEF Control, AtRest, Closing
<1>4. Files'
  <2>1. (job'.pc = "down") = (job.pc = "down")
    BY <1>1
  <2> QED
    BY <1>0, <1>2, <2>1, FilesSame
<1> QED
  BY <1>1, <1>2, <1>3, <1>4

\* The host takes an event.
LEMMA TasksTypes ==
  ASSUME Types, Tasks
  PROVE  Types'
<1>0. NativeOK /\ StoredOK /\ MemoryOK /\ JobOK /\ BootOK /\ HistoryOK /\ UsedOK /\ QueueOK /\ Files /\ Control
  BY TypesAre
<1>1. ~boot.on /\ job.pc = "ready"
  <2>1. job.pc = "ready"
    BY DEF Tasks, OnLiveRow, OnDriveStarted, OnDriveEnded, OnDriveCancelled, OnEnd, FinalizeAgain, OnCancel, Tick, Takes
  <2> QED
    BY <1>0, <2>1 DEF Control
<1>2. ASSUME NEW d \in Drives, NEW row \in Rows \cup {0}, NEW how \in {"begun", "gap", "ended"},
             job' = Drain(d, row, how, Uncapped), UNCHANGED <<native, boot, history>>, UsedOK', used'.kills = used.kills,
             StoredOK', MemoryOK', engine'.d = live'.d, live'.d = d, how = "gap" => row \in Rows
      PROVE  NativeOK' /\ JobOK' /\ BootOK' /\ HistoryOK' /\ Files' /\ Control'
  <2>1. JobOK' /\ job'.pc = "drain" /\ job'.d = d /\ job'.row = row /\ job'.how = how
    <3>1. how \in Hows /\ Uncapped \in 0 .. Uncapped
      BY SeqsAre DEF Hows
    <3> QED
      BY <1>2, <3>1, DrainIs
  <2>2. NativeOK' /\ BootOK' /\ HistoryOK'
    BY <1>2, PartsSame
  <2>3. Control'
    <3>1. d # NoDrive
      BY DrivesAre
    <3> QED
      BY <1>0, <1>1, <1>2, <2>1, <3>1 DEF Control, AtRest
  <2>4. Files'
    <3>1. (job'.pc = "down") = (job.pc = "down")
      BY <1>1, <2>1
    <3> QED
      BY <1>0, <1>2, <3>1, FilesSame
  <2> QED
    BY <2>1, <2>2, <2>3, <2>4
<1>3. CASE OnLiveRow
  <2>1. Takes("row") /\ QueueOK' /\ Event.row \in Rows
    BY <1>0, <1>3, TakesIs DEF OnLiveRow
  <2>2. CASE PassOver /\ UNCHANGED used
    BY <1>1, <2>1, <2>2, PassOverTypes, PartsSame, TypesMade
  <2>3. CASE live.d # NoDrive /\ job' = Drain(live.d, Event.row, "gap", Uncapped)
             /\ UNCHANGED <<native, stored, memory, boot, history, used>>
    <3>1. live.d \in Drives /\ engine.d = live.d
      BY <1>0, <2>3 DEF MemoryOK, Control
    <3>2. StoredOK' /\ MemoryOK' /\ UsedOK' /\ used'.kills = used.kills
      BY <2>3, PartsSame
    <3>3. engine' = engine /\ live' = live
      BY <2>3 DEF memory
    <3>4. Event.row \in Rows \cup {0}
      BY <2>1
    <3>5. NativeOK' /\ JobOK' /\ BootOK' /\ HistoryOK' /\ Files' /\ Control'
      BY <1>2, <2>1, <2>3, <3>1, <3>2, <3>3, <3>4
    <3> QED
      BY <2>1, <3>2, <3>5, TypesMade
  <2>4. CASE live.d # NoDrive /\ TakeLiveRow(Event.row)
    <3>1. engine.d # NoDrive
      BY <1>0, <2>4 DEF Control
    <3> QED
      BY <1>1, <2>1, <2>4, <3>1, TakeLiveRowTypes, TypesMade
  <2> QED
    BY <1>3, <2>2, <2>3, <2>4 DEF OnLiveRow
<1>4. CASE OnDriveStarted
  <2>1. Takes("started") /\ QueueOK' /\ Event.d \in Drives
    BY <1>0, <1>4, TakesIs DEF OnDriveStarted
  <2>2. PICK listed \in BOOLEAN :
          /\ Fails("list", ~listed)
          /\ \/ PassOver
             \/ /\ OpenDrive(Session(Event.d, {})) /\ live' = [d |-> Event.d, seq |-> 0] /\ captureOn' = TRUE
                /\ job' = Drain(Event.d, 0, "begun", Uncapped)
                /\ UNCHANGED <<native, marker, rides, discards, boot, history>>
    BY <1>4 DEF OnDriveStarted
  <2>3. UsedOK' /\ used'.kills = used.kills
    BY <1>0, <2>2, FaultCounted
  <2>4. CASE PassOver
    BY <1>1, <2>1, <2>3, <2>4, PassOverTypes, TypesMade
  <2>5. CASE /\ OpenDrive(Session(Event.d, {})) /\ live' = [d |-> Event.d, seq |-> 0] /\ captureOn' = TRUE
             /\ job' = Drain(Event.d, 0, "begun", Uncapped)
             /\ UNCHANGED <<native, marker, rides, discards, boot, history>>
    <3>1. Session(Event.d, {}) \in SessionType /\ Session(Event.d, {}).d = Event.d
      BY <2>1 DEF Session, SessionType, RowSets
    <3>2. trip' \in TripType /\ engine' = Session(Event.d, {}) /\ failed' = NoSession
      BY <1>0, <2>5, <3>1, OpenIs
    <3>3. engine' \in [d : Drives \cup {NoDrive}, rows : RowSets] /\ engine'.d = Event.d
      BY <3>1, <3>2 DEF SessionType
    <3>4. live' \in [d : Drives \cup {NoDrive}, seq : 0 .. MaxSeq] /\ live'.d = Event.d
      BY <2>1, <2>5, SeqsAre
    <3>5. MemoryOK' /\ StoredOK'
      BY <1>0, <2>5, <3>2, <3>3, <3>4, NothingIs DEF MemoryOK, StoredOK, TripType
    <3>6. NativeOK' /\ JobOK' /\ BootOK' /\ HistoryOK' /\ Files' /\ Control'
      BY <1>2, <2>1, <2>3, <2>5, <3>3, <3>4, <3>5
    <3> QED
      BY <2>1, <2>3, <3>5, <3>6, TypesMade
  <2> QED
    BY <2>2, <2>4, <2>5
<1>5. CASE OnDriveEnded
  <2>1. Takes("ended") /\ QueueOK' /\ Event.d \in Drives
    BY <1>0, <1>5, TakesIs DEF OnDriveEnded
  <2>2. CASE Holding(Event.d)
    <3>1. /\ captureOn' = FALSE /\ job' = Drain(Event.d, 0, "ended", Uncapped)
          /\ UNCHANGED <<native, stored, engine, live, discards, failed, boot, history, used>>
      BY <1>5, <2>2 DEF OnDriveEnded
    <3>2. MemoryOK'
      BY <1>0, <3>1 DEF MemoryOK
    <3>3. StoredOK' /\ UsedOK' /\ used'.kills = used.kills
      BY <3>1, PartsSame
    <3>4. engine'.d = live'.d /\ live'.d = Event.d
      BY <1>0, <2>2, <3>1 DEF Control, Holding
    <3>5. NativeOK' /\ JobOK' /\ BootOK' /\ HistoryOK' /\ Files' /\ Control'
      BY <1>2, <2>1, <3>1, <3>2, <3>3, <3>4
    <3> QED
      BY <2>1, <3>2, <3>3, <3>5, TypesMade
  <2>3. CASE ~Holding(Event.d)
    <3>1. PICK listed \in BOOLEAN :
            /\ Fails("list", ~listed)
            /\ \/ PassOver
               \/ engine.d = NoDrive /\ AdoptEnded(Event.d) /\ UNCHANGED <<native, marker, rides, captureOn, boot, history>>
      BY <1>5, <2>3 DEF OnDriveEnded, TakesIn
    <3>2. UsedOK' /\ used'.kills = used.kills
      BY <1>0, <3>1, FaultCounted
    <3>3. CASE PassOver
      BY <1>1, <2>1, <3>2, <3>3, PassOverTypes, TypesMade
    <3>4. CASE engine.d = NoDrive /\ AdoptEnded(Event.d) /\ UNCHANGED <<native, marker, rides, captureOn, boot, history>>
      <4>1. live.d = NoDrive
        BY <1>0, <3>4 DEF Control
      <4>2. /\ StoredOK' /\ MemoryOK' /\ JobOK'
            /\ \/ job'.pc = "after" /\ engine'.d = NoDrive /\ live'.d = NoDrive
               \/ /\ job'.pc = "drain" /\ job'.d = live'.d /\ job'.how = "adopted"
                  /\ engine'.d = live'.d /\ live'.d # NoDrive
        BY <1>1, <2>1, <3>4, <4>1, AdoptEndedTypes, DrivesAre
      <4>3. NativeOK' /\ BootOK' /\ HistoryOK'
        BY <3>4, PartsSame
      <4>4. Control'
        BY <1>0, <1>1, <3>4, <4>2 DEF Control, AtRest
      <4>5. Files'
        <5>1. (job'.pc = "down") = (job.pc = "down")
          BY <1>1, <4>2
        <5> QED
          BY <1>0, <3>2, <3>4, <5>1, FilesSame
      <4> QED
        BY <2>1, <3>2, <4>2, <4>3, <4>4, <4>5, TypesMade
    <3> QED
      BY <3>1, <3>3, <3>4
  <2> QED
    BY <2>2, <2>3
<1>6. CASE OnDriveCancelled
  <2>1. Takes("cancelled") /\ QueueOK' /\ Event.d \in Drives
    BY <1>0, <1>6, TakesIs DEF OnDriveCancelled
  <2>2. CASE CancelDrive(Event.d, FALSE)
    BY <1>1, <2>1, <2>2, CancelDriveTypes, TypesMade
  <2>3. CASE PassOver /\ UNCHANGED used
    BY <1>1, <2>1, <2>3, PassOverTypes, PartsSame, TypesMade
  <2> QED
    BY <1>6, <2>2, <2>3 DEF OnDriveCancelled
<1>7. CASE OnEnd
  <2>1. Takes("end") /\ QueueOK'
    BY <1>0, <1>7, TakesIs DEF OnEnd
  <2>2. CASE engine.d # NoDrive /\ job' = Close("driver") /\ UNCHANGED <<native, stored, memory, boot, history, used>>
    BY <1>1, <2>1, <2>2, CloseBegins, TypesMade
  <2>3. CASE PassOver /\ UNCHANGED used
    BY <1>1, <2>1, <2>3, PassOverTypes, PartsSame, TypesMade
  <2> QED
    BY <1>7, <2>2, <2>3 DEF OnEnd
<1>8. CASE FinalizeAgain
  <2>1. Takes("again") /\ QueueOK' /\ Event.d \in Drives
    BY <1>0, <1>8, TakesIs DEF FinalizeAgain
  <2>2. CASE engine.d = NoDrive /\ failed.d = Event.d /\ job' = At("store")
             /\ UNCHANGED <<native, stored, memory, boot, history, used>>
    BY <1>1, <2>1, <2>2, CloseBegins, DrivesAre, TypesMade
  <2>3. CASE PassOver /\ UNCHANGED used
    BY <1>1, <2>1, <2>3, PassOverTypes, PartsSame, TypesMade
  <2> QED
    BY <1>8, <2>2, <2>3 DEF FinalizeAgain
<1>9. CASE OnCancel
  <2>1. Takes("cancel") /\ QueueOK'
    BY <1>0, <1>9, TakesIs DEF OnCancel
  <2>2. CASE engine.d # NoDrive /\ CancelDrive(engine.d, live.d = engine.d)
    <3>1. engine.d \in Drives /\ (live.d = engine.d) \in BOOLEAN
      BY <1>0, <2>2 DEF MemoryOK
    <3> QED
      BY <1>1, <2>1, <2>2, <3>1, CancelDriveTypes, TypesMade
  <2>3. CASE PassOver /\ UNCHANGED used
    BY <1>1, <2>1, <2>3, PassOverTypes, PartsSame, TypesMade
  <2> QED
    BY <1>9, <2>2, <2>3 DEF OnCancel
<1>10. CASE Tick
  <2>1. engine.d # NoDrive /\ job' = Close("auto") /\ UNCHANGED <<native, stored, memory, inbox, boot, history, used>>
    BY <1>10 DEF Tick
  <2> QED
    BY <1>1, <2>1, CloseBegins, PartsSame, TypesMade
<1> QED
  BY <1>3, <1>4, <1>5, <1>6, <1>7, <1>8, <1>9, <1>10 DEF Tasks

\* Every step keeps the types.
LEMMA StepTypes ==
  ASSUME Types, [Next]_vars
  PROVE  Types'
<1>1. CASE UNCHANGED vars
  <2>1. UNCHANGED <<native, stored, memory, inbox, job, boot, history, used>>
    BY <1>1 DEF vars
  <2>2. /\ NativeOK' /\ StoredOK' /\ MemoryOK' /\ JobOK' /\ BootOK' /\ HistoryOK' /\ UsedOK' /\ QueueOK'
        /\ used'.kills = used.kills
    BY <2>1, PartsSame
  <2>3. Control'
    <3>1. UNCHANGED <<engine, live, failed, marker, job, boot>>
      BY <2>1 DEF memory, stored
    <3> QED
      BY <3>1, TypesAre DEF Control, Closing
  <2>4. Files'
    BY <2>1, <2>2, FilesSame, TypesAre
  <2> QED
    BY <2>2, <2>3, <2>4, TypesMade
<1>2. Over => UNCHANGED vars
  BY DEF Over
<1> QED
  BY <1>1, <1>2, NativeTypes, LaunchTypes, KillTypes, DriverTypes, RecoveryTypes, BootTypes, ReadingTypes, EndingTypes,
     CancellingTypes, TasksTypes DEF Next, Host

\* At first nothing has begun.
LEMMA InitTypes ==
  ASSUME Init
  PROVE  Types
<1>1. NativeOK
  BY SeqsAre DEF Init, NativeOK, RowSets
<1>2. StoredOK /\ MemoryOK /\ BootOK
  BY NothingIs DEF Init, StoredOK, MemoryOK, BootOK, Absent, RowSets
<1>3. HistoryOK /\ UsedOK
  BY ConstantsAre DEF Init, HistoryOK, UsedOK, RowSets
<1>4. JobOK /\ job.pc = "ready"
  BY SeqsAre DEF Init, JobOK, At, Job
<1>5. QueueOK /\ inbox \in Seq(TaskType)
  <2>1. <<>> \in Seq(Tasked) /\ <<>> \in Seq(TaskType)
    OBVIOUS
  <2> QED
    BY <2>1 DEF Init, QueueOK
<1>6. Control
  BY <1>4, NothingIs DEF Init, Control, AtRest
<1>7. Files
  <2>1. Relaunches = 0
    BY <1>4 DEF Init, Relaunches
  <2>2. \A d \in Drives : journal[d].rows = {} /\ journal[d].top = 0
    BY DEF Init
  <2>3. Cardinality({}) = 0
    BY FS_EmptySet
  <2>4. 0 * ResumeGap = 0
    BY ConstantsAre
  <2>5. \A d \in Drives : /\ journal[d].rows \subseteq {Row(d, s) : s \in 1 .. journal[d].top}
                          /\ Cardinality(journal[d].rows) <= MaxRows
                          /\ journal[d].top <= Cardinality(journal[d].rows) + Relaunches * ResumeGap
    <3>1. TAKE d \in Drives
    <3>2. Cardinality(journal[d].rows) = 0 /\ 0 <= MaxRows
      <4>1. journal[d].rows = {}
        BY <2>2
      <4> QED
        BY <2>3, <4>1, ConstantsAre
    <3>3. Relaunches * ResumeGap = 0
      BY <2>1, <2>4
    <3> QED
      BY <2>2, <3>2, <3>3
  <2> QED
    BY <1>4, <2>5 DEF Files, Init
<1>8. TypeOK
  BY <1>1, <1>2, <1>3, <1>4, <1>5, Zenon
     DEF TypeOK, TaskType, NativeOK, StoredOK, MemoryOK, JobOK, BootOK, HistoryOK, UsedOK
<1> QED
  BY <1>5, <1>6, <1>7, <1>8 DEF Types, QueueOK

\* What the parts hold is of the types (the host, the detector, the tables of drives).
THEOREM TypeCorrect == Spec => []TypeOK
<1>1. Init => Types
  BY InitTypes
<1>2. Types /\ [Next]_vars => Types'
  BY StepTypes
<1>3. Types => TypeOK
  BY DEF Types
<1> QED
  BY <1>1, <1>2, <1>3, PTL DEF Spec
-----------------------------------------------------------------------------
(* What the parts know of one another. *)

Queued(q) == {q[i] : i \in DOMAIN q}

\* An end asked for again comes after the start of its drive.
InOrder(q) ==
  \A i, j \in DOMAIN q : i < j /\ q[i].k = "again" /\ q[j].k = "started" => q[i].d # q[j].d

\* What is in a queue of some members is one of them.
LEMMA QueuedIn ==
  ASSUME NEW S, NEW q \in Seq(S)
  PROVE  Queued(q) \subseteq S
  BY DEF Queued

\* What is queued, after an event joins,
LEMMA QueuedEmitted ==
  ASSUME NEW q \in Seq(Tasked), NEW t \in Tasked
  PROVE  Queued(Emitted(q, t)) \subseteq Queued(q) \cup {t} /\ (~Starting => Emitted(q, t) = Append(q, t))
<1> DEFINE S == Queued(q) \cup {t}
<1>1. q \in Seq(S) /\ t \in S
  BY DEF Queued
<1>2. Emitted(q, t) \in Seq(S)
  <2> HIDE DEF S
  <2> QED
    BY <1>1, EmittedIs
<1>3. Queued(Emitted(q, t)) \subseteq S
  <2> HIDE DEF S
  <2> QED
    BY <1>2, QueuedIn
<1>4. ~Starting => Emitted(q, t) = Append(q, t)
  BY DEF Emitted
<1> QED
  BY <1>3, <1>4

\* a tap does,
LEMMA QueuedAppend ==
  ASSUME NEW q \in Seq(Tasked), NEW t \in Tasked
  PROVE  Queued(Append(q, t)) = Queued(q) \cup {t}
<1>1. Len(q) \in Nat /\ Len(Append(q, t)) = Len(q) + 1 /\ Append(q, t)[Len(q) + 1] = t
      /\ \A i \in 1 .. Len(q) : Append(q, t)[i] = q[i]
  OBVIOUS
<1>2. DOMAIN q = 1 .. Len(q) /\ DOMAIN Append(q, t) = 1 .. Len(q) + 1
  BY <1>1
<1> QED
  BY <1>1, <1>2 DEF Queued

\* the first is taken,
LEMMA QueuedTail ==
  ASSUME NEW q \in Seq(Tasked), q # <<>>
  PROVE  Queued(q) = {Head(q)} \cup Queued(Tail(q))
<1>1. Len(q) \in Nat /\ Len(q) > 0 /\ Len(Tail(q)) = Len(q) - 1 /\ Head(q) = q[1]
      /\ \A i \in 1 .. Len(q) - 1 : Tail(q)[i] = q[i + 1]
  OBVIOUS
<1>2. DOMAIN q = 1 .. Len(q) /\ DOMAIN Tail(q) = 1 .. Len(q) - 1
  BY <1>1
<1>3. \A i \in 2 .. Len(q) : i - 1 \in 1 .. Len(q) - 1 /\ q[i] = Tail(q)[i - 1]
  BY <1>1
<1>4. ASSUME NEW u \in Queued(q)
      PROVE  u \in {Head(q)} \cup Queued(Tail(q))
  <2>1. PICK i \in 1 .. Len(q) : u = q[i]
    BY <1>2, <1>4 DEF Queued
  <2>2. CASE i = 1
    BY <1>1, <2>1, <2>2
  <2>3. CASE i # 1
    <3>1. i \in 2 .. Len(q)
      BY <1>1, <2>3
    <3> QED
      BY <1>2, <1>3, <2>1, <3>1 DEF Queued
  <2> QED
    BY <2>2, <2>3
<1>5. {Head(q)} \cup Queued(Tail(q)) \subseteq Queued(q)
  BY <1>1, <1>2 DEF Queued
<1> QED
  BY <1>4, <1>5

\* and all are delivered.
LEMMA QueuedDelivered ==
  ASSUME NEW q \in Seq(Tasked)
  PROVE  Queued(Delivered(q)) \subseteq Queued(q)
<1> DEFINE S == Queued(q)
<1>1. q \in Seq(S)
  BY DEF Queued
<1>2. Delivered(q) \in Seq(S)
  <2> HIDE DEF S
  <2> QED
    BY <1>1, DeliveredIs
<1> HIDE DEF S
<1>3. Queued(Delivered(q)) \subseteq S
  BY <1>2, QueuedIn
<1> QED
  BY <1>3 DEF S

\* The order stands as an event or a tap joins,
LEMMA OrderAppend ==
  ASSUME NEW q \in Seq(Tasked), NEW t \in Tasked, InOrder(q),
         t.k = "started" => \A u \in Queued(q) : u.k = "again" => u.d # t.d
  PROVE  InOrder(Append(q, t))
<1>1. Len(q) \in Nat /\ Len(Append(q, t)) = Len(q) + 1 /\ Append(q, t)[Len(q) + 1] = t
      /\ \A i \in 1 .. Len(q) : Append(q, t)[i] = q[i]
  OBVIOUS
<1>2. DOMAIN q = 1 .. Len(q) /\ DOMAIN Append(q, t) = 1 .. Len(q) + 1
  BY <1>1
<1>3. ASSUME NEW i \in 1 .. Len(q) + 1, NEW j \in 1 .. Len(q) + 1, i < j,
             Append(q, t)[i].k = "again", Append(q, t)[j].k = "started"
      PROVE  Append(q, t)[i].d # Append(q, t)[j].d
  <2>1. i \in 1 .. Len(q) /\ Append(q, t)[i] = q[i] /\ q[i] \in Queued(q)
    BY <1>1, <1>2, <1>3 DEF Queued
  <2>2. CASE j \in 1 .. Len(q)
    BY <1>1, <1>2, <1>3, <2>1, <2>2 DEF InOrder
  <2>3. CASE j = Len(q) + 1
    BY <1>1, <1>3, <2>1, <2>3
  <2> QED
    BY <1>1, <2>2, <2>3
<1> QED
  BY <1>2, <1>3 DEF InOrder

\* as the first is taken, which is before all others,
LEMMA OrderTail ==
  ASSUME NEW q \in Seq(Tasked), q # <<>>, InOrder(q)
  PROVE  /\ InOrder(Tail(q))
         /\ Head(q).k = "again" => \A u \in Queued(Tail(q)) : u.k = "started" => u.d # Head(q).d
<1>1. Len(q) \in Nat /\ Len(q) > 0 /\ Len(Tail(q)) = Len(q) - 1 /\ Head(q) = q[1]
      /\ \A i \in 1 .. Len(q) - 1 : Tail(q)[i] = q[i + 1]
  OBVIOUS
<1>2. DOMAIN q = 1 .. Len(q) /\ DOMAIN Tail(q) = 1 .. Len(q) - 1
  BY <1>1
<1>3. InOrder(Tail(q))
  <2>1. ASSUME NEW i \in 1 .. Len(q) - 1, NEW j \in 1 .. Len(q) - 1, i < j,
               Tail(q)[i].k = "again", Tail(q)[j].k = "started"
        PROVE  Tail(q)[i].d # Tail(q)[j].d
    <3>1. i + 1 \in 1 .. Len(q) /\ j + 1 \in 1 .. Len(q) /\ i + 1 < j + 1
          /\ Tail(q)[i] = q[i + 1] /\ Tail(q)[j] = q[j + 1]
      BY <1>1, <2>1
    <3> QED
      BY <1>2, <2>1, <3>1 DEF InOrder
  <2> QED
    BY <1>2, <2>1 DEF InOrder
<1>4. ASSUME Head(q).k = "again", NEW u \in Queued(Tail(q)), u.k = "started"
      PROVE  u.d # Head(q).d
  <2>1. PICK i \in 1 .. Len(q) - 1 : u = q[i + 1]
    BY <1>1, <1>2 DEF Queued
  <2>2. 1 \in 1 .. Len(q) /\ i + 1 \in 1 .. Len(q) /\ 1 < i + 1
    BY <1>1
  <2> QED
    BY <1>1, <1>2, <1>4, <2>1, <2>2 DEF InOrder
<1> QED
  BY <1>3, <1>4

\* and where none is asked for again.
LEMMA OrderNone ==
  ASSUME NEW q, \A u \in Queued(q) : u.k # "again"
  PROVE  InOrder(q)
  BY DEF InOrder, Queued

-----------------------------------------------------------------------------
(* A drive that has begun stays so, and its file does not come back. *)

Aged == \A d \in Drives : (Begun(d) => Begun(d)') /\ (Begun(d) /\ Journaled(d)' => Journaled(d))

\* What every step does to the files.
LEMMA StepAges ==
  ASSUME NativeOK, [Next]_vars
  PROVE  Aged
<1>1. journal' = journal => Aged
  BY DEF Aged, Begun, Journaled
<1>2. CASE NativeBegins
  <2>1. PICK d \in Drives : ~Begun(d) /\ journal' = [journal EXCEPT ![d] = [state |-> "here", rows |-> {Row(d, 1)}, top |-> 1]]
    BY <1>2 DEF NativeBegins
  <2> QED
    BY <2>1 DEF NativeOK, Aged, Begun, Journaled
<1>3. CASE NativeRow
  <2> DEFINE row == Row(record, journal[record].top + 1)
  <2>1. journal' = [journal EXCEPT ![record].rows = @ \cup {row}, ![record].top = SeqOf(row)]
    BY <1>3 DEF NativeRow
  <2> HIDE DEF row
  <2>2. \A d \in Drives : journal'[d].state = journal[d].state
    BY <2>1 DEF NativeOK
  <2> QED
    BY <2>2 DEF Aged, Begun, Journaled
<1>4. CASE ResumeDrive
  <2>1. journal' = [journal EXCEPT ![record].top = @ + ResumeGap]
    BY <1>4 DEF ResumeDrive
  <2>2. \A d \in Drives : journal'[d].state = journal[d].state
    BY <2>1 DEF NativeOK
  <2> QED
    BY <2>2 DEF Aged, Begun, Journaled
<1>5. CASE TellNative \/ DiscardJournals
  <2>1. \A d \in Drives : journal'[d] = journal[d] \/ (Begun(d) => journal'[d] = [journal[d] EXCEPT !.state = "gone"])
    BY <1>5 DEF TellNative, DiscardJournals
  <2>2. \A d \in Drives : journal'[d].state = journal[d].state \/ (Begun(d) => journal'[d].state = "gone")
    BY <2>1 DEF NativeOK
  <2>3. \A d \in Drives : Begun(d) => Begun(d)'
    BY <2>2 DEF Begun
  <2> QED
    BY <2>2, <2>3 DEF Aged, Begun, Journaled
<1>6. CASE FinishPendingCancel
  <2>1. journal' = journal \/ journal' = [journal EXCEPT ![marker.d].state = "gone"]
    BY <1>6 DEF FinishPendingCancel
  <2>2. \A d \in Drives : journal'[d].state = journal[d].state \/ journal'[d].state = "gone"
    BY <2>1 DEF NativeOK
  <2> QED
    BY <2>2 DEF Aged, Begun, Journaled
<1>7. CASE NativeEnds \/ LaunchAtRest \/ OrphanAtLaunch \/ Kill \/ Driver
  BY <1>1, <1>7 DEF NativeEnds, LaunchAtRest, OrphanAtLaunch, Kill, Driver, TapEnd, TapEndAgain, TapCancel, Taps, native
<1>8. CASE NoPendingCancel \/ RecoverEmpty \/ RecoverNewest \/ RecoverOrphan \/ RecoverFails \/ RecoveryOver \/ Boot
  BY <1>1, <1>8 DEF NoPendingCancel, RecoverEmpty, RecoverNewest, RecoverOrphan, RecoverFails, RecoveryOver, Boot, BootReads,
       BootAdoptsEnded, BootContinues, BootTakesLive, BootRests, native
<1>9. CASE Reading \/ CloseCheckpoint \/ StoreDrive \/ StoreFails \/ StopCapture \/ QueueRide \/ DropTrip \/ DropFails \/ ClearMarker
  BY <1>1, <1>9 DEF Reading, ReadPage, ReadFails, TakenUp, GapFilled, TakeLiveRow, NativeEndTaken, ReleaseDrive, CloseCheckpoint,
       StoreDrive, StoreFails, StopCapture, QueueRide, DropTrip, DropFails, ClearMarker, native
<1>10. CASE Tasks
  BY <1>1, <1>10 DEF Tasks, OnLiveRow, TakeLiveRow, OnDriveStarted, OnDriveEnded, OnDriveCancelled, CancelDrive, OnEnd,
       FinalizeAgain, OnCancel, Tick, PassOver, native
<1>11. CASE UNCHANGED vars \/ Over
  BY <1>1, <1>11 DEF vars, native, Over
<1> QED
  BY <1>2, <1>3, <1>4, <1>5, <1>6, <1>7, <1>8, <1>9, <1>10, <1>11
     DEF Next, Native, Launch, Host, Recovery, Ending, Cancelling

-----------------------------------------------------------------------------
(* What the parts know of one another, and the steps that leave it as it was. *)

\* Whoever is known has begun.
BegunInv ==
  /\ \A d \in Drives : trip[d].status # "absent" => Begun(d)
  /\ \A d \in {engine.d, live.d, failed.d, marker.d, boot.adopt, boot.live} \ {NoDrive} : Begun(d)
  /\ \A d \in discards \cup cancelled \cup boot.todo : Begun(d)
  /\ \A t \in Queued(inbox) : Begun(t.d)

\* What waits is still true as it is taken.
FromNative == {"row", "started", "ended", "cancelled"}
Waiting ==
  /\ \A t \in Queued(inbox) : t.k = "ended" => t.d # record
  /\ \A t \in Queued(inbox) : t.k = "cancelled" => ~Journaled(t.d)
  /\ Starting => \A t \in Queued(inbox) : t.k \in FromNative /\ (t.k = "started" => trip[t.d].status = "absent")
  /\ InOrder(inbox)
  /\ job.pc = "down" => inbox = <<>>

\* The drives a launch has still to take up: each is taken up once, and none is open or recorded.
Ahead == boot.todo \cup ({boot.adopt, boot.live} \ {NoDrive})
Launching ==
  /\ boot.live \notin boot.todo
  /\ boot.on /\ engine.d # NoDrive => engine.d \notin Ahead /\ engine.d # record
  /\ boot.on /\ ~Starting => record \notin boot.todo
  /\ boot.adopt # NoDrive => trip[boot.adopt].status = "recording"
  /\ boot.adopt # NoDrive /\ ~Starting /\ "list" \notin Faults =>
       ~Journaled(boot.adopt) \/ boot.adopt \in boot.todo \cup {boot.live}
  /\ Starting => boot.live = NoDrive /\ (boot.adopt # NoDrive => boot.todo = {})
  /\ job.pc = "boot" => boot.todo = {}
  /\ job.pc = "recover" => boot.todo \subseteq Open

\* The host believes that native captures while what it holds, or is about to discard, is recorded.
Capture ==
  /\ record # NoDrive /\ (live.d = record \/ record \in discards) => captureOn
  /\ job.pc = "discard" => ~captureOn
  /\ job.pc \in {"ready", "store"} /\ engine.d = NoDrive /\ ~boot.on => ~captureOn
  /\ job.pc \in {"drain", "drained"} /\ job.how \in {"ended", "adopted"} => live.d # record

\* The journals to go are of no drive open, or to be taken up.
Discards ==
  /\ \A d \in discards : d # engine.d /\ d \notin Ahead
  /\ job.pc \in (AtRest \cup {"ready"}) \ {"ended"} => discards = {}
  /\ engine.d # NoDrive \/ boot.on => record \notin discards

Knows == BegunInv /\ Waiting /\ Launching /\ Capture /\ Discards

\* Drives that had begun are known.
LEMMA BegunKept ==
  ASSUME Types', Aged,
         \A d \in Drives : trip'[d].status # "absent" => Begun(d),
         \A d \in {engine'.d, live'.d, failed'.d, marker'.d, boot'.adopt, boot'.live} \ {NoDrive} : Begun(d),
         \A d \in discards' \cup cancelled' \cup boot'.todo : Begun(d),
         \A t \in Queued(inbox') : Begun(t.d)
  PROVE  BegunInv'
<1>1. /\ {engine'.d, live'.d, failed'.d, marker'.d, boot'.adopt, boot'.live} \ {NoDrive} \subseteq Drives
      /\ discards' \cup cancelled' \cup boot'.todo \subseteq Drives /\ \A t \in Queued(inbox') : t.d \in Drives
  <2>1. /\ engine'.d \in Drives \cup {NoDrive} /\ live'.d \in Drives \cup {NoDrive} /\ failed'.d \in Drives \cup {NoDrive}
        /\ marker'.d \in Drives \cup {NoDrive} /\ boot'.adopt \in Drives \cup {NoDrive} /\ boot'.live \in Drives \cup {NoDrive}
        /\ boot'.todo \subseteq Drives /\ discards' \subseteq Drives /\ cancelled' \subseteq Drives
    BY Zenon DEF Types, TypeOK
  <2>2. inbox' \in Seq(Tasked)
    BY DEF Types
  <2>3. \A t \in Queued(inbox') : t.d \in Drives
    BY <2>2, QueuedIn DEF Tasked, TaskType
  <2> QED
    BY <2>1, <2>3
<1> QED
  BY <1>1 DEF BegunInv, Aged

\* What waits is true, after a step that tells of nothing new.
LEMMA WaitingKept ==
  ASSUME Types, BegunInv, Waiting, Aged, inbox' = inbox \/ (inbox # <<>> /\ inbox' = Tail(inbox)),
         record' \in {record, NoDrive}, Starting' => Starting, job'.pc = "down" => inbox' = <<>>,
         Starting' => \A d \in Drives : trip[d].status = "absent" => trip'[d].status = "absent"
  PROVE  Waiting'
<1>1. inbox \in Seq(Tasked) /\ \A t \in Queued(inbox) : t.d \in Drives
  BY QueuedIn DEF Types, Tasked, TaskType
<1>2. Queued(inbox') \subseteq Queued(inbox) /\ InOrder(inbox')
  <2>1. CASE inbox' = inbox
    BY <2>1 DEF Waiting
  <2>2. CASE inbox # <<>> /\ inbox' = Tail(inbox)
    BY <1>1, <2>2, QueuedTail, OrderTail DEF Waiting
  <2> QED
    BY <2>1, <2>2
<1>3. \A t \in Queued(inbox') : t.k = "ended" => t.d # record'
  BY <1>1, <1>2, DrivesAre DEF Waiting
<1>4. \A t \in Queued(inbox') : t.k = "cancelled" => ~Journaled(t.d)'
  BY <1>1, <1>2 DEF Waiting, Aged, BegunInv
<1>5. Starting' => \A t \in Queued(inbox') : t.k \in FromNative /\ (t.k = "started" => trip'[t.d].status = "absent")
  BY <1>1, <1>2 DEF Waiting
<1> QED
  BY <1>2, <1>3, <1>4, <1>5 DEF Waiting

\* No launch is under way.
LEMMA NotLaunching ==
  ASSUME boot' = NoBoot
  PROVE  Launching'
  BY DEF Launching, NoBoot, Starting

\* One is, and goes on as it was.
LEMMA LaunchingKept ==
  ASSUME Types, BegunInv, Aged, Launching, boot' = boot, engine'.d \in {engine.d, NoDrive}, record' \in {record, NoDrive},
         Starting' = Starting, boot.adopt # NoDrive => trip'[boot.adopt].status = trip[boot.adopt].status,
         job'.pc = "boot" => boot.todo = {}, job'.pc = "recover" => boot.todo \subseteq Open'
  PROVE  Launching'
<1>1. NoDrive \notin boot.todo /\ boot.adopt \in Drives \cup {NoDrive}
  BY DrivesAre DEF Types, TypeOK
<1>2. boot.adopt # NoDrive /\ Journaled(boot.adopt)' => Journaled(boot.adopt)
  BY <1>1 DEF Aged, BegunInv
<1>3. Ahead' = Ahead
  BY DEF Ahead
<1>4. /\ boot'.live \notin boot'.todo
      /\ boot'.on /\ engine'.d # NoDrive => engine'.d \notin Ahead' /\ engine'.d # record'
      /\ boot'.on /\ ~Starting' => record' \notin boot'.todo
  BY <1>1, <1>3 DEF Launching
<1>5. /\ boot'.adopt # NoDrive => trip'[boot'.adopt].status = "recording"
      /\ boot'.adopt # NoDrive /\ ~Starting' /\ "list" \notin Faults =>
           ~Journaled(boot.adopt)' \/ boot'.adopt \in boot'.todo \cup {boot'.live}
      /\ Starting' => boot'.live = NoDrive /\ (boot'.adopt # NoDrive => boot'.todo = {})
  BY <1>2 DEF Launching
<1> QED
  BY <1>4, <1>5 DEF Launching

-----------------------------------------------------------------------------
(* What the parts know of one another: native, launches, kills, taps. *)

\* No drive is of the drives known that has not begun.
LEMMA UnbegunIs ==
  ASSUME Types, Knows, NEW d \in Drives, ~Begun(d)
  PROVE  /\ d # record /\ d # engine.d /\ d # live.d /\ d # failed.d /\ d # marker.d /\ d # boot.adopt /\ d # boot.live
         /\ d \notin discards \cup cancelled \cup boot.todo /\ \A t \in Queued(inbox) : t.d # d
         /\ trip[d].status = "absent"
<1>1. d # NoDrive
  BY DrivesAre
<1>2. record # NoDrive => Begun(record)
  BY TypesAre DEF Files, Journaled, Begun
<1> QED
  BY <1>1, <1>2 DEF Knows, BegunInv

\* A drive begins.
LEMMA BeginKnows ==
  ASSUME Types, Types', Knows, Aged, NativeBegins
  PROVE  Knows'
<1>0. /\ BegunInv /\ Waiting /\ Launching /\ Capture /\ Discards
      /\ inbox \in Seq(Tasked) /\ NativeOK /\ NativeOK' /\ Control /\ Files
  BY TypesAre, TypesAre DEF Knows, Types, NativeOK, TypeOK
<1>1. PICK d \in Drives :
        /\ ~Begun(d) /\ record' = d
        /\ journal' = [journal EXCEPT ![d] = [state |-> "here", rows |-> {Row(d, 1)}, top |-> 1]]
        /\ inbox' = Emitted(Emitted(inbox, Task("row", d, Row(d, 1))), Task("started", d, 0))
  BY DEF NativeBegins
<1>2. /\ job.pc # "down" /\ UNCHANGED <<stored, memory, job, boot, history, used>>
      /\ UNCHANGED <<trip, marker, engine, live, captureOn, discards, failed, cancelled>>
  BY DEF NativeBegins, Running, stored, memory, history
<1>3. /\ d # NoDrive /\ d # engine.d /\ d # live.d /\ d # failed.d /\ d # marker.d /\ d # boot.adopt /\ d # boot.live
      /\ d \notin discards \cup cancelled \cup boot.todo /\ \A t \in Queued(inbox) : t.d # d
      /\ trip[d].status = "absent"
  BY <1>1, UnbegunIs, DrivesAre
<1>4. Begun(d)' /\ \A e \in Drives : Journaled(e)' /\ e # d => Journaled(e)
  BY <1>0, <1>1 DEF NativeOK, Begun, Journaled
<1> DEFINE r == Task("row", d, Row(d, 1))  s == Task("started", d, 0)  q == Emitted(inbox, r)
<1>5. r \in Tasked /\ s \in Tasked /\ r.k = "row" /\ s.k = "started" /\ r.d = d /\ s.d = d
  BY RowIs, SeqsAre DEF Task, Tasked, TaskType
<1> HIDE DEF r, s
<1>6. q \in Seq(Tasked) /\ Queued(q) \subseteq Queued(inbox) \cup {r} /\ (~Starting => q = Append(inbox, r))
  BY <1>0, <1>5, EmittedIs, QueuedEmitted
<1> HIDE DEF q
<1>7. inbox' = Emitted(q, s) /\ Queued(inbox') \subseteq Queued(inbox) \cup {r, s} /\ (~Starting => inbox' = Append(q, s))
  BY <1>1, <1>5, <1>6, QueuedEmitted DEF q, r, s
<1>8. Starting' = Starting /\ Ahead' = Ahead
  BY <1>2 DEF Starting, Ahead
<1>9. BegunInv'
  <2>1. \A t \in Queued(inbox') : t.d \in Drives
    <3>1. \A t \in Queued(inbox) : t.d \in Drives
      BY <1>0, QueuedIn DEF Tasked, TaskType
    <3> QED
      BY <1>5, <1>7, <3>1
  <2>2. \A e \in Drives : Begun(e) => Begun(e)'
    BY DEF Aged
  <2>3. \A e \in {engine'.d, live'.d, failed'.d, marker'.d, boot'.adopt, boot'.live} \ {NoDrive} : e \in Drives /\ Begun(e)
    BY <1>0, <1>2 DEF BegunInv, Types, TypeOK
  <2>4. \A e \in discards' \cup cancelled' \cup boot'.todo : e \in Drives /\ Begun(e)
    BY <1>0, <1>2 DEF BegunInv, Types, TypeOK
  <2>5. \A t \in Queued(inbox') : Begun(t.d)'
    BY <1>0, <1>4, <1>5, <1>7, <2>1, <2>2 DEF BegunInv
  <2> QED
    BY <1>0, <1>2, <2>2, <2>3, <2>4, <2>5 DEF BegunInv
<1>10. Waiting'
  <2>1. \A t \in Queued(inbox') : t.k = "ended" => t.d # record'
    BY <1>1, <1>3, <1>5, <1>7
  <2>2. \A t \in Queued(inbox') : t.k = "cancelled" => ~Journaled(t.d)'
    <3>1. \A t \in Queued(inbox) : t.d \in Drives
      BY <1>0, QueuedIn DEF Tasked, TaskType
    <3> QED
      BY <1>0, <1>3, <1>4, <1>5, <1>7, <3>1 DEF Waiting
  <2>3. Starting' => \A t \in Queued(inbox') : t.k \in FromNative /\ (t.k = "started" => trip'[t.d].status = "absent")
    BY <1>0, <1>2, <1>3, <1>5, <1>7, <1>8 DEF Waiting, FromNative
  <2>4. InOrder(inbox')
    <3>1. CASE Starting
      <4>1. \A t \in Queued(inbox') : t.k # "again"
        BY <1>0, <1>5, <1>7, <3>1 DEF Waiting, FromNative
      <4> QED
        BY <4>1, OrderNone
    <3>2. CASE ~Starting
      <4>1. InOrder(q) /\ Queued(q) = Queued(inbox) \cup {r}
        BY <1>0, <1>5, <1>6, <3>2, OrderAppend, QueuedAppend DEF Waiting
      <4>2. \A u \in Queued(q) : u.k = "again" => u.d # s.d
        BY <1>3, <1>5, <4>1
      <4> QED
        BY <1>5, <1>6, <1>7, <3>2, <4>1, <4>2, OrderAppend
    <3> QED
      BY <3>1, <3>2
  <2> QED
    BY <1>2, <2>1, <2>2, <2>3, <2>4 DEF Waiting
<1>11. Launching'
  <2>1. boot.adopt # NoDrive => (Journaled(boot.adopt)' => Journaled(boot.adopt))
    <3>1. boot.adopt \in Drives \cup {NoDrive}
      BY DEF Types, TypeOK
    <3> QED
      BY <1>2, <1>3, <1>4, <3>1 DEF Journaled
  <2>2. Open' = Open
    BY <1>2 DEF Open
  <2>3. record' \notin boot'.todo /\ engine'.d # record'
    BY <1>1, <1>2, <1>3
  <2>4. boot' = boot /\ engine' = engine /\ trip' = trip /\ job' = job
    BY <1>2
  <2>5. /\ boot'.live \notin boot'.todo
        /\ boot'.on /\ engine'.d # NoDrive => engine'.d \notin Ahead' /\ engine'.d # record'
        /\ boot'.on /\ ~Starting' => record' \notin boot'.todo
        /\ boot'.adopt # NoDrive => trip'[boot'.adopt].status = "recording"
    BY <1>0, <1>8, <2>3, <2>4 DEF Launching
  <2>6. boot'.adopt # NoDrive /\ ~Starting' /\ "list" \notin Faults =>
           ~Journaled(boot.adopt)' \/ boot'.adopt \in boot'.todo \cup {boot'.live}
    BY <1>0, <1>8, <2>1, <2>4 DEF Launching
  <2>7. /\ Starting' => boot'.live = NoDrive /\ (boot'.adopt # NoDrive => boot'.todo = {})
        /\ job'.pc = "boot" => boot'.todo = {}
        /\ job'.pc = "recover" => boot'.todo \subseteq Open'
    BY <1>0, <1>8, <2>2, <2>4 DEF Launching
  <2> QED
    BY <2>5, <2>6, <2>7 DEF Launching
<1>12. Capture'
  BY <1>0, <1>1, <1>2, <1>3 DEF Capture
<1>13. Discards'
  BY <1>0, <1>1, <1>2, <1>3, <1>8 DEF Discards
<1> QED
  BY <1>9, <1>10, <1>11, <1>12, <1>13 DEF Knows

\* A step that leaves all but native's record and what waits as it was.
LEMMA NativeKnows ==
  ASSUME Types, Types', Knows, Aged, UNCHANGED <<trip, marker, engine, live, captureOn, discards, failed, cancelled, job, boot>>,
         record' \in {record, NoDrive}, Waiting', \A t \in Queued(inbox') : Begun(t.d)
  PROVE  Knows'
<1>0. BegunInv /\ Waiting /\ Launching /\ Capture /\ Discards
  BY DEF Knows
<1>1. BegunInv'
  BY <1>0, BegunKept DEF BegunInv
<1>2. Starting' = Starting /\ Ahead' = Ahead /\ Open' = Open
  BY DEF Starting, Ahead, Open
<1>3. Launching'
  <2>1. /\ job'.pc = "boot" => boot.todo = {}
        /\ job'.pc = "recover" => boot.todo \subseteq Open'
    BY <1>0, <1>2 DEF Launching
  <2> QED
    BY <1>0, <1>2, <2>1, LaunchingKept
<1>4. NoDrive \notin discards /\ live.d \in Drives \cup {NoDrive}
  BY DrivesAre DEF Types, TypeOK
<1>5. Capture'
  <2>1. job.pc \in {"drain", "drained"} => live.d # NoDrive
    BY TypesAre DEF Control
  <2> QED
    BY <1>0, <2>1 DEF Capture
<1>6. Discards'
  BY <1>0, <1>2, <1>4 DEF Discards
<1> QED
  BY <1>1, <1>3, <1>5, <1>6 DEF Knows

\* An event of native's joins what waits.
LEMMA EmittedKnows ==
  ASSUME Types, Types', Knows, Aged, NEW t \in Tasked, inbox' = Emitted(inbox, t), Begun(t.d), t.k \in {"row", "ended", "cancelled"},
         t.k = "ended" => t.d # record', t.k = "cancelled" => ~Journaled(t.d)',
         record' \in {record, NoDrive}, job'.pc # "down",
         Starting' => Starting, \A d \in Drives : trip[d].status = "absent" => trip'[d].status = "absent"
  PROVE  Waiting' /\ \A u \in Queued(inbox') : Begun(u.d)
<1>0. BegunInv /\ Waiting /\ inbox \in Seq(Tasked) /\ \A u \in Queued(inbox) : u.d \in Drives
  BY QueuedIn DEF Knows, Types, Tasked, TaskType
<1>1. Queued(inbox') \subseteq Queued(inbox) \cup {t} /\ (~Starting => inbox' = Append(inbox, t))
  BY <1>0, QueuedEmitted
<1>2. \A u \in Queued(inbox') : Begun(u.d)
  BY <1>0, <1>1 DEF BegunInv
<1>3. \A u \in Queued(inbox') : u.k = "ended" => u.d # record'
  BY <1>0, <1>1, DrivesAre DEF Waiting
<1>4. \A u \in Queued(inbox') : u.k = "cancelled" => ~Journaled(u.d)'
  BY <1>0, <1>1 DEF Waiting, Aged, BegunInv
<1>5. Starting' => \A u \in Queued(inbox') : u.k \in FromNative /\ (u.k = "started" => trip'[u.d].status = "absent")
  BY <1>0, <1>1 DEF Waiting, FromNative
<1>6. InOrder(inbox')
  <2>1. CASE Starting
    <3>1. \A u \in Queued(inbox') : u.k # "again"
      BY <1>0, <1>1, <2>1 DEF Waiting, FromNative
    <3> QED
      BY <3>1, OrderNone
  <2>2. CASE ~Starting
    BY <1>0, <1>1, <2>2, OrderAppend DEF Waiting
  <2> QED
    BY <2>1, <2>2
<1> QED
  BY <1>2, <1>3, <1>4, <1>5, <1>6 DEF Waiting

\* Native's steps.
LEMMA NativeStepKnows ==
  ASSUME Types, Types', Knows, Aged, Native
  PROVE  Knows'
<1>1. CASE NativeBegins
  BY <1>1, BeginKnows
<1>2. ASSUME NEW t \in Tasked, inbox' = Emitted(inbox, t), t.d = record, record # NoDrive, job.pc # "down",
             t.k = "row" \/ (t.k = "ended" /\ record' = NoDrive), record' \in {record, NoDrive},
             UNCHANGED <<trip, marker, engine, live, captureOn, discards, failed, cancelled, job, boot>>
      PROVE  Knows'
  <2>1. record \in Drives /\ Begun(record)
    BY <1>2, TypesAre DEF NativeOK, Files, Journaled, Begun
  <2>2. Starting' = Starting
    BY <1>2 DEF Starting
  <2>3. Waiting' /\ \A u \in Queued(inbox') : Begun(u.d)
    BY <1>2, <2>1, <2>2, EmittedKnows, DrivesAre
  <2> QED
    BY <1>2, <2>3, NativeKnows
<1>3. CASE NativeRow
  <2> DEFINE t == Task("row", record, Row(record, journal[record].top + 1))
  <2>1. inbox' = Emitted(inbox, t) /\ record # NoDrive /\ job.pc # "down" /\ record' = record
        /\ UNCHANGED <<trip, marker, engine, live, captureOn, discards, failed, cancelled, job, boot>>
    BY <1>3 DEF NativeRow, stored, memory, history, Running
  <2>2. t \in Tasked /\ t.d = record /\ t.k = "row"
    BY <1>3, NextRowIs DEF Task, Tasked, TaskType
  <2> HIDE DEF t
  <2> QED
    BY <1>2, <2>1, <2>2
<1>4. CASE NativeEnds
  <2> DEFINE t == Task("ended", record, 0)
  <2>1. inbox' = Emitted(inbox, t) /\ record # NoDrive /\ job.pc # "down" /\ record' = NoDrive
        /\ UNCHANGED <<trip, marker, engine, live, captureOn, discards, failed, cancelled, job, boot>>
    BY <1>4 DEF NativeEnds, stored, memory, history, Running
  <2>2. t \in Tasked /\ t.d = record /\ t.k = "ended"
    BY <2>1, TypesAre DEF NativeOK, Task, Tasked, TaskType
  <2> HIDE DEF t
  <2> QED
    BY <1>2, <2>1, <2>2
<1> QED
  BY <1>1, <1>3, <1>4 DEF Native

\* What a write of the table of trips does to where a trip stands.
LEMMA WritesAre ==
  ASSUME StoredOK, NEW d \in Drives, NEW s \in SessionType, NEW rows
  PROVE  /\ \A e \in Drives : Checkpoint(d, rows)[e].status =
              IF e = d /\ trip[d].status # "stored" THEN "recording" ELSE trip[e].status
         /\ \A e \in Drives \ {d} : Dropped(d)[e] = trip[e]
         /\ Dropped(d)[d].status \in {"absent", trip[d].status}
         /\ \A e \in Drives \ {s.d} : CloseDrive(s)[e] = trip[e]
         /\ CloseDrive(s)[s.d].status \in {"absent", "stored"}
<1>1. s.d \in Drives /\ trip = [e \in Drives |-> trip[e]]
      /\ \A e \in Drives : trip[e] \in [status : {"absent", "recording", "stored"}, rows : RowSets]
  BY DEF StoredOK, SessionType
<1>2. \A e \in Drives : Checkpoint(d, rows)[e].status =
        IF e = d /\ trip[d].status # "stored" THEN "recording" ELSE trip[e].status
  BY <1>1 DEF Checkpoint
<1>3. /\ \A e \in Drives \ {d} : Dropped(d)[e] = trip[e]
      /\ Dropped(d)[d].status \in {"absent", trip[d].status}
  BY <1>1 DEF Dropped, Absent
<1>4. /\ \A e \in Drives \ {s.d} : CloseDrive(s)[e] = trip[e]
      /\ CloseDrive(s)[s.d].status \in {"absent", "stored"}
  BY <1>1 DEF CloseDrive, Absent
<1> QED
  BY <1>2, <1>3, <1>4

\* A drive opens: its trip is recording, if there was none.
LEMMA OpensAre ==
  ASSUME StoredOK, NEW s \in SessionType, OpenDrive(s)
  PROVE  /\ engine' = s /\ failed' = NoSession
         /\ \A e \in Drives : trip'[e].status =
              IF e = s.d /\ trip[e].status = "absent" THEN "recording" ELSE trip[e].status
<1>1. s.d \in Drives
  BY DEF SessionType
<1>2. \A e \in Drives : Checkpoint(s.d, {})[e].status =
        IF e = s.d /\ trip[s.d].status # "stored" THEN "recording" ELSE trip[e].status
  BY <1>1, WritesAre
<1> QED
  BY <1>1, <1>2 DEF OpenDrive

\* A kill.
LEMMA KillKnows ==
  ASSUME Types, Types', Knows, Aged, Kill
  PROVE  Knows'
<1>0. BegunInv /\ Waiting /\ Launching /\ Capture /\ Discards
  BY DEF Knows
<1>1. /\ engine' = NoSession /\ live' = NotLive /\ captureOn' = FALSE /\ discards' = {} /\ failed' = NoSession
      /\ inbox' = <<>> /\ job' = At("down") /\ boot' = NoBoot
      /\ UNCHANGED <<record, journal, trip, marker, cancelled>>
  BY DEF Kill, native, stored, history
<1>2. /\ job'.pc = "down" /\ engine'.d = NoDrive /\ live'.d = NoDrive /\ failed'.d = NoDrive
      /\ ~boot'.on /\ boot'.todo = {} /\ boot'.adopt = NoDrive /\ boot'.live = NoDrive
  BY <1>1 DEF At, Job, NoSession, Session, NotLive, NoBoot
<1>3. Queued(inbox') = {} /\ InOrder(inbox')
  BY <1>1 DEF Queued, InOrder
<1>4. BegunInv'
  BY <1>0, <1>1, <1>2, <1>3, BegunKept DEF BegunInv
<1>5. Waiting' /\ Launching'
  BY <1>1, <1>2, <1>3, NotLaunching DEF Waiting, Starting
<1>6. Capture' /\ Discards'
  BY <1>1, <1>2 DEF Capture, Discards
<1> QED
  BY <1>4, <1>5, <1>6 DEF Knows

\* A step of the launch or of a cancel, which hold no drive and have no journals to discard.
LEMMA AtRestKnows ==
  ASSUME Types, Types', Knows, Aged, UNCHANGED <<engine, live, captureOn, discards, failed, cancelled>>,
         job.pc \in AtRest \ {"ended"}, job'.pc \notin {"discard", "ready", "store", "drain", "drained"},
         record' \in {record, NoDrive}, Waiting', Launching',
         \A d \in Drives : trip'[d].status # "absent" => Begun(d), marker'.d # NoDrive => Begun(marker'.d),
         \A d \in {boot'.adopt, boot'.live} \ {NoDrive} : Begun(d), \A d \in boot'.todo : Begun(d),
         \A t \in Queued(inbox') : Begun(t.d)
  PROVE  Knows'
<1>0. BegunInv /\ Capture /\ Discards /\ Control
  BY TypesAre DEF Knows
<1>1. engine.d = NoDrive /\ live.d = NoDrive /\ discards = {}
  BY <1>0 DEF Control, Discards
<1>2. BegunInv'
  BY <1>0, BegunKept DEF BegunInv
<1>3. Capture' /\ Discards'
  BY <1>1 DEF Capture, Discards
<1> QED
  BY <1>2, <1>3 DEF Knows

\* The process starts again.
LEMMA LaunchKnows ==
  ASSUME Types, Types', Knows, Aged, Launch
  PROVE  Knows'
<1>0. BegunInv /\ Waiting /\ Launching /\ Capture /\ Discards /\ Control /\ Files /\ NativeOK
  BY TypesAre DEF Knows
<1>1. /\ job.pc = "down" /\ job'.pc = "marker" /\ boot'.on /\ boot'.todo = {}
      /\ boot'.adopt = NoDrive /\ boot'.live = NoDrive /\ engine.d = NoDrive
      /\ UNCHANGED <<trip, marker, engine, live, captureOn, discards, failed, cancelled>>
  BY <1>0 DEF Launch, LaunchAtRest, ResumeDrive, OrphanAtLaunch, Launches, Running, At, Job, NoBoot, stored, memory,
       history, Control, AtRest
<1>2. inbox = <<>> /\ Queued(inbox) = {}
  BY <1>0, <1>1 DEF Waiting, Queued
<1>3. Starting' /\ job'.pc # "down"
  BY <1>1 DEF Starting
<1>4. /\ record' \in {record, NoDrive}
      /\ \/ inbox' = inbox
         \/ record \in Drives /\ Begun(record) /\ record' = NoDrive /\ inbox' = <<Task("ended", record, 0)>>
  <2>1. record # NoDrive => record \in Drives /\ Begun(record)
    BY <1>0 DEF NativeOK, Files, Journaled, Begun
  <2> QED
    BY <2>1 DEF Launch, LaunchAtRest, ResumeDrive, OrphanAtLaunch, native
<1>5. Waiting' /\ \A t \in Queued(inbox') : Begun(t.d)
  <2>1. CASE inbox' = inbox
    BY <1>2, <1>3, <2>1 DEF Waiting, InOrder
  <2>2. CASE record \in Drives /\ Begun(record) /\ record' = NoDrive /\ inbox' = <<Task("ended", record, 0)>>
    <3>1. Queued(inbox') = {Task("ended", record, 0)}
      BY <2>2 DEF Queued
    <3>2. \A t \in Queued(inbox') : t.k = "ended" /\ t.d = record
      BY <3>1 DEF Task
    <3>3. record # NoDrive
      BY <2>2, DrivesAre
    <3>4. InOrder(inbox')
      BY <3>2, OrderNone
    <3>5. \A t \in Queued(inbox') : t.k \in FromNative /\ t.k # "started" /\ t.k # "cancelled"
      BY <3>2 DEF FromNative
    <3> QED
      BY <1>3, <2>2, <3>2, <3>3, <3>4, <3>5 DEF Waiting
  <2> QED
    BY <1>4, <2>1, <2>2
<1>6. Launching'
  BY <1>1, <1>3 DEF Launching, Ahead
<1> QED
  <2>1. job.pc \in AtRest \ {"ended"} /\ job'.pc \notin {"discard", "ready", "store", "drain", "drained"}
    BY <1>1 DEF AtRest
  <2>2. /\ \A d \in Drives : trip'[d].status # "absent" => Begun(d)
        /\ marker'.d # NoDrive => Begun(marker'.d)
        /\ \A d \in {boot'.adopt, boot'.live} \ {NoDrive} : Begun(d)
        /\ \A d \in boot'.todo : Begun(d)
    BY <1>0, <1>1 DEF BegunInv
  <2> QED
    BY <1>1, <1>4, <1>5, <1>6, <2>1, <2>2, AtRestKnows

\* A tap.
LEMMA DriverKnows ==
  ASSUME Types, Types', Knows, Aged, Driver
  PROVE  Knows'
<1>0. BegunInv /\ Waiting /\ inbox \in Seq(Tasked) /\ \A u \in Queued(inbox) : u.d \in Drives
  BY QueuedIn DEF Knows, Types, Tasked, TaskType
<1>1. PICK t \in {Task("end", engine.d, 0), Task("again", failed.d, 0), Task("cancel", engine.d, 0)} :
        t.d # NoDrive /\ Taps(t)
  BY DEF Driver, TapEnd, TapEndAgain, TapCancel, Task
<1>2. /\ inbox' = Append(inbox, t) /\ job.pc # "down" /\ ~Starting
      /\ UNCHANGED <<record, journal, trip, marker, engine, live, captureOn, discards, failed, cancelled, job, boot>>
  BY <1>1 DEF Taps, Shown, Running, native, stored, memory, history
<1>3. t \in Tasked /\ Begun(t.d) /\ t.k \in {"end", "again", "cancel"}
  <2>1. engine.d \in Drives \cup {NoDrive} /\ failed.d \in Drives \cup {NoDrive}
    BY TypesAre DEF MemoryOK
  <2> QED
    BY <1>0, <1>1, <2>1 DEF BegunInv, Task, Tasked, TaskType
<1>4. Queued(inbox') = Queued(inbox) \cup {t} /\ InOrder(inbox')
  BY <1>0, <1>2, <1>3, QueuedAppend, OrderAppend DEF Waiting
<1>5. ~Starting'
  BY <1>2 DEF Starting
<1>6. \A u \in Queued(inbox') : u.k = "cancelled" => ~Journaled(u.d)'
  BY <1>0, <1>2, <1>3, <1>4 DEF Waiting, Journaled
<1>7. Waiting'
  BY <1>0, <1>2, <1>3, <1>4, <1>5, <1>6 DEF Waiting
<1>8. \A u \in Queued(inbox') : Begun(u.d)
  BY <1>0, <1>3, <1>4 DEF BegunInv
<1> QED
  BY <1>2, <1>7, <1>8, NativeKnows

\* Nothing happens.
LEMMA NothingKnows ==
  ASSUME Knows, UNCHANGED vars
  PROVE  Knows'
<1>1. /\ UNCHANGED <<record, journal, trip, marker, engine, live, captureOn, discards, failed, inbox, job, boot, cancelled>>
  BY DEF vars, native, stored, memory, history
<1>2. BegunInv' /\ Waiting'
  BY <1>1 DEF Knows, BegunInv, Waiting, Begun, Journaled, Starting
<1>3. Launching'
  BY <1>1 DEF Knows, Launching, Ahead, Open, Starting, Journaled
<1>4. Capture' /\ Discards'
  BY <1>1 DEF Knows, Capture, Discards, Ahead
<1> QED
  BY <1>2, <1>3, <1>4 DEF Knows

\* At first nobody is known.
LEMMA InitKnows ==
  ASSUME Init
  PROVE  Knows
<1>1. /\ record = NoDrive /\ engine.d = NoDrive /\ live.d = NoDrive /\ failed.d = NoDrive /\ marker.d = NoDrive
      /\ captureOn = FALSE /\ discards = {} /\ cancelled = {} /\ inbox = <<>> /\ job.pc = "ready" /\ ~boot.on
      /\ boot.todo = {} /\ boot.adopt = NoDrive /\ boot.live = NoDrive
      /\ \A d \in Drives : trip[d].status = "absent"
  BY DEF Init, NoSession, Session, NotLive, NoCancel, NoBoot, At, Job, Absent
<1>2. Queued(inbox) = {} /\ InOrder(inbox) /\ ~Starting
  BY <1>1 DEF Queued, InOrder, Starting
<1>3. BegunInv /\ Waiting
  BY <1>1, <1>2 DEF BegunInv, Waiting
<1>4. Launching /\ Capture /\ Discards
  BY <1>1, <1>2 DEF Launching, Capture, Discards, Ahead
<1> QED
  BY <1>3, <1>4 DEF Knows

-----------------------------------------------------------------------------
(* What the parts know of one another: recovery and cancels. *)

\* After a cancel.
LEMMA CancelOverIs ==
  ASSUME Types, CancelOver, job.pc \in {"marker", "ride", "drop", "clear"}
  PROVE  \/ /\ boot.on /\ Starting /\ Starting' /\ job'.pc = "recover" /\ boot'.on /\ boot'.todo = Open
            /\ boot'.adopt = NoDrive /\ boot'.live = NoDrive
         \/ ~boot.on /\ ~Starting /\ ~Starting' /\ job'.pc = "after" /\ boot' = boot /\ boot = NoBoot
<1>0. Control /\ BootOK
  BY TypesAre
<1>1. CASE boot.on
  <2>1. job' = At("recover") /\ boot' = [boot EXCEPT !.todo = Open] /\ boot = [NoBoot EXCEPT !.on = TRUE]
    BY <1>0, <1>1 DEF CancelOver, Control
  <2>2. job'.pc = "recover" /\ boot'.on /\ boot'.todo = Open /\ boot'.adopt = NoDrive /\ boot'.live = NoDrive
    BY <2>1 DEF At, Job, NoBoot
  <2> QED
    BY <1>1, <2>2 DEF Starting
<1>2. CASE ~boot.on
  <2>1. job' = At("after") /\ boot' = boot /\ boot = NoBoot
    BY <1>0, <1>2 DEF CancelOver, Control
  <2> QED
    BY <1>2, <2>1 DEF Starting, At, Job
<1> QED
  BY <1>1, <1>2

\* It leads on to a launch that knows what is open, or to the next task.
LEMMA CancelOverKnows ==
  ASSUME Types, Types', Knows, Aged, CancelOver, job.pc \in {"marker", "ride", "drop", "clear"},
         UNCHANGED <<record, trip, engine, live, captureOn, discards, failed, cancelled, inbox>>,
         marker' \in {marker, NoCancel}
  PROVE  Knows'
<1>0. BegunInv /\ Waiting /\ Launching /\ Control
  BY TypesAre DEF Knows
<1>1. \/ /\ boot.on /\ Starting /\ Starting' /\ job'.pc = "recover" /\ boot'.on /\ boot'.todo = Open
         /\ boot'.adopt = NoDrive /\ boot'.live = NoDrive
      \/ ~boot.on /\ ~Starting /\ ~Starting' /\ job'.pc = "after" /\ boot' = boot /\ boot = NoBoot
  BY CancelOverIs
<1>2. Waiting'
  <2>1. job'.pc # "down" /\ (Starting' => Starting)
    BY <1>1
  <2>2. \A d \in Drives : trip[d].status = "absent" => trip'[d].status = "absent"
    OBVIOUS
  <2> QED
    BY <1>0, <2>1, <2>2, WaitingKept
<1>3. engine.d = NoDrive /\ NoDrive \notin Open /\ Open' = Open
  BY <1>0, DrivesAre DEF Control, AtRest, Open
<1>4. Launching'
  BY <1>1, <1>3, NotLaunching DEF Launching, Ahead
<1>5. /\ \A d \in Drives : trip'[d].status # "absent" => Begun(d)
      /\ \A t \in Queued(inbox') : Begun(t.d)
      /\ marker'.d # NoDrive => Begun(marker'.d)
  BY <1>0, NothingIs DEF BegunInv
<1>6. /\ \A d \in {boot'.adopt, boot'.live} \ {NoDrive} : Begun(d)
      /\ \A d \in boot'.todo : Begun(d)
  BY <1>0, <1>1 DEF BegunInv, Open, NoBoot
<1>7. job.pc \in AtRest \ {"ended"} /\ job'.pc \notin {"discard", "ready", "store", "drain", "drained"}
  BY <1>1 DEF AtRest
<1> QED
  BY <1>2, <1>4, <1>5, <1>6, <1>7, AtRestKnows

\* A cancel goes on, and the launch with it as it was.
LEMMA CancelKnows ==
  ASSUME Types, Types', Knows, Aged, job.pc \in {"marker", "tell", "ride", "drop"}, job'.pc \in {"ride", "drop", "clear"},
         UNCHANGED <<engine, live, captureOn, discards, failed, cancelled, marker, boot>>, record' \in {record, NoDrive},
         Waiting', \A t \in Queued(inbox') : Begun(t.d),
         \A d \in Drives : trip'[d].status # "absent" => trip[d].status # "absent"
  PROVE  Knows'
<1>0. BegunInv /\ Launching /\ Control
  BY TypesAre DEF Knows
<1>1. boot.adopt = NoDrive /\ Starting' = Starting /\ engine.d = NoDrive
  <2>1. boot = NoBoot \/ boot = [NoBoot EXCEPT !.on = TRUE]
    BY <1>0 DEF Control
  <2>2. boot.on => job.pc # "tell"
    BY <1>0 DEF Control
  <2> QED
    BY <1>0, <2>1, <2>2 DEF NoBoot, Starting, Control, AtRest
<1>2. Launching'
  BY <1>0, <1>1, LaunchingKept
<1>3. /\ \A d \in Drives : trip'[d].status # "absent" => Begun(d)
      /\ marker'.d # NoDrive => Begun(marker'.d)
      /\ \A d \in {boot'.adopt, boot'.live} \ {NoDrive} : Begun(d)
      /\ \A d \in boot'.todo : Begun(d)
  BY <1>0 DEF BegunInv
<1>4. job.pc \in AtRest \ {"ended"} /\ job'.pc \notin {"discard", "ready", "store", "drain", "drained"}
  BY DEF AtRest
<1> QED
  BY <1>2, <1>3, <1>4, AtRestKnows

\* Native is told, of the drive it records and of the cancel's own.
LEMMA TellIs ==
  ASSUME Types, TellNative \/ FinishPendingCancel
  PROVE  /\ record' \in {record, NoDrive} /\ UNCHANGED <<engine, live, captureOn, discards, failed, cancelled, marker, trip, boot>>
         /\ \/ UNCHANGED <<record, inbox>>
            \/ /\ record \in Drives /\ record' = NoDrive /\ journal'[record].state # "here" /\ Begun(record)
               /\ inbox' = Emitted(inbox, Task("cancelled", record, 0))
<1>0. NativeOK /\ Files
  BY TypesAre
<1>1. UNCHANGED <<engine, live, captureOn, discards, failed, cancelled, marker, trip, boot>>
  BY DEF TellNative, FinishPendingCancel, stored, memory, history
<1>2. record # NoDrive => record \in Drives /\ Begun(record)
  BY <1>0 DEF NativeOK, Files, Journaled, Begun
<1>3. CASE TellNative
  <2>1. /\ record' = NoDrive
        /\ journal' = [d \in Drives |-> IF Journaled(d) /\ d \in Forgotten
                                        THEN [journal[d] EXCEPT !.state = "gone"] ELSE journal[d]]
        /\ inbox' = IF record = NoDrive THEN inbox ELSE Emitted(inbox, Task("cancelled", record, 0))
    BY <1>3 DEF TellNative
  <2>2. record # NoDrive => journal'[record].state # "here"
    <3>1. record \in Forgotten
      BY DEF Forgotten
    <3> QED
      BY <1>0, <1>2, <2>1, <3>1 DEF Journaled, NativeOK
  <2> QED
    BY <1>1, <1>2, <2>1, <2>2
<1>4. CASE FinishPendingCancel
  <2>1. /\ journal' = (IF marker.held THEN [journal EXCEPT ![marker.d].state = "gone"] ELSE journal) /\ marker.d # NoDrive
        /\ IF marker.held /\ record = marker.d
           THEN record' = NoDrive /\ inbox' = Emitted(inbox, Task("cancelled", record, 0))
           ELSE UNCHANGED <<record, inbox>>
    BY <1>4 DEF FinishPendingCancel
  <2>2. marker.held /\ record = marker.d => journal'[record].state # "here"
    BY <1>0, <1>2, <2>1 DEF Journaled, NativeOK
  <2> QED
    BY <1>1, <1>2, <2>1, <2>2
<1> QED
  BY <1>3, <1>4

\* The word of native waits.
LEMMA TellKnows ==
  ASSUME Types, Types', Knows, Aged, TellNative \/ FinishPendingCancel
  PROVE  Knows'
<1>0. BegunInv /\ Waiting /\ Launching /\ Control
  BY TypesAre DEF Knows
<1>1. /\ record' \in {record, NoDrive} /\ UNCHANGED <<engine, live, captureOn, discards, failed, cancelled, marker, trip, boot>>
      /\ \/ UNCHANGED <<record, inbox>>
         \/ /\ record \in Drives /\ record' = NoDrive /\ journal'[record].state # "here" /\ Begun(record)
            /\ inbox' = Emitted(inbox, Task("cancelled", record, 0))
  BY TellIs
<1>2. job.pc \in {"marker", "tell"} /\ job'.pc = "ride" /\ (job.pc = "tell" => ~boot.on)
  BY <1>0 DEF TellNative, FinishPendingCancel, Cancel, Job, Control
<1>3. Starting' = Starting
  BY <1>1, <1>2 DEF Starting
<1>4. Waiting' /\ \A t \in Queued(inbox') : Begun(t.d)
  <2>1. CASE UNCHANGED <<record, inbox>>
    <3>1. Waiting'
      BY <1>0, <1>1, <1>2, <1>3, <2>1, WaitingKept
    <3> QED
      BY <1>0, <2>1, <3>1 DEF BegunInv
  <2>2. CASE record \in Drives /\ record' = NoDrive /\ journal'[record].state # "here" /\ Begun(record)
             /\ inbox' = Emitted(inbox, Task("cancelled", record, 0))
    <3>1. PICK t \in Tasked : t.d = record /\ t.k = "cancelled" /\ inbox' = Emitted(inbox, t)
      <4>1. Task("cancelled", record, 0) \in Tasked
        BY <2>2 DEF Task, Tasked, TaskType
      <4> QED
        BY <2>2, <4>1 DEF Task
    <3>2. Begun(t.d) /\ ~Journaled(t.d)'
      BY <2>2, <3>1 DEF Journaled
    <3>3. t.k \in {"row", "ended", "cancelled"} /\ t.k # "ended" /\ job'.pc # "down" /\ (Starting' => Starting)
          /\ \A d \in Drives : trip[d].status = "absent" => trip'[d].status = "absent"
      BY <1>1, <1>2, <1>3, <3>1
    <3> QED
      BY <1>1, <3>1, <3>2, <3>3, EmittedKnows
  <2> QED
    BY <1>1, <2>1, <2>2
<1> QED
  BY <1>1, <1>2, <1>4, CancelKnows

\* The steps of a cancel.
LEMMA CancellingKnows ==
  ASSUME Types, Types', Knows, Aged, Cancelling
  PROVE  Knows'
<1>0. BegunInv /\ Waiting /\ Control /\ StoredOK /\ JobOK
  BY TypesAre DEF Knows
<1>1. CASE TellNative
  BY <1>1, TellKnows
<1>2. CASE QueueRide \/ DropTrip
  <2>1. /\ UNCHANGED <<record, engine, live, captureOn, discards, failed, cancelled, marker, boot, inbox>>
        /\ job.pc \in {"ride", "drop"} /\ job'.pc \in {"drop", "clear"}
        /\ trip' = trip \/ trip' = Dropped(job.d)
    BY <1>2 DEF QueueRide, DropTrip, native, memory, history, Cancel, Job
  <2>2. job.d \in Drives
    BY <1>0, <2>1 DEF Control, JobOK
  <2>3. \A d \in Drives : trip'[d].status # "absent" => trip[d].status # "absent"
    <3>1. /\ \A e \in Drives \ {job.d} : Dropped(job.d)[e] = trip[e]
          /\ Dropped(job.d)[job.d].status \in {"absent", trip[job.d].status}
      BY <1>0, <2>2 DEF Dropped, Absent, StoredOK
    <3> QED
      BY <2>1, <3>1
  <2>4. Starting' = Starting
    BY <2>1 DEF Starting
  <2>5. Waiting'
    BY <1>0, <2>1, <2>3, <2>4, WaitingKept
  <2>6. \A t \in Queued(inbox') : Begun(t.d)
    BY <1>0, <2>1 DEF BegunInv
  <2> QED
    BY <2>1, <2>3, <2>5, <2>6, CancelKnows
<1>3. CASE DropFails \/ ClearMarker
  <2>1. /\ CancelOver /\ job.pc \in {"drop", "clear"}
        /\ UNCHANGED <<record, trip, engine, live, captureOn, discards, failed, cancelled, inbox>>
        /\ marker' \in {marker, NoCancel}
    BY <1>3 DEF DropFails, ClearMarker, native, stored, memory, history
  <2> QED
    BY <2>1, CancelOverKnows
<1> QED
  BY <1>1, <1>2, <1>3 DEF Cancelling

\* The recovery.
LEMMA RecoveryKnows ==
  ASSUME Types, Types', Knows, Aged, Recovery
  PROVE  Knows'
<1>0. BegunInv /\ Waiting /\ Launching /\ Control /\ StoredOK /\ BootOK
  BY TypesAre DEF Knows
<1>1. CASE NoPendingCancel
  <2>1. /\ CancelOver /\ job.pc = "marker"
        /\ UNCHANGED <<record, trip, engine, live, captureOn, discards, failed, cancelled, inbox, marker>>
    BY <1>1 DEF NoPendingCancel, native, stored, memory, history
  <2> QED
    BY <2>1, CancelOverKnows
<1>2. CASE FinishPendingCancel
  BY <1>2, TellKnows
<1>3. CASE RecoverEmpty \/ RecoverNewest \/ RecoverOrphan \/ RecoverFails
  <2>1. /\ job.pc = "recover" /\ job' = job /\ boot.todo # {}
        /\ UNCHANGED <<record, engine, live, captureOn, discards, failed, cancelled, marker, inbox>>
    BY <1>3 DEF RecoverEmpty, RecoverNewest, RecoverOrphan, RecoverFails, Recovering, native, stored, memory, history
  <2>2. NextOpen \in boot.todo /\ NextOpen \in Drives
    BY <1>0, <2>1, NextIs DEF NextOpen
  <2>3. boot.on /\ Starting /\ boot.live = NoDrive /\ boot.adopt = NoDrive /\ boot.todo \subseteq Open /\ engine.d = NoDrive
    BY <1>0, <2>1 DEF Control, Starting, Launching, AtRest
  <2>4. trip[NextOpen].status = "recording"
    BY <2>2, <2>3 DEF Open
  <2>5. /\ \A d \in Drives \ {NextOpen} : trip'[d] = trip[d]
        /\ RecoverNewest => trip' = trip
    <3>1. Rebuilt(NextOpen) \in SessionType /\ Rebuilt(NextOpen).d = NextOpen
      BY <1>0, <2>2, RebuiltIs
    <3>2. \A d \in Drives \ {NextOpen} : CloseDrive(Rebuilt(NextOpen))[d] = trip[d]
      BY <1>0, <2>2, <3>1, WritesAre
    <3>3. \A d \in Drives \ {NextOpen} : [trip EXCEPT ![NextOpen] = Absent][d] = trip[d]
      BY <1>0 DEF StoredOK
    <3> QED
      BY <1>3, <3>2, <3>3 DEF RecoverEmpty, RecoverNewest, RecoverOrphan, RecoverFails, stored
  <2>6. \/ boot' = [boot EXCEPT !.todo = @ \ {NextOpen}]
        \/ RecoverNewest /\ boot' = [boot EXCEPT !.todo = {}, !.adopt = NextOpen]
    BY <1>3 DEF RecoverEmpty, RecoverNewest, RecoverOrphan, RecoverFails, Recovered
  <2>7. /\ boot'.on /\ boot'.live = NoDrive
        /\ \/ boot'.adopt = NoDrive /\ boot'.todo = boot.todo \ {NextOpen}
           \/ boot'.adopt = NextOpen /\ boot'.todo = {} /\ trip' = trip
    BY <1>0, <2>3, <2>5, <2>6 DEF BootOK
  <2>8. Starting'
    BY <2>1, <2>7 DEF Starting
  <2>9. /\ \A d \in Drives : trip'[d].status # "absent" => Begun(d)
        /\ \A d \in Drives : trip[d].status = "absent" => trip'[d].status = "absent"
    BY <1>0, <2>2, <2>4, <2>5 DEF BegunInv
  <2>10. Waiting'
    BY <1>0, <2>1, <2>3, <2>8, <2>9, WaitingKept
  <2>11. Launching'
    <3>1. boot'.todo \subseteq Open'
      BY <2>3, <2>5, <2>7 DEF Open
    <3>2. boot'.adopt # NoDrive => trip'[boot'.adopt].status = "recording"
      BY <2>4, <2>7
    <3>3. NoDrive \notin boot'.todo
      BY <1>0, <2>7, DrivesAre DEF BootOK
    <3>4. job'.pc # "boot" /\ engine'.d = NoDrive
      BY <2>1, <2>3
    <3> QED
      BY <2>7, <2>8, <3>1, <3>2, <3>3, <3>4 DEF Launching
  <2>12. /\ \A d \in {boot'.adopt, boot'.live} \ {NoDrive} : Begun(d)
         /\ \A d \in boot'.todo : Begun(d)
         /\ \A t \in Queued(inbox') : Begun(t.d)
         /\ marker'.d # NoDrive => Begun(marker'.d)
    BY <1>0, <2>1, <2>2, <2>7 DEF BegunInv
  <2>13. job.pc \in AtRest \ {"ended"} /\ job'.pc \notin {"discard", "ready", "store", "drain", "drained"}
    BY <2>1 DEF AtRest
  <2> QED
    BY <2>1, <2>9, <2>10, <2>11, <2>12, <2>13, AtRestKnows
<1>4. CASE RecoveryOver
  <2>1. /\ job.pc = "recover" /\ boot.todo = {} /\ job'.pc = "boot"
        /\ UNCHANGED <<record, engine, live, captureOn, discards, failed, cancelled, marker, inbox, trip, boot>>
    BY <1>4 DEF RecoveryOver, native, stored, memory, history, At, Job
  <2>2. boot.on /\ Starting /\ Starting'
    BY <1>0, <2>1 DEF Control, Starting
  <2>3. Waiting' /\ Launching'
    BY <1>0, <2>1, <2>2, WaitingKept, LaunchingKept
  <2>4. /\ \A d \in Drives : trip'[d].status # "absent" => Begun(d)
        /\ \A d \in {boot'.adopt, boot'.live} \ {NoDrive} : Begun(d)
        /\ \A d \in boot'.todo : Begun(d)
        /\ \A t \in Queued(inbox') : Begun(t.d)
        /\ marker'.d # NoDrive => Begun(marker'.d)
    BY <1>0, <2>1 DEF BegunInv
  <2>5. job.pc \in AtRest \ {"ended"} /\ job'.pc \notin {"discard", "ready", "store", "drain", "drained"}
    BY <2>1 DEF AtRest
  <2> QED
    BY <2>1, <2>3, <2>4, <2>5, AtRestKnows
<1> QED
  BY <1>1, <1>2, <1>3, <1>4 DEF Recovery

-----------------------------------------------------------------------------
(* What the parts know of one another: drives taken up at a launch. *)

\* With native's events let through: what there is to show of a step of the host's.
LEMMA HostKnows ==
  ASSUME Types, Types', Knows, Aged, ~Starting, ~Starting', job'.pc # "down", record' \in {record, NoDrive},
         inbox' = inbox \/ (inbox # <<>> /\ inbox' = Tail(inbox)),
         \A d \in Drives : trip'[d].status # "absent" => Begun(d),
         \A d \in {engine'.d, live'.d, failed'.d, marker'.d} \ {NoDrive} : Begun(d),
         \A d \in discards' \cup cancelled' : Begun(d),
         \A d \in {boot'.adopt, boot'.live} \ {NoDrive} : Begun(d), \A d \in boot'.todo : Begun(d),
         Launching', Capture', Discards'
  PROVE  Knows'
<1>0. BegunInv /\ Waiting /\ inbox \in Seq(Tasked)
  BY DEF Knows, Types
<1>1. Queued(inbox') \subseteq Queued(inbox)
  <2>1. CASE inbox' = inbox
    BY <2>1
  <2>2. CASE inbox # <<>> /\ inbox' = Tail(inbox)
    BY <1>0, <2>2, QueuedTail
  <2> QED
    BY <2>1, <2>2
<1>2. BegunInv'
  <2>1. \A t \in Queued(inbox') : Begun(t.d)
    BY <1>0, <1>1 DEF BegunInv
  <2> QED
    BY <2>1, BegunKept
<1>3. Waiting'
  BY <1>0, WaitingKept
<1> QED
  BY <1>2, <1>3 DEF Knows

\* A launch that holds a drive was not begun with it.
LEMMA TodoIs ==
  ASSUME Types, Knows, job.pc = "ended"
  PROVE  /\ boot.on /\ ~Starting /\ engine.d = NoDrive /\ live.d = NoDrive /\ NoDrive \notin boot.todo
         /\ record \notin boot.todo /\ record \notin discards /\ boot.live \notin boot.todo
         /\ \A d \in discards : d # NoDrive /\ d \notin Ahead
<1>1. Control /\ BootOK /\ MemoryOK /\ Launching /\ Discards
  BY TypesAre DEF Knows
<1>2. boot.on /\ ~Starting /\ engine.d = NoDrive /\ live.d = NoDrive
  BY <1>1 DEF Control, AtRest, Starting
<1> QED
  BY <1>1, <1>2, DrivesAre DEF Launching, Discards, BootOK, MemoryOK

\* What the boot reads.
LEMMA BootReadsKnows ==
  ASSUME Types, Types', Knows, Aged, BootReads
  PROVE  Knows'
<1>0. BegunInv /\ Waiting /\ Launching /\ Discards /\ Control /\ Files /\ NativeOK /\ inbox \in Seq(Tasked)
  BY TypesAre DEF Knows, Types
<1>1. PICK listed \in BOOLEAN :
        /\ Fails("list", ~listed)
        /\ boot' = [boot EXCEPT !.todo = {d \in Drives : listed /\ Journaled(d) /\ d # record}, !.live = record]
  BY DEF BootReads
<1>2. /\ job.pc = "boot" /\ job'.pc = "ended" /\ inbox' = Delivered(inbox) /\ captureOn' = (record # NoDrive)
      /\ UNCHANGED <<record, journal, trip, marker, engine, live, discards, failed, cancelled>>
  BY DEF BootReads, At, Job, native, stored, history
<1>3. /\ boot.on /\ Starting /\ ~Starting' /\ engine.d = NoDrive /\ live.d = NoDrive /\ discards = {}
      /\ record \in Drives \cup {NoDrive}
  BY <1>0, <1>2 DEF Control, AtRest, Starting, Discards, NativeOK
<1>4. /\ boot'.on /\ boot'.todo = {d \in Drives : listed /\ Journaled(d) /\ d # record}
      /\ boot'.adopt = boot.adopt /\ boot'.live = record
  BY <1>0, <1>1, <1>3, TypesAre DEF BootOK
<1>5. Queued(inbox') \subseteq Queued(inbox)
  BY <1>0, <1>2, QueuedDelivered
<1>6. BegunInv'
  <2>1. \A t \in Queued(inbox') : Begun(t.d)
    BY <1>0, <1>5 DEF BegunInv
  <2>2. \A d \in boot'.todo : Begun(d)
    BY <1>4 DEF Journaled, Begun
  <2>3. record # NoDrive => Begun(record)
    BY <1>0 DEF Files, Journaled, Begun
  <2>4. \A d \in {engine'.d, live'.d, failed'.d, marker'.d, boot'.adopt, boot'.live} \ {NoDrive} : Begun(d)
    BY <1>0, <1>2, <1>4, <2>3 DEF BegunInv
  <2>5. /\ \A d \in Drives : trip'[d].status # "absent" => Begun(d)
        /\ \A d \in discards' \cup cancelled' \cup boot'.todo : Begun(d)
    BY <1>0, <1>2, <2>2 DEF BegunInv
  <2> QED
    BY <2>1, <2>4, <2>5, BegunKept
<1>7. Waiting'
  <2>1. \A t \in Queued(inbox') : t.k # "again"
    BY <1>0, <1>3, <1>5 DEF Waiting, FromNative
  <2>2. InOrder(inbox')
    BY <2>1, OrderNone
  <2>3. /\ \A t \in Queued(inbox') : t.k = "ended" => t.d # record'
        /\ \A t \in Queued(inbox') : t.k = "cancelled" => ~Journaled(t.d)'
    BY <1>0, <1>2, <1>5 DEF Waiting, Journaled
  <2> QED
    BY <1>2, <1>3, <2>2, <2>3 DEF Waiting
<1>8. Launching'
  <2>1. "list" \notin Faults => listed
    BY <1>1 DEF Fails, Fault
  <2>2. boot.adopt \in Drives \cup {NoDrive}
    BY TypesAre DEF BootOK
  <2>3. boot'.adopt # NoDrive /\ ~Starting' /\ "list" \notin Faults =>
          ~Journaled(boot.adopt)' \/ boot'.adopt \in boot'.todo \cup {boot'.live}
    BY <1>2, <1>4, <2>1, <2>2 DEF Journaled
  <2>4. boot'.live \notin boot'.todo /\ record' \notin boot'.todo /\ engine'.d = NoDrive
    BY <1>2, <1>3, <1>4
  <2>5. boot'.adopt # NoDrive => trip'[boot'.adopt].status = "recording"
    BY <1>0, <1>2, <1>4 DEF Launching
  <2> QED
    BY <1>2, <1>3, <1>4, <2>3, <2>4, <2>5 DEF Launching
<1>9. Capture'
  BY <1>2, <1>3 DEF Capture
<1>10. Discards'
  BY <1>2, <1>3 DEF Discards
<1> QED
  BY <1>6, <1>7, <1>8, <1>9, <1>10 DEF Knows

\* A drive that native ended is taken in, or its file is to go.
LEMMA AdoptsKnows ==
  ASSUME Types, Types', Knows, Aged, BootAdoptsEnded
  PROVE  Knows'
<1>0. BegunInv /\ Waiting /\ Launching /\ Capture /\ Discards /\ Control /\ StoredOK /\ MemoryOK /\ BootOK
  BY TypesAre DEF Knows
<1> DEFINE n == Min(boot.todo)
<1>1. /\ job.pc = "ended" /\ boot.todo # {} /\ AdoptEnded(n)
      /\ boot' = [boot EXCEPT !.todo = @ \ {n}, !.adopt = IF @ = n THEN NoDrive ELSE @]
      /\ UNCHANGED <<record, journal, marker, captureOn, inbox, cancelled>>
  BY DEF BootAdoptsEnded, native, history
<1>2. n \in boot.todo /\ n \in Drives /\ n # NoDrive
  BY <1>0, <1>1, NextIs, DrivesAre
<1> HIDE DEF n
<1>3. /\ boot.on /\ ~Starting /\ engine.d = NoDrive /\ live.d = NoDrive /\ NoDrive \notin boot.todo
      /\ record \notin boot.todo /\ record \notin discards /\ boot.live \notin boot.todo
      /\ \A d \in discards : d # NoDrive /\ d \notin Ahead
  BY <1>1, TodoIs
<1>4. /\ boot'.on /\ boot'.todo = boot.todo \ {n} /\ boot'.live = boot.live
      /\ boot'.adopt = (IF boot.adopt = n THEN NoDrive ELSE boot.adopt)
  BY <1>0, <1>1, <1>3 DEF BootOK
<1>5. n \notin Ahead' /\ Ahead' \subseteq Ahead /\ n \in Ahead
  BY <1>2, <1>3, <1>4 DEF Ahead
<1>6. boot'.adopt # NoDrive /\ "list" \notin Faults =>
         ~Journaled(boot.adopt)' \/ boot'.adopt \in boot'.todo \cup {boot'.live}
  BY <1>0, <1>1, <1>3, <1>4 DEF Launching, Journaled
<1>7. CASE trip[n].status = "stored"
  <2>1. /\ discards' = discards \cup {n} /\ job'.pc = "ended"
        /\ UNCHANGED <<trip, engine, live, failed>>
    BY <1>1, <1>3, <1>7 DEF AdoptEnded, Back, At, Job
  <2>2. ~Starting' /\ job'.pc # "down"
    BY <2>1 DEF Starting
  <2>3. Launching'
    BY <1>0, <1>1, <1>3, <1>4, <1>6, <2>1, <2>2 DEF Launching
  <2>4. Capture'
    BY <1>1, <1>2, <1>3, <2>1 DEF Capture
  <2>5. Discards'
    BY <1>1, <1>2, <1>3, <1>5, <2>1 DEF Discards
  <2>6. /\ \A d \in Drives : trip'[d].status # "absent" => Begun(d)
        /\ \A d \in {engine'.d, live'.d, failed'.d, marker'.d} \ {NoDrive} : Begun(d)
        /\ \A d \in discards' \cup cancelled' : Begun(d)
        /\ \A d \in {boot'.adopt, boot'.live} \ {NoDrive} : Begun(d)
        /\ \A d \in boot'.todo : Begun(d)
    BY <1>0, <1>1, <1>2, <1>4, <2>1 DEF BegunInv
  <2> QED
    BY <1>1, <1>3, <2>2, <2>3, <2>4, <2>5, <2>6, HostKnows
<1>8. CASE trip[n].status # "stored"
  <2>1. OpenDrive(Rebuilt(n)) /\ live'.d = n /\ discards' = discards /\ job'.pc = "drain" /\ job'.how = "adopted"
    BY <1>1, <1>8 DEF AdoptEnded, Drain, Job
  <2>2. Rebuilt(n) \in SessionType /\ Rebuilt(n).d = n
    BY <1>0, <1>2, RebuiltIs
  <2>3. /\ engine'.d = n /\ failed'.d = NoDrive
        /\ \A e \in Drives : trip'[e].status = IF e = n /\ trip[e].status = "absent" THEN "recording" ELSE trip[e].status
    BY <1>0, <2>1, <2>2, OpensAre, NothingIs
  <2>4. ~Starting' /\ job'.pc # "down"
    BY <2>1 DEF Starting
  <2>5. boot'.adopt # NoDrive => trip'[boot'.adopt].status = "recording"
    BY <1>0, <1>4, <2>3 DEF Launching, BootOK
  <2>6. Launching'
    BY <1>0, <1>1, <1>2, <1>3, <1>4, <1>5, <1>6, <2>1, <2>3, <2>4, <2>5 DEF Launching
  <2>7. Capture'
    BY <1>1, <1>2, <1>3, <2>1 DEF Capture
  <2>8. Discards'
    BY <1>1, <1>2, <1>3, <1>5, <2>1, <2>3 DEF Discards, AtRest
  <2>9. /\ \A d \in Drives : trip'[d].status # "absent" => Begun(d)
        /\ \A d \in {engine'.d, live'.d, failed'.d, marker'.d} \ {NoDrive} : Begun(d)
        /\ \A d \in discards' \cup cancelled' : Begun(d)
        /\ \A d \in {boot'.adopt, boot'.live} \ {NoDrive} : Begun(d)
        /\ \A d \in boot'.todo : Begun(d)
    BY <1>0, <1>1, <1>2, <1>4, <2>1, <2>3 DEF BegunInv
  <2> QED
    BY <1>1, <1>3, <2>4, <2>6, <2>7, <2>8, <2>9, HostKnows
<1> QED
  BY <1>7, <1>8

\* The launch is over: what was to be taken up is open, or there is nothing.
LEMMA BootEndsKnows ==
  ASSUME Types, Types', Knows, Aged, BootContinues \/ BootTakesLive \/ BootRests
  PROVE  Knows'
<1>0. BegunInv /\ Waiting /\ Launching /\ Capture /\ Discards /\ Control /\ StoredOK /\ MemoryOK /\ BootOK
  BY TypesAre DEF Knows
<1>1. /\ job.pc = "ended" /\ boot' = NoBoot /\ UNCHANGED <<record, journal, marker, discards, inbox, cancelled>>
  BY DEF BootContinues, BootTakesLive, BootRests, BootGoesOn, native, stored, memory, history
<1>2. /\ ~boot'.on /\ boot'.todo = {} /\ boot'.adopt = NoDrive /\ boot'.live = NoDrive /\ ~Starting' /\ Launching' /\ Ahead' = {}
  BY <1>1, NotLaunching DEF NoBoot, Starting, Ahead
<1>3. /\ boot.on /\ ~Starting /\ engine.d = NoDrive /\ live.d = NoDrive /\ record \notin discards
      /\ \A d \in discards : d # NoDrive /\ d \notin Ahead
  BY <1>1, TodoIs
<1>4. ASSUME NEW n \in Drives, n \in {boot.adopt, boot.live}, OpenDrive(Rebuilt(n)), live'.d \in {live.d, n},
             job'.pc \in {"after", "drain"}, job'.pc = "drain" => job'.how = "begun",
             captureOn' \in {captureOn, TRUE}, live'.d = n => captureOn'
      PROVE  Knows'
  <2>1. Rebuilt(n) \in SessionType /\ Rebuilt(n).d = n
    BY <1>0, RebuiltIs
  <2>2. /\ engine'.d = n /\ failed'.d = NoDrive
        /\ \A e \in Drives : trip'[e].status = IF e = n /\ trip[e].status = "absent" THEN "recording" ELSE trip[e].status
    BY <1>0, <1>4, <2>1, OpensAre, NothingIs
  <2>3. n # NoDrive /\ n \in Ahead /\ Begun(n)
    BY <1>0, <1>4, DrivesAre DEF Ahead, BegunInv
  <2>4. Capture'
    BY <1>0, <1>1, <1>3, <1>4 DEF Capture
  <2>5. Discards'
    BY <1>1, <1>2, <1>3, <1>4, <2>2, <2>3 DEF Discards, AtRest
  <2>6. /\ \A d \in Drives : trip'[d].status # "absent" => Begun(d)
        /\ \A d \in {engine'.d, live'.d, failed'.d, marker'.d} \ {NoDrive} : Begun(d)
        /\ \A d \in discards' \cup cancelled' : Begun(d)
        /\ \A d \in {boot'.adopt, boot'.live} \ {NoDrive} : Begun(d)
        /\ \A d \in boot'.todo : Begun(d)
    BY <1>0, <1>1, <1>2, <1>3, <1>4, <2>2, <2>3 DEF BegunInv
  <2> QED
    BY <1>1, <1>2, <1>3, <1>4, <2>4, <2>5, <2>6, HostKnows
<1>5. CASE BootContinues
  BY <1>0, <1>4, <1>5, <1>3 DEF BootContinues, BootOK, At, Job
<1>6. CASE BootTakesLive
  BY <1>0, <1>4, <1>6 DEF BootTakesLive, BootOK, Drain, Job
<1>7. CASE BootRests
  <2>1. UNCHANGED <<trip, engine, live, captureOn, failed>> /\ job'.pc = "after"
    BY <1>7 DEF BootRests, stored, memory, At, Job
  <2>2. Capture' /\ Discards'
    BY <1>0, <1>1, <1>2, <1>3, <2>1 DEF Capture, Discards, AtRest
  <2>3. /\ \A d \in Drives : trip'[d].status # "absent" => Begun(d)
        /\ \A d \in {engine'.d, live'.d, failed'.d, marker'.d} \ {NoDrive} : Begun(d)
        /\ \A d \in discards' \cup cancelled' : Begun(d)
        /\ \A d \in {boot'.adopt, boot'.live} \ {NoDrive} : Begun(d)
        /\ \A d \in boot'.todo : Begun(d)
    BY <1>0, <1>1, <1>2, <2>1 DEF BegunInv
  <2> QED
    BY <1>1, <1>2, <1>3, <2>1, <2>2, <2>3, HostKnows
<1> QED
  BY <1>5, <1>6, <1>7

\* The steps of the boot.
LEMMA BootKnows ==
  ASSUME Types, Types', Knows, Aged, Boot
  PROVE  Knows'
  BY BootReadsKnows, AdoptsKnows, BootEndsKnows DEF Boot

-----------------------------------------------------------------------------
(* What the parts know of one another: rows, ends and tasks. *)

\* A step with native's events let through, after which no new drive is known.
LEMMA GoesOnKnows ==
  ASSUME Types, Types', Knows, Aged, ~Starting, job'.pc \notin {"down", "marker", "recover", "boot", "clear", "ride", "drop"},
         record' \in {record, NoDrive}, UNCHANGED <<marker, cancelled, boot>>,
         inbox' = inbox \/ (inbox # <<>> /\ inbox' = Tail(inbox)),
         \A d \in Drives : trip'[d].status # "absent" => trip[d].status # "absent" \/ d = engine.d,
         boot.adopt # NoDrive => trip'[boot.adopt].status = trip[boot.adopt].status,
         engine'.d \in {engine.d, NoDrive}, live'.d \in {live.d, NoDrive}, failed'.d \in {failed.d, engine.d, NoDrive},
         discards' \subseteq discards \cup {live.d}, Capture', Discards'
  PROVE  Knows'
<1>0. BegunInv /\ Launching /\ MemoryOK
  BY TypesAre DEF Knows
<1>1. ~Starting'
  BY DEF Starting
<1>2. Launching'
  <2>1. Starting' = Starting
    BY <1>1 DEF Starting
  <2>2. boot' = boot /\ job'.pc # "boot" /\ job'.pc # "recover"
    OBVIOUS
  <2> QED
    BY <1>0, <2>1, <2>2, LaunchingKept
<1>3. NoDrive \notin discards'
  BY TypesAre, DrivesAre DEF Types, TypeOK
<1>4. /\ \A d \in Drives : trip'[d].status # "absent" => Begun(d)
      /\ \A d \in {engine'.d, live'.d, failed'.d, marker'.d} \ {NoDrive} : Begun(d)
      /\ \A d \in discards' \cup cancelled' : Begun(d)
      /\ \A d \in {boot'.adopt, boot'.live} \ {NoDrive} : Begun(d)
      /\ \A d \in boot'.todo : Begun(d)
  BY <1>0, <1>3, DrivesAre DEF BegunInv
<1> QED
  BY <1>1, <1>2, <1>4, HostKnows

\* What is held as rows go in, and when the engine ends the drive.
LEMMA TakesRows ==
  ASSUME Types, Knows, engine.d # NoDrive, NEW rows \in RowSets,
         (\E bad \in BOOLEAN : TakeIn(rows, bad)) \/ TakeInAndEnd(rows)
  PROVE  /\ engine'.d = engine.d
         /\ \A d \in Drives : trip'[d].status # "absent" => trip[d].status # "absent" \/ d = engine.d
         /\ boot.adopt # NoDrive => trip'[boot.adopt].status = trip[boot.adopt].status
<1>0. StoredOK /\ MemoryOK /\ Launching /\ BootOK /\ engine.d \in Drives
  BY TypesAre DEF Knows, MemoryOK
<1>1. engine'.d = engine.d
  BY <1>0 DEF TakeIn, TakeInAndEnd, MemoryOK
<1>2. trip' = trip \/ \E r : trip' = Checkpoint(engine.d, r)
  BY DEF TakeIn, TakeInAndEnd
<1>3. \A r : \A e \in Drives : Checkpoint(engine.d, r)[e].status =
        IF e = engine.d /\ trip[engine.d].status # "stored" THEN "recording" ELSE trip[e].status
  <2>1. SUFFICES ASSUME NEW r
                 PROVE  \A e \in Drives : Checkpoint(engine.d, r)[e].status =
                          IF e = engine.d /\ trip[engine.d].status # "stored" THEN "recording" ELSE trip[e].status
    OBVIOUS
  <2>2. Session(engine.d, {}) \in SessionType
    BY <1>0 DEF Session, SessionType, RowSets
  <2> QED
    BY <1>0, <2>2, WritesAre
<1>4. boot.adopt # NoDrive => boot.adopt \in Drives /\ trip[boot.adopt].status = "recording"
  BY <1>0 DEF Launching, BootOK
<1> QED
  BY <1>1, <1>2, <1>3, <1>4

\* A live row.
LEMMA TakeLiveRowKnows ==
  ASSUME Types, Types', Knows, Aged, NEW row \in Rows, TakeLiveRow(row), engine.d # NoDrive,
         job.pc \in {"ready", "drained"}, inbox' = inbox \/ (inbox # <<>> /\ inbox' = Tail(inbox))
  PROVE  Knows'
<1>0. Launching /\ Capture /\ Discards /\ MemoryOK
  BY TypesAre DEF Knows
<1>1. /\ live' = [live EXCEPT !.seq = SeqOf(row)] /\ job'.pc \in {"after", "close"}
      /\ (\E bad \in BOOLEAN : TakeIn({row}, bad)) \/ TakeInAndEnd({row})
      /\ UNCHANGED <<record, marker, captureOn, discards, failed, boot, cancelled>>
  <2>1. /\ live' = [live EXCEPT !.seq = SeqOf(row)]
        /\ \/ (\E bad \in BOOLEAN : TakeIn({row}, bad)) /\ job' = At("after")
           \/ TakeInAndEnd({row})
        /\ UNCHANGED <<record, marker, captureOn, discards, failed, boot, cancelled>>
    BY DEF TakeLiveRow, native, history
  <2>2. job' = At("after") \/ job' = Close("auto")
    BY <2>1 DEF TakeInAndEnd
  <2>3. job'.pc \in {"after", "close"}
    BY <2>2 DEF At, Close, Job
  <2> QED
    BY <2>1, <2>3
<1>2. {row} \in RowSets
  BY DEF RowSets
<1>3. /\ engine'.d = engine.d /\ live'.d = live.d
      /\ \A d \in Drives : trip'[d].status # "absent" => trip[d].status # "absent" \/ d = engine.d
      /\ boot.adopt # NoDrive => trip'[boot.adopt].status = trip[boot.adopt].status
  BY <1>0, <1>1, <1>2, TakesRows DEF MemoryOK
<1>4. Capture'
  BY <1>0, <1>1, <1>3 DEF Capture
<1>5. Discards'
  BY <1>0, <1>1, <1>3 DEF Discards, AtRest, Ahead
<1>6. ~Starting
  BY DEF Starting
<1> QED
  BY <1>1, <1>3, <1>4, <1>5, <1>6, GoesOnKnows

\* What a drain does.
LEMMA ReadingKnows ==
  ASSUME Types, Types', Knows, Aged, Reading
  PROVE  Knows'
<1>0. BegunInv /\ Waiting /\ Launching /\ Capture /\ Discards /\ Control /\ StoredOK /\ MemoryOK /\ BootOK
  BY TypesAre DEF Knows
<1>1. job.pc \in {"drain", "drained"} /\ ~Starting /\ engine.d # NoDrive /\ engine.d \in Drives
  BY <1>0 DEF Reading, ReadPage, ReadFails, TakenUp, GapFilled, NativeEndTaken, ReleaseDrive, Starting, Control, MemoryOK
<1>2. CASE ReadPage
  <2>1. /\ job.pc = "drain" /\ UNCHANGED <<record, marker, captureOn, discards, failed, inbox, boot, cancelled>>
        /\ live'.d = live.d
        /\ \E rows \in RowSets : (\E bad \in BOOLEAN : TakeIn(rows, bad)) \/ TakeInAndEnd(rows)
    <3>1. job.pc = "drain" /\ Page \in RowSets
      BY <1>2, PageIs DEF ReadPage
    <3>2. \A last \in Page : {r \in Page : r <= last} \in RowSets
      BY <3>1 DEF RowSets
    <3> QED
      BY <1>0, <1>2, <3>1, <3>2 DEF ReadPage, Reach, MemoryOK, native, history
  <2>2. job'.pc = "close" \/ (job'.pc \in {"drain", "drained"} /\ job'.how = job.how)
    <3>1. job' = AfterPage \/ job' = Close("auto")
      BY <1>2 DEF ReadPage, TakeInAndEnd
    <3> QED
      BY <2>1, <3>1, AfterPageIs DEF Close, Job
  <2>3. /\ engine'.d = engine.d
        /\ \A d \in Drives : trip'[d].status # "absent" => trip[d].status # "absent" \/ d = engine.d
        /\ boot.adopt # NoDrive => trip'[boot.adopt].status = trip[boot.adopt].status
    BY <1>1, <2>1, TakesRows
  <2>4. Capture'
    BY <1>0, <2>1, <2>2, <2>3 DEF Capture
  <2>5. Discards'
    BY <1>0, <2>1, <2>2, <2>3 DEF Discards, AtRest, Ahead
  <2> QED
    BY <1>1, <2>1, <2>2, <2>3, <2>4, <2>5, GoesOnKnows
<1>3. CASE ReadFails \/ TakenUp \/ NativeEndTaken
  <2>1. /\ UNCHANGED <<record, trip, marker, engine, live, captureOn, discards, failed, inbox, boot, cancelled>>
        /\ job'.pc \in {"after", "close"} \/ (job'.pc = "drained" /\ job'.how = job.how)
    <3>1. ReadFails => job'.pc = "drained" /\ job'.how = job.how
      BY TypesAre DEF ReadFails, JobOK
    <3> QED
      BY <1>3, <3>1 DEF ReadFails, TakenUp, NativeEndTaken, At, Close, Job, native, stored, memory, history
  <2>2. Capture'
    BY <1>0, <1>1, <2>1 DEF Capture
  <2>3. Discards'
    BY <1>0, <1>1, <2>1 DEF Discards, AtRest, Ahead
  <2> QED
    BY <1>1, <2>1, <2>2, <2>3, GoesOnKnows
<1>4. CASE GapFilled
  <2>1. job.pc = "drained" /\ job.how = "gap" /\ inbox' = inbox /\ job.row \in Rows
    BY <1>0, <1>4 DEF GapFilled, Control
  <2>2. CASE SeqOf(job.row) > live.seq
    BY <1>1, <1>4, <2>1, <2>2, TakeLiveRowKnows DEF GapFilled
  <2>3. CASE ~(SeqOf(job.row) > live.seq)
    <3>1. /\ UNCHANGED <<record, trip, marker, engine, live, captureOn, discards, failed, boot, cancelled>>
          /\ job'.pc = "after"
      BY <1>4, <2>3 DEF GapFilled, At, Job, native, stored, memory, history
    <3>2. Capture' /\ Discards'
      BY <1>0, <1>1, <3>1 DEF Capture, Discards, AtRest, Ahead
    <3> QED
      BY <1>1, <2>1, <3>1, <3>2, GoesOnKnows
  <2> QED
    BY <2>2, <2>3
<1>5. CASE ReleaseDrive
  <2>1. /\ UNCHANGED <<record, marker, captureOn, discards, failed, inbox, boot, cancelled>>
        /\ engine'.d = NoDrive /\ live'.d = NoDrive /\ job'.pc \in {"ended", "after"} /\ (job'.pc = "ended" => boot.on)
        /\ trip' = trip \/ trip' = Checkpoint(engine.d, engine.rows)
    BY <1>5, NothingIs DEF ReleaseDrive, Back, At, Job, native, history
  <2>2. /\ \A d \in Drives : trip'[d].status # "absent" => trip[d].status # "absent" \/ d = engine.d
        /\ boot.adopt # NoDrive => trip'[boot.adopt].status = trip[boot.adopt].status
    <3>1. Session(engine.d, {}) \in SessionType
      BY <1>1 DEF Session, SessionType, RowSets
    <3>2. \A e \in Drives : Checkpoint(engine.d, engine.rows)[e].status =
            IF e = engine.d /\ trip[engine.d].status # "stored" THEN "recording" ELSE trip[e].status
      BY <1>0, <1>1, <3>1, WritesAre
    <3>3. boot.adopt # NoDrive => boot.adopt \in Drives /\ trip[boot.adopt].status = "recording"
      BY <1>0 DEF Launching, BootOK
    <3> QED
      BY <2>1, <3>2, <3>3
  <2>3. Capture'
    BY <1>0, <2>1 DEF Capture
  <2>4. Discards'
    <3>1. NoDrive \notin discards
      BY <1>0, DrivesAre DEF MemoryOK
    <3> QED
      BY <1>0, <1>1, <2>1, <3>1 DEF Discards, AtRest, Ahead
  <2> QED
    BY <1>1, <2>1, <2>2, <2>3, <2>4, GoesOnKnows
<1> QED
  BY <1>2, <1>3, <1>4, <1>5 DEF Reading

\* The end of a drive.
LEMMA EndingKnows ==
  ASSUME Types, Types', Knows, Aged, Ending
  PROVE  Knows'
<1>0. BegunInv /\ Waiting /\ Launching /\ Capture /\ Discards /\ Control /\ StoredOK /\ MemoryOK /\ BootOK
  BY TypesAre DEF Knows
<1>1. job.pc \in {"close", "store", "after", "discard"} /\ ~Starting /\ NoDrive \notin discards
  BY <1>0, DrivesAre DEF Ending, CloseCheckpoint, StoreDrive, StoreFails, StopCapture, DiscardJournals, Starting, MemoryOK
<1>2. ~boot.on => boot.adopt = NoDrive /\ Ahead = {}
  BY <1>0 DEF Control, NoBoot, Ahead
<1>3. CASE CloseCheckpoint
  <2>1. /\ UNCHANGED <<record, marker, engine, live, captureOn, discards, failed, inbox, boot, cancelled>>
        /\ job.pc = "close" /\ job'.pc = "store"
        /\ trip' = trip \/ trip' = Checkpoint(engine.d, engine.rows)
    BY <1>3 DEF CloseCheckpoint, Judge, At, Job, native, memory
  <2>2. engine.d \in Drives
    BY <1>0, <2>1 DEF Control, MemoryOK
  <2>3. /\ \A d \in Drives : trip'[d].status # "absent" => trip[d].status # "absent" \/ d = engine.d
        /\ boot.adopt # NoDrive => trip'[boot.adopt].status = trip[boot.adopt].status
    <3>1. Session(engine.d, {}) \in SessionType
      BY <2>2 DEF Session, SessionType, RowSets
    <3>2. \A e \in Drives : Checkpoint(engine.d, engine.rows)[e].status =
            IF e = engine.d /\ trip[engine.d].status # "stored" THEN "recording" ELSE trip[e].status
      BY <1>0, <2>2, <3>1, WritesAre
    <3>3. boot.adopt # NoDrive => boot.adopt \in Drives /\ trip[boot.adopt].status = "recording"
      BY <1>0 DEF Launching, BootOK
    <3> QED
      BY <2>1, <3>2, <3>3
  <2>4. engine.d # NoDrive
    BY <2>2, DrivesAre
  <2>5. Capture'
    BY <1>0, <2>1, <2>4 DEF Capture
  <2>6. Discards'
    BY <1>0, <2>1 DEF Discards, AtRest, Ahead
  <2> QED
    BY <1>1, <2>1, <2>3, <2>5, <2>6, GoesOnKnows
<1>4. CASE StoreDrive
  <2>1. /\ UNCHANGED <<record, marker, captureOn, inbox, boot, cancelled>>
        /\ job.pc = "store" /\ job'.pc \in {"ended", "after"} /\ trip' = CloseDrive(Closing)
        /\ discards' = IF live.d = Closing.d THEN discards \cup {live.d} ELSE discards
        /\ failed'.d \in {failed.d, NoDrive} /\ engine'.d = NoDrive /\ live'.d = NoDrive
    BY <1>4, NothingIs DEF StoreDrive, Back, At, Job, native, history
  <2>2. Closing \in SessionType /\ Closing.d \in Drives /\ (engine.d # NoDrive => Closing.d = engine.d)
    BY <1>0, <2>1 DEF Control, Closing, MemoryOK, SessionType
  <2>3. /\ \A e \in Drives \ {Closing.d} : trip'[e] = trip[e]
        /\ trip'[Closing.d].status \in {"absent", "stored"}
    BY <1>0, <2>1, <2>2, WritesAre
  <2>4. boot.adopt # NoDrive => boot.adopt # Closing.d /\ boot.adopt \in Drives
    BY <1>0, <1>2, <2>1, <2>2 DEF Control, Launching, Ahead, BootOK
  <2>5. Closing.d # NoDrive /\ Closing.d \notin Ahead /\ (boot.on => Closing.d # record)
    BY <1>0, <1>2, <2>1, <2>2, DrivesAre DEF Control, Launching
  <2>6. Capture'
    BY <1>0, <2>1, <2>5 DEF Capture
  <2>7. Discards'
    BY <1>0, <1>1, <2>1, <2>5 DEF Discards, AtRest, Ahead
  <2>8. /\ \A d \in Drives : trip'[d].status # "absent" => Begun(d)
        /\ \A d \in {engine'.d, live'.d, failed'.d, marker'.d} \ {NoDrive} : Begun(d)
        /\ \A d \in discards' \cup cancelled' : Begun(d)
        /\ \A d \in {boot'.adopt, boot'.live} \ {NoDrive} : Begun(d)
        /\ \A d \in boot'.todo : Begun(d)
    <3>1. Begun(Closing.d)
      BY <1>0, <2>5 DEF Closing, BegunInv
    <3> QED
      BY <1>0, <2>1, <2>3, <2>5, <3>1 DEF BegunInv
  <2>9. ~Starting'
    BY <2>1 DEF Starting
  <2>10. Launching'
    <3>1. boot.adopt # NoDrive => trip'[boot.adopt].status = trip[boot.adopt].status
      BY <2>3, <2>4
    <3> QED
      BY <1>0, <1>1, <2>1, <2>9, <3>1, LaunchingKept DEF Starting
  <2> QED
    BY <1>1, <2>1, <2>6, <2>7, <2>8, <2>9, <2>10, HostKnows
<1>5. CASE StoreFails
  <2>1. /\ UNCHANGED <<record, marker, trip, captureOn, discards, inbox, boot, cancelled>>
        /\ job.pc = "store" /\ job'.pc \in {"ended", "after"} /\ failed' = Closing /\ engine'.d = NoDrive /\ live'.d = NoDrive
    BY <1>5, NothingIs DEF StoreFails, Back, At, Job, native, stored, history
  <2>2. Capture' /\ Discards'
    BY <1>0, <1>1, <2>1 DEF Capture, Discards, AtRest, Ahead
  <2>3. failed'.d \in {failed.d, engine.d}
    BY <2>1 DEF Closing
  <2> QED
    BY <1>1, <2>1, <2>2, <2>3, GoesOnKnows
<1>6. CASE StopCapture
  <2>1. /\ UNCHANGED <<marker, trip, engine, live, discards, failed, inbox, boot, cancelled>>
        /\ job.pc = "after" /\ job'.pc = "discard" /\ record' = NoDrive /\ ~captureOn'
    BY <1>6 DEF StopCapture, stored, history, At, Job
  <2>2. Capture' /\ Discards'
    BY <1>0, <1>1, <2>1 DEF Capture, Discards, AtRest, Ahead
  <2> QED
    BY <1>1, <2>1, <2>2, GoesOnKnows
<1>7. CASE DiscardJournals
  <2>1. /\ UNCHANGED <<record, marker, trip, engine, live, captureOn, failed, inbox, boot, cancelled>>
        /\ job'.pc = "ready" /\ discards' = discards \cap {live.d}
        /\ job.pc = "discard" \/ (job.pc = "after" /\ ~Overrun)
    BY <1>7 DEF DiscardJournals, stored, history, At, Job
  <2>2. discards' = {}
    BY <1>0, <1>1, <2>1 DEF Discards, Control
  <2>3. engine.d = NoDrive => ~captureOn
    BY <1>0, <2>1 DEF Capture, Overrun
  <2>4. Capture' /\ Discards'
    BY <1>0, <2>1, <2>2, <2>3 DEF Capture, Discards
  <2> QED
    BY <1>1, <2>1, <2>2, <2>4, GoesOnKnows
<1> QED
  BY <1>3, <1>4, <1>5, <1>6, <1>7 DEF Ending

\* Where a task begins: no launch is under way, and no journals wait to be discarded.
LEMMA ReadyIs ==
  ASSUME Types, Knows, job.pc = "ready"
  PROVE  /\ ~boot.on /\ boot = NoBoot /\ Ahead = {} /\ ~Starting /\ discards = {}
         /\ (engine.d = NoDrive => live.d = NoDrive /\ ~captureOn)
<1>1. Control /\ Capture /\ Discards
  BY TypesAre DEF Knows
<1>2. ~boot.on /\ boot = NoBoot
  BY <1>1 DEF Control
<1>3. Ahead = {} /\ ~Starting
  BY <1>2 DEF NoBoot, Ahead, Starting
<1> QED
  BY <1>1, <1>2, <1>3 DEF Control, Capture, Discards

\* The task holds or closes nothing but what is known.
LEMMA TaskKnows ==
  ASSUME Types, Types', Knows, Aged, job.pc = "ready", boot' = boot, record' = record, NEW d \in Drives, Begun(d),
         inbox' = inbox \/ (inbox # <<>> /\ inbox' = Tail(inbox)),
         \A e \in Drives : trip'[e].status # "absent" => trip[e].status # "absent" \/ e = d,
         engine'.d \in {engine.d, d, NoDrive}, live'.d \in {live.d, d, NoDrive},
         failed'.d \in {failed.d, NoDrive}, marker'.d \in {marker.d, d}, cancelled' \subseteq cancelled \cup {d},
         discards' \subseteq {d}, job'.pc \in {"drain", "close", "store", "after", "tell"},
         discards' = {} \/ (job'.pc = "after" /\ engine'.d = NoDrive /\ d # record),
         record # NoDrive /\ live'.d = record => captureOn',
         job'.pc = "store" => ~captureOn',
         job'.pc = "drain" /\ job'.how \in {"ended", "adopted"} => live'.d # record
  PROVE  Knows'
<1>0. BegunInv /\ Launching /\ ~boot.on /\ boot = NoBoot /\ Ahead = {} /\ ~Starting
  BY ReadyIs DEF Knows
<1>1. /\ ~boot'.on /\ boot'.todo = {} /\ boot'.adopt = NoDrive /\ boot'.live = NoDrive /\ ~Starting' /\ Launching' /\ Ahead' = {}
  BY <1>0, NotLaunching DEF NoBoot, Starting, Ahead
<1>2. d # NoDrive
  BY DrivesAre
<1>3. Capture'
  BY <1>1, <1>2 DEF Capture
<1>4. Discards'
  BY <1>1, <1>2 DEF Discards, AtRest
<1>5. /\ \A e \in Drives : trip'[e].status # "absent" => Begun(e)
      /\ \A e \in {engine'.d, live'.d, failed'.d, marker'.d} \ {NoDrive} : Begun(e)
      /\ \A e \in discards' \cup cancelled' : Begun(e)
      /\ \A e \in {boot'.adopt, boot'.live} \ {NoDrive} : Begun(e)
      /\ \A e \in boot'.todo : Begun(e)
  BY <1>0, <1>1 DEF BegunInv
<1> QED
  BY <1>0, <1>1, <1>3, <1>4, <1>5, HostKnows

\* A cancel begins.
LEMMA CancelDriveKnows ==
  ASSUME Types, Types', Knows, Aged, job.pc = "ready", record' = record, NEW d \in Drives, Begun(d), NEW held \in BOOLEAN,
         CancelDrive(d, held), inbox # <<>>, inbox' = Tail(inbox)
  PROVE  Knows'
<1>1. /\ UNCHANGED <<trip, discards, boot>> /\ marker'.d = d /\ cancelled' = cancelled \cup {d}
      /\ engine'.d = NoDrive /\ live'.d = NoDrive /\ failed'.d \in {failed.d, NoDrive} /\ job'.pc = "tell"
  BY NothingIs DEF CancelDrive, Cancel, Job
<1>2. discards = {}
  BY ReadyIs
<1> QED
  BY <1>1, <1>2, TaskKnows

\* The tasks of the queue.
LEMMA TasksKnows ==
  ASSUME Types, Types', Knows, Aged, Tasks
  PROVE  Knows'
<1>0. BegunInv /\ Waiting /\ Capture /\ Control /\ StoredOK /\ MemoryOK /\ QueueOK
  BY TypesAre DEF Knows
<1>1. job.pc = "ready" /\ record' = record
  BY DEF Tasks, OnLiveRow, TakeLiveRow, OnDriveStarted, OnDriveEnded, OnDriveCancelled, CancelDrive, OnEnd, FinalizeAgain,
       OnCancel, Tick, Takes, PassOver, native
<1>2. /\ ~boot.on /\ ~Starting /\ discards = {} /\ (engine.d = NoDrive => live.d = NoDrive /\ ~captureOn)
  BY <1>1, ReadyIs
<1>3. ASSUME NEW k, Takes(k)
      PROVE  /\ Event \in Tasked /\ Event.d \in Drives /\ Begun(Event.d) /\ Event.k = k /\ (k = "row" => Event.row \in Rows)
             /\ inbox # <<>> /\ inbox' = Tail(inbox) /\ Event.d # NoDrive
             /\ k = "ended" => Event.d # record
  <2>1. /\ Event \in Tasked /\ Event.d \in Drives /\ (k = "row" => Event.row \in Rows) /\ inbox \in Seq(Tasked)
        /\ inbox # <<>> /\ inbox' = Tail(inbox) /\ Event.k = k
    BY <1>0, <1>3, TakesIs DEF Takes, Event
  <2>2. Event \in Queued(inbox)
    BY <2>1, QueuedTail DEF Event
  <2> QED
    BY <1>0, <2>1, <2>2, DrivesAre DEF BegunInv, Waiting
<1>4. ASSUME NEW d \in Drives, Begun(d), UNCHANGED <<trip, marker, engine, live, captureOn, discards, failed, cancelled, boot>>,
             inbox' = inbox \/ (inbox # <<>> /\ inbox' = Tail(inbox)),
             \/ job'.pc \in {"after", "close"} \/ (job'.pc = "store" /\ engine.d = NoDrive)
             \/ job'.pc = "drain" /\ job'.how = "gap"
      PROVE  Knows'
  <2>1. record # NoDrive /\ live'.d = record => captureOn'
    BY <1>0, <1>4 DEF Capture
  <2> QED
    BY <1>1, <1>2, <1>4, <2>1, TaskKnows
<1>5. ASSUME NEW d \in Drives, OpenDrive(Session(d, {})) \/ OpenDrive(Rebuilt(d))
      PROVE  /\ engine'.d = d /\ failed'.d = NoDrive
             /\ \A e \in Drives : trip'[e].status # "absent" => trip[e].status # "absent" \/ e = d
  <2>1. /\ Rebuilt(d) \in SessionType /\ Rebuilt(d).d = d
        /\ Session(d, {}) \in SessionType /\ Session(d, {}).d = d
    BY <1>0, RebuiltIs DEF Session, SessionType, RowSets
  <2>2. PICK s \in SessionType : s.d = d /\ OpenDrive(s)
    BY <1>5, <2>1
  <2> QED
    BY <1>0, <2>2, OpensAre, NothingIs
<1>6. CASE OnLiveRow
  <2>1. Takes("row")
    BY <1>6 DEF OnLiveRow
  <2>2. CASE live.d = NoDrive \/ SeqOf(Event.row) <= live.seq
    BY <1>3, <1>4, <1>6, <2>1, <2>2 DEF OnLiveRow, PassOver, At, Job, native, stored, memory, history
  <2>3. CASE ~(live.d = NoDrive \/ SeqOf(Event.row) <= live.seq) /\ SeqOf(Event.row) > live.seq + 1
    BY <1>3, <1>4, <1>6, <2>1, <2>3 DEF OnLiveRow, Drain, Job, native, stored, memory, history
  <2>4. CASE ~(live.d = NoDrive \/ SeqOf(Event.row) <= live.seq) /\ ~(SeqOf(Event.row) > live.seq + 1)
    <3>1. TakeLiveRow(Event.row) /\ engine.d # NoDrive
      BY <1>0, <1>6, <2>4 DEF OnLiveRow, Control
    <3> QED
      BY <1>1, <1>3, <2>1, <3>1, TakeLiveRowKnows
  <2> QED
    BY <2>2, <2>3, <2>4
<1>7. CASE OnDriveStarted
  <2>1. Takes("started")
    BY <1>7 DEF OnDriveStarted
  <2>2. CASE PassOver
    BY <1>3, <1>4, <2>1, <2>2 DEF PassOver, At, Job, native, stored, memory, history
  <2>3. CASE ~PassOver
    <3>1. /\ OpenDrive(Session(Event.d, {})) /\ live'.d = Event.d /\ captureOn' = TRUE
          /\ job'.pc = "drain" /\ job'.how = "begun" /\ UNCHANGED <<marker, discards, boot, cancelled>>
      BY <1>7, <2>3 DEF OnDriveStarted, Drain, Job, history
    <3>2. PICK d \in Drives : d = Event.d /\ Begun(d) /\ OpenDrive(Session(d, {})) /\ live'.d = d
      BY <1>3, <2>1, <3>1
    <3> QED
      BY <1>1, <1>2, <1>3, <1>5, <2>1, <3>1, <3>2, TaskKnows
  <2> QED
    BY <2>2, <2>3
<1>8. CASE OnDriveEnded
  <2>1. Takes("ended")
    BY <1>8 DEF OnDriveEnded
  <2>2. PICK d \in Drives : d = Event.d /\ Begun(d) /\ d # record
    BY <1>3, <2>1
  <2>3. CASE Holding(Event.d)
    <3>1. /\ captureOn' = FALSE /\ job'.pc = "drain" /\ live.d = d
          /\ UNCHANGED <<trip, marker, engine, live, discards, failed, boot, cancelled>>
      BY <1>8, <2>2, <2>3 DEF OnDriveEnded, Holding, Drain, Job, stored, history
    <3> QED
      BY <1>1, <1>2, <1>3, <2>1, <2>2, <3>1, TaskKnows
  <2>4. CASE ~Holding(Event.d)
    <3>1. CASE PassOver
      BY <1>3, <1>4, <2>1, <3>1 DEF PassOver, At, Job, native, stored, memory, history
    <3>2. CASE ~PassOver
      <4>1. AdoptEnded(d) /\ engine.d = NoDrive /\ UNCHANGED <<marker, captureOn, boot, cancelled>>
        BY <1>8, <2>2, <2>4, <3>2 DEF OnDriveEnded, TakesIn, history
      <4>2. CASE trip[d].status = "stored"
        <5>1. discards' = discards \cup {d} /\ job'.pc = "after" /\ UNCHANGED <<trip, engine, live, failed>>
          BY <1>2, <4>1, <4>2 DEF AdoptEnded, Back, At, Job
        <5>2. record # NoDrive /\ live'.d = record => captureOn'
          BY <1>2, <4>1, <5>1
        <5> QED
          BY <1>1, <1>2, <1>3, <2>1, <2>2, <4>1, <5>1, <5>2, TaskKnows
      <4>3. CASE trip[d].status # "stored"
        <5>1. OpenDrive(Rebuilt(d)) /\ live'.d = d /\ discards' = discards /\ job'.pc = "drain"
          BY <4>1, <4>3 DEF AdoptEnded, Drain, Job
        <5> QED
          BY <1>1, <1>2, <1>3, <1>5, <2>1, <2>2, <4>1, <5>1, TaskKnows
      <4> QED
        BY <4>2, <4>3
    <3> QED
      BY <3>1, <3>2
  <2> QED
    BY <2>3, <2>4
<1>9. CASE OnDriveCancelled
  <2>1. Takes("cancelled") /\ (CancelDrive(Event.d, FALSE) \/ PassOver)
    BY <1>9 DEF OnDriveCancelled
  <2>2. CASE PassOver
    BY <1>3, <1>4, <2>1, <2>2 DEF PassOver, At, Job, native, stored, memory, history
  <2>3. CASE CancelDrive(Event.d, FALSE)
    <3>1. FALSE \in BOOLEAN
      OBVIOUS
    <3>2. PICK d \in Drives : Begun(d) /\ CancelDrive(d, FALSE)
      BY <1>3, <2>1, <2>3
    <3> QED
      BY <1>1, <1>3, <2>1, <3>1, <3>2, CancelDriveKnows
  <2> QED
    BY <2>1, <2>2, <2>3
<1>10. CASE OnEnd \/ FinalizeAgain
  <2>1. \E k : Takes(k)
    BY <1>10 DEF OnEnd, FinalizeAgain
  <2>2. /\ UNCHANGED <<trip, marker, engine, live, captureOn, discards, failed, cancelled, boot>>
        /\ job'.pc \in {"after", "close"} \/ (job'.pc = "store" /\ engine.d = NoDrive)
    BY <1>10 DEF OnEnd, FinalizeAgain, PassOver, At, Close, Job, native, stored, memory, history
  <2>3. Event.d \in Drives /\ Begun(Event.d) /\ inbox # <<>> /\ inbox' = Tail(inbox)
    BY <1>3, <2>1
  <2> QED
    BY <1>4, <2>2, <2>3
<1>11. CASE OnCancel
  <2>1. Takes("cancel") /\ (PassOver \/ (engine.d # NoDrive /\ CancelDrive(engine.d, live.d = engine.d)))
    BY <1>11 DEF OnCancel
  <2>2. CASE PassOver
    BY <1>3, <1>4, <2>1, <2>2 DEF PassOver, At, Job, native, stored, memory, history
  <2>3. CASE engine.d # NoDrive /\ CancelDrive(engine.d, live.d = engine.d)
    <3>1. (live.d = engine.d) \in BOOLEAN
      OBVIOUS
    <3>2. PICK d \in Drives, held \in BOOLEAN : Begun(d) /\ CancelDrive(d, held)
      <4>1. engine.d \in Drives /\ Begun(engine.d)
        BY <1>0, <2>3 DEF MemoryOK, BegunInv
      <4> QED
        BY <2>3, <3>1, <4>1
    <3> QED
      BY <1>1, <1>3, <2>1, <3>2, CancelDriveKnows
  <2> QED
    BY <2>1, <2>2, <2>3
<1>12. CASE Tick
  <2>1. /\ UNCHANGED <<trip, marker, engine, live, captureOn, discards, failed, cancelled, boot, inbox>>
        /\ job'.pc = "close" /\ engine.d # NoDrive
    BY <1>12 DEF Tick, Close, Job, native, stored, memory, history
  <2>2. engine.d \in Drives /\ Begun(engine.d)
    BY <1>0, <2>1 DEF MemoryOK, BegunInv
  <2> QED
    BY <1>4, <2>1, <2>2
<1> QED
  BY <1>6, <1>7, <1>8, <1>9, <1>10, <1>11, <1>12 DEF Tasks

\* Every step keeps it.
LEMMA StepKnows ==
  ASSUME Types, Types', Knows, [Next]_vars
  PROVE  Knows'
<1>1. Aged
  BY StepAges, TypesAre
<1>2. CASE Native \/ Launch \/ Kill \/ Driver
  BY <1>1, <1>2, NativeStepKnows, LaunchKnows, KillKnows, DriverKnows
<1>3. CASE Host
  BY <1>1, <1>3, RecoveryKnows, BootKnows, ReadingKnows, EndingKnows, CancellingKnows, TasksKnows DEF Host
<1>4. CASE UNCHANGED vars \/ Over
  BY <1>4, NothingKnows DEF Over
<1> QED
  BY <1>2, <1>3, <1>4 DEF Next

-----------------------------------------------------------------------------
(* A drive cancelled stays gone, if native's list can be read and a trip be deleted. *)

\* What the theorem assumes: neither the list of journals nor the deletion of a trip fails.
Told == Faults \cap {"list", "drop"} = {}

\* Until native has been told, the marker has the journal of a cancelled drive deleted; until the
\* trip is dropped, it has that dropped.
Forgetting == {"down", "marker", "tell"}
Gone ==
  \A d \in cancelled :
       /\ Journaled(d) => marker.d = d /\ marker.held /\ job.pc \in Forgetting
       /\ trip[d].status # "absent" => marker.d = d /\ job.pc \in Forgetting \cup {"ride", "drop"}

\* No cancelled drive is open, unfinalized or to be taken up; the open one has its trip, and if it
\* is not the one native holds, no journal.
Spared ==
  /\ engine.d \notin cancelled /\ failed.d \notin cancelled
  /\ \A d \in Ahead : d \notin cancelled
  /\ engine.d # NoDrive => trip[engine.d].status = "recording"
  /\ engine.d # NoDrive /\ live.d # engine.d => ~Journaled(engine.d)

\* A start that still waits finds its drive not yet stored, or its journal to go.
Again ==
  /\ \A t \in Queued(inbox) : t.k = "started" /\ trip[t.d].status = "stored" /\ Journaled(t.d) => t.d \in discards
  /\ job.pc = "store" /\ engine.d = NoDrive =>
       \A t \in Queued(inbox) : t.k = "started" /\ t.d = failed.d => ~Journaled(t.d)

CancelInv == CancelledStaysGone /\ Gone /\ Spared /\ Again

\* Whom a queue is about.
LEMMA QueuedDrives ==
  ASSUME Types
  PROVE  /\ inbox \in Seq(Tasked) /\ \A t \in Queued(inbox) : t.d \in Drives
         /\ cancelled \subseteq Drives /\ NoDrive \notin cancelled /\ NoDrive \notin discards
<1>1. inbox \in Seq(Tasked) /\ cancelled \subseteq Drives /\ discards \subseteq Drives
  BY TypesAre DEF QueueOK, HistoryOK, MemoryOK
<1>2. \A t \in Queued(inbox) : t.d \in Drives
  BY <1>1, QueuedIn DEF Tasked, TaskType
<1> QED
  BY <1>1, <1>2, DrivesAre

\* A step that cancels nothing, and takes the launch or the cancel under way no further than it may go.
LEMMA CancelKept ==
  ASSUME Types, CancelInv, UNCHANGED <<cancelled, marker>>,
         job.pc \in Forgetting => job'.pc \in Forgetting,
         job.pc \in {"ride", "drop"} => job'.pc \in Forgetting \cup {"ride", "drop"},
         \A d \in cancelled : Journaled(d)' => Journaled(d),
         \A d \in cancelled : trip'[d] = trip[d] \/ trip'[d].status = "absent", Spared', Again'
  PROVE  CancelInv'
<1>1. CancelledStaysGone' /\ Gone'
  BY DEF CancelInv, CancelledStaysGone, Gone
<1> QED
  BY <1>1 DEF CancelInv

\* What waits finds its drives as before.
LEMMA AgainKept ==
  ASSUME Types, BegunInv, Again, Aged, \A t \in Queued(inbox') : t.k = "started" => t \in Queued(inbox),
         \A d \in Drives : trip'[d].status = "stored" => trip[d].status = "stored", discards \subseteq discards',
         job'.pc = "store" => engine'.d # NoDrive \/ UNCHANGED <<job, engine, failed>>
  PROVE  Again'
<1>1. \A t \in Queued(inbox) : t.d \in Drives /\ (Journaled(t.d)' => Journaled(t.d))
  BY QueuedDrives DEF Aged, BegunInv
<1>2. \A t \in Queued(inbox') : t.k = "started" /\ trip'[t.d].status = "stored" /\ Journaled(t.d)' => t.d \in discards'
  BY <1>1 DEF Again
<1>3. job'.pc = "store" /\ engine'.d = NoDrive =>
        \A t \in Queued(inbox') : t.k = "started" /\ t.d = failed'.d => ~Journaled(t.d)'
  BY <1>1 DEF Again
<1> QED
  BY <1>2, <1>3 DEF Again

\* The starts that wait are those that waited, whatever else joins or is taken.
LEMMA StartsEmitted ==
  ASSUME Types, NEW t \in Tasked, t.k # "started", inbox' = Emitted(inbox, t)
  PROVE  \A u \in Queued(inbox') : u.k = "started" => u \in Queued(inbox)
  BY QueuedDrives, QueuedEmitted

\* A drive begins.
LEMMA BeginSpares ==
  ASSUME Types, Types', Knows, CancelInv, Aged, NativeBegins
  PROVE  CancelInv'
<1>0. NativeOK /\ inbox \in Seq(Tasked)
  BY TypesAre, QueuedDrives
<1>1. PICK d \in Drives :
        /\ ~Begun(d) /\ record' = d
        /\ journal' = [journal EXCEPT ![d] = [state |-> "here", rows |-> {Row(d, 1)}, top |-> 1]]
        /\ inbox' = Emitted(Emitted(inbox, Task("row", d, Row(d, 1))), Task("started", d, 0))
  BY DEF NativeBegins
<1>2. UNCHANGED <<trip, marker, engine, live, captureOn, discards, failed, cancelled, job, boot>>
  BY DEF NativeBegins, stored, memory, history
<1>3. /\ d # engine.d /\ d # failed.d /\ d \notin cancelled /\ trip[d].status = "absent"
  BY <1>1, UnbegunIs
<1>4. \A e \in Drives : Journaled(e)' /\ e # d => Journaled(e)
  BY <1>0, <1>1 DEF NativeOK, Journaled
<1>5. \A t \in Queued(inbox') : t.k = "started" => t \in Queued(inbox) \/ t.d = d
  <2> DEFINE r == Task("row", d, Row(d, 1))  s == Task("started", d, 0)  q == Emitted(inbox, r)
  <2>1. r \in Tasked /\ s \in Tasked /\ r.k = "row" /\ s.d = d
    BY RowIs, SeqsAre DEF Task, Tasked, TaskType
  <2> HIDE DEF r, s
  <2>2. q \in Seq(Tasked) /\ Queued(q) \subseteq Queued(inbox) \cup {r}
    BY <1>0, <2>1, EmittedIs, QueuedEmitted
  <2> HIDE DEF q
  <2>3. inbox' = Emitted(q, s)
    BY <1>1 DEF q, r, s
  <2>4. Queued(inbox') \subseteq Queued(inbox) \cup {r, s}
    BY <2>1, <2>2, <2>3, QueuedEmitted
  <2> QED
    BY <2>1, <2>4
<1>6. Ahead' = Ahead
  BY <1>2 DEF Ahead
<1>7. Spared'
  <2>1. engine.d \in Drives \cup {NoDrive}
    BY TypesAre DEF MemoryOK
  <2>2. engine.d # NoDrive /\ live.d # engine.d => journal'[engine.d].state # "here"
    BY <1>3, <1>4, <2>1 DEF CancelInv, Spared, Journaled
  <2> QED
    BY <1>2, <1>6, <2>2 DEF CancelInv, Spared, Journaled
<1>8. Again'
  <2>1. \A t \in Queued(inbox) : t.d \in Drives
    BY QueuedDrives
  <2>2. \A t \in Queued(inbox') : t.k = "started" /\ trip'[t.d].status = "stored" /\ Journaled(t.d)' => t.d \in discards'
    BY <1>2, <1>3, <1>4, <1>5, <2>1 DEF CancelInv, Again
  <2>3. job'.pc = "store" /\ engine'.d = NoDrive =>
          \A t \in Queued(inbox') : t.k = "started" /\ t.d = failed'.d => ~Journaled(t.d)'
    BY <1>2, <1>3, <1>4, <1>5, <2>1 DEF CancelInv, Again
  <2> QED
    BY <2>2, <2>3 DEF Again
<1>9. \A e \in cancelled : Journaled(e)' => Journaled(e)
  BY <1>3, <1>4, QueuedDrives
<1> QED
  BY <1>2, <1>7, <1>8, <1>9, CancelKept

\* With the drives held and to be taken up as they were, those spared are.
LEMMA SparedKept ==
  ASSUME Types, BegunInv, Spared, Aged, cancelled' = cancelled, engine'.d \in {engine.d, NoDrive}, live'.d = live.d \/ engine'.d = NoDrive,
         failed'.d \in {failed.d, engine.d, NoDrive}, \A d \in boot'.todo \cup ({boot'.adopt, boot'.live} \ {NoDrive}) : d \notin cancelled,
         engine'.d # NoDrive => trip'[engine.d].status = trip[engine.d].status
  PROVE  Spared'
<1>1. NoDrive \notin cancelled /\ engine.d \in Drives \cup {NoDrive}
  BY QueuedDrives, TypesAre DEF MemoryOK
<1>2. \A d \in Ahead' : d \notin cancelled'
  BY DEF Ahead
<1>3. engine'.d # NoDrive /\ live'.d # engine'.d => journal'[engine.d].state # "here"
  BY <1>1 DEF Spared, Journaled, Aged, BegunInv
<1> QED
  BY <1>1, <1>2, <1>3 DEF Spared, Journaled

\* Native, a kill, a relaunch and a tap.
LEMMA NativeSpares ==
  ASSUME Types, Types', Knows, CancelInv, Aged, Native \/ Launch \/ Kill \/ Driver
  PROVE  CancelInv'
<1>0. BegunInv /\ Spared /\ Again
  BY DEF Knows, CancelInv
<1>1. CASE NativeBegins
  BY <1>1, BeginSpares
<1>2. CASE NativeRow \/ NativeEnds
  <2>1. UNCHANGED <<trip, marker, engine, live, discards, failed, cancelled, job, boot>>
    BY <1>2 DEF NativeRow, NativeEnds, stored, memory, history
  <2>2. PICK t \in Tasked : t.k # "started" /\ inbox' = Emitted(inbox, t)
    <3>1. NativeRow => Task("row", record, Row(record, journal[record].top + 1)) \in Tasked
      BY NextRowIs DEF Task, Tasked, TaskType
    <3>2. NativeEnds => Task("ended", record, 0) \in Tasked
      BY TypesAre DEF NativeEnds, NativeOK, Task, Tasked, TaskType
    <3>3. /\ NativeRow => inbox' = Emitted(inbox, Task("row", record, Row(record, journal[record].top + 1)))
          /\ NativeEnds => inbox' = Emitted(inbox, Task("ended", record, 0))
      BY DEF NativeRow, NativeEnds
    <3>4. \A d, r : Task("row", d, r).k # "started" /\ Task("ended", d, r).k # "started"
      BY DEF Task
    <3> QED
      BY <1>2, <3>1, <3>2, <3>3, <3>4
  <2>3. Again'
    BY <1>0, <2>1, <2>2, StartsEmitted, AgainKept
  <2>4. Spared'
    BY <1>0, <2>1, SparedKept DEF Spared, Ahead
  <2>5. \A d \in cancelled : Journaled(d)' => Journaled(d)
    BY <1>0, QueuedDrives DEF Aged, BegunInv
  <2> QED
    BY <2>1, <2>3, <2>4, <2>5, CancelKept
<1>3. CASE Launch \/ Kill
  <2>1. /\ UNCHANGED <<trip, marker, cancelled>> /\ (job.pc = "down" \/ job'.pc = "down") /\ job'.pc \in {"down", "marker"}
        /\ engine'.d = NoDrive /\ failed'.d \in {failed.d, NoDrive}
        /\ boot'.todo = {} /\ boot'.adopt = NoDrive /\ boot'.live = NoDrive
    <3>1. job.pc = "down" => engine.d = NoDrive
      BY TypesAre DEF Control, AtRest
    <3> QED
      BY <1>3, <3>1, NothingIs DEF Launch, LaunchAtRest, ResumeDrive, OrphanAtLaunch, Launches, Running, Kill, NoBoot, At, Job,
           stored, memory, history
  <2>2. \A t \in Queued(inbox') : t.k # "started"
    <3>1. job.pc = "down" => inbox = <<>>
      BY DEF Knows, Waiting
    <3>2. inbox' = <<>> \/ inbox' = <<Task("ended", record, 0)>>
      BY <1>3, <3>1 DEF Launch, LaunchAtRest, ResumeDrive, OrphanAtLaunch, Launches, Running, Kill
    <3> QED
      BY <3>2 DEF Queued, Task
  <2>3. Again'
    BY <2>1, <2>2 DEF Again
  <2>4. Spared'
    BY <1>0, <2>1, SparedKept
  <2>5. \A d \in cancelled : Journaled(d)' => Journaled(d)
    BY <1>0, QueuedDrives DEF Aged, BegunInv
  <2>6. /\ job.pc \in Forgetting => job'.pc \in Forgetting
        /\ job.pc \in {"ride", "drop"} => job'.pc \in Forgetting \cup {"ride", "drop"}
    BY <2>1 DEF Forgetting
  <2> QED
    BY <2>1, <2>3, <2>4, <2>5, <2>6, CancelKept
<1>4. CASE Driver
  <2>1. PICK t \in {Task("end", engine.d, 0), Task("again", failed.d, 0), Task("cancel", engine.d, 0)} :
          t.d # NoDrive /\ Taps(t)
    BY <1>4 DEF Driver, TapEnd, TapEndAgain, TapCancel, Task
  <2>2. /\ inbox' = Append(inbox, t) /\ UNCHANGED <<trip, marker, engine, live, discards, failed, cancelled, job, boot>>
    BY <2>1 DEF Taps, stored, memory, history
  <2>3. t \in Tasked /\ t.k # "started"
    <3>1. engine.d \in Drives \cup {NoDrive} /\ failed.d \in Drives \cup {NoDrive}
      BY TypesAre DEF MemoryOK
    <3> QED
      BY <2>1, <3>1 DEF Task, Tasked, TaskType
  <2>4. \A u \in Queued(inbox') : u.k = "started" => u \in Queued(inbox)
    BY <2>2, <2>3, QueuedDrives, QueuedAppend
  <2>5. Again'
    BY <1>0, <2>2, <2>4, AgainKept
  <2>6. Spared'
    BY <1>0, <2>2, SparedKept DEF Spared, Ahead
  <2>7. \A d \in cancelled : Journaled(d)' => Journaled(d)
    BY <1>0, QueuedDrives DEF Aged, BegunInv
  <2> QED
    BY <2>2, <2>5, <2>6, <2>7, CancelKept
<1> QED
  BY <1>1, <1>2, <1>3, <1>4 DEF Native

\* As long as native's events are held back, no start that waits is of a drive stored.
LEMMA StartingAgain ==
  ASSUME Knows', Starting'
  PROVE  Again'
<1>1. \A t \in Queued(inbox') : t.k = "started" => trip'[t.d].status = "absent"
  BY DEF Knows, Waiting
<1>2. job'.pc # "store"
  BY DEF Starting
<1> QED
  BY <1>1, <1>2 DEF Again

\* Past the last step of a cancel, those cancelled have neither a journal nor a trip.
LEMMA CancelledAre ==
  ASSUME Types, CancelInv, job.pc \notin Forgetting
  PROVE  /\ \A d \in cancelled : ~Journaled(d)
         /\ job.pc \notin {"ride", "drop"} => \A d \in cancelled : trip[d].status = "absent"
         /\ marker.d = NoDrive => \A d \in cancelled : trip[d].status = "absent"
<1>1. NoDrive \notin cancelled
  BY QueuedDrives
<1> QED
  BY <1>1 DEF CancelInv, Gone

\* A launch without a cancel to finish: those cancelled have been done away with.
LEMMA NoMarkerIs ==
  ASSUME Types, CancelInv, marker.d = NoDrive
  PROVE  \A d \in cancelled : ~Journaled(d) /\ trip[d].status = "absent"
<1>1. NoDrive \notin cancelled
  BY QueuedDrives
<1> QED
  BY <1>1 DEF CancelInv, Gone

\* After a cancel, the launch recovers what is open, which none of those cancelled is.
LEMMA CancelOverSpares ==
  ASSUME Types, Types', Knows, Knows', CancelInv, Aged, CancelOver, job.pc \in {"marker", "ride", "drop", "clear"},
         UNCHANGED <<trip, journal, engine, live, discards, failed, cancelled, inbox>>,
         \A d \in cancelled : ~Journaled(d) /\ trip[d].status = "absent"
  PROVE  CancelInv'
<1>0. BegunInv /\ Spared /\ Again /\ cancelled \subseteq Drives
  BY QueuedDrives DEF Knows, CancelInv
<1>1. \/ /\ boot.on /\ Starting /\ Starting' /\ job'.pc = "recover" /\ boot'.on /\ boot'.todo = Open
         /\ boot'.adopt = NoDrive /\ boot'.live = NoDrive
      \/ ~boot.on /\ ~Starting /\ ~Starting' /\ job'.pc = "after" /\ boot' = boot /\ boot = NoBoot
  BY CancelOverIs
<1>2. CancelledStaysGone' /\ Gone'
  BY DEF CancelledStaysGone, Gone, Journaled
<1>3. \A d \in boot'.todo \cup ({boot'.adopt, boot'.live} \ {NoDrive}) : d \notin cancelled
  BY <1>1 DEF Open, NoBoot
<1>4. Spared'
  BY <1>0, <1>3, SparedKept
<1>5. Again'
  <2>1. CASE Starting'
    BY <2>1, StartingAgain
  <2>2. CASE ~Starting'
    <3>1. job'.pc # "store"
      BY <1>1, <2>2
    <3> QED
      BY <1>0, <3>1, AgainKept
  <2> QED
    BY <2>1, <2>2
<1> QED
  BY <1>2, <1>4, <1>5 DEF CancelInv

\* Native is told: no cancelled drive keeps its journal.
LEMMA TellSpares ==
  ASSUME Types, Types', Knows, CancelInv, Aged, TellNative \/ FinishPendingCancel
  PROVE  CancelInv'
<1>0. BegunInv /\ Spared /\ Again /\ Gone /\ CancelledStaysGone /\ Control /\ NativeOK /\ cancelled \subseteq Drives /\ inbox \in Seq(Tasked)
  BY TypesAre, QueuedDrives DEF Knows, CancelInv
<1>1. /\ record' \in {record, NoDrive} /\ UNCHANGED <<engine, live, captureOn, discards, failed, cancelled, marker, trip, boot>>
      /\ \/ UNCHANGED <<record, inbox>>
         \/ /\ record \in Drives /\ record' = NoDrive /\ journal'[record].state # "here" /\ Begun(record)
            /\ inbox' = Emitted(inbox, Task("cancelled", record, 0))
  BY TellIs
<1>2. job.pc \in {"marker", "tell"} /\ job'.pc = "ride"
  BY DEF TellNative, FinishPendingCancel, Cancel, Job
<1>3. \A d \in cancelled : journal'[d].state # "here"
  <2>1. ASSUME NEW d \in cancelled, Journaled(d)
        PROVE  journal'[d].state # "here"
    <3>1. marker.d = d /\ marker.held /\ d \in Drives
      BY <1>0, <2>1 DEF Gone
    <3>2. CASE TellNative
      <4>1. d \in Forgotten
        BY <1>0, <3>1, <3>2 DEF TellNative, Control, Forgotten
      <4>2. journal'[d] = [journal[d] EXCEPT !.state = "gone"]
        BY <2>1, <3>1, <3>2, <4>1 DEF TellNative
      <4> QED
        BY <1>0, <3>1, <4>2 DEF NativeOK
    <3>3. CASE FinishPendingCancel
      BY <1>0, <3>1, <3>3 DEF FinishPendingCancel, NativeOK
    <3> QED
      BY <3>2, <3>3
  <2>2. ASSUME NEW d \in cancelled, ~Journaled(d)
        PROVE  journal'[d].state # "here"
    BY <1>0, <2>2 DEF Aged, BegunInv, Journaled
  <2> QED
    BY <2>1, <2>2
<1>4. Gone'
  <2>1. \A d \in cancelled : trip[d].status # "absent" => marker.d = d
    BY <1>0 DEF Gone
  <2> QED
    BY <1>1, <1>2, <1>3, <2>1 DEF Gone, Journaled
<1>5. Spared'
  BY <1>0, <1>1, SparedKept DEF Spared, Ahead
<1>6. \A t \in Queued(inbox') : t.k = "started" => t \in Queued(inbox)
  <2>1. CASE UNCHANGED <<record, inbox>>
    BY <2>1
  <2>2. CASE record \in Drives /\ inbox' = Emitted(inbox, Task("cancelled", record, 0))
    <3>1. PICK t \in Tasked : t.k # "started" /\ inbox' = Emitted(inbox, t)
      <4>1. Task("cancelled", record, 0) \in Tasked
        BY <2>2 DEF Task, Tasked, TaskType
      <4> QED
        BY <2>2, <4>1 DEF Task
    <3> QED
      BY <3>1, StartsEmitted
  <2> QED
    BY <1>1, <2>1, <2>2
<1>7. Again'
  BY <1>0, <1>1, <1>2, <1>6, AgainKept
<1>8. CancelledStaysGone'
  BY <1>0, <1>1 DEF CancelledStaysGone
<1> QED
  BY <1>4, <1>5, <1>7, <1>8 DEF CancelInv

\* The steps of a cancel.
LEMMA CancellingSpares ==
  ASSUME Told, Types, Types', Knows, Knows', CancelInv, Aged, Cancelling
  PROVE  CancelInv'
<1>0. BegunInv /\ Spared /\ Again /\ Gone /\ CancelledStaysGone /\ Control /\ StoredOK /\ JobOK /\ cancelled \subseteq Drives
  BY TypesAre, QueuedDrives DEF Knows, CancelInv
<1>1. CASE TellNative
  BY <1>1, TellSpares
<1>2. CASE QueueRide
  <2>1. /\ job.pc = "ride" /\ job'.pc = "drop" /\ UNCHANGED <<journal, trip, marker, engine, live, discards, failed, cancelled, boot, inbox>>
    BY <1>2 DEF QueueRide, native, memory, history, Cancel, Job
  <2>2. Again' /\ Spared'
    BY <1>0, <2>1, AgainKept, SparedKept DEF Spared, Ahead
  <2>3. \A d \in cancelled : Journaled(d)' => Journaled(d)
    BY <1>0 DEF Aged, BegunInv
  <2> QED
    BY <2>1, <2>2, <2>3, CancelKept DEF Forgetting
<1>3. CASE DropTrip
  <2>1. /\ job.pc = "drop" /\ job'.pc = "clear" /\ trip' = Dropped(job.d) /\ job.d = marker.d
        /\ UNCHANGED <<journal, marker, engine, live, discards, failed, cancelled, boot, inbox>>
    BY <1>0, <1>3 DEF DropTrip, Control, native, memory, history, Cancel, Job
  <2>2. job.d \in Drives /\ engine.d = NoDrive
    BY <1>0, <2>1 DEF Control, AtRest, JobOK
  <2>3. /\ \A e \in Drives \ {job.d} : trip'[e] = trip[e]
        /\ trip[job.d].status # "stored" => trip'[job.d].status = "absent"
        /\ \A e \in Drives : trip'[e].status = "stored" => trip[e].status = "stored"
    BY <1>0, <2>1, <2>2 DEF Dropped, Absent, StoredOK
  <2>4. \A d \in cancelled : ~Journaled(d)' /\ trip'[d].status = "absent"
    <3>1. job.pc \notin Forgetting
      BY <2>1 DEF Forgetting
    <3>2. \A d \in cancelled : ~Journaled(d) /\ (trip[d].status # "absent" => marker.d = d) /\ trip[d].status # "stored"
      BY <1>0, <3>1 DEF Gone, CancelledStaysGone
    <3> QED
      BY <1>0, <2>1, <2>3, <3>2 DEF Journaled
  <2>5. CancelledStaysGone' /\ Gone'
    BY <2>1, <2>4 DEF CancelledStaysGone, Gone
  <2>6. Spared'
    BY <1>0, <2>1, <2>2, SparedKept DEF Spared, Ahead
  <2>7. Again'
    BY <1>0, <2>1, <2>3, AgainKept
  <2> QED
    BY <2>5, <2>6, <2>7 DEF CancelInv
<1>4. CASE DropFails
  BY <1>4 DEF DropFails, Fault, Told
<1>5. CASE ClearMarker
  <2>1. /\ CancelOver /\ job.pc = "clear"
        /\ UNCHANGED <<trip, journal, engine, live, discards, failed, cancelled, inbox>>
    BY <1>5 DEF ClearMarker, native, memory, history
  <2>2. \A d \in cancelled : ~Journaled(d) /\ trip[d].status = "absent"
    BY <2>1, CancelledAre DEF Forgetting
  <2> QED
    BY <2>1, <2>2, CancelOverSpares
<1> QED
  BY <1>1, <1>2, <1>3, <1>4, <1>5 DEF Cancelling

\* The recovery.
LEMMA RecoverySpares ==
  ASSUME Types, Types', Knows, Knows', CancelInv, Aged, Recovery
  PROVE  CancelInv'
<1>0. BegunInv /\ Launching /\ Spared /\ Again /\ Control /\ StoredOK /\ BootOK /\ cancelled \subseteq Drives
  BY TypesAre, QueuedDrives DEF Knows, CancelInv
<1>1. CASE NoPendingCancel
  <2>1. /\ CancelOver /\ job.pc = "marker" /\ marker.d = NoDrive
        /\ UNCHANGED <<trip, journal, engine, live, discards, failed, cancelled, inbox>>
    BY <1>1 DEF NoPendingCancel, native, stored, memory, history
  <2> QED
    BY <2>1, NoMarkerIs, CancelOverSpares
<1>2. CASE FinishPendingCancel
  BY <1>2, TellSpares
<1>3. CASE RecoverEmpty \/ RecoverNewest \/ RecoverOrphan \/ RecoverFails
  <2>1. /\ job.pc = "recover" /\ job' = job /\ boot.todo # {}
        /\ UNCHANGED <<journal, engine, live, discards, failed, cancelled, marker, inbox>>
    BY <1>3 DEF RecoverEmpty, RecoverNewest, RecoverOrphan, RecoverFails, Recovering, native, stored, memory, history
  <2>2. NextOpen \in boot.todo /\ NextOpen \in Drives /\ NextOpen \notin cancelled
    BY <1>0, <2>1, NextIs DEF NextOpen, Spared, Ahead
  <2>3. boot.on /\ boot.live = NoDrive /\ boot.adopt = NoDrive /\ engine.d = NoDrive
    BY <1>0, <2>1 DEF Control, Starting, Launching, AtRest
  <2>4. \A d \in Drives \ {NextOpen} : trip'[d] = trip[d]
    <3>1. Rebuilt(NextOpen) \in SessionType /\ Rebuilt(NextOpen).d = NextOpen
      BY <1>0, <2>2, RebuiltIs
    <3>2. \A d \in Drives \ {NextOpen} : CloseDrive(Rebuilt(NextOpen))[d] = trip[d]
      BY <1>0, <2>2, <3>1, WritesAre
    <3>3. \A d \in Drives \ {NextOpen} : [trip EXCEPT ![NextOpen] = Absent][d] = trip[d]
      BY <1>0 DEF StoredOK
    <3> QED
      BY <1>3, <3>2, <3>3 DEF RecoverEmpty, RecoverNewest, RecoverOrphan, RecoverFails, stored
  <2>5. \/ boot' = [boot EXCEPT !.todo = @ \ {NextOpen}]
        \/ boot' = [boot EXCEPT !.todo = {}, !.adopt = NextOpen]
    BY <1>3 DEF RecoverEmpty, RecoverNewest, RecoverOrphan, RecoverFails, Recovered
  <2>6. /\ boot'.on /\ boot'.live = NoDrive /\ boot'.todo \subseteq boot.todo /\ boot'.adopt \in {NoDrive, NextOpen}
    BY <1>0, <2>3, <2>5 DEF BootOK
  <2>7. \A d \in boot'.todo \cup ({boot'.adopt, boot'.live} \ {NoDrive}) : d \notin cancelled
    BY <1>0, <2>2, <2>6 DEF Spared, Ahead
  <2>8. Spared'
    BY <1>0, <2>1, <2>3, <2>7, SparedKept
  <2>9. Again'
    <3>1. Starting'
      BY <2>1, <2>6 DEF Starting
    <3> QED
      BY <3>1, StartingAgain
  <2>10. \A d \in cancelled : (Journaled(d)' => Journaled(d)) /\ trip'[d] = trip[d]
    BY <1>0, <2>1, <2>2, <2>4 DEF Journaled
  <2> QED
    BY <2>1, <2>8, <2>9, <2>10, CancelKept DEF Forgetting
<1>4. CASE RecoveryOver
  <2>1. /\ job.pc = "recover" /\ job'.pc = "boot"
        /\ UNCHANGED <<journal, engine, live, discards, failed, cancelled, marker, inbox, trip, boot>>
    BY <1>4 DEF RecoveryOver, native, stored, memory, history, At, Job
  <2>2. Again' /\ Spared'
    BY <1>0, <2>1, AgainKept, SparedKept DEF Spared, Ahead
  <2>3. \A d \in cancelled : Journaled(d)' => Journaled(d)
    BY <2>1 DEF Journaled
  <2> QED
    BY <2>1, <2>2, <2>3, CancelKept DEF Forgetting
<1> QED
  BY <1>1, <1>2, <1>3, <1>4 DEF Recovery

\* A drive opens that is not cancelled, and that is held or has no journal.
LEMMA OpensSpares ==
  ASSUME Types, Types', Knows, CancelInv, Aged, NEW s \in SessionType, s.d \notin cancelled, OpenDrive(s),
         trip[s.d].status # "stored", live'.d = s.d \/ ~Journaled(s.d)', UNCHANGED <<marker, cancelled, discards>>,
         job.pc \notin Forgetting \cup {"ride", "drop"}, job'.pc # "store",
         \A t \in Queued(inbox') : t.k = "started" => t \in Queued(inbox), Ahead' \subseteq Ahead
  PROVE  CancelInv'
<1>0. BegunInv /\ Spared /\ Again /\ StoredOK /\ cancelled \subseteq Drives /\ NoDrive \notin cancelled
  BY TypesAre, QueuedDrives DEF Knows, CancelInv
<1>1. s.d \in Drives /\ s.d # NoDrive
  BY DrivesAre DEF SessionType
<1>2. /\ engine' = s /\ failed'.d = NoDrive
      /\ \A e \in Drives : trip'[e].status = IF e = s.d /\ trip[e].status = "absent" THEN "recording" ELSE trip[e].status
  BY <1>0, OpensAre, NothingIs
<1>3. \A d \in cancelled : ~Journaled(d) /\ trip[d].status = "absent"
  BY CancelledAre DEF Forgetting
<1>4. \A d \in cancelled : ~Journaled(d)' /\ trip'[d].status = "absent"
  BY <1>0, <1>2, <1>3 DEF Aged, BegunInv
<1>5. CancelledStaysGone' /\ Gone'
  BY <1>4 DEF CancelledStaysGone, Gone
<1>6. trip'[s.d].status = "recording"
  BY <1>0, <1>1, <1>2 DEF StoredOK
<1>7. Spared'
  BY <1>0, <1>2, <1>6 DEF Spared
<1>8. Again'
  BY <1>0, <1>2, AgainKept
<1> QED
  BY <1>5, <1>7, <1>8 DEF CancelInv

\* A launch's drives are none of those cancelled.
LEMMA BootSpares ==
  ASSUME Told, Types, Types', Knows, CancelInv, Aged, Boot
  PROVE  CancelInv'
<1>0. /\ BegunInv /\ Launching /\ Spared /\ Again /\ Control /\ StoredOK /\ MemoryOK /\ BootOK /\ NativeOK /\ Files
      /\ cancelled \subseteq Drives /\ NoDrive \notin cancelled /\ inbox \in Seq(Tasked)
  BY TypesAre, QueuedDrives DEF Knows, CancelInv
<1>1. CASE BootReads
  <2>1. /\ job.pc = "boot" /\ job'.pc = "ended" /\ inbox' = Delivered(inbox)
        /\ UNCHANGED <<record, journal, trip, marker, engine, live, discards, failed, cancelled>>
    BY <1>1 DEF BootReads, At, Job, native, stored, history
  <2>2. /\ boot'.todo \subseteq {d \in Drives : Journaled(d)} /\ boot'.live = record /\ boot'.adopt = boot.adopt
    BY <1>0, <1>1 DEF BootReads, BootOK
  <2>3. \A d \in cancelled : ~Journaled(d)
    BY <2>1, CancelledAre DEF Forgetting
  <2>4. \A d \in boot'.todo \cup ({boot'.adopt, boot'.live} \ {NoDrive}) : d \notin cancelled
    <3>1. record # NoDrive => record \notin cancelled
      BY <1>0, <2>3 DEF Files
    <3>2. boot.adopt # NoDrive => boot.adopt \notin cancelled
      BY <1>0 DEF Spared, Ahead
    <3> QED
      BY <2>2, <2>3, <3>1, <3>2
  <2>5. Spared'
    BY <1>0, <2>1, <2>4, SparedKept
  <2>6. Queued(inbox') \subseteq Queued(inbox)
    BY <1>0, <2>1, QueuedDelivered
  <2>7. Again'
    BY <1>0, <2>1, <2>6, AgainKept
  <2>8. \A d \in cancelled : Journaled(d)' => Journaled(d)
    BY <2>1 DEF Journaled
  <2> QED
    BY <2>1, <2>5, <2>7, <2>8, CancelKept DEF Forgetting
<1>2. CASE BootAdoptsEnded
  <2>1. PICK n \in boot.todo : n = Min(boot.todo) /\ n \in Drives
    BY <1>0, <1>2, NextIs DEF BootAdoptsEnded
  <2>2. /\ job.pc = "ended" /\ AdoptEnded(n)
        /\ boot' = [boot EXCEPT !.todo = @ \ {n}, !.adopt = IF @ = n THEN NoDrive ELSE @]
        /\ UNCHANGED <<record, journal, marker, inbox, cancelled>>
    BY <1>2, <2>1 DEF BootAdoptsEnded, native, history
  <2>3. n \notin cancelled
    BY <1>0, <2>1 DEF Spared, Ahead
  <2>4. boot'.todo \subseteq boot.todo /\ boot'.adopt \in {NoDrive, boot.adopt} /\ boot'.live = boot.live
    BY <1>0, <2>2 DEF BootOK
  <2>5. CASE trip[n].status = "stored"
    <3>1. /\ discards' = discards \cup {n} /\ job' = Back /\ UNCHANGED <<trip, engine, live, failed>>
      BY <2>2, <2>5 DEF AdoptEnded
    <3>2. job'.pc \in {"ended", "after"}
      BY <3>1 DEF Back, At, Job
    <3>3. Spared'
      BY <1>0, <2>2, <2>4, <3>1, SparedKept DEF Spared, Ahead
    <3>4. Again'
      BY <1>0, <2>2, <3>1, <3>2, AgainKept
    <3>5. \A d \in cancelled : Journaled(d)' => Journaled(d)
      BY <2>2 DEF Journaled
    <3> QED
      BY <2>2, <3>1, <3>3, <3>4, <3>5, CancelKept DEF Forgetting
  <2>6. CASE trip[n].status # "stored"
    <3>1. OpenDrive(Rebuilt(n)) /\ live'.d = n /\ discards' = discards /\ job'.pc = "drain"
      BY <2>2, <2>6 DEF AdoptEnded, Drain, Job
    <3>2. PICK s \in SessionType : s.d = n /\ OpenDrive(s)
      BY <1>0, <2>1, <3>1, RebuiltIs
    <3>3. Ahead' \subseteq Ahead
      BY <2>4 DEF Ahead
    <3> QED
      BY <2>2, <2>3, <2>6, <3>1, <3>2, <3>3, OpensSpares DEF Forgetting
  <2> QED
    BY <2>5, <2>6
<1>3. ASSUME boot' = NoBoot
      PROVE  Ahead' = {}
  BY <1>3 DEF Ahead, NoBoot
<1>4. CASE BootContinues \/ BootTakesLive
  <2>1. /\ job.pc = "ended" /\ boot.todo = {} /\ boot' = NoBoot /\ job'.pc \in {"after", "drain"}
        /\ UNCHANGED <<journal, marker, discards, inbox, cancelled>>
    BY <1>4 DEF BootContinues, BootTakesLive, BootGoesOn, At, Drain, Job, native, history
  <2>2. PICK n \in Drives : /\ n \in Ahead /\ OpenDrive(Rebuilt(n)) /\ trip[n].status # "stored"
                            /\ live'.d = n \/ journal'[n].state # "here"
    <3>1. CASE BootContinues
      <4>1. boot.adopt # NoDrive /\ boot.adopt # boot.live /\ OpenDrive(Rebuilt(boot.adopt)) /\ boot.on /\ ~Starting
        BY <1>0, <2>1, <3>1 DEF BootContinues, Control, Starting
      <4>2. "list" \notin Faults
        BY DEF Told
      <4>3. trip[boot.adopt].status = "recording" /\ ~Journaled(boot.adopt)
        BY <1>0, <2>1, <4>1, <4>2 DEF Launching
      <4> QED
        BY <1>0, <2>1, <4>1, <4>3 DEF BootOK, Ahead, Journaled
    <3>2. CASE BootTakesLive
      BY <1>0, <3>2 DEF BootTakesLive, BootOK, Ahead
    <3> QED
      BY <1>4, <3>1, <3>2
  <2>3. PICK s \in SessionType : s.d = n /\ OpenDrive(s)
    BY <1>0, <2>2, RebuiltIs
  <2>4. n \notin cancelled
    BY <1>0, <2>2 DEF Spared
  <2> QED
    BY <1>3, <2>1, <2>2, <2>3, <2>4, OpensSpares DEF Forgetting, Journaled
<1>5. CASE BootRests
  <2>1. /\ job.pc = "ended" /\ job'.pc = "after" /\ boot' = NoBoot
        /\ UNCHANGED <<journal, trip, marker, engine, live, discards, failed, inbox, cancelled>>
    BY <1>5 DEF BootRests, BootGoesOn, At, Job, native, stored, memory, history
  <2>2. \A d \in boot'.todo \cup ({boot'.adopt, boot'.live} \ {NoDrive}) : d \notin cancelled
    BY <2>1 DEF NoBoot
  <2>3. Spared' /\ Again'
    BY <1>0, <2>1, <2>2, SparedKept, AgainKept
  <2>4. \A d \in cancelled : Journaled(d)' => Journaled(d)
    BY <2>1 DEF Journaled
  <2> QED
    BY <2>1, <2>3, <2>4, CancelKept DEF Forgetting
<1> QED
  BY <1>1, <1>2, <1>4, <1>5 DEF Boot

\* A checkpoint of the open drive leaves it recording, and the other trips as they are.
LEMMA CheckpointSpares ==
  ASSUME Types, Spared, engine.d # NoDrive, trip' = trip \/ \E r : trip' = Checkpoint(engine.d, r)
  PROVE  /\ engine.d \in Drives /\ trip'[engine.d].status = trip[engine.d].status
         /\ \A d \in Drives \ {engine.d} : trip'[d] = trip[d]
<1>1. StoredOK /\ engine.d \in Drives /\ trip[engine.d].status = "recording"
  BY TypesAre DEF MemoryOK, Spared
<1>2. ASSUME NEW r, trip' = Checkpoint(engine.d, r)
      PROVE  /\ trip'[engine.d].status = trip[engine.d].status
             /\ \A d \in Drives \ {engine.d} : trip'[d] = trip[d]
  <2> DEFINE new == [status |-> "recording", rows |-> trip[engine.d].rows \cup {x \in r : x > LastOf(trip[engine.d].rows)}]
  <2>1. new.status = "recording" /\ trip' = [trip EXCEPT ![engine.d] = new]
    BY <1>1, <1>2 DEF Checkpoint
  <2> HIDE DEF new
  <2> QED
    BY <1>1, <2>1 DEF StoredOK
<1> QED
  BY <1>1, <1>2

\* A step that opens no drive.
LEMMA GoesOnSpares ==
  ASSUME Types, Types', Knows, CancelInv, Aged, job.pc \notin Forgetting \cup {"ride", "drop"},
         UNCHANGED <<marker, cancelled, boot>>, discards \subseteq discards',
         trip' = trip \/ (engine.d # NoDrive /\ \E r : trip' = Checkpoint(engine.d, r)),
         engine'.d \in {engine.d, NoDrive}, live'.d = live.d \/ engine'.d = NoDrive, failed'.d \in {failed.d, engine.d, NoDrive},
         job'.pc = "store" => engine'.d # NoDrive, \A t \in Queued(inbox') : t.k = "started" => t \in Queued(inbox)
  PROVE  CancelInv'
<1>0. BegunInv /\ Spared /\ Again /\ cancelled \subseteq Drives
  BY QueuedDrives DEF Knows, CancelInv
<1>1. \A d \in Drives : trip'[d] = trip[d] \/ (d = engine.d /\ engine.d # NoDrive)
  BY <1>0, CheckpointSpares
<1>2. engine.d # NoDrive => trip'[engine.d].status = trip[engine.d].status
  BY <1>0, CheckpointSpares
<1>3. Spared'
  BY <1>0, <1>2, SparedKept DEF Spared, Ahead
<1>4. \A d \in Drives : trip'[d].status = "stored" => trip[d].status = "stored"
  BY <1>1, <1>2
<1>5. Again'
  BY <1>0, <1>4, AgainKept
<1>6. \A d \in cancelled : (Journaled(d)' => Journaled(d)) /\ trip'[d] = trip[d]
  BY <1>0, <1>1 DEF Aged, BegunInv, Spared
<1> QED
  BY <1>3, <1>5, <1>6, CancelKept

\* What a drain does.
LEMMA ReadingSpares ==
  ASSUME Types, Types', Knows, CancelInv, Aged, Reading
  PROVE  CancelInv'
<1>0. Control /\ MemoryOK
  BY TypesAre
<1>1. job.pc \in {"drain", "drained"} /\ engine.d # NoDrive
  BY <1>0 DEF Reading, ReadPage, ReadFails, TakenUp, GapFilled, NativeEndTaken, ReleaseDrive, Control
<1>2. job.pc \notin Forgetting \cup {"ride", "drop"}
  BY <1>1 DEF Forgetting
<1>3. /\ UNCHANGED <<marker, cancelled, boot, discards, inbox, failed>>
      /\ trip' = trip \/ \E r : trip' = Checkpoint(engine.d, r)
      /\ engine'.d \in {engine.d, NoDrive} /\ (live'.d = live.d \/ engine'.d = NoDrive) /\ job'.pc # "store"
  <2>1. CASE ReadPage
    <3>1. /\ UNCHANGED <<marker, cancelled, boot, discards, inbox, failed>> /\ live'.d = live.d
          /\ trip' = trip \/ \E r : trip' = Checkpoint(engine.d, r)
          /\ engine'.d = engine.d
      BY <1>0, <2>1 DEF ReadPage, Reach, TakeIn, TakeInAndEnd, MemoryOK, history
    <3>2. job.pc = "drain" /\ (job' = AfterPage \/ job' = Close("auto"))
      BY <2>1 DEF ReadPage, TakeInAndEnd
    <3>3. job'.pc # "store"
      BY <3>2, AfterPageIs DEF Close, Job
    <3> QED
      BY <3>1, <3>3
  <2>2. CASE ReadFails
    <3>1. job'.pc = "drained"
      BY <2>2, TypesAre DEF ReadFails, JobOK
    <3> QED
      BY <2>2, <3>1 DEF ReadFails, stored, memory, history
  <2>3. CASE TakenUp \/ NativeEndTaken
    BY <2>3 DEF TakenUp, NativeEndTaken, At, Close, Job, stored, memory, history
  <2>4. CASE GapFilled
    <3>1. CASE TakeLiveRow(job.row)
      <4>1. /\ UNCHANGED <<marker, cancelled, boot, discards, inbox, failed>> /\ live'.d = live.d /\ engine'.d = engine.d
            /\ trip' = trip \/ \E r : trip' = Checkpoint(engine.d, r)
        BY <1>0, <2>4, <3>1 DEF GapFilled, TakeLiveRow, TakeIn, TakeInAndEnd, MemoryOK, history
      <4>2. job' = At("after") \/ job' = Close("auto")
        BY <3>1 DEF TakeLiveRow, TakeInAndEnd
      <4> QED
        BY <4>1, <4>2 DEF At, Close, Job
    <3>2. CASE ~TakeLiveRow(job.row)
      BY <2>4, <3>2 DEF GapFilled, At, Job, stored, memory, history
    <3> QED
      BY <3>1, <3>2
  <2>5. CASE ReleaseDrive
    BY <2>5, NothingIs DEF ReleaseDrive, Back, At, Job, history
  <2> QED
    BY <2>1, <2>2, <2>3, <2>4, <2>5 DEF Reading
<1> QED
  BY <1>1, <1>2, <1>3, GoesOnSpares

\* The end of a drive.
LEMMA EndingSpares ==
  ASSUME Types, Types', Knows, CancelInv, Aged, Ending
  PROVE  CancelInv'
<1>0. /\ BegunInv /\ Capture /\ Discards /\ Spared /\ Again /\ Control /\ StoredOK /\ MemoryOK
      /\ cancelled \subseteq Drives /\ \A t \in Queued(inbox) : t.d \in Drives
  BY TypesAre, QueuedDrives DEF Knows, CancelInv
<1>1. job.pc \notin Forgetting \cup {"ride", "drop"}
  BY DEF Ending, CloseCheckpoint, StoreDrive, StoreFails, StopCapture, DiscardJournals, Forgetting
<1>2. CASE CloseCheckpoint
  <2>1. /\ UNCHANGED <<marker, cancelled, boot, discards, inbox, failed, engine, live>> /\ job.pc = "close"
        /\ trip' = trip \/ \E r : trip' = Checkpoint(engine.d, r)
    BY <1>2 DEF CloseCheckpoint, Judge, memory
  <2>2. engine.d # NoDrive
    BY <1>0, <2>1 DEF Control
  <2> QED
    BY <1>1, <2>1, <2>2, GoesOnSpares
<1>3. CASE StoreDrive
  <2>1. /\ UNCHANGED <<journal, marker, inbox, boot, cancelled>> /\ job.pc = "store" /\ job'.pc # "store" /\ trip' = CloseDrive(Closing)
        /\ discards' = IF live.d = Closing.d THEN discards \cup {live.d} ELSE discards
        /\ failed'.d \in {failed.d, NoDrive} /\ engine'.d = NoDrive
    BY <1>3, NothingIs DEF StoreDrive, Back, At, Job, native, history
  <2>2. Closing \in SessionType /\ Closing.d \in Drives /\ Closing.d \notin cancelled
    BY <1>0, <2>1 DEF Control, Closing, MemoryOK, SessionType, Spared
  <2>3. \A e \in Drives \ {Closing.d} : trip'[e] = trip[e]
    BY <1>0, <2>1, <2>2, WritesAre
  <2>4. Spared'
    BY <1>0, <2>1, SparedKept DEF Spared, Ahead
  <2>5. Again'
    <3>1. ASSUME NEW t \in Queued(inbox), t.k = "started", trip'[t.d].status = "stored", Journaled(t.d)
          PROVE  t.d \in discards'
      <4>1. CASE t.d # Closing.d
        BY <1>0, <2>1, <2>3, <3>1, <4>1 DEF Again
      <4>2. CASE t.d = Closing.d /\ engine.d # NoDrive
        BY <1>0, <2>1, <3>1, <4>2 DEF Closing, Spared
      <4>3. CASE t.d = Closing.d /\ engine.d = NoDrive
        BY <1>0, <2>1, <3>1, <4>3 DEF Closing, Again
      <4> QED
        BY <4>1, <4>2, <4>3
    <3> QED
      BY <2>1, <3>1 DEF Again, Journaled
  <2>6. \A d \in cancelled : (Journaled(d)' => Journaled(d)) /\ trip'[d] = trip[d]
    BY <1>0, <2>1, <2>2, <2>3 DEF Journaled
  <2> QED
    BY <1>1, <2>1, <2>4, <2>5, <2>6, CancelKept
<1>4. CASE StoreFails
  <2>1. /\ UNCHANGED <<marker, cancelled, boot, discards, inbox, trip>> /\ failed'.d \in {failed.d, engine.d}
        /\ engine'.d = NoDrive /\ job'.pc # "store"
    BY <1>4, NothingIs DEF StoreFails, Closing, Back, At, Job, stored, history
  <2> QED
    BY <1>1, <2>1, GoesOnSpares
<1>5. CASE StopCapture
  <2>1. UNCHANGED <<marker, cancelled, boot, discards, inbox, failed, engine, live, trip>> /\ job'.pc = "discard"
    BY <1>5 DEF StopCapture, stored, history, At, Job
  <2> QED
    BY <1>1, <2>1, GoesOnSpares
<1>6. CASE DiscardJournals
  <2>1. /\ UNCHANGED <<record, marker, trip, engine, live, captureOn, failed, inbox, boot, cancelled>>
        /\ job'.pc = "ready" /\ discards' = discards \cap {live.d}
        /\ job.pc = "discard" \/ (job.pc = "after" /\ ~Overrun)
        /\ \A d \in discards \ {live.d, record} : journal'[d] = [journal[d] EXCEPT !.state = "gone"]
    BY <1>0, <1>6 DEF DiscardJournals, stored, history, At, Job, MemoryOK
  <2>2. record \notin discards
    <3>1. record \in discards => record # NoDrive
      BY QueuedDrives
    <3>2. captureOn => engine.d # NoDrive \/ record \notin discards
      BY <1>0, <2>1, <3>1 DEF Capture, Overrun
    <3> QED
      BY <1>0, <3>1, <3>2 DEF Capture, Discards
  <2>3. ASSUME NEW d \in discards, journal'[d].state = "here"
        PROVE  d = live.d
    <3>1. d \in Drives /\ journal[d] \in [state : {"none", "here", "gone"}, rows : RowSets, top : 0 .. MaxSeq]
      BY <1>0, TypesAre DEF NativeOK, MemoryOK
    <3>2. d # live.d => journal'[d] = [journal[d] EXCEPT !.state = "gone"]
      BY <2>1, <2>2, <2>3
    <3> QED
      BY <2>3, <3>1, <3>2
  <2>4. Spared'
    BY <1>0, <2>1, SparedKept DEF Spared, Ahead
  <2>5. Again'
    <3>1. ASSUME NEW t \in Queued(inbox), t.k = "started", trip[t.d].status = "stored", journal'[t.d].state = "here"
          PROVE  t.d \in discards'
      <4>1. Journaled(t.d)
        BY <1>0, <3>1 DEF BegunInv, Aged, Journaled
      <4>2. t.d \in discards
        BY <1>0, <3>1, <4>1 DEF Again
      <4> QED
        BY <2>1, <2>3, <3>1, <4>2
    <3> QED
      BY <2>1, <3>1 DEF Again, Journaled
  <2>6. \A d \in cancelled : (Journaled(d)' => Journaled(d)) /\ trip'[d] = trip[d]
    BY <1>0, <2>1 DEF Aged, BegunInv
  <2> QED
    BY <1>1, <2>1, <2>4, <2>5, <2>6, CancelKept
<1> QED
  BY <1>2, <1>3, <1>4, <1>5, <1>6 DEF Ending

\* A cancel begins: the marker has what is left of the drive done away with.
LEMMA CancelDriveSpares ==
  ASSUME Types, Types', Knows, CancelInv, Aged, job.pc = "ready", NEW d \in Drives, NEW held \in BOOLEAN, CancelDrive(d, held),
         trip[d].status # "stored", Journaled(d) => held, \A t \in Queued(inbox') : t.k = "started" => t \in Queued(inbox)
  PROVE  CancelInv'
<1>0. BegunInv /\ Spared /\ Again /\ cancelled \subseteq Drives /\ NoDrive \notin cancelled /\ Ahead = {}
  BY QueuedDrives, ReadyIs DEF Knows, CancelInv
<1>1. /\ UNCHANGED <<journal, trip, discards, boot>> /\ marker'.d = d /\ marker'.held = held /\ cancelled' = cancelled \cup {d}
      /\ engine'.d = NoDrive /\ failed'.d # d /\ failed'.d \in {failed.d, NoDrive} /\ job'.pc = "tell"
  BY NothingIs, DrivesAre DEF CancelDrive, Cancel, Job, native
<1>2. \A e \in cancelled : ~Journaled(e) /\ trip[e].status = "absent"
  BY CancelledAre DEF Forgetting
<1>3. CancelledStaysGone'
  BY <1>1, <1>2 DEF CancelledStaysGone
<1>4. Gone'
  BY <1>1, <1>2 DEF Gone, Forgetting, Journaled
<1>5. Spared'
  <2>1. Ahead' = {}
    BY <1>0, <1>1 DEF Ahead
  <2>2. engine'.d \notin cancelled' /\ failed'.d \notin cancelled'
    BY <1>0, <1>1, DrivesAre DEF Spared
  <2> QED
    BY <1>1, <2>1, <2>2 DEF Spared
<1>6. Again'
  BY <1>0, <1>1, AgainKept
<1> QED
  BY <1>3, <1>4, <1>5, <1>6 DEF CancelInv

\* The tasks of the queue.
LEMMA TasksSpare ==
  ASSUME Told, Types, Types', Knows, CancelInv, Aged, Tasks
  PROVE  CancelInv'
<1>0. /\ BegunInv /\ Waiting /\ Spared /\ Again /\ Gone /\ Control /\ StoredOK /\ MemoryOK /\ QueueOK
      /\ inbox \in Seq(Tasked) /\ cancelled \subseteq Drives
  BY TypesAre, QueuedDrives DEF Knows, CancelInv
<1>1. job.pc = "ready"
  BY DEF Tasks, OnLiveRow, OnDriveStarted, OnDriveEnded, OnDriveCancelled, OnEnd, FinalizeAgain, OnCancel, Tick, Takes
<1>2. /\ ~boot.on /\ discards = {} /\ Ahead = {} /\ job.pc \notin Forgetting \cup {"ride", "drop"}
      /\ \A d \in cancelled : ~Journaled(d)
  BY <1>1, ReadyIs, CancelledAre DEF Forgetting
<1>3. ASSUME NEW k, Takes(k)
      PROVE  /\ Event \in Tasked /\ Event.d \in Drives /\ Event.k = k /\ (k = "row" => Event.row \in Rows)
             /\ Event \in Queued(inbox) /\ \A t \in Queued(inbox') : t.k = "started" => t \in Queued(inbox)
  <2>1. /\ Event \in Tasked /\ Event.d \in Drives /\ (k = "row" => Event.row \in Rows)
        /\ inbox # <<>> /\ inbox' = Tail(inbox) /\ Event.k = k
    BY <1>0, <1>3, TakesIs DEF Takes, Event
  <2> QED
    BY <1>0, <2>1, QueuedTail DEF Event
<1>4. ASSUME UNCHANGED <<trip, marker, engine, live, discards, failed, cancelled, boot>>,
             \A t \in Queued(inbox') : t.k = "started" => t \in Queued(inbox), job'.pc # "store"
      PROVE  CancelInv'
  BY <1>2, <1>4, GoesOnSpares
<1>5. ASSUME NEW d \in Drives, OpenDrive(Session(d, {})) \/ OpenDrive(Rebuilt(d)), live'.d = d, Journaled(d), trip[d].status # "stored",
             UNCHANGED <<marker, cancelled, discards, boot>>, \A t \in Queued(inbox') : t.k = "started" => t \in Queued(inbox),
             job'.pc = "drain"
      PROVE  CancelInv'
  <2>1. /\ Rebuilt(d) \in SessionType /\ Rebuilt(d).d = d
        /\ Session(d, {}) \in SessionType /\ Session(d, {}).d = d
    BY <1>0, RebuiltIs DEF Session, SessionType, RowSets
  <2>2. PICK s \in SessionType : s.d = d /\ OpenDrive(s)
    BY <1>5, <2>1
  <2>3. d \notin cancelled /\ Ahead' \subseteq Ahead
    BY <1>2, <1>5 DEF Ahead
  <2> QED
    BY <1>2, <1>5, <2>2, <2>3, OpensSpares
<1>6. CASE OnLiveRow
  <2>1. Takes("row")
    BY <1>6 DEF OnLiveRow
  <2>2. CASE TakeLiveRow(Event.row) /\ ~(live.d = NoDrive)
    <3>1. engine.d # NoDrive
      BY <1>0, <2>2 DEF Control
    <3>2. /\ UNCHANGED <<marker, cancelled, boot, discards, failed>> /\ live'.d = live.d /\ engine'.d = engine.d
          /\ trip' = trip \/ \E r : trip' = Checkpoint(engine.d, r)
      BY <1>0, <2>2 DEF TakeLiveRow, TakeIn, TakeInAndEnd, MemoryOK, history
    <3>3. job' = At("after") \/ job' = Close("auto")
      BY <2>2 DEF TakeLiveRow, TakeInAndEnd
    <3>4. job'.pc # "store"
      BY <3>3 DEF At, Close, Job
    <3> QED
      BY <1>2, <1>3, <2>1, <3>1, <3>2, <3>4, GoesOnSpares
  <2>3. CASE ~(TakeLiveRow(Event.row) /\ ~(live.d = NoDrive))
    <3>1. UNCHANGED <<trip, marker, engine, live, discards, failed, cancelled, boot>> /\ job'.pc # "store"
      BY <1>6, <2>3 DEF OnLiveRow, PassOver, Drain, At, Job, stored, memory, history
    <3> QED
      BY <1>3, <1>4, <2>1, <3>1
  <2> QED
    BY <2>2, <2>3
<1>7. ASSUME PassOver
      PROVE  UNCHANGED <<trip, marker, engine, live, discards, failed, cancelled, boot>> /\ job'.pc # "store"
  BY <1>7 DEF PassOver, At, Job, stored, memory, history
<1>8. CASE OnDriveStarted
  <2>1. Takes("started")
    BY <1>8 DEF OnDriveStarted
  <2>2. CASE PassOver
    BY <1>3, <1>4, <1>7, <2>1, <2>2
  <2>3. CASE ~PassOver
    <3>1. /\ OpenDrive(Session(Event.d, {})) /\ live'.d = Event.d /\ job'.pc = "drain" /\ UNCHANGED <<marker, discards, boot, cancelled>>
          /\ Journaled(Event.d)
      BY <1>8, <2>3 DEF OnDriveStarted, Begins, Fails, Fault, Told, Drain, Job, history
    <3>2. Event.d \in Drives /\ trip[Event.d].status # "stored"
      BY <1>0, <1>2, <1>3, <2>1, <3>1 DEF Again
    <3>3. PICK d \in Drives : d = Event.d
      BY <3>2
    <3> QED
      BY <1>3, <1>5, <2>1, <3>1, <3>2, <3>3
  <2> QED
    BY <2>2, <2>3
<1>9. CASE OnDriveEnded
  <2>1. Takes("ended")
    BY <1>9 DEF OnDriveEnded
  <2>2. CASE PassOver
    BY <1>3, <1>4, <1>7, <2>1, <2>2
  <2>3. CASE Holding(Event.d)
    <3>1. UNCHANGED <<trip, marker, engine, live, discards, failed, cancelled, boot>> /\ job'.pc # "store"
      BY <1>9, <2>3 DEF OnDriveEnded, Drain, Job, stored, history
    <3> QED
      BY <1>3, <1>4, <2>1, <3>1
  <2>4. CASE ~PassOver /\ ~Holding(Event.d)
    <3>1. PICK d \in Drives : d = Event.d
      BY <1>3, <2>1
    <3>2. /\ AdoptEnded(d) /\ Journaled(d) /\ engine.d = NoDrive /\ UNCHANGED <<marker, boot, cancelled>>
      BY <1>9, <2>4, <3>1 DEF OnDriveEnded, TakesIn, history
    <3>3. CASE trip[d].status = "stored"
      <4>1. discards' = discards \cup {d} /\ job'.pc # "store" /\ UNCHANGED <<trip, engine, live, failed>>
        BY <3>2, <3>3 DEF AdoptEnded, Back, At, Job
      <4> QED
        BY <1>2, <1>3, <2>1, <3>2, <4>1, GoesOnSpares
    <3>4. CASE trip[d].status # "stored"
      <4>1. OpenDrive(Rebuilt(d)) /\ live'.d = d /\ discards' = discards /\ job'.pc = "drain"
        BY <3>2, <3>4 DEF AdoptEnded, Drain, Job
      <4> QED
        BY <1>3, <1>5, <2>1, <3>2, <3>4, <4>1
    <3> QED
      BY <3>3, <3>4
  <2> QED
    BY <2>2, <2>3, <2>4
<1>10. ASSUME NEW d \in Drives, d = engine.d
       PROVE  trip[d].status # "stored" /\ (Journaled(d) => live.d = d)
  BY <1>0, <1>10, DrivesAre DEF Spared
<1>11. CASE OnDriveCancelled
  <2>1. Takes("cancelled")
    BY <1>11 DEF OnDriveCancelled
  <2>2. CASE PassOver
    BY <1>3, <1>4, <1>7, <2>1, <2>2
  <2>3. CASE ~PassOver
    <3>1. Holding(Event.d) /\ CancelDrive(Event.d, FALSE)
      BY <1>11, <2>3 DEF OnDriveCancelled
    <3>2. PICK d \in Drives : d = Event.d /\ d = engine.d /\ ~Journaled(d) /\ CancelDrive(d, FALSE)
      BY <1>0, <1>3, <2>1, <3>1 DEF Holding, Control, Waiting
    <3> QED
      BY <1>1, <1>3, <1>10, <2>1, <3>2, CancelDriveSpares
  <2> QED
    BY <2>2, <2>3
<1>12. CASE OnEnd
  <2>1. Takes("end") /\ UNCHANGED <<trip, marker, engine, live, discards, failed, cancelled, boot>> /\ job'.pc # "store"
    BY <1>12 DEF OnEnd, PassOver, Close, At, Job, stored, memory, history
  <2> QED
    BY <1>3, <1>4, <2>1
<1>13. CASE FinalizeAgain
  <2>1. Takes("again")
    BY <1>13 DEF FinalizeAgain
  <2>2. CASE PassOver
    BY <1>3, <1>4, <1>7, <2>1, <2>2
  <2>3. CASE ~PassOver
    <3>1. /\ failed.d = Event.d /\ engine.d = NoDrive /\ UNCHANGED <<journal, trip, marker, engine, live, discards, failed, cancelled, boot>>
      BY <1>13, <2>3 DEF FinalizeAgain, native, stored, memory, history
    <3>2. inbox # <<>> /\ inbox' = Tail(inbox) /\ Head(inbox).k = "again" /\ Event = Head(inbox) /\ InOrder(inbox)
      BY <1>0, <2>1 DEF Takes, Event, Waiting
    <3>3. \A t \in Queued(inbox') : t.k = "started" => t.d # failed.d
      BY <1>0, <3>1, <3>2, OrderTail
    <3>4. \A t \in Queued(inbox') : t.k = "started" => t \in Queued(inbox)
      BY <1>3, <2>1
    <3>5. Again'
      BY <1>0, <3>1, <3>3, <3>4 DEF Again, Journaled
    <3>6. Spared'
      BY <1>0, <3>1, SparedKept DEF Spared, Ahead
    <3>7. \A d \in cancelled : Journaled(d)' => Journaled(d)
      BY <3>1 DEF Journaled
    <3> QED
      BY <1>2, <3>1, <3>5, <3>6, <3>7, CancelKept
  <2> QED
    BY <2>2, <2>3
<1>14. CASE OnCancel
  <2>1. Takes("cancel")
    BY <1>14 DEF OnCancel
  <2>2. CASE PassOver
    BY <1>3, <1>4, <1>7, <2>1, <2>2
  <2>3. CASE ~PassOver
    <3>1. engine.d # NoDrive /\ CancelDrive(engine.d, live.d = engine.d)
      BY <1>14, <2>3 DEF OnCancel
    <3>2. (live.d = engine.d) \in BOOLEAN
      OBVIOUS
    <3>3. PICK d \in Drives, held \in BOOLEAN : d = engine.d /\ held = (live.d = engine.d) /\ CancelDrive(d, held)
      BY <1>0, <3>1, <3>2 DEF MemoryOK
    <3>4. trip[d].status # "stored" /\ (Journaled(d) => held)
      BY <1>10, <3>3
    <3> QED
      BY <1>1, <1>3, <2>1, <3>3, <3>4, CancelDriveSpares
  <2> QED
    BY <2>2, <2>3
<1>15. CASE Tick
  <2>1. UNCHANGED <<trip, marker, engine, live, discards, failed, cancelled, boot, inbox>> /\ job'.pc # "store"
    BY <1>15 DEF Tick, Close, Job, stored, memory, history
  <2> QED
    BY <1>4, <2>1
<1> QED
  BY <1>6, <1>8, <1>9, <1>11, <1>12, <1>13, <1>14, <1>15 DEF Tasks

\* Every step keeps it.
LEMMA StepSpares ==
  ASSUME Told, Types, Types', Knows, Knows', CancelInv, [Next]_vars
  PROVE  CancelInv'
<1>1. Aged
  BY StepAges, TypesAre
<1>2. CASE Native \/ Launch \/ Kill \/ Driver
  BY <1>1, <1>2, NativeSpares
<1>3. CASE Host
  BY <1>1, <1>3, RecoverySpares, BootSpares, ReadingSpares, EndingSpares, CancellingSpares, TasksSpare DEF Host
<1>4. CASE UNCHANGED vars \/ Over
  <2>1. UNCHANGED vars
    BY <1>4 DEF Over
  <2> QED
    BY <2>1 DEF vars, native, stored, memory, history, CancelInv, CancelledStaysGone, Gone, Spared, Again, Journaled, Ahead, Queued
<1> QED
  BY <1>2, <1>3, <1>4 DEF Next

\* No drive has been cancelled at first.
LEMMA InitSpares ==
  ASSUME Init
  PROVE  CancelInv
<1>1. /\ cancelled = {} /\ engine.d = NoDrive /\ inbox = <<>> /\ job.pc # "store" /\ failed.d = NoDrive
  BY NothingIs DEF Init, At, Job
<1>2. Queued(inbox) = {}
  BY <1>1 DEF Queued
<1> QED
  BY <1>1, <1>2 DEF CancelInv, CancelledStaysGone, Gone, Spared, Again

\* A drive the driver cancelled is never stored (src/drive/host.ts, cancelIosDrive), if native's list of
\* journals can be read and dropTrip does not throw, whatever dies in between.
THEOREM CancelledStay == ASSUME Told PROVE Spec => []CancelledStaysGone
<1>1. Init => Types /\ Knows /\ CancelInv
  BY InitTypes, InitKnows, InitSpares
<1>2. Types /\ Knows /\ CancelInv /\ [Next]_vars => (Types /\ Knows /\ CancelInv)'
  <2> SUFFICES ASSUME Types, Knows, CancelInv, [Next]_vars
               PROVE  (Types /\ Knows /\ CancelInv)'
    OBVIOUS
  <2>1. Types'
    BY StepTypes
  <2>2. Knows'
    BY <2>1, StepKnows
  <2>3. CancelInv'
    BY <2>1, <2>2, StepSpares
  <2> QED
    BY <2>1, <2>2, <2>3
<1>3. CancelInv => CancelledStaysGone
  BY DEF CancelInv
<1> QED
  BY <1>1, <1>2, <1>3, PTL DEF Spec

-----------------------------------------------------------------------------
(* Native records what the host holds, and a journal goes when its drive has been judged or cancelled, *)
(* if besides no drive begins while the host is behind with its queue.                                *)

Steady == Told /\ "behind" \notin Early

\* The start of what native records waits, and nothing that would have the host pass over it.
Unheard ==
  /\ engine.d = NoDrive /\ ~captureOn /\ job.pc \in {"ready", "after", "store"}
  /\ \E t \in Queued(inbox) : t.k = "started"
  /\ \A t \in Queued(inbox) : t.k \notin {"ended", "cancelled"} /\ (t.k = "started" => t.d = record)

\* Where the host stands to a drive that native records: the launch has still to read of it, or has it
\* to take up; it holds it, has yet to hear of it, or is about to stop or to cancel it.
Heard ==
  \/ job.pc = "down" \/ Starting
  \/ boot.on /\ record = boot.live /\ captureOn
  \/ ~boot.on /\ live.d = record
  \/ ~boot.on /\ Unheard
  \/ ~boot.on /\ job.pc = "after" /\ captureOn /\ engine.d = NoDrive
  \/ job.pc = "tell" /\ record = job.d
Sync == record # NoDrive => Heard

\* What is known of it as soon as native's events are let through.
LEMMA HeardIs ==
  ASSUME Types, Sync, record # NoDrive, ~Starting, job.pc # "down"
  PROVE  /\ boot.on => record = boot.live /\ captureOn
         /\ ~boot.on => \/ live.d = record /\ engine.d = record
                        \/ Unheard
                        \/ job.pc = "after" /\ captureOn /\ engine.d = NoDrive
                        \/ job.pc = "tell" /\ record = job.d
<1>1. Control /\ Heard
  BY TypesAre DEF Sync
<1>2. boot.on => job.pc # "tell"
  BY <1>1 DEF Control
<1>3. live.d = record => engine.d = record
  BY <1>1 DEF Control
<1> QED
  BY <1>1, <1>2, <1>3 DEF Heard

\* A start that waits goes on waiting as something else joins,
LEMMA UnheardAppend ==
  ASSUME Types, Unheard, NEW t \in Tasked, t.k \notin {"started", "ended", "cancelled"}, inbox' = Append(inbox, t),
         UNCHANGED <<record, engine, captureOn, job>>
  PROVE  Unheard'
<1>1. Queued(inbox') = Queued(inbox) \cup {t}
  BY QueuedDrives, QueuedAppend
<1> QED
  BY <1>1 DEF Unheard

\* or is taken.
LEMMA UnheardTail ==
  ASSUME Types, Unheard, inbox # <<>>, Head(inbox).k # "started", inbox' = Tail(inbox), job'.pc \in {"after", "store"},
         UNCHANGED <<record, engine, captureOn>>
  PROVE  Unheard'
<1>1. Queued(inbox) = {Head(inbox)} \cup Queued(inbox')
  BY QueuedDrives, QueuedTail
<1> QED
  BY <1>1 DEF Unheard

\* Native, kills, launches and taps.
LEMMA NativeSyncs ==
  ASSUME Steady, Types, Knows, Sync, Native \/ Launch \/ Kill \/ Driver
  PROVE  Sync'
<1>0. Control /\ MemoryOK /\ NativeOK /\ inbox \in Seq(Tasked)
  BY TypesAre, QueuedDrives
<1>1. CASE NativeBegins
  <2>1. PICK d \in Drives : record' = d /\ inbox' = Emitted(Emitted(inbox, Task("row", d, Row(d, 1))), Task("started", d, 0))
    BY <1>1 DEF NativeBegins
  <2>2. UNCHANGED <<engine, captureOn, job, boot>>
    BY <1>1 DEF NativeBegins, memory
  <2>3. Starting \/ (job.pc = "ready" /\ engine.d = NoDrive /\ inbox = <<>>)
    BY <1>1 DEF NativeBegins, Steady
  <2>4. CASE Starting
    BY <2>2, <2>4 DEF Sync, Heard, Starting
  <2>5. CASE ~Starting
    <3>1. job.pc = "ready" /\ engine.d = NoDrive /\ inbox = <<>> /\ ~captureOn /\ ~boot.on
      BY <2>3, <2>5, ReadyIs
    <3> DEFINE r == Task("row", d, Row(d, 1))  s == Task("started", d, 0)
    <3>2. r \in Tasked /\ s \in Tasked /\ r.k = "row" /\ s.k = "started" /\ s.d = d
      BY RowIs, SeqsAre DEF Task, Tasked, TaskType
    <3> HIDE DEF r, s
    <3>3. inbox' = Append(Append(inbox, r), s)
      BY <2>1, <2>5 DEF Emitted, r, s
    <3>4. Append(inbox, r) \in Seq(Tasked) /\ Queued(inbox) = {}
      BY <1>0, <3>1, <3>2 DEF Queued
    <3>5. Queued(inbox') = {r, s}
      BY <1>0, <3>2, <3>3, <3>4, QueuedAppend
    <3>6. Unheard'
      BY <2>1, <2>2, <3>1, <3>2, <3>5 DEF Unheard
    <3> QED
      BY <2>2, <3>1, <3>6 DEF Sync, Heard
  <2> QED
    BY <2>4, <2>5
<1>2. CASE NativeRow
  <2>1. UNCHANGED <<record, engine, live, captureOn, job, boot>> /\ record # NoDrive /\ job.pc # "down"
    BY <1>2 DEF NativeRow, memory, Running
  <2>2. PICK t \in Tasked : t.k = "row" /\ inbox' = Emitted(inbox, t)
    <3>1. Task("row", record, Row(record, journal[record].top + 1)) \in Tasked
      BY <1>2, NextRowIs DEF Task, Tasked, TaskType
    <3>2. inbox' = Emitted(inbox, Task("row", record, Row(record, journal[record].top + 1)))
      BY <1>2 DEF NativeRow
    <3> QED
      BY <3>1, <3>2 DEF Task
  <2>3. CASE Starting
    BY <2>1, <2>3 DEF Sync, Heard, Starting
  <2>4. CASE ~Starting
    <3>1. inbox' = Append(inbox, t)
      BY <2>2, <2>4 DEF Emitted
    <3>2. Unheard => Unheard'
      BY <2>1, <2>2, <3>1, UnheardAppend
    <3> QED
      BY <2>1, <2>4, <3>2, HeardIs DEF Sync, Heard
  <2> QED
    BY <2>3, <2>4
<1>3. CASE NativeEnds
  BY <1>3 DEF NativeEnds, Sync
<1>4. CASE Kill
  BY <1>4 DEF Kill, At, Job, Sync, Heard
<1>5. CASE Launch
  <2>1. job' = At("marker") /\ boot' = [NoBoot EXCEPT !.on = TRUE]
    BY <1>5 DEF Launch, LaunchAtRest, ResumeDrive, OrphanAtLaunch, Launches
  <2>2. Starting'
    BY <2>1 DEF At, Job, NoBoot, Starting
  <2> QED
    BY <2>2 DEF Sync, Heard
<1>6. CASE Driver
  <2>1. PICK t \in {Task("end", engine.d, 0), Task("again", failed.d, 0), Task("cancel", engine.d, 0)} :
          t.d # NoDrive /\ Taps(t)
    BY <1>6 DEF Driver, TapEnd, TapEndAgain, TapCancel, Task
  <2>2. /\ inbox' = Append(inbox, t) /\ UNCHANGED <<record, engine, live, captureOn, job, boot>> /\ ~Starting /\ job.pc # "down"
    BY <2>1 DEF Taps, Shown, Running, native, memory
  <2>3. t \in Tasked /\ t.k \notin {"started", "ended", "cancelled"}
    BY <1>0, <2>1 DEF Task, Tasked, TaskType, MemoryOK
  <2>4. Unheard => Unheard'
    BY <2>2, <2>3, UnheardAppend
  <2> QED
    BY <2>2, <2>4, HeardIs DEF Sync, Heard
<1> QED
  BY <1>1, <1>2, <1>3, <1>4, <1>5, <1>6 DEF Native

\* A cancel: native records nothing by the time its word is sent.
LEMMA CancellingSyncs ==
  ASSUME Types, Sync, Cancelling
  PROVE  Sync'
<1>0. Control
  BY TypesAre
<1>1. CASE TellNative
  BY <1>1 DEF TellNative, Sync
<1>2. CASE QueueRide \/ DropTrip \/ DropFails \/ ClearMarker
  <2>1. record' = record /\ job.pc \in {"ride", "drop", "clear"} /\ engine.d = NoDrive
    BY <1>0, <1>2 DEF QueueRide, DropTrip, DropFails, ClearMarker, native, Control, AtRest
  <2>2. CASE boot.on
    <3>1. (job'.pc \in {"drop", "clear"} /\ boot' = boot) \/ CancelOver
      BY <1>2 DEF QueueRide, DropTrip, DropFails, ClearMarker, Cancel, Job
    <3>2. Starting'
      BY <2>1, <2>2, <3>1, CancelOverIs DEF Starting
    <3> QED
      BY <3>2 DEF Sync, Heard
  <2>3. CASE ~boot.on
    <3>1. ~Starting /\ job.pc # "down"
      BY <2>1, <2>3 DEF Starting
    <3>2. record = NoDrive
      BY <2>1, <2>3, <3>1, HeardIs DEF Unheard
    <3> QED
      BY <2>1, <3>2 DEF Sync
  <2> QED
    BY <2>2, <2>3
<1> QED
  BY <1>1, <1>2 DEF Cancelling

\* The recovery reads nothing of native yet.
LEMMA RecoverySyncs ==
  ASSUME Types, Recovery
  PROVE  Sync'
<1>0. Control /\ BootOK
  BY TypesAre
<1>1. boot.on
  BY <1>0 DEF Recovery, NoPendingCancel, FinishPendingCancel, RecoverEmpty, RecoverNewest, RecoverOrphan, RecoverFails,
       RecoveryOver, Recovering, Control
<1>2. CASE NoPendingCancel
  <2>1. CancelOver /\ job.pc = "marker"
    BY <1>2 DEF NoPendingCancel
  <2> QED
    BY <1>1, <2>1, CancelOverIs DEF Sync, Heard
<1>3. CASE FinishPendingCancel \/ RecoveryOver
  <2>1. job'.pc \in {"ride", "boot"} /\ boot' = boot
    BY <1>3 DEF FinishPendingCancel, RecoveryOver, Cancel, At, Job
  <2> QED
    BY <1>1, <2>1 DEF Sync, Heard, Starting
<1>4. CASE RecoverEmpty \/ RecoverNewest \/ RecoverOrphan \/ RecoverFails
  <2>1. job' = job /\ job.pc = "recover"
    BY <1>4 DEF RecoverEmpty, RecoverNewest, RecoverOrphan, RecoverFails, Recovering
  <2>2. \/ boot' = [boot EXCEPT !.todo = @ \ {NextOpen}]
        \/ boot' = [boot EXCEPT !.todo = {}, !.adopt = NextOpen]
    BY <1>4 DEF RecoverEmpty, RecoverNewest, RecoverOrphan, RecoverFails, Recovered
  <2>3. boot'.on
    BY <1>0, <1>1, <2>2 DEF BootOK
  <2> QED
    BY <2>1, <2>3 DEF Sync, Heard, Starting
<1> QED
  BY <1>2, <1>3, <1>4 DEF Recovery

\* The launch takes up what native records.
LEMMA BootSyncs ==
  ASSUME Types, Knows, Sync, Boot, ~BootContinues
  PROVE  Sync'
<1>0. Control /\ BootOK /\ MemoryOK
  BY TypesAre
<1>1. CASE BootReads
  <2>1. /\ job.pc = "boot" /\ captureOn' = (record # NoDrive) /\ record' = record
        /\ \E todo : boot' = [boot EXCEPT !.todo = todo, !.live = record]
    BY <1>1 DEF BootReads, native
  <2>2. boot'.on /\ boot'.live = record
    BY <1>0, <2>1 DEF BootOK, Control
  <2> QED
    BY <2>1, <2>2 DEF Sync, Heard
<1>2. CASE ~BootReads
  <2>1. job.pc = "ended"
    BY <1>2 DEF Boot, BootAdoptsEnded, BootContinues, BootTakesLive, BootRests, BootGoesOn
  <2>2. boot.on /\ ~Starting /\ engine.d = NoDrive /\ live.d = NoDrive
    BY <2>1, TodoIs
  <2>3. record # NoDrive => record = boot.live /\ captureOn
    BY <2>1, <2>2, HeardIs
  <2>4. CASE BootAdoptsEnded
    <3>1. /\ UNCHANGED <<record, captureOn>>
          /\ \E todo, adopt : boot' = [boot EXCEPT !.todo = todo, !.adopt = adopt]
      BY <2>4 DEF BootAdoptsEnded, native
    <3>2. boot'.on /\ boot'.live = boot.live
      BY <1>0, <2>2, <3>1 DEF BootOK
    <3> QED
      BY <2>3, <3>1, <3>2 DEF Sync, Heard
  <2>5. CASE BootTakesLive
    <3>1. record' = record /\ live'.d = boot.live /\ ~boot'.on
      BY <2>5, NothingIs DEF BootTakesLive, BootGoesOn, native
    <3> QED
      BY <2>3, <3>1 DEF Sync, Heard
  <2>6. CASE BootRests
    <3>1. UNCHANGED <<record, captureOn, engine>> /\ job'.pc = "after" /\ ~boot'.on
      BY <2>6, NothingIs DEF BootRests, BootGoesOn, native, memory, At, Job
    <3> QED
      BY <2>2, <2>3, <3>1 DEF Sync, Heard
  <2> QED
    BY <1>2, <2>4, <2>5, <2>6 DEF Boot
<1> QED
  BY <1>1, <1>2

\* A drive goes on being held as its rows are taken; one let go was not recorded.
LEMMA ReadingSyncs ==
  ASSUME Types, Knows, Sync, Reading
  PROVE  Sync'
<1>0. Control /\ MemoryOK /\ Capture
  BY TypesAre DEF Knows
<1>1. job.pc \in {"drain", "drained"} /\ ~Starting /\ UNCHANGED <<record, boot, captureOn>>
  BY DEF Reading, ReadPage, ReadFails, TakenUp, GapFilled, TakeLiveRow, NativeEndTaken, ReleaseDrive, Starting, native, memory
<1>2. record # NoDrive => (boot.on /\ record = boot.live /\ captureOn) \/ (~boot.on /\ live.d = record)
  BY <1>1, HeardIs DEF Unheard
<1>3. CASE ReleaseDrive
  <2>1. live.d # record
    BY <1>0, <1>3 DEF ReleaseDrive, Capture
  <2> QED
    BY <1>1, <1>2, <2>1 DEF Sync, Heard
<1>4. CASE ~ReleaseDrive
  <2>1. live'.d = live.d
    BY <1>0, <1>4 DEF Reading, ReadPage, Reach, ReadFails, TakenUp, GapFilled, TakeLiveRow, NativeEndTaken, MemoryOK, memory
  <2> QED
    BY <1>1, <1>2, <2>1 DEF Sync, Heard
<1> QED
  BY <1>3, <1>4

\* A drive closed while native records it is stopped before the next task.
LEMMA EndingSyncs ==
  ASSUME Types, Knows, Sync, Ending
  PROVE  Sync'
<1>0. Control /\ Capture /\ MemoryOK
  BY TypesAre DEF Knows
<1>1. job.pc \in {"close", "store", "after", "discard"} /\ ~Starting /\ job.pc # "down"
  BY DEF Ending, CloseCheckpoint, StoreDrive, StoreFails, StopCapture, DiscardJournals, Starting
<1>2. CASE CloseCheckpoint
  <2>1. UNCHANGED <<record, engine, live, captureOn, boot>> /\ job.pc = "close"
    BY <1>2 DEF CloseCheckpoint, native, memory
  <2> QED
    BY <1>1, <2>1, HeardIs DEF Sync, Heard, Unheard
<1>3. CASE StoreDrive \/ StoreFails
  <2>1. UNCHANGED <<record, captureOn, boot, inbox>> /\ job.pc = "store" /\ engine'.d = NoDrive /\ (~boot.on => job'.pc = "after")
    BY <1>3, NothingIs DEF StoreDrive, StoreFails, Back, At, Job, native
  <2>2. Unheard => Unheard' \/ boot.on
    BY <2>1 DEF Unheard
  <2>3. record # NoDrive /\ live.d = record => captureOn
    BY <1>0 DEF Capture
  <2> QED
    BY <1>1, <2>1, <2>2, <2>3, HeardIs DEF Sync, Heard
<1>4. CASE StopCapture
  BY <1>4 DEF StopCapture, Sync
<1>5. CASE DiscardJournals
  <2>1. /\ UNCHANGED <<record, engine, live, captureOn, inbox, boot>> /\ job'.pc = "ready"
        /\ job.pc = "discard" \/ (job.pc = "after" /\ ~(captureOn /\ engine.d = NoDrive))
    BY <1>5 DEF DiscardJournals, Overrun, At, Job
  <2>2. Unheard => Unheard'
    BY <2>1 DEF Unheard
  <2>3. job.pc = "discard" => engine.d = NoDrive
    BY <1>0 DEF Control
  <2> QED
    BY <1>1, <2>1, <2>2, <2>3, HeardIs DEF Sync, Heard
<1> QED
  BY <1>2, <1>3, <1>4, <1>5 DEF Ending

\* The tasks of the queue: the start that waits is heard, the drive held stays held or is cancelled.
LEMMA TasksSync ==
  ASSUME Steady, Types, Knows, Sync, Tasks
  PROVE  Sync'
<1>0. Control /\ MemoryOK /\ Waiting /\ Files /\ QueueOK /\ NoDrive \notin Drives
  BY TypesAre, DrivesAre DEF Knows
<1>1. job.pc = "ready" /\ record' = record /\ boot' = boot
  BY DEF Tasks, OnLiveRow, TakeLiveRow, OnDriveStarted, OnDriveEnded, OnDriveCancelled, CancelDrive, OnEnd, FinalizeAgain,
       OnCancel, Tick, Takes, PassOver, native
<1>2. ~boot.on /\ ~Starting /\ (engine.d = NoDrive => live.d = NoDrive /\ ~captureOn)
  BY <1>1, ReadyIs
<1>3. SUFFICES ASSUME record # NoDrive
               PROVE  Heard'
  BY <1>1 DEF Sync
<1>4. \/ live.d = record /\ engine.d = record
      \/ Unheard /\ engine.d = NoDrive /\ live.d = NoDrive
  BY <1>1, <1>2, <1>3, HeardIs DEF Unheard
<1>5. live'.d = record \/ Unheard' => Heard'
  BY <1>1, <1>2 DEF Heard
<1>6. ASSUME NEW k, Takes(k)
      PROVE  /\ Event \in Queued(inbox) /\ Event.d \in Drives /\ Event.k = k /\ Head(inbox).k = k
             /\ inbox # <<>> /\ inbox' = Tail(inbox)
  <2>1. /\ Event.d \in Drives /\ inbox # <<>> /\ inbox' = Tail(inbox) /\ Event.k = k /\ Event = Head(inbox) /\ inbox \in Seq(Tasked)
    BY <1>0, <1>6, TakesIs DEF Takes, Event
  <2> QED
    BY <2>1, QueuedTail
<1>7. ASSUME NEW k, Takes(k), k # "started", UNCHANGED <<engine, live, captureOn>>, job'.pc \in {"after", "store"}
      PROVE  Heard'
  <2>1. Unheard => Unheard'
    BY <1>1, <1>6, <1>7, UnheardTail
  <2> QED
    BY <1>4, <1>5, <1>7, <2>1
<1>8. ASSUME PassOver
      PROVE  UNCHANGED <<engine, live, captureOn>> /\ job'.pc \in {"after", "store"}
  BY <1>8 DEF PassOver, At, Job, memory
<1>9. ASSUME live'.d = live.d, engine.d # NoDrive
      PROVE  Heard'
  BY <1>4, <1>5, <1>9
<1>10. CASE OnLiveRow
  <2>1. Takes("row")
    BY <1>10 DEF OnLiveRow
  <2>2. CASE PassOver
    BY <1>7, <1>8, <2>1, <2>2
  <2>3. CASE ~PassOver
    <3>1. live.d # NoDrive /\ live'.d = live.d
      BY <1>0, <1>10, <2>3 DEF OnLiveRow, TakeLiveRow, MemoryOK, memory
    <3> QED
      BY <1>2, <1>9, <3>1
  <2> QED
    BY <2>2, <2>3
<1>11. CASE OnDriveStarted
  <2>1. Takes("started")
    BY <1>11 DEF OnDriveStarted
  <2>2. CASE Unheard
    <3>1. Event.d = record /\ engine.d = NoDrive /\ live.d = NoDrive /\ Journaled(record)
      BY <1>0, <1>2, <1>3, <1>6, <2>1, <2>2 DEF Unheard, Files
    <3>2. \A listed : Begins(listed)
      BY <3>1 DEF Begins, Holding
    <3>3. live'.d = Event.d
      BY <1>11, <3>2 DEF OnDriveStarted
    <3> QED
      BY <1>5, <3>1, <3>3
  <2>3. CASE ~Unheard
    <3>1. engine.d # NoDrive
      BY <1>3, <1>4, <2>3
    <3>2. PassOver
      BY <1>11, <3>1 DEF OnDriveStarted, Begins
    <3> QED
      BY <1>8, <1>9, <3>1, <3>2
  <2> QED
    BY <2>2, <2>3
<1>12. CASE OnDriveEnded
  <2>1. Takes("ended")
    BY <1>12 DEF OnDriveEnded
  <2>2. engine.d # NoDrive
    BY <1>3, <1>4, <1>6, <2>1 DEF Unheard
  <2>3. live'.d = live.d
    <3>1. CASE Holding(Event.d)
      BY <1>12, <3>1 DEF OnDriveEnded
    <3>2. CASE ~Holding(Event.d)
      BY <1>12, <2>2, <3>2, <1>8 DEF OnDriveEnded, TakesIn
    <3> QED
      BY <3>1, <3>2
  <2> QED
    BY <1>9, <2>2, <2>3
<1>13. CASE OnDriveCancelled
  <2>1. Takes("cancelled")
    BY <1>13 DEF OnDriveCancelled
  <2>2. engine.d # NoDrive /\ live.d = record
    BY <1>3, <1>4, <1>6, <2>1 DEF Unheard
  <2>3. ~Holding(Event.d)
    BY <1>0, <1>3, <1>6, <2>1, <2>2 DEF Holding, Waiting, Files
  <2>4. PassOver
    BY <1>13, <2>3 DEF OnDriveCancelled
  <2> QED
    BY <1>8, <1>9, <2>2, <2>4
<1>14. CASE OnEnd
  <2>1. Takes("end")
    BY <1>14 DEF OnEnd
  <2>2. CASE engine.d # NoDrive
    BY <1>9, <1>14, <2>2 DEF OnEnd, memory
  <2>3. CASE engine.d = NoDrive
    BY <1>7, <1>8, <1>14, <2>1, <2>3 DEF OnEnd
  <2> QED
    BY <2>2, <2>3
<1>15. CASE FinalizeAgain
  <2>1. Takes("again") /\ UNCHANGED <<engine, live, captureOn>> /\ job'.pc \in {"after", "store"}
    BY <1>8, <1>15 DEF FinalizeAgain, At, Job, memory
  <2> QED
    BY <1>7, <2>1
<1>16. CASE OnCancel
  <2>1. Takes("cancel")
    BY <1>16 DEF OnCancel
  <2>2. CASE engine.d # NoDrive
    <3>1. job'.pc = "tell" /\ job'.d = engine.d /\ engine.d = record
      BY <1>4, <1>16, <2>2 DEF OnCancel, CancelDrive, Cancel, Job
    <3> QED
      BY <1>1, <3>1 DEF Heard
  <2>3. CASE engine.d = NoDrive
    BY <1>7, <1>8, <1>16, <2>1, <2>3 DEF OnCancel
  <2> QED
    BY <2>2, <2>3
<1>17. CASE Tick
  BY <1>9, <1>17 DEF Tick, memory
<1> QED
  BY <1>10, <1>11, <1>12, <1>13, <1>14, <1>15, <1>16, <1>17 DEF Tasks

-----------------------------------------------------------------------------
(* A journal goes when its drive has been judged, or cancelled. *)

\* What is stored, is to lose its journal, waits to be stored or is being stored has been judged.
Closed(d) == closed[d].how # "no"
Judged ==
  /\ \A d \in Drives : trip[d].status = "stored" => Closed(d)
  /\ \A d \in discards : Closed(d) /\ trip[d].status # "recording"
  /\ failed.d # NoDrive => Closed(failed.d)
  /\ job.pc = "store" => Closed(Closing.d)

\* The drive open, and those a launch has to take up, have their journals.
Keeping ==
  /\ engine.d # NoDrive => Journaled(engine.d)
  /\ ~Starting => \A d \in Ahead : Journaled(d)
  /\ boot.adopt # NoDrive => Journaled(boot.adopt)

\* The marker is of a cancelled drive.
MarkerIs == marker.d # NoDrive => marker.d \in cancelled

KeptInv == JournalKept /\ Judged /\ Keeping /\ MarkerIs

\* A step that judges nothing, and deletes no journal.
LEMMA KeptAsWas ==
  ASSUME Types, Types', KeptInv, \A d \in Drives : journal'[d].state = journal[d].state \/ journal'[d].state = "here",
         UNCHANGED <<closed, cancelled>>, marker' \in {marker, NoCancel},
         \A d \in Drives : \/ trip'[d].status = trip[d].status
                           \/ trip[d].status = "absent" /\ trip'[d].status = "recording" /\ Journaled(d) /\ d \notin discards',
         \A d \in discards' : d \in discards \/ trip[d].status = "stored",
         failed'.d \in {failed.d, NoDrive}, job'.pc = "store" => Closed(Closing'.d), Keeping'
  PROVE  KeptInv'
<1>1. NoCancel.d = NoDrive /\ discards' \subseteq Drives /\ NoDrive \notin discards'
  BY NothingIs, DrivesAre DEF Types, TypeOK
<1>2. \A d : Closed(d)' = Closed(d)
  BY DEF Closed
<1>3. JournalKept'
  BY DEF KeptInv, JournalKept, Journaled
<1>4. Judged'
  <2>1. \A d \in Drives : trip'[d].status = "stored" => trip[d].status = "stored"
    OBVIOUS
  <2>2. \A d \in discards' : trip'[d].status = trip[d].status /\ Closed(d) /\ trip[d].status # "recording"
    BY <1>1 DEF KeptInv, Judged
  <2>3. /\ failed'.d # NoDrive => closed'[failed'.d].how # "no"
        /\ job'.pc = "store" => closed'[Closing'.d].how # "no"
    BY DEF KeptInv, Judged, Closed
  <2> QED
    BY <1>1, <1>2, <2>1, <2>2, <2>3 DEF KeptInv, Judged, Closed
<1>5. MarkerIs'
  BY <1>1 DEF KeptInv, MarkerIs
<1> QED
  BY <1>3, <1>4, <1>5 DEF KeptInv

\* The files go on being kept while none is deleted and nothing is opened or to be taken up.
LEMMA KeepingAsWas ==
  ASSUME Types, Types', Keeping, \A d \in Drives : Journaled(d) => journal'[d].state = "here",
         engine'.d \in {engine.d, NoDrive}, boot' = boot, ~Starting' => ~Starting
  PROVE  Keeping'
<1>1. /\ engine.d \in Drives \cup {NoDrive} /\ boot.adopt \in Drives \cup {NoDrive} /\ \A d \in Ahead : d \in Drives
  BY TypesAre DEF MemoryOK, BootOK, Ahead
<1>2. Ahead' = Ahead
  BY DEF Ahead
<1>3. engine'.d # NoDrive => journal'[engine'.d].state = "here"
  BY <1>1 DEF Keeping
<1>4. ~Starting' => \A d \in Ahead' : Journaled(d)'
  BY <1>1, <1>2 DEF Keeping, Journaled
<1>5. boot'.adopt # NoDrive => journal'[boot'.adopt].state = "here"
  BY <1>1 DEF Keeping
<1> QED
  BY <1>3, <1>4, <1>5 DEF Keeping, Journaled

\* What a cancel's end leaves to be taken up.
LEMMA CancelOverKept ==
  ASSUME Types, Types', Keeping, CancelOver, job.pc \in {"marker", "ride", "drop", "clear"}, UNCHANGED <<journal, engine>>
  PROVE  Keeping' /\ job'.pc # "store"
<1>1. \/ /\ boot.on /\ Starting /\ Starting' /\ job'.pc = "recover" /\ boot'.on /\ boot'.todo = Open
         /\ boot'.adopt = NoDrive /\ boot'.live = NoDrive
      \/ ~boot.on /\ ~Starting /\ ~Starting' /\ job'.pc = "after" /\ boot' = boot /\ boot = NoBoot
  BY CancelOverIs
<1>2. engine'.d # NoDrive => Journaled(engine.d)'
  BY DEF Keeping, Journaled
<1>3. ~Starting' => \A d \in Ahead' : Journaled(d)'
  BY <1>1 DEF Ahead, NoBoot
<1>4. boot'.adopt = NoDrive
  BY <1>1 DEF NoBoot
<1> QED
  BY <1>1, <1>2, <1>3, <1>4 DEF Keeping

\* Native, kills, launches and taps.
LEMMA NativeKept ==
  ASSUME Types, Types', Knows, KeptInv, Native \/ Launch \/ Kill \/ Driver
  PROVE  KeptInv'
<1>0. Control /\ MemoryOK /\ NativeOK /\ Files /\ Keeping
  BY TypesAre DEF KeptInv
<1>1. ASSUME UNCHANGED <<stored, engine, live, discards, failed, job, boot, history>>,
             \A d \in Drives : journal'[d].state = journal[d].state \/ journal'[d].state = "here"
      PROVE  KeptInv'
  <2>1. Keeping'
    <3>1. Starting' = Starting
      BY <1>1 DEF Starting
    <3>2. \A d \in Drives : Journaled(d) => journal'[d].state = "here"
      BY <1>1 DEF Journaled
    <3> QED
      BY <1>0, <1>1, <3>1, <3>2, KeepingAsWas
  <2>2. job'.pc = "store" => Closed(Closing'.d)
    BY <1>1 DEF KeptInv, Judged, Closing
  <2>3. /\ UNCHANGED <<closed, cancelled, marker, discards, failed>> /\ \A d \in Drives : trip'[d].status = trip[d].status
    BY <1>1 DEF stored, history
  <2> QED
    BY <1>1, <2>1, <2>2, <2>3, KeptAsWas
<1>2. CASE Native
  <2>1. UNCHANGED <<stored, engine, live, discards, failed, job, boot, history>>
    BY <1>2 DEF Native, NativeBegins, NativeRow, NativeEnds, memory
  <2>2. \A d \in Drives : journal'[d].state = journal[d].state \/ journal'[d].state = "here"
    BY <1>0, <1>2 DEF Native, NativeBegins, NativeRow, NativeEnds, NativeOK
  <2> QED
    BY <1>1, <2>1, <2>2
<1>3. CASE Driver
  <2>1. UNCHANGED <<journal, stored, engine, live, discards, failed, job, boot, history>>
    BY <1>3 DEF Driver, TapEnd, TapEndAgain, TapCancel, Taps, memory, native
  <2> QED
    BY <1>1, <2>1
<1>4. CASE Launch \/ Kill
  <2>1. /\ UNCHANGED <<stored, history>> /\ engine'.d = NoDrive /\ boot'.adopt = NoDrive /\ Ahead' = {}
        /\ failed'.d \in {failed.d, NoDrive} /\ discards' \subseteq discards /\ job'.pc # "store"
    <3>1. NoBoot.todo = {} /\ NoBoot.adopt = NoDrive /\ NoBoot.live = NoDrive /\ NoSession.d = NoDrive
      BY NothingIs DEF NoBoot
    <3>2. CASE Kill
      <4>1. boot' = NoBoot /\ engine' = NoSession /\ failed' = NoSession /\ discards' = {} /\ job'.pc = "down" /\ UNCHANGED <<stored, history>>
        BY <3>2 DEF Kill, At, Job
      <4> QED
        BY <3>1, <4>1 DEF Ahead
    <3>3. CASE Launch
      <4>1. /\ job.pc = "down" /\ job'.pc = "marker" /\ boot' = [NoBoot EXCEPT !.on = TRUE]
            /\ UNCHANGED <<stored, history, engine, failed, discards>>
        BY <3>3 DEF Launch, LaunchAtRest, ResumeDrive, OrphanAtLaunch, Launches, Running, At, Job, memory
      <4>2. engine.d = NoDrive
        BY <1>0, <4>1 DEF Control, AtRest
      <4>3. boot'.todo = {} /\ boot'.adopt = NoDrive /\ boot'.live = NoDrive
        BY <4>1 DEF NoBoot
      <4> QED
        BY <4>1, <4>2, <4>3 DEF Ahead
    <3> QED
      BY <1>4, <3>2, <3>3
  <2>2. \A d \in Drives : journal'[d].state = journal[d].state
    BY <1>0, <1>4 DEF Launch, LaunchAtRest, ResumeDrive, OrphanAtLaunch, Kill, native, NativeOK
  <2>3. Keeping'
    BY <2>1 DEF Keeping
  <2>4. /\ UNCHANGED <<closed, cancelled, marker>> /\ \A d \in Drives : trip'[d].status = trip[d].status
    BY <2>1 DEF stored, history
  <2> QED
    BY <2>1, <2>2, <2>3, <2>4, KeptAsWas
<1> QED
  BY <1>2, <1>3, <1>4

\* Native is told: the journals that go are of the drive cancelled.
LEMMA TellKeeps ==
  ASSUME Types, Types', Knows, Sync, KeptInv, TellNative \/ FinishPendingCancel
  PROVE  KeptInv'
<1>0. Control /\ NativeOK /\ Files /\ Keeping /\ JournalKept /\ Judged /\ MarkerIs /\ BootOK
  BY TypesAre DEF KeptInv
<1>1. /\ UNCHANGED <<engine, live, discards, failed, cancelled, closed, marker, trip, boot>> /\ job.pc \in {"marker", "tell"}
      /\ job'.pc = "ride" /\ engine.d = NoDrive
  BY <1>0, TellIs DEF TellNative, FinishPendingCancel, Cancel, Job, history, Control, AtRest
<1>2. marker.d # NoDrive /\ marker.d \in cancelled
  BY <1>0 DEF TellNative, FinishPendingCancel, Control, MarkerIs
<1>3. \A d \in Drives \ {marker.d} : journal'[d] = journal[d]
  <2>1. CASE TellNative
    <3>1. job.pc = "tell" /\ job.d = marker.d /\ ~boot.on
      BY <1>0, <2>1 DEF TellNative, Control
    <3>2. record \in {NoDrive, job.d}
      <4>1. ~Starting /\ job.pc # "down"
        BY <3>1 DEF Starting
      <4>2. live.d # NoDrive => engine.d = live.d
        BY <1>0 DEF Control
      <4> QED
        BY <1>1, <3>1, <4>1, <4>2, HeardIs DEF Unheard
    <3>3. Forgotten \cap Drives \subseteq {marker.d}
      BY <3>1, <3>2, DrivesAre DEF Forgotten
    <3> QED
      BY <2>1, <3>3 DEF TellNative
  <2>2. CASE FinishPendingCancel
    BY <1>0, <2>2 DEF FinishPendingCancel, NativeOK
  <2> QED
    BY <2>1, <2>2
<1>4. JournalKept'
  BY <1>0, <1>1, <1>2, <1>3 DEF JournalKept
<1>5. Judged'
  BY <1>0, <1>1 DEF Judged, Closed, Closing
<1>6. Keeping'
  <2>1. Starting' = Starting /\ Ahead' = Ahead
    BY <1>0, <1>1 DEF Starting, Ahead, Control
  <2>2. boot.adopt = NoDrive /\ (~Starting => Ahead = {})
    <3>1. CASE boot.on
      <4>1. boot = [NoBoot EXCEPT !.on = TRUE] /\ Starting
        BY <1>0, <1>1, <3>1 DEF Control, Starting
      <4> QED
        BY <4>1 DEF NoBoot
    <3>2. CASE ~boot.on
      <4>1. boot = NoBoot
        BY <1>0, <3>2 DEF Control
      <4> QED
        BY <4>1 DEF NoBoot, Ahead
    <3> QED
      BY <3>1, <3>2
  <2> QED
    BY <1>1, <2>1, <2>2 DEF Keeping
<1>7. MarkerIs'
  BY <1>0, <1>1 DEF MarkerIs
<1> QED
  BY <1>4, <1>5, <1>6, <1>7 DEF KeptInv

\* The cancel goes on: what it drops is not stored.
LEMMA CancellingKept ==
  ASSUME Steady, Types, Types', Knows, Sync, KeptInv, Cancelling
  PROVE  KeptInv'
<1>0. Control /\ NativeOK /\ StoredOK /\ MemoryOK /\ JobOK /\ Files /\ Keeping /\ JournalKept /\ Judged /\ MarkerIs /\ cancelled \subseteq Drives
  BY TypesAre, QueuedDrives DEF KeptInv
<1>1. CASE TellNative
  BY <1>1, TellKeeps
<1>2. CASE QueueRide
  <2>1. /\ UNCHANGED <<journal, engine, live, discards, failed, cancelled, closed, marker, trip, boot>> /\ job.pc = "ride" /\ job'.pc = "drop"
    BY <1>2 DEF QueueRide, native, memory, history, Cancel, Job
  <2>2. Starting' = Starting /\ Ahead' = Ahead
    BY <2>1 DEF Starting, Ahead
  <2> QED
    BY <1>0, <2>1, <2>2 DEF KeptInv, JournalKept, Judged, Keeping, MarkerIs, Closed, Closing, Journaled
<1>3. CASE DropTrip
  <2>1. /\ UNCHANGED <<journal, engine, live, discards, failed, cancelled, closed, marker, boot>> /\ job.pc = "drop" /\ job'.pc = "clear"
        /\ trip' = Dropped(job.d) /\ job.d = marker.d /\ job.d \in Drives
    BY <1>0, <1>3 DEF DropTrip, native, memory, history, Cancel, Job, Control, JobOK
  <2>2. Starting' = Starting /\ Ahead' = Ahead
    BY <2>1 DEF Starting, Ahead
  <2>3. \A d \in Drives : trip'[d].status = trip[d].status \/ trip'[d].status = "absent"
    BY <1>0, <2>1 DEF Dropped, Absent, StoredOK
  <2>4. JournalKept'
    BY <1>0, <2>1, <2>3 DEF JournalKept
  <2>5. Judged'
    <3>1. discards \subseteq Drives
      BY <1>0 DEF MemoryOK
    <3> QED
      BY <1>0, <2>1, <2>3, <3>1 DEF Judged, Closed, Closing
  <2> QED
    BY <1>0, <2>1, <2>2, <2>4, <2>5 DEF KeptInv, Keeping, MarkerIs, Journaled
<1>4. CASE DropFails
  BY <1>4 DEF DropFails, Fault, Steady, Told
<1>5. CASE ClearMarker
  <2>1. /\ CancelOver /\ job.pc = "clear" /\ marker' = NoCancel
        /\ UNCHANGED <<journal, engine, live, discards, failed, cancelled, closed, trip>>
    BY <1>5 DEF ClearMarker, native, memory, history
  <2> QED
    BY <1>0, <2>1, CancelOverKept, KeptAsWas
<1> QED
  BY <1>1, <1>2, <1>3, <1>4, <1>5 DEF Cancelling

\* The recovery: what it leaves recording has its journal, what it closes has been judged.
LEMMA RecoveryKept ==
  ASSUME Types, Types', Knows, Sync, Spared, KeptInv, Recovery
  PROVE  KeptInv'
<1>0. /\ Control /\ NativeOK /\ StoredOK /\ BootOK /\ HistoryOK /\ BegunInv /\ Launching /\ Discards
      /\ Keeping /\ JournalKept /\ Judged /\ MarkerIs
  BY TypesAre DEF Knows, KeptInv
<1>1. CASE NoPendingCancel
  <2>1. CancelOver /\ job.pc = "marker" /\ UNCHANGED <<journal, engine, live, discards, failed, cancelled, closed, trip, marker>>
    BY <1>1 DEF NoPendingCancel, native, stored, memory, history
  <2> QED
    BY <1>0, <2>1, CancelOverKept, KeptAsWas
<1>2. CASE FinishPendingCancel
  BY <1>2, TellKeeps
<1>3. CASE RecoverEmpty \/ RecoverNewest \/ RecoverOrphan \/ RecoverFails
  <2>1. /\ job.pc = "recover" /\ job' = job /\ boot.todo # {}
        /\ UNCHANGED <<journal, engine, live, discards, failed, cancelled, marker>>
    BY <1>3 DEF RecoverEmpty, RecoverNewest, RecoverOrphan, RecoverFails, Recovering, native, stored, memory, history
  <2>2. boot.on /\ boot.adopt = NoDrive /\ engine.d = NoDrive /\ discards = {}
    BY <1>0, <2>1 DEF Control, Starting, Launching, AtRest, Discards
  <2>3. PICK n \in Drives : n = NextOpen /\ n \in boot.todo /\ n \notin cancelled /\ trip[n].status = "recording"
    BY <1>0, <2>1, NextIs DEF NextOpen, Spared, Ahead, Launching, Open
  <2>4. Journaled(n)
    <3>1. journal[n].state # "none" /\ journal[n].state # "gone"
      BY <1>0, <2>3 DEF BegunInv, Begun, JournalKept
    <3> QED
      BY <1>0, <3>1 DEF NativeOK, Journaled
  <2>5. /\ \A d \in Drives \ {n} : trip'[d] = trip[d]
        /\ \A d \in Drives : Closed(d) => closed'[d].how # "no"
        /\ trip'[n].status = "stored" => closed'[n].how # "no"
    <3>1. CASE RecoverEmpty
      <4>1. trip' = [trip EXCEPT ![n] = Absent] /\ closed' = closed
        BY <2>3, <3>1 DEF RecoverEmpty, history
      <4> QED
        BY <1>0, <4>1 DEF StoredOK, Absent, Closed
    <3>2. CASE RecoverNewest \/ RecoverFails
      BY <2>3, <3>2 DEF RecoverNewest, RecoverFails, stored, history, Closed
    <3>3. CASE RecoverOrphan
      <4>1. Rebuilt(n) \in SessionType /\ Rebuilt(n).d = n
        BY <1>0, RebuiltIs
      <4>2. /\ trip' = CloseDrive(Rebuilt(n))
            /\ (closed' = closed /\ Closed(n)) \/ closed' = [closed EXCEPT ![n] = [how |-> "recovery", rows |-> trip[n].rows]]
        BY <2>3, <3>3 DEF RecoverOrphan, Judge, Closed
      <4>3. closed'[n].how # "no" /\ \A d \in Drives \ {n} : closed'[d] = closed[d]
        BY <1>0, <4>2 DEF HistoryOK, Closed
      <4>4. \A d \in Drives \ {n} : trip'[d] = trip[d]
        BY <1>0, <4>1, <4>2, WritesAre
      <4> QED
        BY <4>3, <4>4 DEF Closed
    <3> QED
      BY <1>3, <3>1, <3>2, <3>3
  <2>6. \/ boot' = [boot EXCEPT !.todo = @ \ {n}]
        \/ boot' = [boot EXCEPT !.todo = {}, !.adopt = n]
    BY <1>3, <2>3 DEF RecoverEmpty, RecoverNewest, RecoverOrphan, RecoverFails, Recovered
  <2>7. boot'.on /\ boot'.adopt \in {NoDrive, n}
    BY <1>0, <2>2, <2>6 DEF BootOK
  <2>8. Keeping'
    <3>1. Starting'
      BY <2>1, <2>7 DEF Starting
    <3>2. boot'.adopt # NoDrive => journal'[boot'.adopt].state = "here"
      BY <2>1, <2>4, <2>7 DEF Journaled
    <3> QED
      BY <2>1, <2>2, <3>1, <3>2 DEF Keeping, Journaled
  <2>9. JournalKept'
    BY <1>0, <2>1, <2>4, <2>5 DEF JournalKept, Journaled, Closed
  <2>10. Judged'
    <3>1. failed.d # NoDrive => closed'[failed.d].how # "no"
      BY <1>0, <2>5, TypesAre DEF Judged, MemoryOK
    <3>2. \A d \in Drives : trip'[d].status = "stored" => closed'[d].how # "no"
      BY <1>0, <2>5 DEF Judged
    <3> QED
      BY <2>1, <2>2, <3>1, <3>2 DEF Judged, Closed
  <2>11. MarkerIs'
    BY <1>0, <2>1 DEF MarkerIs
  <2> QED
    BY <2>8, <2>9, <2>10, <2>11 DEF KeptInv
<1>4. CASE RecoveryOver
  <2>1. /\ job.pc = "recover" /\ job'.pc = "boot"
        /\ UNCHANGED <<journal, engine, live, discards, failed, cancelled, closed, marker, trip, boot>>
    BY <1>4 DEF RecoveryOver, native, stored, memory, history, At, Job
  <2>2. Starting'
    BY <1>0, <2>1 DEF Starting, Control
  <2>3. Keeping'
    BY <1>0, <2>1, <2>2, KeepingAsWas DEF Journaled
  <2> QED
    BY <2>1, <2>3, KeptAsWas
<1> QED
  BY <1>1, <1>2, <1>3, <1>4 DEF Recovery

\* A drive opens that has its journal.
LEMMA OpensKept ==
  ASSUME Types, Types', KeptInv, NEW s \in SessionType, Journaled(s.d), s.d \notin discards, OpenDrive(s), ~Starting,
         Ahead' \subseteq Ahead, boot'.adopt \in {boot.adopt, NoDrive}, UNCHANGED <<journal, closed, cancelled, marker, discards>>,
         job'.pc # "store"
  PROVE  KeptInv'
<1>0. StoredOK /\ s.d \in Drives /\ Keeping
  BY TypesAre DEF SessionType, KeptInv
<1>1. /\ engine' = s /\ failed'.d = NoDrive
      /\ \A e \in Drives : trip'[e].status = IF e = s.d /\ trip[e].status = "absent" THEN "recording" ELSE trip[e].status
  BY <1>0, OpensAre, NothingIs
<1>2. Keeping'
  <2>1. \A d \in Ahead' : Journaled(d)
    BY <1>0 DEF Keeping
  <2>2. boot'.adopt # NoDrive => Journaled(boot.adopt) /\ boot'.adopt = boot.adopt
    BY <1>0 DEF Keeping
  <2> QED
    BY <1>1, <2>1, <2>2 DEF Keeping, Journaled
<1> QED
  BY <1>1, <1>2, KeptAsWas

\* The launch takes up drives that have their journals.
LEMMA BootKept ==
  ASSUME Told, Types, Types', Knows, KeptInv, Boot
  PROVE  KeptInv' /\ ~BootContinues
<1>0. /\ Launching /\ Discards /\ Control /\ StoredOK /\ MemoryOK /\ BootOK /\ NativeOK /\ Files /\ Keeping /\ Judged
  BY TypesAre DEF Knows, KeptInv
<1>1. CASE BootReads
  <2>1. /\ job.pc = "boot" /\ job'.pc = "ended" /\ UNCHANGED <<journal, trip, marker, engine, live, discards, failed, cancelled, closed>>
    BY <1>1 DEF BootReads, At, Job, native, stored, history
  <2>2. /\ boot'.todo \subseteq {d \in Drives : Journaled(d)} /\ boot'.live = record /\ boot'.adopt = boot.adopt
    BY <1>0, <1>1 DEF BootReads, BootOK
  <2>3. \A d \in Ahead' : Journaled(d)
    BY <1>0, <2>2 DEF Ahead, Files, Keeping
  <2>4. Keeping'
    BY <1>0, <2>1, <2>2, <2>3 DEF Keeping, Journaled
  <2>5. ~BootContinues
    BY <2>1 DEF BootContinues, BootGoesOn
  <2> QED
    BY <2>1, <2>4, <2>5, KeptAsWas
<1>2. CASE BootAdoptsEnded
  <2>1. PICK n \in boot.todo : n = Min(boot.todo) /\ n \in Drives
    BY <1>0, <1>2, NextIs DEF BootAdoptsEnded
  <2>2. /\ job.pc = "ended" /\ AdoptEnded(n) /\ boot.todo # {}
        /\ boot' = [boot EXCEPT !.todo = @ \ {n}, !.adopt = IF @ = n THEN NoDrive ELSE @]
        /\ UNCHANGED <<journal, marker, cancelled, closed>>
    BY <1>2, <2>1 DEF BootAdoptsEnded, native, history
  <2>3. boot.on /\ ~Starting /\ engine.d = NoDrive /\ n \in Ahead /\ n \notin discards
    BY <1>0, <2>1, <2>2, TodoIs DEF Ahead
  <2>4. Journaled(n)
    BY <1>0, <2>3 DEF Keeping
  <2>5. boot'.todo \subseteq boot.todo /\ boot'.adopt \in {NoDrive, boot.adopt} /\ boot'.live = boot.live
    BY <1>0, <2>2 DEF BootOK
  <2>6. Ahead' \subseteq Ahead
    BY <2>5 DEF Ahead
  <2>7. ~BootContinues
    BY <2>2 DEF BootContinues, BootGoesOn
  <2>8. CASE trip[n].status = "stored"
    <3>1. /\ discards' = discards \cup {n} /\ job' = Back /\ UNCHANGED <<trip, engine, live, failed>>
      BY <2>2, <2>8 DEF AdoptEnded
    <3>2. job'.pc \in {"ended", "after"}
      BY <3>1 DEF Back, At, Job
    <3>3. Keeping'
      <4>1. \A d \in Ahead' : Journaled(d)
        BY <1>0, <2>3, <2>6 DEF Keeping
      <4>2. boot'.adopt # NoDrive => Journaled(boot.adopt) /\ boot'.adopt = boot.adopt
        BY <1>0, <2>5 DEF Keeping
      <4> QED
        BY <2>2, <2>3, <3>1, <4>1, <4>2 DEF Keeping, Journaled
    <3>4. /\ UNCHANGED <<journal, marker, cancelled, closed, trip, failed>> /\ job'.pc # "store"
          /\ \A d \in discards' : d \in discards \/ trip[d].status = "stored"
      BY <2>2, <2>8, <3>1, <3>2
    <3> QED
      BY <2>7, <3>3, <3>4, KeptAsWas
  <2>9. CASE trip[n].status # "stored"
    <3>1. OpenDrive(Rebuilt(n)) /\ discards' = discards /\ job'.pc = "drain"
      BY <2>2, <2>9 DEF AdoptEnded, Drain, Job
    <3>2. PICK s \in SessionType : s.d = n /\ OpenDrive(s)
      BY <1>0, <2>1, <3>1, RebuiltIs
    <3>3. /\ UNCHANGED <<journal, marker, cancelled, closed, discards>> /\ job'.pc # "store"
          /\ Journaled(s.d) /\ s.d \notin discards
      BY <2>2, <2>3, <2>4, <3>1, <3>2
    <3> QED
      BY <2>3, <2>5, <2>6, <2>7, <3>2, <3>3, OpensKept
  <2> QED
    BY <2>8, <2>9
<1>3. CASE BootGoesOn
  <2>1. /\ job.pc = "ended" /\ boot.todo = {} /\ boot.on /\ ~Starting /\ engine.d = NoDrive
        /\ boot'.adopt = NoDrive /\ Ahead' = {} /\ NoDrive \notin Drives
    BY <1>3, TodoIs, DrivesAre DEF BootGoesOn, NoBoot, Ahead
  <2>2. ~BootContinues
    <3>1. SUFFICES ASSUME boot.adopt # NoDrive, boot.adopt # boot.live
                   PROVE  FALSE
      BY DEF BootContinues
    <3>2. Journaled(boot.adopt)
      BY <1>0, <3>1 DEF Keeping
    <3>3. ~Journaled(boot.adopt)
      BY <1>0, <2>1, <3>1 DEF Launching, Told
    <3> QED
      BY <3>2, <3>3
  <2>3. CASE BootTakesLive
    <3>1. /\ boot.live # NoDrive /\ OpenDrive(Rebuilt(boot.live)) /\ job'.pc = "drain"
          /\ UNCHANGED <<journal, marker, discards, cancelled, closed>>
      BY <2>3 DEF BootTakesLive, Drain, Job, native, history
    <3>2. PICK n \in Drives : n = boot.live /\ n \in Ahead
      BY <1>0, <3>1 DEF BootOK, Ahead
    <3>3. Journaled(n) /\ n \notin discards
      BY <1>0, <2>1, <3>2 DEF Keeping, Discards
    <3>4. PICK s \in SessionType : s.d = n /\ OpenDrive(s)
      BY <1>0, <3>1, <3>2, RebuiltIs
    <3> QED
      BY <2>1, <2>2, <3>1, <3>3, <3>4, OpensKept
  <2>4. CASE BootRests
    <3>1. job'.pc = "after" /\ UNCHANGED <<journal, trip, marker, engine, live, discards, failed, cancelled, closed>>
      BY <2>4 DEF BootRests, At, Job, native, stored, memory, history
    <3>2. Keeping'
      BY <2>1, <3>1 DEF Keeping
    <3> QED
      BY <2>2, <3>1, <3>2, KeptAsWas
  <2> QED
    BY <1>3, <2>1, <2>2, <2>3, <2>4 DEF Boot, BootReads, BootAdoptsEnded
<1> QED
  BY <1>1, <1>2, <1>3 DEF Boot, BootContinues, BootTakesLive, BootRests

\* A step that opens no drive and judges none.
LEMMA GoesOnKept ==
  ASSUME Types, Types', Spared, KeptInv, UNCHANGED <<journal, closed, cancelled, marker, boot>>,
         trip' = trip \/ (engine.d # NoDrive /\ \E r : trip' = Checkpoint(engine.d, r)),
         engine'.d \in {engine.d, NoDrive}, failed'.d \in {failed.d, NoDrive},
         \A d \in discards' : d \in discards \/ trip[d].status = "stored",
         job'.pc = "store" => Closed(Closing'.d), ~Starting
  PROVE  KeptInv'
<1>1. \A d \in Drives : trip'[d].status = trip[d].status
  BY CheckpointSpares
<1>2. Keeping'
  BY KeepingAsWas DEF KeptInv, Journaled
<1> QED
  BY <1>1, <1>2, KeptAsWas

\* What a drain does.
LEMMA ReadingKept ==
  ASSUME Types, Types', Spared, KeptInv, Reading
  PROVE  KeptInv'
<1>0. Control /\ MemoryOK
  BY TypesAre
<1>1. job.pc \in {"drain", "drained"} /\ engine.d # NoDrive /\ ~Starting
  BY <1>0 DEF Reading, ReadPage, ReadFails, TakenUp, GapFilled, NativeEndTaken, ReleaseDrive, Control, Starting
<1>2. /\ UNCHANGED <<journal, closed, marker, cancelled, boot, discards, failed>>
      /\ trip' = trip \/ \E r : trip' = Checkpoint(engine.d, r)
      /\ engine'.d \in {engine.d, NoDrive} /\ job'.pc # "store"
  <2>1. CASE ReadPage
    <3>1. /\ UNCHANGED <<journal, closed, marker, cancelled, boot, discards, failed>>
          /\ trip' = trip \/ \E r : trip' = Checkpoint(engine.d, r)
          /\ engine'.d = engine.d
      BY <1>0, <2>1 DEF ReadPage, TakeIn, TakeInAndEnd, MemoryOK, history, native
    <3>2. job.pc = "drain" /\ (job' = AfterPage \/ job' = Close("auto"))
      BY <2>1 DEF ReadPage, TakeInAndEnd
    <3>3. job'.pc # "store"
      BY <3>2, AfterPageIs DEF Close, Job
    <3> QED
      BY <3>1, <3>3
  <2>2. CASE ReadFails
    <3>1. job'.pc = "drained"
      BY <2>2, TypesAre DEF ReadFails, JobOK
    <3> QED
      BY <2>2, <3>1 DEF ReadFails, native, stored, memory, history
  <2>3. CASE TakenUp \/ NativeEndTaken
    BY <2>3 DEF TakenUp, NativeEndTaken, At, Close, Job, native, stored, memory, history
  <2>4. CASE GapFilled
    <3>1. CASE TakeLiveRow(job.row)
      <4>1. /\ UNCHANGED <<journal, closed, marker, cancelled, boot, discards, failed>> /\ engine'.d = engine.d
            /\ trip' = trip \/ \E r : trip' = Checkpoint(engine.d, r)
        BY <1>0, <2>4, <3>1 DEF GapFilled, TakeLiveRow, TakeIn, TakeInAndEnd, MemoryOK, history, native
      <4>2. job' = At("after") \/ job' = Close("auto")
        BY <3>1 DEF TakeLiveRow, TakeInAndEnd
      <4> QED
        BY <4>1, <4>2 DEF At, Close, Job
    <3>2. CASE ~TakeLiveRow(job.row)
      BY <2>4, <3>2 DEF GapFilled, At, Job, native, stored, memory, history
    <3> QED
      BY <3>1, <3>2
  <2>5. CASE ReleaseDrive
    BY <2>5, NothingIs DEF ReleaseDrive, Back, At, Job, native, history
  <2> QED
    BY <2>1, <2>2, <2>3, <2>4, <2>5 DEF Reading
<1> QED
  BY <1>1, <1>2, GoesOnKept

\* The end of a drive: it is judged before it is stored, and stored before its journal goes.
LEMMA EndingKept ==
  ASSUME Types, Types', Knows, Spared, KeptInv, Ending
  PROVE  KeptInv'
<1>0. /\ Capture /\ Discards /\ Control /\ StoredOK /\ MemoryOK /\ HistoryOK /\ NativeOK /\ JournalKept /\ Judged /\ Keeping
      /\ MarkerIs /\ NoDrive \notin discards /\ NoDrive \notin Drives
  BY TypesAre, QueuedDrives, DrivesAre DEF Knows, KeptInv
<1>1. job.pc \in {"close", "store", "after", "discard"} /\ ~Starting
  BY DEF Ending, CloseCheckpoint, StoreDrive, StoreFails, StopCapture, DiscardJournals, Starting
<1>2. CASE CloseCheckpoint
  <2>1. /\ UNCHANGED <<journal, engine, failed, discards, marker, cancelled, boot>> /\ job.pc = "close"
        /\ trip' = trip \/ \E r : trip' = Checkpoint(engine.d, r)
        /\ closed' = [closed EXCEPT ![engine.d] = [how |-> job.how, rows |-> engine.rows]]
    BY <1>2 DEF CloseCheckpoint, native, memory, Judge
  <2>2. engine.d # NoDrive /\ engine.d \in Drives /\ job.how # "no"
    BY <1>0, <2>1 DEF Control, MemoryOK
  <2>3. closed'[engine.d].how # "no" /\ \A d \in Drives \ {engine.d} : closed'[d] = closed[d]
    BY <1>0, <2>1, <2>2 DEF HistoryOK
  <2>4. \A d \in Drives : trip'[d].status = trip[d].status /\ (Closed(d) => closed'[d].how # "no")
    BY <2>1, <2>2, <2>3, CheckpointSpares DEF Closed
  <2>5. JournalKept'
    BY <1>0, <2>1, <2>4 DEF JournalKept, Closed
  <2>6. Judged'
    <3>1. Closing' = engine
      BY <2>1, <2>2 DEF Closing
    <3> QED
      BY <1>0, <2>1, <2>3, <2>4, <3>1 DEF Judged, Closed, MemoryOK
  <2>7. Keeping'
    BY <1>0, <1>1, <2>1, KeepingAsWas DEF Journaled
  <2> QED
    BY <1>0, <2>1, <2>5, <2>6, <2>7 DEF KeptInv, MarkerIs
<1>3. CASE StoreDrive
  <2>1. /\ UNCHANGED <<journal, closed, marker, cancelled, boot>> /\ job.pc = "store" /\ job'.pc # "store" /\ trip' = CloseDrive(Closing)
        /\ discards' \subseteq discards \cup {Closing.d} /\ failed'.d \in {failed.d, NoDrive} /\ engine'.d = NoDrive
    BY <1>3, NothingIs DEF StoreDrive, Back, At, Job, native, history
  <2>2. PICK c \in Drives : c = Closing.d /\ Closing \in SessionType /\ Closed(c)
    BY <1>0, <2>1 DEF Control, Closing, MemoryOK, SessionType, Judged
  <2>3. trip'[c].status \in {"absent", "stored"} /\ \A e \in Drives \ {c} : trip'[e] = trip[e]
    BY <1>0, <2>1, <2>2, WritesAre
  <2>4. JournalKept'
    BY <1>0, <2>1, <2>2, <2>3 DEF JournalKept, Closed
  <2>5. Judged'
    <3>1. \A d \in discards' : d \in Drives /\ Closed(d) /\ trip'[d].status # "recording"
      BY <1>0, <2>1, <2>2, <2>3 DEF Judged, MemoryOK
    <3> QED
      BY <1>0, <2>1, <2>2, <2>3, <3>1 DEF Judged, Closed
  <2>6. Keeping'
    BY <1>0, <1>1, <2>1, KeepingAsWas DEF Journaled
  <2> QED
    BY <1>0, <2>1, <2>4, <2>5, <2>6 DEF KeptInv, MarkerIs
<1>4. CASE StoreFails
  <2>1. /\ UNCHANGED <<journal, closed, marker, cancelled, boot, trip, discards>> /\ job.pc = "store" /\ job'.pc # "store"
        /\ failed' = Closing /\ engine'.d = NoDrive
    BY <1>4, NothingIs DEF StoreFails, Back, At, Job, native, stored, history
  <2>2. JournalKept'
    BY <1>0, <2>1 DEF JournalKept
  <2>3. Judged'
    BY <1>0, <2>1 DEF Judged, Closed
  <2>4. Keeping'
    BY <1>0, <1>1, <2>1, KeepingAsWas DEF Journaled
  <2> QED
    BY <1>0, <2>1, <2>2, <2>3, <2>4 DEF KeptInv, MarkerIs
<1>5. CASE StopCapture
  <2>1. UNCHANGED <<journal, closed, marker, cancelled, boot, discards, failed, engine, trip>> /\ job'.pc = "discard"
    BY <1>5 DEF StopCapture, stored, history, At, Job
  <2> QED
    BY <1>0, <1>1, <2>1, GoesOnKept
<1>6. CASE DiscardJournals
  <2>1. /\ UNCHANGED <<closed, record, marker, trip, engine, failed, boot, cancelled>>
        /\ job'.pc = "ready" /\ discards' \subseteq discards
        /\ \A d \in Drives \ discards : journal'[d] = journal[d]
    BY <1>0, <1>6 DEF DiscardJournals, stored, history, At, Job
  <2>2. JournalKept'
    <3>1. ASSUME NEW d \in Drives, journal'[d].state = "gone"
          PROVE  d \in cancelled \/ (closed[d].how # "no" /\ trip[d].status # "recording")
      <4>1. CASE d \in discards
        BY <1>0, <4>1 DEF Judged, Closed
      <4>2. CASE d \notin discards
        BY <1>0, <2>1, <3>1, <4>2 DEF JournalKept
      <4> QED
        BY <4>1, <4>2
    <3> QED
      BY <2>1, <3>1 DEF JournalKept
  <2>3. Judged'
    BY <1>0, <2>1 DEF Judged, Closed
  <2>4. Keeping'
    <3>1. \A d \in Drives \ discards : Journaled(d) => journal'[d].state = "here"
      BY <2>1 DEF Journaled
    <3>2. engine.d # NoDrive => engine.d \in Drives \ discards
      BY <1>0 DEF Discards, MemoryOK
    <3>3. \A d \in Ahead : d \in Drives \ discards
      BY <1>0, TypesAre DEF Discards, Ahead, BootOK
    <3>4. boot.adopt # NoDrive => boot.adopt \in Ahead
      BY DEF Ahead
    <3>5. Ahead' = Ahead
      BY <2>1 DEF Ahead
    <3>6. \A d \in Ahead : journal'[d].state = "here"
      BY <1>0, <1>1, <3>1, <3>3 DEF Keeping
    <3>7. engine.d # NoDrive => journal'[engine.d].state = "here"
      BY <1>0, <3>1, <3>2 DEF Keeping
    <3> QED
      BY <2>1, <3>4, <3>5, <3>6, <3>7 DEF Keeping, Journaled
  <2> QED
    BY <1>0, <2>1, <2>2, <2>3, <2>4 DEF KeptInv, MarkerIs
<1> QED
  BY <1>2, <1>3, <1>4, <1>5, <1>6 DEF Ending

\* The drive cancelled is the marker's.
LEMMA CancelDriveKept ==
  ASSUME Types, Types', KeptInv, job.pc = "ready", ~Starting, NEW d \in Drives, NEW held, CancelDrive(d, held)
  PROVE  KeptInv'
<1>1. /\ UNCHANGED <<journal, trip, discards, boot, closed>> /\ marker'.d = d /\ cancelled' = cancelled \cup {d}
      /\ engine'.d = NoDrive /\ failed'.d \in {failed.d, NoDrive} /\ job'.pc = "tell"
  BY NothingIs DEF CancelDrive, Cancel, Job, native
<1>2. JournalKept'
  BY <1>1 DEF KeptInv, JournalKept
<1>3. Judged'
  BY <1>1 DEF KeptInv, Judged, Closed
<1>4. Keeping'
  BY <1>1, KeepingAsWas DEF KeptInv, Journaled
<1>5. MarkerIs'
  BY <1>1 DEF MarkerIs
<1> QED
  BY <1>2, <1>3, <1>4, <1>5 DEF KeptInv

\* The tasks of the queue.
LEMMA TasksKept ==
  ASSUME Told, Types, Types', Knows, Spared, KeptInv, Tasks
  PROVE  KeptInv'
<1>0. Control /\ StoredOK /\ MemoryOK /\ QueueOK /\ NoDrive \notin Drives
  BY TypesAre, DrivesAre
<1>1. job.pc = "ready"
  BY DEF Tasks, OnLiveRow, OnDriveStarted, OnDriveEnded, OnDriveCancelled, OnEnd, FinalizeAgain, OnCancel, Tick, Takes
<1>2. boot = NoBoot /\ discards = {} /\ Ahead = {} /\ ~Starting
  BY <1>1, ReadyIs
<1>3. ASSUME NEW k, Takes(k)
      PROVE  Event.d \in Drives
  BY <1>0, <1>3, TakesIs
<1>4. ASSUME UNCHANGED <<journal, trip, marker, engine, discards, failed, cancelled, closed, boot>>, job'.pc # "store"
      PROVE  KeptInv'
  BY <1>2, <1>4, GoesOnKept
<1>5. ASSUME NEW d \in Drives, OpenDrive(Session(d, {})) \/ OpenDrive(Rebuilt(d)), Journaled(d),
             UNCHANGED <<journal, marker, cancelled, discards, boot, closed>>, job'.pc = "drain"
      PROVE  KeptInv'
  <2>1. /\ Rebuilt(d) \in SessionType /\ Rebuilt(d).d = d
        /\ Session(d, {}) \in SessionType /\ Session(d, {}).d = d
    BY <1>0, RebuiltIs DEF Session, SessionType, RowSets
  <2>2. PICK s \in SessionType : s.d = d /\ OpenDrive(s)
    BY <1>5, <2>1
  <2>3. Ahead' = Ahead /\ boot'.adopt = boot.adopt
    BY <1>5 DEF Ahead
  <2> QED
    BY <1>2, <1>5, <2>2, <2>3, OpensKept
<1>6. ASSUME PassOver
      PROVE  KeptInv'
  <2>1. UNCHANGED <<journal, trip, marker, engine, discards, failed, cancelled, closed, boot>> /\ job'.pc # "store"
    BY <1>6 DEF PassOver, At, Job, native, stored, memory, history
  <2> QED
    BY <1>4, <2>1
<1>7. CASE OnLiveRow
  <2>1. CASE TakeLiveRow(Event.row) /\ ~(live.d = NoDrive)
    <3>1. engine.d # NoDrive
      BY <1>0, <2>1 DEF Control
    <3>2. /\ UNCHANGED <<journal, closed, marker, cancelled, boot, discards, failed>> /\ engine'.d = engine.d
          /\ trip' = trip \/ \E r : trip' = Checkpoint(engine.d, r)
      BY <1>0, <2>1 DEF TakeLiveRow, TakeIn, TakeInAndEnd, MemoryOK, history, native
    <3>3. job' = At("after") \/ job' = Close("auto")
      BY <2>1 DEF TakeLiveRow, TakeInAndEnd
    <3>4. job'.pc # "store"
      BY <3>3 DEF At, Close, Job
    <3> QED
      BY <1>2, <3>1, <3>2, <3>4, GoesOnKept
  <2>2. CASE ~(TakeLiveRow(Event.row) /\ ~(live.d = NoDrive))
    <3>1. UNCHANGED <<journal, trip, marker, engine, discards, failed, cancelled, closed, boot>> /\ job'.pc # "store"
      BY <1>7, <2>2 DEF OnLiveRow, PassOver, Drain, At, Job, native, stored, memory, history
    <3> QED
      BY <1>4, <3>1
  <2> QED
    BY <2>1, <2>2
<1>8. CASE OnDriveStarted
  <2>1. Event.d \in Drives
    BY <1>3, <1>8 DEF OnDriveStarted
  <2>2. CASE ~PassOver
    <3>1. /\ OpenDrive(Session(Event.d, {})) /\ job'.pc = "drain" /\ UNCHANGED <<journal, marker, discards, boot, cancelled, closed>>
          /\ Journaled(Event.d)
      BY <1>8, <2>2 DEF OnDriveStarted, Begins, Fails, Fault, Told, Drain, Job, native, history
    <3>2. PICK d \in Drives : d = Event.d
      BY <2>1
    <3> QED
      BY <1>5, <3>1, <3>2
  <2> QED
    BY <1>6, <2>2
<1>9. CASE OnDriveEnded
  <2>1. Event.d \in Drives
    BY <1>3, <1>9 DEF OnDriveEnded
  <2>2. CASE Holding(Event.d)
    <3>1. UNCHANGED <<journal, trip, marker, engine, discards, failed, cancelled, closed, boot>> /\ job'.pc # "store"
      BY <1>9, <2>2 DEF OnDriveEnded, Drain, Job, native, stored, history
    <3> QED
      BY <1>4, <3>1
  <2>3. CASE ~PassOver /\ ~Holding(Event.d)
    <3>1. PICK d \in Drives : d = Event.d
      BY <2>1
    <3>2. AdoptEnded(d) /\ Journaled(d) /\ UNCHANGED <<journal, marker, boot, cancelled, closed>>
      BY <1>9, <2>3, <3>1 DEF OnDriveEnded, TakesIn, native, history
    <3>3. CASE trip[d].status = "stored"
      <4>1. discards' = discards \cup {d} /\ job'.pc # "store" /\ UNCHANGED <<trip, engine, failed>>
        BY <3>2, <3>3 DEF AdoptEnded, Back, At, Job
      <4>2. \A e \in discards' : e \in discards \/ trip[e].status = "stored"
        BY <3>3, <4>1
      <4> QED
        BY <1>2, <3>2, <4>1, <4>2, GoesOnKept
    <3>4. CASE trip[d].status # "stored"
      <4>1. OpenDrive(Rebuilt(d)) /\ discards' = discards /\ job'.pc = "drain"
        BY <3>2, <3>4 DEF AdoptEnded, Drain, Job
      <4> QED
        BY <1>5, <3>2, <4>1
    <3> QED
      BY <3>3, <3>4
  <2> QED
    BY <1>6, <2>2, <2>3
<1>10. CASE OnDriveCancelled
  <2>1. Event.d \in Drives
    BY <1>3, <1>10 DEF OnDriveCancelled
  <2>2. CASE ~PassOver
    <3>1. PICK d \in Drives : CancelDrive(d, FALSE)
      BY <1>10, <2>1, <2>2 DEF OnDriveCancelled
    <3> QED
      BY <1>1, <1>2, <3>1, CancelDriveKept
  <2> QED
    BY <1>6, <2>2
<1>11. CASE OnEnd \/ Tick
  <2>1. UNCHANGED <<journal, trip, marker, engine, discards, failed, cancelled, closed, boot>> /\ job'.pc # "store"
    BY <1>11 DEF OnEnd, Tick, PassOver, Close, At, Job, native, stored, memory, history
  <2> QED
    BY <1>4, <2>1
<1>12. CASE FinalizeAgain
  <2>1. CASE ~PassOver
    <3>1. /\ engine.d = NoDrive /\ failed.d = Event.d
          /\ UNCHANGED <<journal, trip, marker, engine, discards, failed, cancelled, closed, boot>>
      BY <1>12, <2>1 DEF FinalizeAgain, native, stored, memory, history
    <3>2. Event.d \in Drives
      BY <1>3, <1>12 DEF FinalizeAgain
    <3>3. Closed(Closing'.d)
      BY <1>0, <3>1, <3>2 DEF KeptInv, Judged, Closing
    <3> QED
      BY <1>2, <3>1, <3>3, GoesOnKept
  <2> QED
    BY <1>6, <2>1
<1>13. CASE OnCancel
  <2>1. CASE ~PassOver
    <3>1. PICK d \in Drives : CancelDrive(d, live.d = engine.d)
      BY <1>0, <1>13, <2>1 DEF OnCancel, MemoryOK
    <3> QED
      BY <1>1, <1>2, <3>1, CancelDriveKept
  <2> QED
    BY <1>6, <2>1
<1> QED
  BY <1>7, <1>8, <1>9, <1>10, <1>11, <1>12, <1>13 DEF Tasks

\* Every step keeps both.
LEMMA StepSteady ==
  ASSUME Steady, Types, Types', Knows, Spared, Sync, KeptInv, [Next]_vars
  PROVE  Sync' /\ KeptInv'
<1>1. Told
  BY DEF Steady
<1>2. CASE Native \/ Launch \/ Kill \/ Driver
  BY <1>2, NativeSyncs, NativeKept
<1>3. CASE Recovery
  BY <1>3, RecoverySyncs, RecoveryKept
<1>4. CASE Boot
  BY <1>1, <1>4, BootSyncs, BootKept
<1>5. CASE Reading
  BY <1>5, ReadingSyncs, ReadingKept
<1>6. CASE Ending
  BY <1>6, EndingSyncs, EndingKept
<1>7. CASE Cancelling
  BY <1>7, CancellingSyncs, CancellingKept
<1>8. CASE Tasks
  BY <1>1, <1>8, TasksSync, TasksKept
<1>9. CASE UNCHANGED vars \/ Over
  <2>1. UNCHANGED vars
    BY <1>9 DEF Over
  <2> QED
    BY <2>1 DEF vars, native, stored, memory, history, KeptInv, JournalKept, Judged, Keeping, MarkerIs, Closed, Closing, Journaled,
                Ahead, Starting, Sync, Heard, Unheard, Queued
<1> QED
  BY <1>2, <1>3, <1>4, <1>5, <1>6, <1>7, <1>8, <1>9 DEF Next, Host

\* No drive is recorded, open or judged at first.
LEMMA InitKept ==
  ASSUME Init
  PROVE  Sync /\ KeptInv
<1>1. /\ record = NoDrive /\ engine.d = NoDrive /\ discards = {} /\ failed.d = NoDrive /\ marker.d = NoDrive
      /\ boot.todo = {} /\ boot.adopt = NoDrive /\ boot.live = NoDrive /\ job.pc = "ready"
      /\ \A d \in Drives : journal[d].state = "none" /\ trip[d].status = "absent"
  BY NothingIs DEF Init, NoBoot, At, Job, Absent
<1> QED
  BY <1>1 DEF Sync, KeptInv, JournalKept, Judged, Keeping, MarkerIs, Ahead

\* What the two theorems rest on.
LEMMA AlwaysSteady ==
  ASSUME Steady
  PROVE  Spec => [](Types /\ Knows /\ Sync /\ KeptInv)
<1>1. Init => Types /\ Knows /\ CancelInv /\ Sync /\ KeptInv
  BY InitTypes, InitKnows, InitSpares, InitKept
<1>2. Types /\ Knows /\ CancelInv /\ Sync /\ KeptInv /\ [Next]_vars => (Types /\ Knows /\ CancelInv /\ Sync /\ KeptInv)'
  <2> SUFFICES ASSUME Types, Knows, CancelInv, Sync, KeptInv, [Next]_vars
               PROVE  (Types /\ Knows /\ CancelInv /\ Sync /\ KeptInv)'
    OBVIOUS
  <2>1. Types' /\ Told
    BY StepTypes DEF Steady
  <2>2. Knows'
    BY <2>1, StepKnows
  <2>3. CancelInv'
    BY <2>1, <2>2, StepSpares
  <2>4. Sync' /\ KeptInv'
    BY <2>1, StepSteady DEF CancelInv
  <2> QED
    BY <2>1, <2>2, <2>3, <2>4
<1> QED
  BY <1>1, <1>2, PTL DEF Spec

\* A journal file is deleted only once nothing more is to be read from it: its drive is cancelled, or judged
\* and no longer recording in the database (src/drive/host.ts, drainDiscards and cancelIosDrive), if native's
\* list of journals can be read, dropTrip does not throw and no drive begins while the host is behind.
THEOREM JournalsKept == ASSUME Steady PROVE Spec => []JournalKept
<1>1. KeptInv => JournalKept
  BY DEF KeptInv
<1> QED
  BY <1>1, AlwaysSteady, PTL

\* With nothing left for the host to do, native records no drive the host does not hold (src/drive/host.ts,
\* reconcileCapture), under the same assumption.
THEOREM NoneUnheld == ASSUME Steady PROVE Spec => []NothingUnheld
<1>1. Types /\ Knows /\ Sync => NothingUnheld
  <2> SUFFICES ASSUME Types, Knows, Sync, Quiet, record # NoDrive
               PROVE  live.d = record
    BY DEF NothingUnheld
  <2>1. job.pc = "ready" /\ ~boot.on /\ ~Starting /\ Queued(inbox) = {}
    BY ReadyIs DEF Quiet, Queued
  <2> QED
    BY <2>1, HeardIs DEF Unheard
<1> QED
  BY <1>1, AlwaysSteady, PTL
=============================================================================
