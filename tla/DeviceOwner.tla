---------------------------- MODULE DeviceOwner ----------------------------
(***************************************************************************)
(* Whose phone this is.  The local database has no user column: it holds   *)
(* one driver's record, and the settings remember whose (device.ts).  A    *)
(* sign-in by somebody else is noticed by a watch (ownerWatch.ts), written *)
(* down, and raised as a handover: the runtime is torn down and the next   *)
(* launch empties the phone (bootstrap.ts's identity stage,                *)
(* controller.ts).  Meanwhile the sync runner sends what is owed           *)
(* (runner.ts's pass and its fence), a restore brings the driver's drives  *)
(* down page by page (restore.ts), a sign-out takes them off the phone,    *)
(* and the process may die between any two steps.                          *)
(*                                                                         *)
(* The uploads' answers and retries are DriveSync's; here an item is owed  *)
(* or not.  A page of the restore holds one drive.                         *)
(***************************************************************************)
EXTENDS Integers, FiniteSets

CONSTANTS
  Drivers,      \* who may sign in
  NDrives,      \* the drives each one's account holds already
  MaxSignIns,   \* bound on the sign-ins
  MaxKills,     \* bound on the deaths of the process
  Reads,        \* how a launch's read of the session may go: it "answers", is "slow", is "unknown" (offline, expired)
  Outlives,     \* what may outlive the session it began under: the restore's last "record", a "page" asked for
                \* (until the next sign-in), the sign-out's "wipe", a "pass" of the runner, a "check" of the watch
  None

ASSUME DriversAssumption == None \notin Drivers /\ NDrives \in Nat
ASSUME ReadsAssumption == Reads \subseteq {"answers", "slow", "unknown"}
ASSUME BoundsAssumption == MaxSignIns \in Nat /\ MaxKills \in Nat

VARIABLES
  session,   \* whose session the auth client holds
  keys,      \* settings: owner (device.lastUserId), seen (session.uid), pending (device.pendingOwner), cursor, restored
  rows,      \* the drives on the phone
  open,      \* the one being recorded
  work,      \* the driver an owed upload is stamped with
  server,    \* which account holds which drive
  run,       \* the runtime: off, deciding whose the phone is, ready, or torn down for a handover
  checks,    \* the owner watch's checks under way
  leaving,   \* how far a sign-out's wipe has come
  pass,      \* the runner's pass
  restore,   \* the restore
  used,      \* bounds
  emptied    \* the phone was emptied by a sign-out, and nobody has signed in since: read by no action

vars == <<session, keys, rows, open, work, server, run, checks, leaving, pass, restore, used, emptied>>
record == <<keys, rows, open, work>>
process == <<run, checks, leaving, pass, restore>>

Drive == Drivers \X (1 .. NDrives + 1)
Driven(u) == <<u, NDrives + 1>>           \* the drive the driver records on this phone
Anybody == Drivers \cup {None}
NoCursor == [uid |-> None, before |-> 0]
NoKeys == [owner |-> None, seen |-> None, pending |-> None, cursor |-> NoCursor, restored |-> None]
NoWork == [d \in Drive |-> None]
NoChecks == [u \in Drivers |-> "none"]
Off == [at |-> "off", uid |-> None, how |-> "none"]
NoPass == [at |-> "idle", uid |-> None, todo |-> {}, drive |-> None]
NoRestore == [at |-> "none", uid |-> None, before |-> 0, page |-> {}, live |-> TRUE]

Init ==
  /\ session = None /\ keys = NoKeys
  /\ rows = {} /\ open = None /\ work = NoWork
  /\ server = {<<<<u, n>>, u>> : u \in Drivers, n \in 1 .. NDrives}
  /\ run = Off /\ checks = NoChecks /\ leaving = "no" /\ pass = NoPass /\ restore = NoRestore
  /\ used = [ins |-> 0, kills |-> 0] /\ emptied = FALSE

Ready == run.at = "ready"
HasDriverData == rows # {} \/ \E d \in Drive : work[d] # None
Owed == \E d \in Drive : work[d] # None

----------------------------------------------------------------------------
(* The session.                                                            *)

\* SIGNED_IN, which the watch hears.
SignIn(u) ==
  /\ Ready /\ session = None /\ used.ins < MaxSignIns
  /\ leaving = "no" \/ "wipe" \in Outlives
  /\ restore.uid # u \/ "page" \in Outlives
  /\ pass.uid \in {None, u} \/ "pass" \in Outlives
  /\ checks = NoChecks \/ "check" \in Outlives
  /\ session' = u
  /\ checks' = [checks EXCEPT ![u] = "asked"]
  /\ used' = [used EXCEPT !.ins = @ + 1]
  /\ emptied' = FALSE
  /\ UNCHANGED <<record, server, run, leaving, pass, restore>>

\* INITIAL_SESSION, TOKEN_REFRESHED: heard too, and of note only to another's phone.
AuthEvent(u) ==
  /\ Ready /\ session = u /\ keys.owner # u /\ checks[u] = "none"
  /\ checks' = [checks EXCEPT ![u] = "asked"]
  /\ UNCHANGED <<session, record, server, run, leaving, pass, restore, used, emptied>>

\* The driver signs out: an open drive was finished first, and what was owed flushed.
SignOut ==
  /\ Ready /\ session # None /\ open = None
  /\ session' = None /\ leaving' = "ended"
  /\ UNCHANGED <<record, server, run, checks, pass, restore, used, emptied>>

\* The session ends by itself: revoked, or expired.
SessionEnds ==
  /\ run.at # "off" /\ session # None
  /\ session' = None
  /\ UNCHANGED <<record, server, process, used, emptied>>

\* Only with nothing owed do the driver's drives leave the phone.
ReadOwed ==
  /\ leaving = "ended"
  /\ leaving' = IF Owed THEN "no" ELSE "wiping"
  /\ UNCHANGED <<session, record, server, run, checks, pass, restore, used, emptied>>

\* Mutant: the record of how far the restore ran stays.
WipeForSignOutKeeping ==
  /\ leaving = "wiping"
  /\ restore.at = "record" => "record" \in Outlives
  /\ rows' = {} /\ open' = None
  /\ leaving' = "no" /\ emptied' = (session = None)
  /\ UNCHANGED <<session, keys, work, server, run, checks, pass, restore, used>>

\* The owner stays on record, what is owed too.
WipeForSignOut ==
  /\ leaving = "wiping"
  /\ restore.at = "record" => "record" \in Outlives
  /\ rows' = {} /\ open' = None
  /\ keys' = [keys EXCEPT !.cursor = NoCursor, !.restored = None]
  /\ leaving' = "no" /\ emptied' = (session = None)
  /\ UNCHANGED <<session, work, server, run, checks, pass, restore, used>>

----------------------------------------------------------------------------
(* A drive.                                                                *)

StartDrive(u) ==
  /\ Ready /\ session = u /\ keys.owner = u /\ open = None
  /\ Driven(u) \notin rows /\ work[Driven(u)] = None /\ <<Driven(u), u>> \notin server
  /\ open' = Driven(u) /\ rows' = rows \cup {Driven(u)}
  /\ UNCHANGED <<session, keys, work, server, process, used, emptied>>

\* The upload is stamped with the phone's owner.
FinishDrive ==
  /\ Ready /\ open # None
  /\ work' = [work EXCEPT ![open] = keys.owner] /\ open' = None
  /\ UNCHANGED <<session, keys, rows, server, process, used, emptied>>

----------------------------------------------------------------------------
(* The runner.                                                             *)

\* The session is read once for all the items of the round; another driver's are put off.
Claim ==
  /\ Ready /\ pass.at = "idle" /\ session # None
  /\ keys' = [keys EXCEPT !.seen = session]
  /\ LET todo == {d \in Drive : work[d] = session}
     IN  todo # {} /\ pass' = [at |-> "item", uid |-> session, todo |-> todo, drive |-> None]
  /\ UNCHANGED <<session, rows, open, work, server, run, checks, leaving, restore, used, emptied>>

\* An item goes, under whatever session the client holds now.
Send(d) ==
  /\ pass.at = "item" /\ d \in pass.todo
  /\ IF session = None
     THEN server' = server /\ pass' = [pass EXCEPT !.todo = @ \ {d}]
     ELSE /\ server' = server \cup {<<d, session>>}
          /\ pass' = [pass EXCEPT !.at = "sent", !.drive = d, !.todo = @ \ {d}]
  /\ UNCHANGED <<session, record, run, checks, leaving, restore, used, emptied>>

\* The answer is written only while the phone is still the driver's, or it is lost.
Hear ==
  /\ pass.at = "sent"
  /\ work' = IF keys.owner = pass.uid THEN [work EXCEPT ![pass.drive] = None] ELSE work
  /\ pass' = [pass EXCEPT !.at = "item", !.drive = None]
  /\ UNCHANGED <<session, keys, rows, open, server, run, checks, leaving, restore, used, emptied>>
Lose ==
  /\ pass.at = "sent"
  /\ pass' = [pass EXCEPT !.at = "item", !.drive = None]
  /\ UNCHANGED <<session, record, server, run, checks, leaving, restore, used, emptied>>

PassEnds ==
  /\ pass.at = "item" /\ pass.todo = {}
  /\ pass' = NoPass
  /\ UNCHANGED <<session, record, server, run, checks, leaving, restore, used, emptied>>

----------------------------------------------------------------------------
(* The restore.                                                            *)

\* Wanted while its runtime lives and the session is its driver's.
IsCurrent == restore.live /\ session = restore.uid
Before == NDrives + 2
Listed(u, before) == {d \in Drive : <<d, u>> \in server /\ d[2] < before}
Newest(ds) == {d \in ds : \A e \in ds : e[2] <= d[2]}
Abandoned == restore' = NoRestore

BeginRestore ==
  /\ Ready /\ restore.at = "none" /\ keys.owner # None /\ keys.restored # keys.owner
  /\ restore' = [at |-> "ask", uid |-> keys.owner, page |-> {}, live |-> TRUE,
                 before |-> IF keys.cursor.uid = keys.owner THEN keys.cursor.before ELSE Before]
  /\ session = keys.owner
  /\ UNCHANGED <<session, record, server, run, checks, leaving, pass, used, emptied>>

\* A page is asked for and served under the session held now.
ReadPage ==
  /\ restore.at = "ask"
  /\ IF ~IsCurrent THEN Abandoned
     ELSE restore' = [restore EXCEPT !.at = "write", !.page = Newest(Listed(restore.uid, restore.before))]
  /\ UNCHANGED <<session, record, server, run, checks, leaving, pass, used, emptied>>

\* Mutant: the page is written whoever is signed in by then.
WritePageUnasked ==
  /\ restore.at = "write"
  /\ IF keys.owner # restore.uid THEN Abandoned /\ UNCHANGED <<keys, rows>>
     ELSE /\ rows' = rows \cup restore.page
          /\ IF restore.page = {} THEN restore' = [restore EXCEPT !.at = "pool"] /\ UNCHANGED keys
             ELSE \E d \in restore.page :
                    /\ keys' = [keys EXCEPT !.cursor = [uid |-> restore.uid, before |-> d[2]]]
                    /\ restore' = [restore EXCEPT !.at = "ask", !.before = d[2], !.page = {}]
  /\ UNCHANGED <<session, open, work, server, run, checks, leaving, pass, used, emptied>>

\* The page and where the next one starts, in a transaction that reads the owner.  The session is
\* looked at just before, and nothing else runs in between.
WritePage ==
  /\ restore.at = "write"
  /\ IF ~IsCurrent \/ keys.owner # restore.uid THEN Abandoned /\ UNCHANGED <<keys, rows>>
     ELSE /\ rows' = rows \cup restore.page
          /\ IF restore.page = {} THEN restore' = [restore EXCEPT !.at = "pool"] /\ UNCHANGED keys
             ELSE \E d \in restore.page :
                    /\ keys' = [keys EXCEPT !.cursor = [uid |-> restore.uid, before |-> d[2]]]
                    /\ restore' = [restore EXCEPT !.at = "ask", !.before = d[2], !.page = {}]
  /\ UNCHANGED <<session, open, work, server, run, checks, leaving, pass, used, emptied>>

\* The answer never comes: the run ends where it is, and the next one goes on from the cursor.
PageFails ==
  /\ restore.at = "write" /\ Abandoned
  /\ UNCHANGED <<session, record, server, run, checks, leaving, pass, used, emptied>>

\* The route pool, at its last page.
ReadPool ==
  /\ restore.at = "pool"
  /\ IF IsCurrent THEN restore' = [restore EXCEPT !.at = "record"] ELSE Abandoned
  /\ UNCHANGED <<session, record, server, run, checks, leaving, pass, used, emptied>>

\* The record that it ran to the end asks only whose the phone is.
RecordRestored ==
  /\ restore.at = "record" /\ Abandoned
  /\ keys' = IF keys.owner = restore.uid THEN [keys EXCEPT !.restored = restore.uid, !.cursor = NoCursor] ELSE keys
  /\ UNCHANGED <<session, rows, open, work, server, run, checks, leaving, pass, used, emptied>>

----------------------------------------------------------------------------
(* The watch.                                                              *)

NextCheck(u, at) == checks' = [checks EXCEPT ![u] = at]

CheckOwner(u) ==
  /\ Ready /\ checks[u] = "asked"
  /\ NextCheck(u, CASE keys.owner = u -> "none" [] keys.owner = None /\ ~HasDriverData -> "adopt" [] OTHER -> "pend")
  /\ UNCHANGED <<session, record, server, run, leaving, pass, restore, used, emptied>>

\* The first sign-in on an empty phone is remembered.
Adopt(u) ==
  /\ Ready /\ checks[u] = "adopt" /\ NextCheck(u, "none")
  /\ keys' = [keys EXCEPT !.owner = u, !.seen = u, !.pending = None]
  /\ UNCHANGED <<session, rows, open, work, server, run, leaving, pass, restore, used, emptied>>

\* Mutant: a write that fails ends the check.
WritePendingOrNothing(u) ==
  /\ Ready /\ checks[u] = "pend"
  /\ \/ keys' = [keys EXCEPT !.pending = u] /\ NextCheck(u, "raise")
     \/ keys' = keys /\ NextCheck(u, "none")
  /\ UNCHANGED <<session, rows, open, work, server, run, leaving, pass, restore, used, emptied>>

\* Durable first; a write that fails is reported, and the handover raised all the same.
WritePending(u) ==
  /\ Ready /\ checks[u] = "pend" /\ NextCheck(u, "raise")
  /\ keys' = [keys EXCEPT !.pending = u] \/ keys' = keys
  /\ UNCHANGED <<session, rows, open, work, server, run, leaving, pass, restore, used, emptied>>

\* The runtime leaves the screen; its watch and its restore are done with.
OnHandover(u) ==
  /\ Ready /\ checks[u] = "raise"
  /\ checks' = NoChecks
  /\ run' = [at |-> "teardown", uid |-> u, how |-> "expected"]
  /\ restore' = [restore EXCEPT !.live = FALSE]
  /\ UNCHANGED <<session, record, server, leaving, pass, used, emptied>>

----------------------------------------------------------------------------
(* The runtime.                                                            *)

\* The pass under way is waited for, an open drive finished under the owner.
Teardown ==
  /\ run.at = "teardown" /\ pass.at = "idle"
  /\ work' = IF open = None THEN work ELSE [work EXCEPT ![open] = keys.owner]
  /\ open' = None
  /\ run' = [run EXCEPT !.at = "decide"]
  /\ UNCHANGED <<session, keys, rows, server, checks, leaving, pass, restore, used, emptied>>

Launch ==
  /\ run.at = "off"
  /\ run' = [Off EXCEPT !.at = "identity"]
  /\ UNCHANGED <<session, record, server, checks, leaving, pass, restore, used, emptied>>

\* Mutant: only a session the runner has seen tells of another driver.
SeenAnother == keys.seen \notin {None, keys.owner}

\* Something durable says that the phone may have changed hands.
OwnerMayHaveChanged == (keys.seen # None /\ keys.seen # keys.owner) \/ (keys.pending # None /\ keys.pending # keys.owner)

Identify ==
  /\ run.at = "identity"
  /\ \E how \in Reads :
       /\ how = "unknown" => session # None
       /\ LET decides == how = "answers" \/ (how = "slow" /\ OwnerMayHaveChanged)
          IN  run' = [at |-> IF decides THEN "decide" ELSE "ready", uid |-> IF decides THEN session ELSE None, how |-> how]
  /\ UNCHANGED <<session, record, server, checks, leaving, pass, restore, used, emptied>>

\* ensureDeviceOwner: nobody signed in changes nothing; the owner, or the first driver of an empty
\* phone, is remembered; for anyone else it is emptied first.
Decide ==
  /\ run.at = "decide"
  /\ LET taken == keys.owner = run.uid \/ (keys.owner = None /\ ~HasDriverData)
     IN  run' = [run EXCEPT !.at = IF run.uid = None THEN "ready" ELSE IF taken THEN "owner" ELSE "wipe"]
  /\ UNCHANGED <<session, record, server, checks, leaving, pass, restore, used, emptied>>

\* Mutant: the drive being recorded is forgotten about.
WipeDeviceOpen ==
  /\ run.at = "wipe"
  /\ rows' = {} /\ open' = open /\ work' = NoWork /\ keys' = NoKeys
  /\ run' = [run EXCEPT !.at = "owner"]
  /\ UNCHANGED <<session, server, checks, leaving, pass, restore, used, emptied>>

\* Every table and every setting, in one transaction.
WipeDevice ==
  /\ run.at = "wipe"
  /\ rows' = {} /\ open' = None /\ work' = NoWork /\ keys' = NoKeys
  /\ run' = [run EXCEPT !.at = "owner"]
  /\ UNCHANGED <<session, server, checks, leaving, pass, restore, used, emptied>>

\* Three writes, and the process may die between them.
RememberDeviceOwner ==
  /\ \/ run.at = "owner" /\ keys' = [keys EXCEPT !.owner = run.uid] /\ run' = [run EXCEPT !.at = "seen"]
     \/ run.at = "seen" /\ keys' = [keys EXCEPT !.seen = run.uid] /\ run' = [run EXCEPT !.at = "pending"]
     \/ run.at = "pending" /\ keys' = [keys EXCEPT !.pending = None] /\ run' = [run EXCEPT !.at = "ready"]
  /\ UNCHANGED <<session, rows, open, work, server, checks, leaving, pass, restore, used, emptied>>

Kill ==
  /\ run.at # "off" /\ used.kills < MaxKills
  /\ used' = [used EXCEPT !.kills = @ + 1]
  /\ run' = Off /\ checks' = NoChecks /\ leaving' = "no" /\ pass' = NoPass /\ restore' = NoRestore
  /\ UNCHANGED <<session, record, server, emptied>>

----------------------------------------------------------------------------
Account == (\E u \in Drivers : SignIn(u) \/ AuthEvent(u)) \/ SignOut \/ SessionEnds
Leaves == ReadOwed \/ WipeForSignOut
Drives == (\E u \in Drivers : StartDrive(u)) \/ FinishDrive
Runner == Claim \/ (\E d \in Drive : Send(d)) \/ Hear \/ Lose \/ PassEnds
Restores == BeginRestore \/ ReadPage \/ WritePage \/ PageFails \/ ReadPool \/ RecordRestored
Watch == \E u \in Drivers : CheckOwner(u) \/ Adopt(u) \/ WritePending(u) \/ OnHandover(u)
Runtime == Teardown \/ Launch \/ Identify \/ Decide \/ WipeDevice \/ RememberDeviceOwner

Next == Account \/ Leaves \/ Drives \/ Runner \/ Restores \/ Watch \/ Runtime \/ Kill
Spec == Init /\ [][Next]_vars

\* The app is opened again; what was begun goes on; the session is refreshed, and said, now and then; a
\* page of the restore gets through in the end.
FairSpec ==
  /\ Spec
  /\ WF_vars(Runtime) /\ WF_vars(Watch) /\ WF_vars(\E u \in Drivers : AuthEvent(u))
  /\ WF_vars((\E d \in Drive : Send(d)) \/ Hear \/ PassEnds)
  /\ WF_vars(BeginRestore \/ ReadPage \/ ReadPool \/ RecordRestored) /\ SF_vars(WritePage)

----------------------------------------------------------------------------
(* Properties.                                                             *)

Settings == [owner : Anybody, seen : Anybody, pending : Anybody, restored : Anybody,
             cursor : [uid : Anybody, before : 0 .. Before]]
Runs == [at : {"off", "identity", "decide", "wipe", "owner", "seen", "pending", "ready", "teardown"},
         uid : Anybody, how : Reads \cup {"none", "expected"}]
Passes == [at : {"idle", "item", "sent"}, uid : Anybody, todo : SUBSET Drive, drive : Drive \cup {None}]
Restorings == [at : {"none", "ask", "write", "pool", "record"}, uid : Anybody, before : 0 .. Before,
               page : SUBSET Drive, live : BOOLEAN]

TypeOK ==
  /\ session \in Anybody /\ keys \in Settings /\ server \subseteq Drive \X Drivers
  /\ rows \subseteq Drive /\ open \in rows \cup {None} /\ work \in [Drive -> Anybody]
  /\ run \in Runs /\ pass \in Passes /\ restore \in Restorings
  /\ checks \in [Drivers -> {"none", "asked", "adopt", "pend", "raise"}] /\ leaving \in {"no", "ended", "wiping"}
  /\ used \in [ins : 0 .. MaxSignIns, kills : 0 .. MaxKills] /\ emptied \in BOOLEAN

\* Whatever is on the phone is its owner's, at every step of a handover and however the process dies
\* in it; and once a sign-out emptied it nothing comes back before somebody signs in.
RowsAreOwners ==
  /\ \A d \in rows : d[1] = keys.owner
  /\ \A d \in Drive : work[d] \in {None, keys.owner}
  /\ emptied => rows = {}

\* A restore on record as run to the end means the phone holds all of that driver's drives: a later
\* sign-in reads none again.
RestoredMeansHeld ==
  keys.restored # None => \A d \in Drive : d[1] = keys.restored /\ <<d, keys.restored>> \in server => d \in rows

\* ownerWatch.ts:81, "if the process dies before the rebuild, the next launch still knows": no runtime
\* comes up over a handover on record, to somebody signed in.
MountsTheOwner ==
  [][~Ready /\ Ready' /\ session # None /\ run'.how # "unknown" => keys'.pending \in {None, keys'.owner}]_vars

\* queue.ts:31, "an item queued by one user is never posted under another's".
PostedAsOwner == \A d \in Drive, u \in Drivers : <<d, u>> \in server => d[1] = u

\* Whoever stays signed in gets the phone, and all their drives, in the end.
HandsOver == \A u \in Drivers : <>[](session = u) => <>[](Ready /\ keys.owner = u /\ keys.restored = u)

=============================================================================
