------------------------- MODULE DeviceOwnerProofs -------------------------
(***************************************************************************)
(* Proofs about DeviceOwner, for any drivers, drives, sign-ins and deaths  *)
(* of the process.                                                         *)
(*                                                                         *)
(* None of the properties holds by induction alone.  Turns says who may be *)
(* signed in while something that was begun under a session is under way;  *)
(* with it, Ownership says that what is on the phone, owed, in hand or in  *)
(* an account is its driver's, and that what a check or a launch found of  *)
(* the owner is still so when it acts on it.  For the restore's record     *)
(* RestoreInv says, for each step of a restore, down to which drive the    *)
(* phone holds them all; WorkInv keeps that so while drives are finished,  *)
(* uploaded and taken off the phone, and RestoreOwner while the phone      *)
(* changes hands.                                                          *)
(*                                                                         *)
(* The theorems about owners assume of Outlives what their property needs: *)
(* with any member that is assumed away TLC finds the property violated.   *)
(***************************************************************************)
EXTENDS DeviceOwner, Extremes

\* A sign-in finds the checks of the watch over and the round of the runner that another's session began.
Prompt == {"check", "pass"} \cap Outlives = {}

\* A check of the watch is of whoever is signed in, and only one driver's are under way (ownerWatch.ts).
Watching ==
  /\ \A u \in Drivers : checks[u] # "none" => Ready /\ session \in {None, u}
  /\ \A u, v \in Drivers : checks[u] # "none" /\ checks[v] # "none" => u = v

\* What was begun under a session is under way only while nobody else is signed in: a round of the runner
\* (and its runtime lives), a handover, a launch that has decided whose the phone is.
Turns ==
  /\ Watching
  /\ pass.at # "idle" => pass.uid # None /\ session \in {None, pass.uid} /\ run.at \in {"ready", "teardown"}
  /\ run.at \notin {"off", "identity", "ready"} => session \in {None, run.uid}
  /\ run.at \in {"teardown", "wipe", "owner", "seen", "pending"} => run.uid # None
  /\ restore.at # "none" => restore.uid # None /\ run.at \notin {"off", "identity"}

\* Every drive on the phone was driven by its owner.
RowsOwned == \A d \in rows : d[1] = keys.owner

\* Every upload owed is stamped with the phone's owner, who drove the drive (queue.ts's owner stamp).
WorkOwned == \A d \in Drive : work[d] # None => work[d] = keys.owner /\ d[1] = keys.owner

\* What a check or a launch has found of the owner is still so when it acts on it.
VerdictsHold ==
  /\ \A u \in Drivers : /\ checks[u] = "adopt" => keys.owner = None
                        /\ checks[u] \in {"pend", "raise"} => keys.owner # u
  /\ run.at = "wipe" => keys.owner # run.uid
  /\ run.at = "owner" => keys.owner \in {None, run.uid}

\* A page of a restore is its driver's, and so are the items of a round.
InHandOwned ==
  /\ \A d \in restore.page : d[1] = restore.uid
  /\ \A d \in pass.todo : d[1] = pass.uid

\* A phone a sign-out emptied has nobody signed in and stays empty.
StaysEmpty == emptied => session = None /\ rows = {}

\* Everything is its driver's: on the phone, owed, in hand, in the accounts.
Ownership == RowsOwned /\ WorkOwned /\ VerdictsHold /\ InHandOwned /\ PostedAsOwner /\ StaysEmpty

\* The phone holds every drive of u that u's account has, from number `from' on.
Held(u, from) == \A d \in Drive : d[1] = u /\ d[2] >= from /\ <<d, u>> \in server => d \in rows

\* A sign-out under way has nobody signed in and no drive open, and empties the phone only of what the account
\* has; what is owed is on the phone, and what a round has in hand is owed still.
WorkInv ==
  /\ leaving # "no" => session = None
  /\ leaving # "no" => open = None
  /\ leaving = "wiping" => ~Owed
  /\ \A d \in Drive : work[d] # None => d \in rows
  /\ \A d \in pass.todo : work[d] # None
  /\ pass.at = "sent" => pass.drive \notin pass.todo
  /\ pass.at = "idle" => pass.todo = {}

\* A restore whose driver is signed in is the owner's, and a handover is never to the driver being restored.
RestoreOwner ==
  /\ restore.at # "none" /\ session = restore.uid => keys.owner = restore.uid
  /\ \A u \in Drivers : checks[u] # "none" /\ restore.at # "none" /\ restore.uid = u => keys.owner = u
  /\ run.at \notin {"off", "identity", "ready"} /\ restore.at # "none" => restore.uid # run.uid

\* How far a restore got: above where it goes on reading the phone holds all the account has, with a page in
\* hand all but the page and what is older, and at its end everything.
RunHeld ==
  /\ restore.at = "ask" /\ session = restore.uid => Held(restore.uid, restore.before)
  /\ restore.at = "write" /\ session = restore.uid =>
       \A e \in Drive : e[1] = restore.uid /\ <<e, restore.uid>> \in server =>
          e \in rows \/ \E d \in restore.page : e = d \/ e[2] < d[2]
  /\ \A d, e \in restore.page : d = e
  /\ restore.at = "pool" /\ session = restore.uid => Held(restore.uid, 0)
  /\ restore.at = "record" /\ keys.owner = restore.uid => Held(restore.uid, 0)

\* What the settings say of a restore is true of the owner: all of the drives, or all from the cursor on.
RestoreInv ==
  /\ keys.restored # None => keys.restored = keys.owner /\ Held(keys.owner, 0)
  /\ keys.cursor.uid # None => keys.cursor.uid = keys.owner /\ Held(keys.owner, keys.cursor.before)
  /\ RunHeld

-----------------------------------------------------------------------------
(* Types. *)

\* A drive is a driver and a number.
LEMMA DriveParts ==
  ASSUME NEW d \in Drive
  PROVE  d[1] \in Drivers /\ d[2] \in 1 .. NDrives + 1 /\ d[2] \in 0 .. Before
BY DriversAssumption DEF Drive, Before

\* What a driver records on this phone is a drive of theirs, newer than any the account had.
LEMMA DrivenDrive ==
  ASSUME NEW u \in Drivers
  PROVE  Driven(u) \in Drive /\ Driven(u)[1] = u /\ Driven(u)[2] = NDrives + 1
BY DriversAssumption DEF Drive, Driven

\* A page holds drives.
LEMMA PageDrives ==
  ASSUME NEW u, NEW b
  PROVE  Newest(Listed(u, b)) \subseteq Drive
BY DEF Newest, Listed

\* What is forgotten by a wipe or a kill is well typed.
LEMMA BlankTypes ==
  /\ NoCursor \in [uid : Anybody, before : 0 .. Before] /\ NoKeys \in Settings
  /\ NoWork \in [Drive -> Anybody] /\ Off \in Runs /\ NoPass \in Passes /\ NoRestore \in Restorings
  /\ NoChecks \in [Drivers -> {"none", "asked", "adopt", "pend", "raise"}]
<1>1. 0 \in 0 .. Before
  BY DriversAssumption DEF Before
<1>2. NoCursor \in [uid : Anybody, before : 0 .. Before]
  BY <1>1 DEF NoCursor, Anybody
<1> QED
  BY <1>1, <1>2 DEF NoKeys, Settings, NoWork, Off, Runs, NoPass, Passes, NoRestore, Restorings, NoChecks, Anybody

\* Sending an item takes it off the round, and may add it to an account: the one signed in.
LEMMA SendEffect ==
  ASSUME TypeOK, NEW d \in Drive, Send(d)
  PROVE  /\ pass.at = "item" /\ d \in pass.todo
         /\ pass'.uid = pass.uid /\ pass'.todo = pass.todo \ {d}
         /\ pass'.at = "item" \/ (pass'.at = "sent" /\ pass'.drive = d)
         /\ server' = server \/ (session # None /\ server' = server \cup {<<d, session>>})
         /\ UNCHANGED <<session, keys, rows, open, work, run, checks, leaving, restore, used, emptied>>
<1> DEFINE rest == pass.todo \ {d}
<1>1. /\ d \in pass.todo /\ pass.at = "item"
      /\ \/ pass' = [pass EXCEPT !.todo = rest]
         \/ pass' = [pass EXCEPT !.at = "sent", !.drive = d, !.todo = rest]
      /\ server' = server \/ (session # None /\ server' = server \cup {<<d, session>>})
      /\ UNCHANGED <<session, keys, rows, open, work, run, checks, leaving, restore, used, emptied>>
  BY DEF Send, record
<1> HIDE DEF rest
<1>2. pass'.uid = pass.uid /\ pass'.todo = rest /\ (pass'.at = "item" \/ (pass'.at = "sent" /\ pass'.drive = d))
  BY <1>1 DEF TypeOK, Passes
<1> QED
  BY <1>1, <1>2 DEF rest

\* What the answer to a page does: the restore is given up, finds itself at the end, or takes one drive.
LEMMA WritePageEffect ==
  ASSUME TypeOK, WritePage
  PROVE  /\ restore.at = "write"
         /\ UNCHANGED <<session, open, work, server, run, checks, leaving, pass, used, emptied>>
         /\ keys'.owner = keys.owner /\ keys'.restored = keys.restored
         /\ \/ restore' = NoRestore /\ UNCHANGED <<keys, rows>>
            \/ /\ session = restore.uid /\ keys.owner = restore.uid /\ restore'.uid = restore.uid
               /\ restore'.page = {}
               /\ \/ restore.page = {} /\ restore'.at = "pool" /\ UNCHANGED <<keys, rows>>
                  \/ \E d \in restore.page :
                       /\ rows' = rows \cup restore.page
                       /\ keys'.cursor = [uid |-> restore.uid, before |-> d[2]]
                       /\ restore'.at = "ask" /\ restore'.before = d[2]
<1>1. restore.at = "write" /\ UNCHANGED <<session, open, work, server, run, checks, leaving, pass, used, emptied>>
  BY DEF WritePage
<1>2. CASE ~IsCurrent \/ keys.owner # restore.uid
  BY <1>1, <1>2 DEF WritePage, Abandoned
<1>3. CASE IsCurrent /\ keys.owner = restore.uid /\ restore.page = {}
  <2>1. restore' = [restore EXCEPT !.at = "pool"] /\ UNCHANGED <<keys, rows>>
    BY <1>3 DEF WritePage
  <2> QED
    BY <1>1, <1>3, <2>1 DEF TypeOK, Restorings, IsCurrent
<1>4. CASE IsCurrent /\ keys.owner = restore.uid /\ restore.page # {}
  <2>1. PICK d \in restore.page :
          /\ keys' = [keys EXCEPT !.cursor = [uid |-> restore.uid, before |-> d[2]]]
          /\ restore' = [restore EXCEPT !.at = "ask", !.before = d[2], !.page = {}]
    BY <1>4 DEF WritePage
  <2>2. rows' = rows \cup restore.page
    BY <1>4 DEF WritePage
  <2>3. /\ keys'.owner = keys.owner /\ keys'.restored = keys.restored
        /\ keys'.cursor = [uid |-> restore.uid, before |-> d[2]]
    BY <2>1 DEF TypeOK, Settings
  <2>4. restore'.at = "ask" /\ restore'.before = d[2] /\ restore'.uid = restore.uid /\ restore'.page = {}
    BY <2>1 DEF TypeOK, Restorings
  <2> QED
    BY <1>1, <1>4, <2>2, <2>3, <2>4 DEF IsCurrent
<1> QED
  BY <1>2, <1>3, <1>4

\* What asking for a page does: the restore is given up, or goes on with the newest of the older drives.
LEMMA ReadPageEffect ==
  ASSUME TypeOK, ReadPage
  PROVE  /\ restore.at = "ask"
         /\ UNCHANGED <<session, keys, rows, open, work, server, run, checks, leaving, pass, used, emptied>>
         /\ \/ restore' = NoRestore
            \/ /\ session = restore.uid /\ restore'.at = "write" /\ restore'.uid = restore.uid
               /\ restore'.page = Newest(Listed(restore.uid, restore.before))
<1> DEFINE page == Newest(Listed(restore.uid, restore.before))
<1>1. restore.at = "ask" /\ UNCHANGED <<session, keys, rows, open, work, server, run, checks, leaving, pass, used, emptied>>
  BY DEF ReadPage, record
<1>2. CASE ~IsCurrent
  BY <1>1, <1>2 DEF ReadPage, Abandoned
<1>3. CASE IsCurrent
  <2>1. restore' = [restore EXCEPT !.at = "write", !.page = page]
    BY <1>3 DEF ReadPage
  <2> HIDE DEF page
  <2>2. restore'.at = "write" /\ restore'.uid = restore.uid /\ restore'.page = page
    BY <2>1 DEF TypeOK, Restorings
  <2> QED
    BY <1>1, <1>3, <2>2 DEF IsCurrent, page
<1> QED
  BY <1>2, <1>3

\* The first launch finds a well-typed phone.
LEMMA TypeInit == Init => TypeOK
<1> SUFFICES ASSUME Init PROVE TypeOK
  OBVIOUS
<1>1. server \subseteq Drive \X Drivers
  BY DriversAssumption DEF Init, Drive
<1>2. used \in [ins : 0 .. MaxSignIns, kills : 0 .. MaxKills]
  BY BoundsAssumption DEF Init
<1> QED
  BY <1>1, <1>2, BlankTypes DEF Init, TypeOK, Anybody

\* Every step keeps the types.
LEMMA TypeStep == TypeOK /\ [Next]_vars => TypeOK'
<1> SUFFICES ASSUME TypeOK, [Next]_vars PROVE TypeOK'
  OBVIOUS
<1>1. ASSUME NEW u \in Drivers, SignIn(u) PROVE TypeOK'
  <2>1. used' \in [ins : 0 .. MaxSignIns, kills : 0 .. MaxKills]
    BY <1>1, BoundsAssumption DEF SignIn, TypeOK, Ready
  <2> QED
    BY <1>1, <2>1 DEF SignIn, TypeOK, record, process, Anybody
<1>2. ASSUME NEW u \in Drivers, AuthEvent(u) PROVE TypeOK'
  BY <1>2 DEF AuthEvent, TypeOK, record, process
<1>3. CASE SignOut
  BY <1>3 DEF SignOut, Anybody, TypeOK, record, process
<1>4. CASE SessionEnds
  BY <1>4 DEF SessionEnds, Anybody, TypeOK, record, process
<1>5. CASE ReadOwed
  BY <1>5 DEF ReadOwed, TypeOK, record, process
<1>6. CASE WipeForSignOut
  <2>1. keys' \in Settings
    BY <1>6, BlankTypes DEF WipeForSignOut, TypeOK, Settings, Anybody
  <2> QED
    BY <1>6, <2>1 DEF WipeForSignOut, TypeOK, record, process
<1>7. ASSUME NEW u \in Drivers, StartDrive(u) PROVE TypeOK'
  BY <1>7, DrivenDrive DEF StartDrive, TypeOK, record, process
<1>8. CASE FinishDrive
  <2>1. keys.owner \in Anybody
    BY DEF TypeOK, Settings
  <2> QED
    BY <1>8, <2>1 DEF FinishDrive, TypeOK, record, process
<1>9. CASE Claim
  <2>1. keys' \in Settings
    BY <1>9 DEF Claim, TypeOK, Settings
  <2>2. pass' \in Passes
    BY <1>9 DEF Claim, TypeOK, Passes
  <2> QED
    BY <1>9, <2>1, <2>2 DEF Claim, TypeOK
<1>10. ASSUME NEW d \in Drive, Send(d) PROVE TypeOK'
  <2>1. pass' \in Passes
    <3> DEFINE rest == pass.todo \ {d}
    <3>1. rest \in SUBSET Drive
      BY DEF TypeOK, Passes
    <3>2. \/ pass' = [pass EXCEPT !.todo = rest]
          \/ pass' = [pass EXCEPT !.at = "sent", !.drive = d, !.todo = rest]
      BY <1>10 DEF Send
    <3> HIDE DEF rest
    <3> QED
      BY <3>1, <3>2 DEF TypeOK, Passes
  <2>2. server' \subseteq Drive \X Drivers
    BY <1>10 DEF Send, TypeOK, Anybody
  <2> QED
    BY <1>10, <2>1, <2>2 DEF Send, TypeOK, record
<1>11. CASE Hear
  <2>1. pass' \in Passes
    BY <1>11 DEF Hear, TypeOK, Passes
  <2>2. work' \in [Drive -> Anybody]
    BY <1>11 DEF Hear, TypeOK, Anybody
  <2> QED
    BY <1>11, <2>1, <2>2 DEF Hear, TypeOK, record, process, Anybody
<1>12. CASE Lose
  <2>1. pass' \in Passes
    BY <1>12 DEF Lose, TypeOK, Passes
  <2> QED
    BY <1>12, <2>1 DEF Lose, TypeOK, record, process
<1>13. CASE PassEnds
  BY <1>13, BlankTypes DEF PassEnds, TypeOK, record, process
<1>14. CASE BeginRestore
  <2>1. restore' \in Restorings
    BY <1>14, DriversAssumption DEF BeginRestore, TypeOK, Restorings, Settings, Before
  <2> QED
    BY <1>14, <2>1 DEF BeginRestore, TypeOK, record, process
<1>15. CASE ReadPage
  <2>1. restore' \in Restorings
    <3> DEFINE page == Newest(Listed(restore.uid, restore.before))
    <3>1. page \in SUBSET Drive
      BY PageDrives
    <3>2. CASE ~IsCurrent
      BY <1>15, <3>2, BlankTypes DEF ReadPage, Abandoned
    <3>3. CASE IsCurrent
      <4>1. restore' = [restore EXCEPT !.at = "write", !.page = page]
        BY <1>15, <3>3 DEF ReadPage
      <4> HIDE DEF page
      <4> QED
        BY <3>1, <4>1 DEF TypeOK, Restorings
    <3> QED
      BY <3>2, <3>3
  <2> QED
    BY <1>15, <2>1 DEF ReadPage, TypeOK, record
<1>16. CASE WritePage
  <2>1. rows' \subseteq Drive /\ open' \in rows' \cup {None}
    BY <1>16 DEF WritePage, Abandoned, TypeOK, Restorings
  <2>2. keys' \in Settings /\ restore' \in Restorings
    <3>1. CASE ~IsCurrent \/ keys.owner # restore.uid
      BY <1>16, <3>1, BlankTypes DEF WritePage, Abandoned, TypeOK
    <3>2. CASE IsCurrent /\ keys.owner = restore.uid /\ restore.page = {}
      BY <1>16, <3>2 DEF WritePage, TypeOK, Restorings
    <3>3. CASE IsCurrent /\ keys.owner = restore.uid /\ restore.page # {}
      <4>1. PICK d \in restore.page :
              /\ keys' = [keys EXCEPT !.cursor = [uid |-> restore.uid, before |-> d[2]]]
              /\ restore' = [restore EXCEPT !.at = "ask", !.before = d[2], !.page = {}]
        BY <1>16, <3>3 DEF WritePage
      <4>2. d[2] \in 0 .. Before /\ restore.uid \in Anybody
        BY DriveParts DEF TypeOK, Restorings
      <4>3. [uid |-> restore.uid, before |-> d[2]] \in [uid : Anybody, before : 0 .. Before]
        BY <4>2
      <4> QED
        BY <4>1, <4>2, <4>3 DEF TypeOK, Settings, Restorings
    <3> QED
      BY <3>1, <3>2, <3>3
  <2> QED
    BY <1>16, <2>1, <2>2 DEF WritePage, TypeOK
<1>17. CASE PageFails
  BY <1>17, BlankTypes DEF PageFails, Abandoned, TypeOK, record, process
<1>18. CASE ReadPool
  <2>1. restore' \in Restorings
    BY <1>18, BlankTypes DEF ReadPool, TypeOK, Restorings, Abandoned
  <2> QED
    BY <1>18, <2>1 DEF ReadPool, TypeOK, record, process
<1>19. CASE RecordRestored
  <2>1. keys' \in Settings
    BY <1>19, BlankTypes DEF RecordRestored, TypeOK, Settings, Restorings
  <2> QED
    BY <1>19, <2>1, BlankTypes DEF RecordRestored, Abandoned, TypeOK
<1>20. ASSUME NEW u \in Drivers, CheckOwner(u) PROVE TypeOK'
  BY <1>20 DEF CheckOwner, NextCheck, TypeOK, record, process
<1>21. ASSUME NEW u \in Drivers, Adopt(u) PROVE TypeOK'
  <2>1. keys' \in Settings
    BY <1>21 DEF Adopt, TypeOK, Settings, Anybody
  <2> QED
    BY <1>21, <2>1 DEF Adopt, TypeOK, record, process, NextCheck
<1>22. ASSUME NEW u \in Drivers, WritePending(u) PROVE TypeOK'
  <2>1. keys' \in Settings
    BY <1>22 DEF WritePending, TypeOK, Settings, Anybody
  <2> QED
    BY <1>22, <2>1 DEF WritePending, TypeOK, record, process, NextCheck
<1>23. ASSUME NEW u \in Drivers, OnHandover(u) PROVE TypeOK'
  <2>1. run' \in Runs
    BY <1>23 DEF OnHandover, TypeOK, Runs, Anybody
  <2>2. restore' \in Restorings
    BY <1>23 DEF OnHandover, TypeOK, Restorings
  <2> QED
    BY <1>23, <2>1, <2>2, BlankTypes DEF OnHandover, TypeOK, record
<1>24. CASE Teardown
  <2>1. run' \in Runs
    BY <1>24 DEF Teardown, TypeOK, Runs
  <2>2. keys.owner \in Anybody
    BY DEF TypeOK, Settings
  <2>3. work' \in [Drive -> Anybody]
    BY <1>24, <2>2 DEF Teardown, TypeOK
  <2> QED
    BY <1>24, <2>1, <2>3 DEF Teardown, TypeOK
<1>25. CASE Launch
  <2>1. run' \in Runs
    BY <1>25 DEF Launch, TypeOK, Runs, Off, Anybody
  <2> QED
    BY <1>25, <2>1 DEF Launch, TypeOK, record, process
<1>26. CASE Identify
  <2>1. run' \in Runs
    BY <1>26 DEF Identify, TypeOK, Runs, Anybody
  <2> QED
    BY <1>26, <2>1 DEF Identify, TypeOK, record, process
<1>27. CASE Decide
  <2>1. run' \in Runs
    BY <1>27 DEF Decide, TypeOK, Runs
  <2> QED
    BY <1>27, <2>1 DEF Decide, TypeOK, record, process
<1>28. CASE WipeDevice
  <2>1. run' \in Runs
    BY <1>28 DEF WipeDevice, TypeOK, Runs
  <2> QED
    BY <1>28, <2>1, BlankTypes DEF WipeDevice, TypeOK, record, process
<1>29. CASE RememberDeviceOwner
  <2>1. run' \in Runs
    BY <1>29 DEF RememberDeviceOwner, TypeOK, Runs
  <2>2. keys' \in Settings
    BY <1>29 DEF RememberDeviceOwner, TypeOK, Settings, Runs, Anybody
  <2> QED
    BY <1>29, <2>1, <2>2 DEF RememberDeviceOwner, TypeOK
<1>30. CASE Kill
  <2>1. used' \in [ins : 0 .. MaxSignIns, kills : 0 .. MaxKills]
    BY <1>30, BoundsAssumption DEF Kill, TypeOK, record
  <2> QED
    BY <1>30, <2>1, BlankTypes DEF Kill, TypeOK, record, process
<1>31. CASE UNCHANGED vars
  BY <1>31 DEF vars, TypeOK, record, process
<1> QED
  BY <1>1, <1>2, <1>3, <1>4, <1>5, <1>6, <1>7, <1>8, <1>9, <1>10, <1>11, <1>12, <1>13, <1>14, <1>15, <1>16, <1>17,
     <1>18, <1>19, <1>20, <1>21, <1>22, <1>23, <1>24, <1>25, <1>26, <1>27, <1>28, <1>29, <1>30, <1>31
     DEF Next, Account, Leaves, Drives, Runner, Restores, Watch, Runtime
-----------------------------------------------------------------------------
(* Turns. *)

\* Nothing is under way at first.
LEMMA TurnsInit == Init => Turns
BY DEF Init, Turns, Watching, Off, NoChecks, NoPass, NoRestore

\* A step that leaves the session, the runtime and the checks alone, and begins no pass and no restore.
LEMMA TurnsKept ==
  ASSUME Turns, UNCHANGED <<session, run, checks>>,
         pass'.at = "idle" \/ (pass.at # "idle" /\ pass'.uid = pass.uid),
         restore'.at = "none" \/ (restore.at # "none" /\ restore'.uid = restore.uid)
  PROVE  Turns'
BY DEF Turns, Watching, Ready

\* Nothing outlives the session it began under, as long as checks and rounds are prompt.
LEMMA TurnsStep ==
  ASSUME Prompt, TypeOK, Turns, [Next]_vars
  PROVE  Turns'
<1> USE DriversAssumption DEF Prompt
<1>1. ASSUME NEW u \in Drivers, SignIn(u) PROVE Turns'
  BY <1>1 DEF SignIn, NoChecks, Turns, Watching, Ready
<1>2. ASSUME NEW u \in Drivers, AuthEvent(u) PROVE Turns'
  BY <1>2 DEF AuthEvent, Turns, Watching, Ready
<1>3. CASE SignOut
  BY <1>3 DEF SignOut, Turns, Watching, Ready
<1>4. CASE SessionEnds
  BY <1>4 DEF SessionEnds, Turns, Watching, Ready, process
<1>5. CASE ReadOwed
  BY <1>5, TurnsKept DEF ReadOwed, record, process
<1>6. CASE WipeForSignOut
  BY <1>6, TurnsKept DEF WipeForSignOut, record, process
<1>7. ASSUME NEW u \in Drivers, StartDrive(u) PROVE Turns'
  BY <1>7, TurnsKept DEF StartDrive, record, process
<1>8. CASE FinishDrive
  BY <1>8, TurnsKept DEF FinishDrive, record, process
<1>9. CASE Claim
  BY <1>9 DEF Claim, Turns, Watching, Ready
<1>10. ASSUME NEW d \in Drive, Send(d) PROVE Turns'
  BY <1>10, SendEffect, TurnsKept
<1>11. CASE Hear
  BY <1>11, TurnsKept DEF Hear, record, process, TypeOK, Passes
<1>12. CASE Lose
  BY <1>12, TurnsKept DEF Lose, record, process, TypeOK, Passes
<1>13. CASE PassEnds
  BY <1>13, TurnsKept DEF PassEnds, record, process, NoPass
<1>14. CASE BeginRestore
  BY <1>14 DEF BeginRestore, Turns, Watching, Ready
<1>15. CASE ReadPage
  BY <1>15, ReadPageEffect, TurnsKept DEF NoRestore
<1>16. CASE WritePage
  BY <1>16, WritePageEffect, TurnsKept DEF NoRestore
<1>17. CASE PageFails
  BY <1>17, TurnsKept DEF PageFails, record, process, TypeOK, Restorings, Abandoned, NoRestore
<1>18. CASE ReadPool
  BY <1>18, TurnsKept DEF ReadPool, record, process, TypeOK, Restorings, Abandoned, NoRestore
<1>19. CASE RecordRestored
  BY <1>19, TurnsKept DEF RecordRestored, record, process, TypeOK, Restorings, Abandoned, NoRestore
<1>20. ASSUME NEW u \in Drivers, CheckOwner(u) PROVE Turns'
  BY <1>20 DEF CheckOwner, NextCheck, Turns, Watching, Ready
<1>21. ASSUME NEW u \in Drivers, Adopt(u) PROVE Turns'
  BY <1>21 DEF Adopt, NextCheck, Turns, Watching, TypeOK
<1>22. ASSUME NEW u \in Drivers, WritePending(u) PROVE Turns'
  BY <1>22 DEF WritePending, NextCheck, Turns, Watching, Ready
<1>23. ASSUME NEW u \in Drivers, OnHandover(u) PROVE Turns'
  BY <1>23, DriversAssumption DEF OnHandover, NoChecks, Turns, Watching
<1>24. CASE Teardown
  BY <1>24 DEF Teardown, Turns, Watching, Ready
<1>25. CASE Launch
  BY <1>25 DEF Launch, Turns, Watching, Ready
<1>26. CASE Identify
  BY <1>26 DEF Identify, Turns, Watching, Ready
<1>27. CASE Decide
  <2>1. run'.uid = run.uid /\ run'.at \in {"ready", "owner", "wipe"} /\ (run'.at = "ready" <=> run.uid = None)
    BY <1>27 DEF Decide, TypeOK, Runs
  <2> QED
    BY <1>27, <2>1 DEF Decide, Turns, Watching, Ready, record
<1>28. CASE WipeDevice
  BY <1>28 DEF WipeDevice, Turns, Watching, Ready
<1>29. CASE RememberDeviceOwner
  BY <1>29 DEF RememberDeviceOwner, Turns, Watching, Ready, TypeOK, Runs
<1>30. CASE Kill
  BY <1>30 DEF Kill, Off, NoChecks, NoPass, NoRestore, Turns, Watching
<1>31. CASE UNCHANGED vars
  BY <1>31 DEF vars, Turns, Watching, Ready
<1> QED
  BY <1>1, <1>2, <1>3, <1>4, <1>5, <1>6, <1>7, <1>8, <1>9, <1>10, <1>11, <1>12, <1>13, <1>14, <1>15, <1>16, <1>17,
     <1>18, <1>19, <1>20, <1>21, <1>22, <1>23, <1>24, <1>25, <1>26, <1>27, <1>28, <1>29, <1>30, <1>31
     DEF Next, Account, Leaves, Drives, Runner, Restores, Watch, Runtime
-----------------------------------------------------------------------------
(* Ownership. *)

\* Every account holds its driver's drives at first, and the phone none.
LEMMA OwnershipInit == Init => Ownership
BY DriveParts
   DEF Init, Ownership, RowsOwned, WorkOwned, VerdictsHold, InHandOwned, StaysEmpty, PostedAsOwner, Off, NoChecks,
       NoPass, NoRestore, NoWork

\* A step that leaves what is on the phone and in the accounts alone, finds nothing out and takes nothing in hand.
LEMMA OwnershipKept ==
  ASSUME Ownership, UNCHANGED <<rows, work, server, run, checks, emptied>>, keys'.owner = keys.owner,
         session' \in {session, None},
         pass'.todo = {} \/ (pass'.todo \subseteq pass.todo /\ pass'.uid = pass.uid),
         restore'.page = {} \/ (restore'.page = restore.page /\ restore'.uid = restore.uid)
  PROVE  Ownership'
BY DEF Ownership, RowsOwned, WorkOwned, VerdictsHold, InHandOwned, StaysEmpty, PostedAsOwner

\* No step brings a drive to anybody but its driver.
LEMMA OwnershipStep ==
  ASSUME Prompt, TypeOK, Turns, Ownership, [Next]_vars
  PROVE  Ownership'
<1> USE DriversAssumption DEF Prompt
<1>1. ASSUME NEW u \in Drivers, SignIn(u) PROVE Ownership'
  BY <1>1 DEF SignIn, Ownership, RowsOwned, WorkOwned, VerdictsHold, InHandOwned, StaysEmpty, PostedAsOwner, record
<1>2. ASSUME NEW u \in Drivers, AuthEvent(u) PROVE Ownership'
  BY <1>2 DEF AuthEvent, Ownership, RowsOwned, WorkOwned, VerdictsHold, InHandOwned, StaysEmpty, PostedAsOwner, record
<1>3. CASE SignOut
  BY <1>3, OwnershipKept DEF SignOut, record, process
<1>4. CASE SessionEnds
  BY <1>4, OwnershipKept DEF SessionEnds, record, process
<1>5. CASE ReadOwed
  BY <1>5, OwnershipKept DEF ReadOwed, record, process
<1>6. CASE WipeForSignOut
  BY <1>6
     DEF WipeForSignOut, Ownership, RowsOwned, WorkOwned, VerdictsHold, InHandOwned, StaysEmpty, PostedAsOwner,
         TypeOK
<1>7. ASSUME NEW u \in Drivers, StartDrive(u) PROVE Ownership'
  BY <1>7, DrivenDrive
     DEF StartDrive, Ownership, RowsOwned, WorkOwned, VerdictsHold, InHandOwned, StaysEmpty, PostedAsOwner, process
<1>8. CASE FinishDrive
  BY <1>8
     DEF FinishDrive, Ownership, RowsOwned, WorkOwned, VerdictsHold, InHandOwned, StaysEmpty, PostedAsOwner,
         TypeOK, process
<1>9. CASE Claim
  BY <1>9 DEF Claim, Ownership, RowsOwned, WorkOwned, VerdictsHold, InHandOwned, StaysEmpty, PostedAsOwner
<1>10. ASSUME NEW d \in Drive, Send(d) PROVE Ownership'
  <2>1. PostedAsOwner'
    <3>1. session # None => d[1] = session
      BY <1>10, SendEffect DEF Turns, Ownership, InHandOwned
    <3> QED
      BY <1>10, <3>1, SendEffect DEF Ownership, PostedAsOwner
  <2>2. InHandOwned'
    BY <1>10, SendEffect DEF Ownership, InHandOwned
  <2> QED
    BY <1>10, <2>1, <2>2, SendEffect DEF Ownership, RowsOwned, WorkOwned, VerdictsHold, StaysEmpty
<1>11. CASE Hear
  BY <1>11 DEF Hear, Ownership, RowsOwned, WorkOwned, VerdictsHold, InHandOwned, StaysEmpty, PostedAsOwner
<1>12. CASE Lose
  BY <1>12, OwnershipKept DEF Lose, record, process, TypeOK, Passes
<1>13. CASE PassEnds
  BY <1>13, OwnershipKept DEF PassEnds, record, process, NoPass
<1>14. CASE BeginRestore
  BY <1>14, OwnershipKept DEF BeginRestore, record, process
<1>15. CASE ReadPage
  <2>1. CASE restore' = NoRestore
    BY <1>15, <2>1, ReadPageEffect, OwnershipKept DEF NoRestore
  <2>2. CASE restore' # NoRestore
    <3>1. restore.uid \in Drivers
      BY <1>15, ReadPageEffect DEF TypeOK, Restorings, Anybody, Turns
    <3>2. \A d \in restore'.page : d[1] = restore'.uid
      BY <1>15, <2>2, <3>1, ReadPageEffect DEF Newest, Listed, Ownership, PostedAsOwner
    <3> QED
      BY <1>15, <3>2, ReadPageEffect
         DEF Ownership, RowsOwned, WorkOwned, VerdictsHold, InHandOwned, StaysEmpty, PostedAsOwner
  <2> QED
    BY <2>1, <2>2
<1>16. CASE WritePage
  <2>1. UNCHANGED <<session, work, server, run, checks, pass, emptied>> /\ keys'.owner = keys.owner
    BY <1>16, WritePageEffect
  <2>2. restore'.page = {}
    BY <1>16, WritePageEffect DEF NoRestore
  <2>3. RowsOwned' /\ StaysEmpty'
    BY <1>16, <2>1, WritePageEffect DEF Turns, Ownership, RowsOwned, StaysEmpty, InHandOwned
  <2> QED
    BY <2>1, <2>2, <2>3 DEF Ownership, WorkOwned, VerdictsHold, InHandOwned, PostedAsOwner
<1>17. CASE PageFails
  BY <1>17, OwnershipKept DEF PageFails, record, process, TypeOK, Restorings, Abandoned, NoRestore
<1>18. CASE ReadPool
  BY <1>18, OwnershipKept DEF ReadPool, record, process, TypeOK, Restorings, Abandoned, NoRestore
<1>19. CASE RecordRestored
  BY <1>19, OwnershipKept DEF RecordRestored, record, process, TypeOK, Settings, Abandoned, NoRestore
<1>20. ASSUME NEW u \in Drivers, CheckOwner(u) PROVE Ownership'
  BY <1>20
     DEF CheckOwner, NextCheck, Ownership, RowsOwned, WorkOwned, VerdictsHold, InHandOwned, StaysEmpty,
         PostedAsOwner, record
<1>21. ASSUME NEW u \in Drivers, Adopt(u) PROVE Ownership'
  <2>1. keys.owner = None /\ keys'.owner = u
    BY <1>21 DEF Adopt, Ownership, VerdictsHold, TypeOK, Settings
  <2>2. rows = {} /\ \A d \in Drive : work[d] = None
    <3>1. \A d \in Drive : d[1] # None
      BY DriveParts
    <3> QED
      BY <2>1, <3>1 DEF Ownership, RowsOwned, WorkOwned, TypeOK
  <2>3. checks' = [checks EXCEPT ![u] = "none"] /\ UNCHANGED <<session, rows, work, server, run, pass, restore, emptied>>
    BY <1>21 DEF Adopt, NextCheck
  <2>4. VerdictsHold'
    <3>1. \A v \in Drivers : checks'[v] = "none"
      BY <1>21, <2>3 DEF Adopt, Turns, Watching, TypeOK
    <3> QED
      BY <1>21, <2>3, <3>1 DEF Adopt, VerdictsHold, Ready
  <2> QED
    BY <2>2, <2>3, <2>4 DEF Ownership, RowsOwned, WorkOwned, InHandOwned, StaysEmpty, PostedAsOwner
<1>22. ASSUME NEW u \in Drivers, WritePending(u) PROVE Ownership'
  BY <1>22
     DEF WritePending, NextCheck, Settings, Ownership, RowsOwned, WorkOwned, VerdictsHold, InHandOwned, StaysEmpty,
         PostedAsOwner, TypeOK
<1>23. ASSUME NEW u \in Drivers, OnHandover(u) PROVE Ownership'
  BY <1>23
     DEF OnHandover, NoChecks, Ownership, RowsOwned, WorkOwned, VerdictsHold, InHandOwned, StaysEmpty,
         PostedAsOwner, record
<1>24. CASE Teardown
  BY <1>24 DEF Teardown, Ownership, RowsOwned, WorkOwned, VerdictsHold, InHandOwned, StaysEmpty, PostedAsOwner, TypeOK
<1>25. CASE Launch
  BY <1>25 DEF Launch, Ownership, RowsOwned, WorkOwned, VerdictsHold, InHandOwned, StaysEmpty, PostedAsOwner, record
<1>26. CASE Identify
  BY <1>26 DEF Identify, Ownership, RowsOwned, WorkOwned, VerdictsHold, InHandOwned, StaysEmpty, PostedAsOwner, record
<1>27. CASE Decide
  BY <1>27 DEF Decide, Ownership, RowsOwned, WorkOwned, VerdictsHold, InHandOwned, StaysEmpty, PostedAsOwner, record
<1>28. CASE WipeDevice
  BY <1>28
     DEF WipeDevice, NoKeys, NoWork, Ownership, RowsOwned, WorkOwned, VerdictsHold, InHandOwned, StaysEmpty,
         PostedAsOwner
<1>29. CASE RememberDeviceOwner
  <2>1. UNCHANGED <<session, rows, work, server, checks, pass, restore, emptied>>
    BY <1>29 DEF RememberDeviceOwner
  <2>2. keys'.owner = keys.owner \/ (run.at = "owner" /\ keys'.owner = run.uid)
    BY <1>29 DEF RememberDeviceOwner, TypeOK, Settings
  <2>3. run'.at \in {"seen", "pending", "ready"}
    BY <1>29 DEF RememberDeviceOwner, TypeOK, Runs
  <2>4. RowsOwned' /\ WorkOwned'
    <3>1. \A d \in Drive : d[1] # None
      BY DriveParts
    <3>2. CASE keys.owner = None
      BY <2>1, <3>1, <3>2 DEF Ownership, RowsOwned, WorkOwned, TypeOK
    <3>3. CASE keys.owner # None
      BY <2>1, <2>2, <3>3 DEF Ownership, VerdictsHold, RowsOwned, WorkOwned
    <3> QED
      BY <3>2, <3>3
  <2>5. VerdictsHold'
    <3>1. \A v \in Drivers : checks[v] = "none"
      BY <1>29 DEF RememberDeviceOwner, Turns, Watching, Ready
    <3> QED
      BY <2>1, <2>3, <3>1 DEF VerdictsHold
  <2> QED
    BY <2>1, <2>4, <2>5 DEF Ownership, InHandOwned, StaysEmpty, PostedAsOwner
<1>30. CASE Kill
  BY <1>30
     DEF Kill, Off, NoChecks, NoPass, NoRestore, Ownership, RowsOwned, WorkOwned, VerdictsHold, InHandOwned,
         StaysEmpty, PostedAsOwner, record
<1>31. CASE UNCHANGED vars
  BY <1>31 DEF vars, Ownership, RowsOwned, WorkOwned, VerdictsHold, InHandOwned, StaysEmpty, PostedAsOwner
<1> QED
  BY <1>1, <1>2, <1>3, <1>4, <1>5, <1>6, <1>7, <1>8, <1>9, <1>10, <1>11, <1>12, <1>13, <1>14, <1>15, <1>16, <1>17,
     <1>18, <1>19, <1>20, <1>21, <1>22, <1>23, <1>24, <1>25, <1>26, <1>27, <1>28, <1>29, <1>30, <1>31
     DEF Next, Account, Leaves, Drives, Runner, Restores, Watch, Runtime
-----------------------------------------------------------------------------
(* What is owed, and what may leave the phone. *)

\* Nothing is owed at first.
LEMMA WorkInit == Init => WorkInv
BY DEF Init, WorkInv, NoPass, NoWork

\* A step that leaves the drives, what is owed and the round alone.
LEMMA WorkUnchanged ==
  ASSUME WorkInv, UNCHANGED <<session, rows, open, work, leaving, pass>>
  PROVE  WorkInv'
BY DEF WorkInv, Owed

\* Only what the account has leaves the phone at a sign-out.
LEMMA WorkStep ==
  ASSUME Outlives = {}, TypeOK, Turns, Ownership, WorkInv, [Next]_vars
  PROVE  WorkInv'
<1> USE DriversAssumption
<1>1. ASSUME NEW u \in Drivers, SignIn(u) PROVE WorkInv'
  BY <1>1 DEF SignIn, WorkInv, Owed, TypeOK, record, process
<1>2. ASSUME NEW u \in Drivers, AuthEvent(u) PROVE WorkInv'
  BY <1>2, WorkUnchanged DEF AuthEvent, record, process
<1>3. CASE SignOut
  BY <1>3 DEF SignOut, WorkInv, Owed, TypeOK, record, process
<1>4. CASE SessionEnds
  BY <1>4 DEF SessionEnds, WorkInv, Owed, TypeOK, record, process
<1>5. CASE ReadOwed
  BY <1>5 DEF ReadOwed, WorkInv, Owed, TypeOK, record, process
<1>6. CASE WipeForSignOut
  BY <1>6 DEF WipeForSignOut, WorkInv, Owed, TypeOK, record, process
<1>7. ASSUME NEW u \in Drivers, StartDrive(u) PROVE WorkInv'
  BY <1>7, DrivenDrive DEF StartDrive, WorkInv, Owed, TypeOK, record, process
<1>8. CASE FinishDrive
  <2>1. open \in rows /\ keys.owner # None
    BY <1>8, DriveParts DEF FinishDrive, TypeOK, Ownership, RowsOwned
  <2>2. leaving = "no"
    BY <1>8 DEF FinishDrive, WorkInv
  <2>3. work' = [work EXCEPT ![open] = keys.owner] /\ open' = None /\ UNCHANGED <<session, rows, leaving, pass>>
    BY <1>8 DEF FinishDrive, process
  <2> QED
    BY <2>1, <2>2, <2>3 DEF WorkInv, TypeOK, Passes
<1>9. CASE Claim
  BY <1>9 DEF Claim, Passes, WorkInv, Owed, TypeOK, record, process
<1>10. ASSUME NEW d \in Drive, Send(d) PROVE WorkInv'
  BY <1>10, SendEffect DEF WorkInv, Owed
<1>11. CASE Hear
  <2>1. pass'.at = "item" /\ pass'.todo = pass.todo
    BY <1>11 DEF Hear, TypeOK, Passes
  <2>2. pass.at = "sent" /\ (work' = work \/ work' = [work EXCEPT ![pass.drive] = None])
    BY <1>11 DEF Hear
  <2>3. UNCHANGED <<session, rows, open, leaving>>
    BY <1>11 DEF Hear
  <2> QED
    BY <2>1, <2>2, <2>3 DEF WorkInv, Owed, TypeOK, Passes
<1>12. CASE Lose
  <2>1. pass'.at = "item" /\ pass'.todo = pass.todo
    BY <1>12 DEF Lose, TypeOK, Passes
  <2>2. UNCHANGED <<session, rows, open, work, leaving>>
    BY <1>12 DEF Lose, record
  <2> QED
    BY <2>1, <2>2 DEF WorkInv, Owed
<1>13. CASE PassEnds
  BY <1>13 DEF PassEnds, NoPass, WorkInv, Owed, TypeOK, record, process
<1>14. CASE BeginRestore
  BY <1>14, WorkUnchanged DEF BeginRestore, record, process
<1>15. CASE ReadPage
  BY <1>15, ReadPageEffect, WorkUnchanged
<1>16. CASE WritePage
  BY <1>16, WritePageEffect DEF WorkInv, Owed
<1>17. CASE PageFails
  BY <1>17, WorkUnchanged DEF PageFails, record, process
<1>18. CASE ReadPool
  BY <1>18, WorkUnchanged DEF ReadPool, record, process
<1>19. CASE RecordRestored
  BY <1>19, WorkUnchanged DEF RecordRestored, record, process
<1>20. ASSUME NEW u \in Drivers, CheckOwner(u) PROVE WorkInv'
  BY <1>20, WorkUnchanged DEF CheckOwner, record, process
<1>21. ASSUME NEW u \in Drivers, Adopt(u) PROVE WorkInv'
  BY <1>21, WorkUnchanged DEF Adopt, record, process
<1>22. ASSUME NEW u \in Drivers, WritePending(u) PROVE WorkInv'
  BY <1>22, WorkUnchanged DEF WritePending, record, process
<1>23. ASSUME NEW u \in Drivers, OnHandover(u) PROVE WorkInv'
  BY <1>23, WorkUnchanged DEF OnHandover, record, process
<1>24. CASE Teardown
  <2>1. CASE open = None
    BY <1>24, <2>1, WorkUnchanged DEF Teardown
  <2>2. CASE open # None
    <3>1. open \in rows /\ keys.owner # None
      BY <2>2, DriveParts DEF TypeOK, Ownership, RowsOwned
    <3>2. leaving = "no"
      BY <2>2 DEF WorkInv
    <3>3. work' = [work EXCEPT ![open] = keys.owner] /\ open' = None /\ UNCHANGED <<session, rows, leaving, pass>>
      BY <1>24, <2>2 DEF Teardown
    <3> QED
      BY <3>1, <3>2, <3>3 DEF WorkInv, TypeOK, Passes
  <2> QED
    BY <2>1, <2>2
<1>25. CASE Launch
  BY <1>25, WorkUnchanged DEF Launch, record, process
<1>26. CASE Identify
  BY <1>26, WorkUnchanged DEF Identify, record, process
<1>27. CASE Decide
  BY <1>27, WorkUnchanged DEF Decide, record, process
<1>28. CASE WipeDevice
  <2>1. pass.at = "idle"
    BY <1>28 DEF WipeDevice, Turns
  <2>2. work' = NoWork /\ open' = None /\ UNCHANGED <<session, leaving, pass>>
    BY <1>28 DEF WipeDevice
  <2> QED
    BY <2>1, <2>2 DEF WorkInv, NoWork, Owed, TypeOK, Passes
<1>29. CASE RememberDeviceOwner
  BY <1>29, WorkUnchanged DEF RememberDeviceOwner, record, process
<1>30. CASE Kill
  BY <1>30 DEF Kill, NoPass, WorkInv, Owed, TypeOK, record, process
<1>31. CASE UNCHANGED vars
  BY <1>31 DEF vars, WorkInv, Owed, TypeOK, record, process
<1> QED
  BY <1>1, <1>2, <1>3, <1>4, <1>5, <1>6, <1>7, <1>8, <1>9, <1>10, <1>11, <1>12, <1>13, <1>14, <1>15, <1>16, <1>17,
     <1>18, <1>19, <1>20, <1>21, <1>22, <1>23, <1>24, <1>25, <1>26, <1>27, <1>28, <1>29, <1>30, <1>31
     DEF Next, Account, Leaves, Drives, Runner, Restores, Watch, Runtime
-----------------------------------------------------------------------------
(* Whose restore it is. *)

\* No restore runs at first.
LEMMA RestoreOwnerInit == Init => RestoreOwner
BY DEF Init, RestoreOwner, NoRestore

\* A step that leaves the session, the checks, the runtime and the owner alone, and begins no restore.
LEMMA RestoreOwnerKept ==
  ASSUME RestoreOwner, UNCHANGED <<session, checks, run>>, keys'.owner = keys.owner,
         \/ restore'.at = "none"
         \/ (restore'.at # "none" => restore.at # "none") /\ restore'.uid = restore.uid
  PROVE  RestoreOwner'
BY DEF RestoreOwner

\* The owner does not change under a restore whose driver is signed in.
LEMMA RestoreOwnerStep ==
  ASSUME Outlives = {}, TypeOK, Turns, Ownership, RestoreOwner, [Next]_vars
  PROVE  RestoreOwner'
<1> USE DriversAssumption
<1>1. ASSUME NEW u \in Drivers, SignIn(u) PROVE RestoreOwner'
  BY <1>1 DEF SignIn, NoChecks, RestoreOwner, TypeOK, Anybody, record, process
<1>2. ASSUME NEW u \in Drivers, AuthEvent(u) PROVE RestoreOwner'
  BY <1>2 DEF AuthEvent, RestoreOwner, TypeOK, Anybody, record, process
<1>3. CASE SignOut
  BY <1>3 DEF SignOut, Turns, RestoreOwner, TypeOK, Anybody, record, process
<1>4. CASE SessionEnds
  BY <1>4 DEF SessionEnds, Turns, RestoreOwner, TypeOK, Anybody, record, process
<1>5. CASE ReadOwed
  BY <1>5, RestoreOwnerKept DEF ReadOwed, record, process, TypeOK, Settings, Restorings
<1>6. CASE WipeForSignOut
  BY <1>6, RestoreOwnerKept DEF WipeForSignOut, record, process, TypeOK, Settings, Restorings
<1>7. ASSUME NEW u \in Drivers, StartDrive(u) PROVE RestoreOwner'
  BY <1>7, RestoreOwnerKept DEF StartDrive, record, process, TypeOK, Settings, Restorings
<1>8. CASE FinishDrive
  BY <1>8, RestoreOwnerKept DEF FinishDrive, record, process, TypeOK, Settings, Restorings
<1>9. CASE Claim
  BY <1>9, RestoreOwnerKept DEF Claim, record, process, TypeOK, Settings, Restorings
<1>10. ASSUME NEW d \in Drive, Send(d) PROVE RestoreOwner'
  BY <1>10, SendEffect, RestoreOwnerKept
<1>11. CASE Hear
  BY <1>11, RestoreOwnerKept DEF Hear, record, process, TypeOK, Settings, Restorings
<1>12. CASE Lose
  BY <1>12, RestoreOwnerKept DEF Lose, record, process, TypeOK, Settings, Restorings
<1>13. CASE PassEnds
  BY <1>13, RestoreOwnerKept DEF PassEnds, record, process, TypeOK, Settings, Restorings
<1>14. CASE BeginRestore
  <2>1. Ready /\ session = keys.owner /\ restore'.uid = keys.owner /\ UNCHANGED <<session, keys, checks, run>>
    BY <1>14 DEF BeginRestore, record
  <2> QED
    BY <2>1 DEF RestoreOwner, Ready
<1>15. CASE ReadPage
  BY <1>15, ReadPageEffect, RestoreOwnerKept DEF NoRestore
<1>16. CASE WritePage
  BY <1>16, WritePageEffect, RestoreOwnerKept DEF NoRestore
<1>17. CASE PageFails
  BY <1>17, RestoreOwnerKept DEF PageFails, record, process, TypeOK, Settings, Restorings, Abandoned, NoRestore
<1>18. CASE ReadPool
  BY <1>18, RestoreOwnerKept DEF ReadPool, record, process, TypeOK, Settings, Restorings, Abandoned, NoRestore
<1>19. CASE RecordRestored
  BY <1>19, RestoreOwnerKept DEF RecordRestored, record, process, TypeOK, Settings, Restorings, Abandoned, NoRestore
<1>20. ASSUME NEW u \in Drivers, CheckOwner(u) PROVE RestoreOwner'
  BY <1>20 DEF CheckOwner, NextCheck, RestoreOwner, TypeOK, Anybody, record, process
<1>21. ASSUME NEW u \in Drivers, Adopt(u) PROVE RestoreOwner'
  <2>1. keys'.owner = u /\ UNCHANGED <<session, run, restore>> /\ Ready
    BY <1>21 DEF Adopt, TypeOK, Settings
  <2>2. \A v \in Drivers : checks'[v] = "none"
    BY <1>21 DEF Adopt, NextCheck, Turns, Watching, TypeOK
  <2>3. keys.owner = None
    BY <1>21 DEF Adopt, Ownership, VerdictsHold
  <2>4. restore.at # "none" => restore.uid # session
    BY <2>3 DEF RestoreOwner, Turns
  <2> QED
    BY <2>1, <2>2, <2>4 DEF RestoreOwner, Ready
<1>22. ASSUME NEW u \in Drivers, WritePending(u) PROVE RestoreOwner'
  <2>1. keys'.owner = keys.owner /\ UNCHANGED <<session, run, restore>> /\ checks[u] = "pend"
    BY <1>22 DEF WritePending, TypeOK, Settings
  <2>2. \A v \in Drivers : checks'[v] # "none" => checks[v] # "none"
    BY <1>22 DEF WritePending, NextCheck, TypeOK
  <2> QED
    BY <2>1, <2>2 DEF RestoreOwner
<1>23. ASSUME NEW u \in Drivers, OnHandover(u) PROVE RestoreOwner'
  <2>1. UNCHANGED <<session, keys>> /\ restore'.at = restore.at /\ restore'.uid = restore.uid
    BY <1>23 DEF OnHandover, record, TypeOK, Restorings
  <2>2. run'.uid = u /\ checks' = NoChecks
    BY <1>23 DEF OnHandover
  <2>3. keys.owner # u /\ checks[u] # "none"
    BY <1>23 DEF OnHandover, Ownership, VerdictsHold
  <2> QED
    BY <2>1, <2>2, <2>3 DEF RestoreOwner, NoChecks
<1>24. CASE Teardown
  <2>1. run'.uid = run.uid /\ run.at = "teardown" /\ UNCHANGED <<session, keys, checks, restore>>
    BY <1>24 DEF Teardown, TypeOK, Runs
  <2> QED
    BY <2>1 DEF RestoreOwner
<1>25. CASE Launch
  <2>1. run'.at = "identity" /\ UNCHANGED <<session, keys, checks, restore>>
    BY <1>25 DEF Launch, Off, record
  <2> QED
    BY <2>1 DEF RestoreOwner
<1>26. CASE Identify
  <2>1. restore.at = "none" /\ UNCHANGED <<session, keys, checks, restore>>
    BY <1>26 DEF Identify, Turns, record
  <2> QED
    BY <2>1 DEF RestoreOwner
<1>27. CASE Decide
  <2>1. run'.uid = run.uid /\ run.at = "decide" /\ UNCHANGED <<session, keys, checks, restore>>
    BY <1>27 DEF Decide, record, TypeOK, Runs
  <2> QED
    BY <2>1 DEF RestoreOwner
<1>28. CASE WipeDevice
  <2>1. run'.uid = run.uid /\ run.at = "wipe" /\ UNCHANGED <<session, checks, restore>>
    BY <1>28 DEF WipeDevice, TypeOK, Runs
  <2>2. \A v \in Drivers : checks[v] = "none"
    BY <2>1 DEF Turns, Watching, Ready
  <2>3. restore.at # "none" => session # restore.uid
    BY <2>1 DEF Turns, RestoreOwner
  <2> QED
    BY <2>1, <2>2, <2>3 DEF RestoreOwner
<1>29. CASE RememberDeviceOwner
  <2>1. run'.uid = run.uid /\ run.at \in {"owner", "seen", "pending"} /\ UNCHANGED <<session, checks, restore>>
    BY <1>29 DEF RememberDeviceOwner, TypeOK, Runs
  <2>2. \A v \in Drivers : checks[v] = "none"
    BY <2>1 DEF Turns, Watching, Ready
  <2>3. restore.at # "none" => session # restore.uid
    BY <2>1 DEF Turns, RestoreOwner
  <2> QED
    BY <2>1, <2>2, <2>3 DEF RestoreOwner
<1>30. CASE Kill
  <2>1. restore'.at = "none"
    BY <1>30 DEF Kill, NoRestore
  <2> QED
    BY <2>1 DEF RestoreOwner
<1>31. CASE UNCHANGED vars
  BY <1>31 DEF vars, RestoreOwner, TypeOK, Anybody, record, process
<1> QED
  BY <1>1, <1>2, <1>3, <1>4, <1>5, <1>6, <1>7, <1>8, <1>9, <1>10, <1>11, <1>12, <1>13, <1>14, <1>15, <1>16, <1>17,
     <1>18, <1>19, <1>20, <1>21, <1>22, <1>23, <1>24, <1>25, <1>26, <1>27, <1>28, <1>29, <1>30, <1>31
     DEF Next, Account, Leaves, Drives, Runner, Restores, Watch, Runtime
-----------------------------------------------------------------------------
(* How far a restore got. *)

\* A page of an account with drives left is not empty: of the listed drives one is the newest.
LEMMA NewestExists ==
  ASSUME NEW ds \in SUBSET Drive, ds # {}
  PROVE  \E d \in Newest(ds) : d \in ds /\ \A e \in ds : e[2] <= d[2]
<1> DEFINE numbers == {d[2] : d \in ds}
<1>1. numbers \in SUBSET Int /\ numbers # {}
  BY DriveParts
<1>2. \A n \in numbers : n <= NDrives + 1 /\ NDrives + 1 \in Int
  BY DriveParts, DriversAssumption
<1>3. \E m \in numbers : \A n \in numbers : n <= m
  <2> HIDE DEF numbers
  <2> QED
    BY <1>1, <1>2, DriversAssumption, GreatestExists
<1> QED
  BY <1>3 DEF Newest

\* Nothing is said to be restored at first.
LEMMA RestoreInvInit == Init => RestoreInv
BY DriveParts DEF Init, RestoreInv, RunHeld, NoKeys, NoCursor, NoRestore

\* What the phone and the account gain leaves the restore's record true, as long as the phone gains a
\* drive first.
LEMMA RestoreInvKept ==
  ASSUME RestoreInv, RestoreOwner, rows \subseteq rows',
         \A d \in Drive, u \in Drivers : <<d, u>> \in server' /\ d[1] = u => <<d, u>> \in server \/ d \in rows',
         keys'.owner = keys.owner, keys'.restored = keys.restored, keys'.cursor = keys.cursor,
         restore.at = "none" \/ session' = session \/ session' # restore.uid,
         \/ restore'.at = "none" /\ restore'.page = {}
         \/ /\ restore'.at = restore.at /\ restore'.uid = restore.uid
            /\ restore'.before = restore.before /\ restore'.page = restore.page
  PROVE  RestoreInv'
<1>1. \A d \in Drive : d[1] \in Drivers
  BY DriveParts
<1>2. \A u, b : Held(u, b) => \A d \in Drive : d[1] = u /\ d[2] >= b /\ <<d, u>> \in server' => d \in rows'
  BY <1>1 DEF Held
<1>3. /\ keys'.restored # None => keys'.restored = keys'.owner /\ Held(keys.owner, 0)'
      /\ keys'.cursor.uid # None => keys'.cursor.uid = keys'.owner /\ Held(keys.owner, keys.cursor.before)'
  BY <1>2 DEF RestoreInv, Held
<1>4. RunHeld'
  BY <1>1, <1>2 DEF RestoreInv, RunHeld, Held
<1> QED
  BY <1>3, <1>4 DEF RestoreInv

\* What the settings say of a restore stays true: every step of the restore, and every other step around it.
LEMMA RestoreInvStep ==
  ASSUME Outlives = {}, TypeOK, Turns, Ownership, WorkInv, RestoreOwner, RestoreInv, [Next]_vars
  PROVE  RestoreInv'
<1> USE DriversAssumption
<1>1. ASSUME NEW u \in Drivers, SignIn(u) PROVE RestoreInv'
  BY <1>1, RestoreInvKept DEF SignIn, record
<1>2. ASSUME NEW u \in Drivers, AuthEvent(u) PROVE RestoreInv'
  BY <1>2, RestoreInvKept DEF AuthEvent, record, process, TypeOK, Settings, Restorings
<1>3. CASE SignOut
  BY <1>3, RestoreInvKept DEF SignOut, record, Turns
<1>4. CASE SessionEnds
  BY <1>4, RestoreInvKept DEF SessionEnds, record, process, Turns
<1>5. CASE ReadOwed
  BY <1>5, RestoreInvKept DEF ReadOwed, record, process, TypeOK, Settings, Restorings
<1>6. CASE WipeForSignOut
  <2>1. session = None /\ restore.at # "record" /\ UNCHANGED <<session, server, restore>>
    BY <1>6 DEF WipeForSignOut, WorkInv
  <2>2. keys'.restored = None /\ keys'.cursor = NoCursor
    BY <1>6 DEF WipeForSignOut, TypeOK, Settings
  <2> QED
    BY <2>1, <2>2 DEF RestoreInv, RunHeld, Turns, NoCursor
<1>7. ASSUME NEW u \in Drivers, StartDrive(u) PROVE RestoreInv'
  BY <1>7, RestoreInvKept DEF StartDrive, record, process, TypeOK, Settings, Restorings
<1>8. CASE FinishDrive
  BY <1>8, RestoreInvKept DEF FinishDrive, record, process
<1>9. CASE Claim
  BY <1>9, RestoreInvKept DEF Claim, TypeOK, Settings
<1>10. ASSUME NEW d \in Drive, Send(d) PROVE RestoreInv'
  <2>1. d \in rows
    BY <1>10, SendEffect DEF WorkInv
  <2> QED
    BY <2>1, <1>10, SendEffect, RestoreInvKept
<1>11. CASE Hear
  BY <1>11, RestoreInvKept DEF Hear, record, process
<1>12. CASE Lose
  BY <1>12, RestoreInvKept DEF Lose, record, process, TypeOK, Settings, Restorings
<1>13. CASE PassEnds
  BY <1>13, RestoreInvKept DEF PassEnds, record, process, TypeOK, Settings, Restorings
<1>14. CASE BeginRestore
  <2>1. UNCHANGED <<session, keys, rows, server>> /\ keys.owner # None
    BY <1>14 DEF BeginRestore, record
  <2>2. /\ restore'.at = "ask" /\ restore'.uid = keys.owner /\ restore'.page = {}
        /\ restore'.before = IF keys.cursor.uid = keys.owner THEN keys.cursor.before ELSE Before
    BY <1>14 DEF BeginRestore
  <2>3. Held(restore'.uid, restore'.before)
    <3>1. \A d \in Drive : ~(d[2] >= Before)
      BY DriveParts DEF Before
    <3> QED
      BY <2>1, <2>2, <3>1 DEF RestoreInv, Held
  <2> QED
    BY <2>1, <2>2, <2>3 DEF RestoreInv, RunHeld, Held
<1>15. CASE ReadPage
  <2>1. UNCHANGED <<session, keys, rows, server>>
    BY <1>15, ReadPageEffect
  <2>2. CASE restore' = NoRestore
    BY <2>1, <2>2, RestoreInvKept DEF NoRestore
  <2>3. CASE restore' # NoRestore
    <3>1. /\ restore.at = "ask" /\ session = restore.uid /\ restore'.at = "write" /\ restore'.uid = restore.uid
          /\ restore'.page = Newest(Listed(restore.uid, restore.before))
      BY <1>15, <2>3, ReadPageEffect
    <3> DEFINE listed == Listed(restore.uid, restore.before)
    <3>2. restore.uid \in Drivers
      BY <3>1 DEF Turns, TypeOK, Restorings, Anybody
    <3>3. \A d \in listed : d \in Drive /\ d[1] = restore.uid
      BY <3>2 DEF Listed, Ownership, PostedAsOwner
    <3>4. \A d, e \in Newest(listed) : d = e
      <4>1. \A d, e \in Newest(listed) : d[1] = e[1] /\ d[2] = e[2] /\ d \in Drive /\ e \in Drive
        BY <3>3, DriveParts DEF Newest
      <4> QED
        BY <4>1 DEF Drive
    <3>5. ASSUME NEW e \in listed
          PROVE  \E d \in Newest(listed) : e = d \/ e[2] < d[2]
      <4>1. PICK d \in Newest(listed) : \A f \in listed : f[2] <= d[2]
        BY <3>3, <3>5, NewestExists
      <4>2. d \in listed
        BY DEF Newest
      <4>3. d \in Drive /\ e \in Drive /\ d[1] = e[1] /\ e[2] <= d[2]
        BY <3>3, <3>5, <4>1, <4>2
      <4>4. d[2] = e[2] => d = e
        BY <4>3 DEF Drive
      <4> QED
        BY <4>3, <4>4, DriveParts
    <3>6. ASSUME NEW e \in Drive, e[1] = restore.uid, <<e, restore.uid>> \in server
          PROVE  e \in rows \/ e \in listed
      BY <3>1, <3>6, DriveParts DEF RestoreInv, RunHeld, Held, Listed, TypeOK, Restorings
    <3> HIDE DEF listed
    <3>7. RunHeld'
      BY <2>1, <3>1, <3>4, <3>5, <3>6 DEF RunHeld, listed
    <3> QED
      BY <2>1, <3>7 DEF RestoreInv, Held
  <2> QED
    BY <2>2, <2>3
<1>16. CASE WritePage
  <2>1. UNCHANGED <<session, server>> /\ keys'.owner = keys.owner /\ keys'.restored = keys.restored /\ restore.at = "write"
    BY <1>16, WritePageEffect
  <2>2. CASE restore' = NoRestore /\ UNCHANGED <<keys, rows>>
    BY <2>1, <2>2, RestoreInvKept DEF NoRestore
  <2>3. CASE /\ session = restore.uid /\ keys.owner = restore.uid /\ restore'.uid = restore.uid /\ restore'.page = {}
             /\ restore.page = {} /\ restore'.at = "pool" /\ UNCHANGED <<keys, rows>>
    <3>1. Held(restore.uid, 0)
      BY <2>1, <2>3 DEF RestoreInv, RunHeld, Held
    <3> QED
      BY <2>1, <2>3, <3>1 DEF RestoreInv, RunHeld, Held
  <2>4. ASSUME NEW d \in restore.page,
               session = restore.uid, keys.owner = restore.uid, restore'.uid = restore.uid, restore'.page = {},
               rows' = rows \cup restore.page, keys'.cursor = [uid |-> restore.uid, before |-> d[2]],
               restore'.at = "ask", restore'.before = d[2]
        PROVE  RestoreInv'
    <3>1. \A e \in Drive : e[1] = restore.uid /\ e[2] >= d[2] /\ <<e, restore.uid>> \in server => e \in rows'
      <4>1. \A e \in restore.page : e = d
        BY DEF RestoreInv, RunHeld
      <4>2. d \in Drive
        BY DEF TypeOK, Restorings
      <4> QED
        BY <2>1, <2>4, <4>1, <4>2, DriveParts DEF RestoreInv, RunHeld
    <3>2. Held(restore.uid, 0) => Held(restore.uid, 0)'
      BY <2>1, <2>4 DEF Held
    <3> QED
      BY <2>1, <2>4, <3>1, <3>2 DEF RestoreInv, RunHeld, Held
  <2> QED
    BY <1>16, <2>2, <2>3, <2>4, WritePageEffect
<1>17. CASE PageFails
  BY <1>17, RestoreInvKept DEF PageFails, Abandoned, NoRestore, record
<1>18. CASE ReadPool
  <2>1. UNCHANGED <<session, keys, rows, server>>
    BY <1>18 DEF ReadPool, record
  <2>2. CASE restore' = NoRestore
    BY <2>1, <2>2, RestoreInvKept DEF NoRestore
  <2>3. CASE IsCurrent /\ restore' = [restore EXCEPT !.at = "record"]
    BY <1>18, <2>1, <2>3 DEF ReadPool, IsCurrent, RestoreInv, RunHeld, Held, TypeOK, Restorings
  <2> QED
    BY <1>18, <2>2, <2>3 DEF ReadPool, Abandoned
<1>19. CASE RecordRestored
  <2>1. UNCHANGED <<session, rows, server>> /\ restore.at = "record" /\ restore' = NoRestore
    BY <1>19 DEF RecordRestored, Abandoned
  <2>2. CASE keys.owner # restore.uid
    BY <1>19, <2>1, <2>2, RestoreInvKept DEF RecordRestored, NoRestore
  <2>3. CASE keys.owner = restore.uid
    <3>1. keys'.owner = keys.owner /\ keys'.restored = keys.owner /\ keys'.cursor = NoCursor
      BY <1>19, <2>3 DEF RecordRestored, TypeOK, Settings
    <3>2. Held(keys.owner, 0)
      BY <2>1, <2>3 DEF RestoreInv, RunHeld
    <3> QED
      BY <2>1, <3>1, <3>2 DEF RestoreInv, RunHeld, Held, NoRestore, NoCursor
  <2> QED
    BY <2>2, <2>3
<1>20. ASSUME NEW u \in Drivers, CheckOwner(u) PROVE RestoreInv'
  BY <1>20, RestoreInvKept DEF CheckOwner, record
<1>21. ASSUME NEW u \in Drivers, Adopt(u) PROVE RestoreInv'
  <2>1. keys.owner = None /\ checks[u] # "none"
    BY <1>21 DEF Adopt, Ownership, VerdictsHold
  <2>2. keys'.owner = u /\ keys'.restored = keys.restored /\ keys'.cursor = keys.cursor
    BY <1>21 DEF Adopt, TypeOK, Settings
  <2>3. keys.restored = None /\ keys.cursor.uid = None
    BY <2>1 DEF RestoreInv
  <2>4. restore.at # "none" => restore.uid # u
    BY <2>1 DEF RestoreOwner
  <2>5. UNCHANGED <<session, rows, server, restore>>
    BY <1>21 DEF Adopt
  <2> QED
    BY <2>2, <2>3, <2>4, <2>5 DEF RestoreInv, RunHeld, Held
<1>22. ASSUME NEW u \in Drivers, WritePending(u) PROVE RestoreInv'
  BY <1>22, RestoreInvKept DEF WritePending, TypeOK, Settings
<1>23. ASSUME NEW u \in Drivers, OnHandover(u) PROVE RestoreInv'
  <2>1. /\ restore'.at = restore.at /\ restore'.uid = restore.uid
        /\ restore'.before = restore.before /\ restore'.page = restore.page
    BY <1>23 DEF OnHandover, TypeOK, Restorings
  <2> QED
    BY <1>23, <2>1, RestoreInvKept DEF OnHandover, record
<1>24. CASE Teardown
  BY <1>24, RestoreInvKept DEF Teardown, record, process
<1>25. CASE Launch
  BY <1>25, RestoreInvKept DEF Launch, record, process
<1>26. CASE Identify
  BY <1>26, RestoreInvKept DEF Identify, record, process
<1>27. CASE Decide
  BY <1>27, RestoreInvKept DEF Decide, record, process
<1>28. CASE WipeDevice
  <2>1. run.at = "wipe" /\ keys' = NoKeys /\ UNCHANGED <<session, server, restore>>
    BY <1>28 DEF WipeDevice
  <2>2. restore.at # "none" => session # restore.uid /\ restore.uid # None
    BY <2>1 DEF Turns, RestoreOwner
  <2> QED
    BY <2>1, <2>2 DEF RestoreInv, RunHeld, NoKeys, NoCursor
<1>29. CASE RememberDeviceOwner
  <2>1. UNCHANGED <<session, rows, server, restore>> /\ keys'.restored = keys.restored /\ keys'.cursor = keys.cursor
    BY <1>29 DEF RememberDeviceOwner, TypeOK, Settings
  <2>2. CASE keys'.owner = keys.owner
    BY <2>1, <2>2, RestoreInvKept
  <2>3. CASE keys'.owner # keys.owner
    <3>1. run.at = "owner" /\ keys'.owner = run.uid /\ keys.owner = None
      BY <1>29, <2>3 DEF RememberDeviceOwner, TypeOK, Settings, Ownership, VerdictsHold
    <3>2. keys.restored = None /\ keys.cursor.uid = None
      BY <3>1 DEF RestoreInv
    <3>3. restore.at # "none" => restore.uid # run.uid
      BY <3>1 DEF RestoreOwner
    <3> QED
      BY <2>1, <3>1, <3>2, <3>3 DEF RestoreInv, RunHeld, Held
  <2> QED
    BY <2>2, <2>3
<1>30. CASE Kill
  BY <1>30, RestoreInvKept DEF Kill, NoRestore, record
<1>31. CASE UNCHANGED vars
  BY <1>31, RestoreInvKept DEF vars
<1> QED
  BY <1>1, <1>2, <1>3, <1>4, <1>5, <1>6, <1>7, <1>8, <1>9, <1>10, <1>11, <1>12, <1>13, <1>14, <1>15, <1>16, <1>17,
     <1>18, <1>19, <1>20, <1>21, <1>22, <1>23, <1>24, <1>25, <1>26, <1>27, <1>28, <1>29, <1>30, <1>31
     DEF Next, Account, Leaves, Drives, Runner, Restores, Watch, Runtime

-----------------------------------------------------------------------------
(* The theorems. *)

\* Every reachable state is well typed, however many drivers sign in and however the process dies.
THEOREM TypeCorrect == Spec => []TypeOK
<1> QED
  BY TypeInit, TypeStep, PTL DEF Spec

\* Turns holds throughout.
LEMMA TurnsAlways ==
  ASSUME Prompt
  PROVE  Spec => [](TypeOK /\ Turns)
<1>1. Init => TypeOK /\ Turns
  BY TypeInit, TurnsInit
<1>2. TypeOK /\ Turns /\ [Next]_vars => TypeOK' /\ Turns'
  BY TypeStep, TurnsStep
<1> QED
  BY <1>1, <1>2, PTL DEF Spec

\* Ownership holds throughout.
LEMMA OwnershipAlways ==
  ASSUME Prompt
  PROVE  Spec => []Ownership
<1>1. TypeOK /\ Turns /\ Ownership /\ [Next]_vars => Ownership'
  BY OwnershipStep
<1> QED
  BY <1>1, OwnershipInit, TurnsAlways, PTL DEF Spec

\* Whatever is on the phone is its owner's, at every step of a handover and wherever the process dies in it;
\* once a sign-out emptied it nothing comes back before somebody signs in (device.ts, ownerWatch.ts).
THEOREM OwnersRows ==
  ASSUME Prompt
  PROVE  Spec => []RowsAreOwners
<1>1. Ownership => RowsAreOwners
  BY DEF Ownership, RowsOwned, WorkOwned, StaysEmpty, RowsAreOwners
<1> QED
  BY <1>1, OwnershipAlways, PTL

\* An item queued by one driver is never posted under another's session (queue.ts:31), as long as no round
\* outlives the session it read: runner.ts itself does not see to that.
THEOREM OwnersPosts ==
  ASSUME Prompt
  PROVE  Spec => []PostedAsOwner
<1>1. Ownership => PostedAsOwner
  BY DEF Ownership
<1> QED
  BY <1>1, OwnershipAlways, PTL

\* A launch that goes on as nobody's was begun with nobody signed in, and nobody signs in before it is up.
Named == run.at \notin {"off", "identity", "ready"} /\ run.uid = None => session = None

\* So it is from the first launch on, whatever outlives a session.
LEMMA NamedAlways == Spec => []Named
<1>1. Init => Named
  BY DEF Init, Off, Named
<1>2. TypeOK /\ Named /\ [Next]_vars => Named'
  <2> SUFFICES ASSUME TypeOK, Named, [Next]_vars PROVE Named'
    OBVIOUS
  <2>1. CASE Account
    BY <2>1 DEF Account, SignIn, AuthEvent, SignOut, SessionEnds, Ready, record, process, Named
  <2>2. CASE Leaves \/ Drives
    BY <2>2 DEF Leaves, Drives, ReadOwed, WipeForSignOut, StartDrive, FinishDrive, record, process, Named
  <2>3. CASE Runner \/ Restores
    BY <2>3
       DEF Runner, Restores, Claim, Send, Hear, Lose, PassEnds, BeginRestore, ReadPage, WritePage, PageFails,
           ReadPool, RecordRestored, record, process, Named
  <2>4. CASE Watch
    BY <2>4, DriversAssumption DEF Watch, CheckOwner, Adopt, WritePending, OnHandover, record, Named
  <2>5. CASE Identify
    BY <2>5 DEF Identify, Named
  <2>6. CASE Teardown \/ Launch \/ Decide \/ WipeDevice \/ RememberDeviceOwner
    BY <2>6 DEF Teardown, Launch, Decide, WipeDevice, RememberDeviceOwner, Off, TypeOK, Runs, Named
  <2>7. CASE Kill
    BY <2>7 DEF Kill, Off, Named
  <2>8. CASE UNCHANGED vars
    BY <2>8 DEF vars, Named
  <2> QED
    BY <2>1, <2>2, <2>3, <2>4, <2>5, <2>6, <2>7, <2>8 DEF Next, Runtime
<1> QED
  BY <1>1, <1>2, TypeCorrect, PTL DEF Spec

\* A runtime that comes up, other than after a read of the session that failed, found no handover on record
\* or has just carried it out.
LEMMA MountsOwner ==
  ASSUME TypeOK, Named, [Next]_vars, ~Ready, Ready', session # None, run'.how # "unknown"
  PROVE  keys'.pending \in {None, keys'.owner}
<1>1. run # run' /\ run.at # "ready" /\ run'.at = "ready"
  BY DEF Ready
<1>2. CASE Identify
  BY <1>1, <1>2, ReadsAssumption DEF Identify, OwnerMayHaveChanged, record
<1>3. CASE Decide
  <2>1. run.uid # None
    BY <1>3 DEF Decide, Named
  <2> QED
    BY <1>1, <1>3, <2>1 DEF Decide, TypeOK, Runs
<1>4. CASE RememberDeviceOwner
  BY <1>1, <1>4 DEF RememberDeviceOwner, TypeOK, Runs, Settings
<1>5. CASE Account \/ Leaves \/ Drives
  BY <1>1, <1>5
     DEF Account, Leaves, Drives, process, SignIn, AuthEvent, SignOut, SessionEnds, ReadOwed, WipeForSignOut,
         StartDrive, FinishDrive
<1>6. CASE Runner \/ Restores
  BY <1>1, <1>6
     DEF Runner, Restores, Claim, Send, Hear, Lose, PassEnds, BeginRestore, ReadPage, WritePage, PageFails,
         ReadPool, RecordRestored
<1>7. CASE Watch
  BY <1>1, <1>7 DEF Watch, CheckOwner, Adopt, WritePending, OnHandover, Ready
<1>8. CASE Teardown \/ Launch \/ WipeDevice \/ Kill
  BY <1>1, <1>8 DEF Teardown, Launch, WipeDevice, Kill, Off, TypeOK, Runs
<1>9. CASE UNCHANGED vars
  BY <1>1, <1>9 DEF vars
<1> QED
  BY <1>2, <1>3, <1>4, <1>5, <1>6, <1>7, <1>8, <1>9 DEF Next, Runtime

\* No runtime comes up over a handover on record, to somebody signed in (ownerWatch.ts:81, bootstrap.ts's
\* identity stage).
THEOREM MountsOwners == Spec => MountsTheOwner
<1>1. TypeOK /\ Named /\ [Next]_vars =>
        [~Ready /\ Ready' /\ session # None /\ run'.how # "unknown" => keys'.pending \in {None, keys'.owner}]_vars
  BY MountsOwner
<1> QED
  BY <1>1, NamedAlways, TypeCorrect, PTL DEF Spec, MountsTheOwner

\* RestoreInv holds throughout.
LEMMA RestoreAlways ==
  ASSUME Outlives = {}
  PROVE  Spec => []RestoreInv
<1> DEFINE Inv == TypeOK /\ Turns /\ Ownership /\ WorkInv /\ RestoreOwner /\ RestoreInv
<1>1. Prompt
  BY DEF Prompt
<1>2. Init => Inv
  BY TypeInit, TurnsInit, OwnershipInit, WorkInit, RestoreOwnerInit, RestoreInvInit
<1>3. Inv /\ [Next]_vars => Inv'
  BY <1>1, TypeStep, TurnsStep, OwnershipStep, WorkStep, RestoreOwnerStep, RestoreInvStep
<1> QED
  BY <1>2, <1>3, PTL DEF Spec

\* A restore on record as run to the end means the phone holds all of that driver's drives, when nothing of
\* one session is left running into the next (restore.ts).
THEOREM RestoredHeld ==
  ASSUME Outlives = {}
  PROVE  Spec => []RestoredMeansHeld
<1>1. RestoreInv /\ TypeOK => RestoredMeansHeld
  BY DriveParts DEF RestoreInv, Held, RestoredMeansHeld
<1> QED
  BY <1>1, RestoreAlways, TypeCorrect, PTL
=============================================================================
