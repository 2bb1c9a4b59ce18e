-------------------------- MODULE DriveSyncProofs --------------------------
(***************************************************************************)
(* Proofs about DriveSync, for any number of taps, kills and faults, with  *)
(* or without another phone.                                               *)
(*                                                                         *)
(* What the phone says of the drive follows from what the server said only *)
(* through the item under way: AnswerHolds and Rests carry an answer from  *)
(* the request to the transaction that writes it, over every tap, kill and *)
(* thrown step in between.  Told is what is then true of the phone's rows, *)
(* MarkHeld what is true of a mark the server took whose answer may have   *)
(* been lost; InHand and Begun are what those steps need of the outbox.    *)
(* The refinement of Delivery needs InHand and Begun alone.                *)
(***************************************************************************)
EXTENDS DriveSync, TLAPS

\* What the pass holds is claimed: nobody else takes it up, and nothing is held twice.
InHand ==
  /\ \A k \in batch : item[k] = "sending"
  /\ job # Idle => job.key \notin batch
  /\ job.at \notin {"idle", "fail", "show"} => item[job.key] = "sending"

\* Nothing is owed of a drive under way; once it is finished its upload is on the outbox.
Begun ==
  /\ trip.status = "recording" => item = [k \in Keys |-> "absent"] /\ event = "none" /\ tap = "none" /\ job = Idle
  /\ item["upload"] = "absent" => trip.status = "recording"

\* What the phone says of the drive, the server said.
Told ==
  /\ server.scored \/ server.marked \/ server.report # "none" => server.held
  /\ server.mine => server.report # "none"
  /\ item["upload"] = "done" => server.held
  /\ trip.answered # "none" => server.held /\ trip.answered = Verdict(server.scored)
  /\ event = "accepted" => server.report = "accepted"
  /\ trip.clean = "clean" => server.scored /\ server.report = "accepted"

\* What a request was answered, by what it was about.
AnswerHolds ==
  \/ job.answer = "retry"
  \/ job.key = "upload" /\ (job.answer = "refused" \/ (job.answer = "ok" /\ server.held))
  \/ job.key = "mark" /\ \/ job.answer = "ok" /\ server.marked
                         \/ job.answer = "not_found" /\ ~server.held
                         \/ job.answer \in {"refused", "late"} /\ server.held /\ ~server.marked
  \/ job.key = "report" /\ \/ job.answer \in {"refused", "not_found"}
                           \/ job.answer = "already" /\ server.report # "none"
                           \/ job.answer \in {"accepted", "rejected"} /\ server.report = job.answer

\* How far the item under way got tells what the server holds: it was the answer that took it there,
\* and while it is under way no other item is.
Rests ==
  /\ job.at = "answered" => AnswerHolds
  /\ job.at = "apply" => AnswerHolds /\ job.answer \in {"ok", "accepted", "rejected"}
  /\ job.at = "forward" => job.key = "upload" /\ server.held
  /\ job.at \in {"reread", "resync"} => job.key = "report" /\ server.report # "none"
  /\ job.at = "done" => /\ job.key = "upload" => server.held
                        /\ job.key = "mark" => trip.status = "not_driving"
  /\ job.at \in {"undo", "refuse", "fail"} /\ job.key = "mark" => ~server.marked
  /\ job.at = "undo" /\ job.key = "mark" => server.held \/ (job.answer = "not_found" /\ ~Owed(item["upload"]))

\* The server's mark is on the phone, or still on its way back.
MarkHeld == server.marked => Owed(item["mark"]) \/ trip.status = "not_driving"

\* The phone's half, the items in hand and the server's mark: what NotFlattered, MarkKept and UndoneHeld need.
SyncInv == InHand /\ Begun /\ Told /\ Rests /\ MarkHeld

-----------------------------------------------------------------------------
(* Types. *)

\* What a verdict makes of the clean flag is a clean flag.
LEMMA CleanTypes ==
  ASSUME NEW scored, NEW e
  PROVE  CleanOf(scored, e) \in {"null", "clean", "dirty"} /\ Verdict(scored) \in {"scored", "unscored"}
BY DEF CleanOf, Verdict

\* An item under way has a key, a step and an answer.
LEMMA UnderWay ==
  ASSUME TypeOK, job.at # "idle"
  PROVE  job \in [at : Steps, key : Keys, answer : Answers] /\ job # Idle
BY DEF TypeOK, Idle

\* The runner's next step is about the same item and the same answer.
LEMMA GoesTo ==
  ASSUME job \in [at : Steps, key : Keys, answer : Answers], NEW step \in Steps, Goes(step)
  PROVE  /\ job' \in [at : Steps, key : Keys, answer : Answers] /\ job' # Idle
         /\ job'.at = step /\ job'.key = job.key /\ job'.answer = job.answer
BY DEF Goes, Idle, Steps

\* An answer changes what is under way, and nothing else on the phone.
LEMMA HearsThat ==
  ASSUME job \in [at : Steps, key : Keys, answer : Answers], NEW a \in Answers, Answered(a)
  PROVE  /\ job' \in [at : Steps, key : Keys, answer : Answers] /\ job' # Idle
         /\ job'.at = "answered" /\ job'.key = job.key /\ job'.answer = a
         /\ UNCHANGED <<trip, event, item, previous, tap, batch, used>>
BY DEF Answered, Idle, Steps

\* A step that throws: the runner goes on as if it had not been taken, or gives the item up for this pass.
LEMMA ThrowsTo ==
  ASSUME TypeOK, Throws
  PROVE  /\ UNCHANGED <<trip, event, item, previous, tap, batch, server>>
         /\ used' \in [taps : 0..MaxTaps, kills : 0..MaxKills, faults : 0..MaxFaults]
         /\ job.at # "idle"
         /\ \/ job' = Idle
            \/ /\ job' \in [at : Steps, key : Keys, answer : Answers]
               /\ job'.key = job.key /\ job'.answer = job.answer
               /\ <<job.at, job'.at>> \in {<<"apply", "retry">>, <<"resync", "retry">>,
                                           <<"forward", "done">>, <<"undo", "refuse">>}
<1>1. UNCHANGED <<trip, event, item, previous, tap, batch, server>>
  BY DEF Throws
<1>2. used' \in [taps : 0..MaxTaps, kills : 0..MaxKills, faults : 0..MaxFaults]
  BY BoundsAssumption DEF Throws, TypeOK
<1>3. CASE job.at \in DOMAIN Instead /\ Goes(Instead[job.at])
  <2>1. job.at \in {"apply", "resync", "forward", "undo"}
    BY <1>3 DEF Instead
  <2>2. Instead[job.at] = CASE job.at = "forward" -> "done" [] job.at = "undo" -> "refuse" [] OTHER -> "retry"
    BY <2>1 DEF Instead
  <2>3. Instead[job.at] \in Steps
    BY <2>1, <2>2 DEF Steps
  <2> QED
    BY <1>1, <1>2, <1>3, <2>1, <2>2, <2>3, UnderWay, GoesTo
<1>4. CASE job.at \in {"done", "retry", "refuse", "fail", "show"} /\ job' = Idle
  BY <1>1, <1>2, <1>4
<1> QED
  BY <1>3, <1>4 DEF Throws

\* A drive being recorded is well typed.
LEMMA TypeInit == Init => TypeOK
BY BoundsAssumption DEF Init, TypeOK, Idle, Pending, Kept, Answers

\* Every step keeps the types.
LEMMA TypeStep ==
  ASSUME TypeOK, Rests, [Next]_vars
  PROVE  TypeOK'
<1> USE DEF Keys
<1>1. CASE FinishDrive
  <2>1. PICK scored \in BOOLEAN : trip' = [trip EXCEPT !.status = "pending", !.clean = CleanOf(scored, event)]
    BY <1>1 DEF FinishDrive
  <2>2. trip' \in [status : Kept \cup {"recording", "failed", "not_driving"}, clean : {"null", "clean", "dirty"},
                  answered : {"none", "scored", "unscored"}, error : Answers]
    BY <2>1, CleanTypes DEF TypeOK, Kept
  <2>3. item' \in [Keys -> Pending \cup {"absent", "sending", "ranout", "done", "refused"}]
    BY <1>1 DEF FinishDrive, TypeOK, Pending
  <2> QED
    BY <1>1, <2>2, <2>3 DEF FinishDrive, TypeOK
<1>2. CASE TapMark
  BY <1>2, BoundsAssumption DEF TapMark, TypeOK
<1>3. CASE MarkNotDriving
  BY <1>3, BoundsAssumption DEF MarkNotDriving, TypeOK, MadeDue, Pending, Kept
<1>4. CASE ReportEvent
  BY <1>4, BoundsAssumption DEF ReportEvent, TypeOK, MadeDue, Pending, Kept
<1>5. ASSUME NEW k \in Keys, ComesDue(k) PROVE TypeOK'
  BY <1>5, BoundsAssumption DEF ComesDue, TypeOK, Pending, Kept
<1>6. ASSUME NEW k \in Keys, Reopen(k) PROVE TypeOK'
  BY <1>6, BoundsAssumption DEF Reopen, TypeOK, Pending, Kept
<1>7. ASSUME NEW k \in Keys, Ask(k) PROVE TypeOK'
  BY <1>7, BoundsAssumption DEF Ask, TypeOK, Idle, Steps, Answers
<1>8. ASSUME NEW k \in Keys, Release(k) PROVE TypeOK'
  <2>1. item' \in [Keys -> Pending \cup {"absent", "sending", "ranout", "done", "refused"}]
    BY <1>8 DEF Release, TypeOK, Pending
  <2> QED
    BY <1>8, <2>1 DEF Release, TypeOK
<1>9. CASE NextDue
  BY <1>9, BoundsAssumption DEF NextDue, TypeOK, Idle, Steps, Answers
<1>10. CASE ApplyUpload
  <2>1. trip' \in [status : Kept \cup {"recording", "failed", "not_driving"}, clean : {"null", "clean", "dirty"},
                  answered : {"none", "scored", "unscored"}, error : Answers]
    BY <1>10, CleanTypes DEF ApplyUpload, TypeOK, Kept, Answers
  <2> QED
    BY <1>10, <2>1, UnderWay, GoesTo DEF ApplyUpload, TypeOK, Steps
<1>11. CASE ApplyMark
  BY <1>11, UnderWay, GoesTo DEF ApplyMark, TypeOK, Steps
<1>12. CASE ApplyReport
  <2>1. job.answer \in {"accepted", "rejected"}
    BY <1>12 DEF ApplyReport, Rests, AnswerHolds
  <2> QED
    BY <1>12, <2>1, UnderWay, GoesTo DEF ApplyReport, TypeOK, Steps
<1>13. CASE BringForward
  BY <1>13, UnderWay, GoesTo DEF BringForward, TypeOK, Pending, Kept, Steps
<1>14. CASE UndoMark
  <2>1. trip' \in [status : Kept \cup {"recording", "failed", "not_driving"}, clean : {"null", "clean", "dirty"},
                  answered : {"none", "scored", "unscored"}, error : Answers]
    BY <1>14, UnderWay, CleanTypes DEF UndoMark, Unmarked, TypeOK, Kept
  <2> QED
    BY <1>14, <2>1, UnderWay, GoesTo DEF UndoMark, TypeOK, Steps
<1>15. CASE UndoReport
  BY <1>15, UnderWay, GoesTo DEF UndoReport, TypeOK, Steps
<1>16. CASE Resync
  <2>1. trip' \in [status : Kept \cup {"recording", "failed", "not_driving"}, clean : {"null", "clean", "dirty"},
                  answered : {"none", "scored", "unscored"}, error : Answers]
    BY <1>16, CleanTypes DEF Resync, Kept, Answers
  <2> QED
    BY <1>16, <2>1, UnderWay, GoesTo DEF Resync, TypeOK, Steps
<1>17. CASE Done
  BY <1>17, UnderWay DEF Done, TypeOK, Closes, Pending, Kept, Idle, Steps
<1>18. CASE Retry
  BY <1>18, UnderWay DEF Retry, TypeOK, Closes, Pending, Kept, Idle, Steps
<1>19. CASE Refuse
  BY <1>19, UnderWay, GoesTo DEF Refuse, TypeOK, Closes, Pending, Kept, Steps
<1>20. CASE MarkFailed
  BY <1>20, UnderWay, GoesTo DEF MarkFailed, TypeOK, Closes, Pending, Kept, Steps
<1>21. CASE ShowRefusal
  BY <1>21, UnderWay DEF ShowRefusal, TypeOK, Steps
<1>22. CASE ServeUpload
  BY <1>22, UnderWay, HearsThat DEF ServeUpload, TypeOK, Steps, Answers
<1>23. CASE ServeMark
  BY <1>23, UnderWay, HearsThat DEF ServeMark, TypeOK, Steps, Answers
<1>24. CASE ServeReport
  BY <1>24, UnderWay, HearsThat DEF ServeReport, TypeOK, Steps, Answers
<1>25. CASE Undecided
  BY <1>25, UnderWay, HearsThat DEF Undecided, TypeOK, Steps, Answers
<1>26. CASE Hear
  BY <1>26, UnderWay, GoesTo DEF Hear, TypeOK, After, Steps, Answers
<1>27. CASE Lose
  BY <1>27, UnderWay, GoesTo DEF Lose, TypeOK, Steps
<1>28. CASE Reread
  BY <1>28, UnderWay, GoesTo DEF Reread, TypeOK, Steps
<1>29. CASE RereadFails
  BY <1>29, UnderWay, GoesTo DEF RereadFails, TypeOK, Steps
<1>30. CASE Throws
  BY <1>30, ThrowsTo, BoundsAssumption DEF TypeOK
<1>31. CASE Kill
  BY <1>31, BoundsAssumption DEF Kill, TypeOK, Idle
<1>32. CASE OtherPhoneReports
  BY <1>32, BoundsAssumption DEF OtherPhoneReports, TypeOK
<1>33. CASE UNCHANGED vars
  BY <1>33, BoundsAssumption DEF vars, TypeOK
<1> QED
  BY <1>1, <1>2, <1>3, <1>4, <1>5, <1>6, <1>7, <1>8, <1>9, <1>10, <1>11, <1>12, <1>13, <1>14, <1>15,
     <1>16, <1>17, <1>18, <1>19, <1>20, <1>21, <1>22, <1>23, <1>24, <1>25, <1>26, <1>27, <1>28,
     <1>29, <1>30, <1>31, <1>32, <1>33
     DEF Next, Runner, Serve, Apply, Undo, Settle

-----------------------------------------------------------------------------
(* What a step does. *)

\* What follows an answer is one of five steps (runner.ts's settlement).
LEMMA AfterSteps ==
  ASSUME NEW k, NEW a
  PROVE  After(k, a) \in {"apply", "reread", "retry", "refuse", "undo"}
BY DEF After

\* A tap makes an upload due that waited to be sent, and may queue its own item again.
LEMMA TapEffect ==
  ASSUME TypeOK, MarkNotDriving \/ ReportEvent
  PROVE  /\ UNCHANGED <<batch, job, server, used>>
         /\ \A k \in Keys :
              \/ item'[k] = item[k]
              \/ item'[k] = "due" /\ (item[k] = "waiting" \/ (k # "upload" /\ Enqueues(k)))
<1>1. \A k \in Keys : MadeDue[k] = item[k] \/ (MadeDue[k] = "due" /\ item[k] = "waiting")
  BY DEF MadeDue, TypeOK
<1>2. MadeDue \in [Keys -> Pending \cup {"absent", "sending", "ranout", "done", "refused"}]
  BY DEF MadeDue, TypeOK, Pending, Keys
<1>3. PICK k \in Keys \ {"upload"} : item' = IF Enqueues(k) THEN [MadeDue EXCEPT ![k] = "due"] ELSE MadeDue
  BY DEF MarkNotDriving, ReportEvent, Keys
<1>4. UNCHANGED <<batch, job, server, used>>
  BY DEF MarkNotDriving, ReportEvent
<1>5. ASSUME NEW j \in Keys
      PROVE  \/ item'[j] = item[j]
             \/ item'[j] = "due" /\ (item[j] = "waiting" \/ (j # "upload" /\ Enqueues(j)))
  <2>1. CASE Enqueues(k) /\ j = k
    BY <1>2, <1>3, <2>1
  <2>2. CASE ~Enqueues(k) \/ j # k
    <3>1. item'[j] = MadeDue[j]
      BY <1>2, <1>3, <2>2
    <3> QED
      BY <1>1, <3>1
  <2> QED
    BY <2>1, <2>2
<1> QED
  BY <1>4, <1>5

\* A request is answered by what the server holds, which the answer may add to.
LEMMA ServeEffect ==
  ASSUME TypeOK, Told, Serve \/ Undecided
  PROVE  /\ UNCHANGED <<trip, event, item, previous, tap, batch, used>>
         /\ job # Idle /\ job.at = "asked" /\ job' # Idle /\ job'.at = "answered" /\ job'.key = job.key
         /\ job' \in [at : Steps, key : Keys, answer : Answers]
         /\ AnswerHolds'
         /\ \/ server' = server
            \/ /\ job.key = "upload" /\ ~server.held
               /\ \E s \in BOOLEAN : server' = [server EXCEPT !.held = TRUE, !.scored = s]
            \/ job.key = "mark" /\ server.held /\ server' = [server EXCEPT !.marked = TRUE]
            \/ /\ job.key = "report" /\ server.held /\ server.report = "none"
               /\ \E a \in {"accepted", "rejected"} : server' = [server EXCEPT !.report = a, !.mine = TRUE]
<1>1. CASE ServeUpload
  <2>1. PICK a \in {"ok", "refused"} :
          /\ Answered(a)
          /\ \/ server' = server /\ (a = "ok" => server.held)
             \/ ~server.held /\ \E s \in BOOLEAN : server' = [server EXCEPT !.held = TRUE, !.scored = s]
    BY <1>1 DEF ServeUpload
  <2>2. job.at = "asked" /\ job.key = "upload"
    BY <1>1 DEF ServeUpload
  <2>3. a = "ok" => server'.held
    BY <2>1 DEF TypeOK
  <2> QED
    BY <2>1, <2>2, <2>3, UnderWay, HearsThat DEF AnswerHolds, Answers
<1>2. CASE ServeMark
  <2>1. PICK a \in {"ok", "not_found", "refused", "late"} :
          /\ Answered(a)
          /\ \/ a = "not_found" /\ ~server.held /\ server' = server
             \/ a = "ok" /\ server.held /\ server' = [server EXCEPT !.marked = TRUE]
             \/ a \in {"refused", "late"} /\ server.held /\ ~server.marked /\ server' = server
    BY <1>2 DEF ServeMark
  <2>2. job.at = "asked" /\ job.key = "mark"
    BY <1>2 DEF ServeMark
  <2>3. a = "ok" => server'.marked
    BY <2>1 DEF TypeOK
  <2> QED
    BY <2>1, <2>2, <2>3, UnderWay, HearsThat DEF AnswerHolds, Answers
<1>3. CASE ServeReport
  <2>1. PICK a \in {"not_found", "refused", "already", "accepted", "rejected"} :
          /\ Answered(a)
          /\ \/ a \in {"not_found", "refused"} /\ server' = server
             \/ a = "already" /\ server.report # "none" /\ server' = server
             \/ a \in {"accepted", "rejected"} /\ a = server.report /\ server' = server
             \/ server.held /\ server.report = "none" /\ a \in {"accepted", "rejected"}
                /\ server' = [server EXCEPT !.report = a, !.mine = TRUE]
    BY <1>3 DEF ServeReport, TypeOK, Told
  <2>2. job.at = "asked" /\ job.key = "report"
    BY <1>3 DEF ServeReport
  <2>3. a \in {"accepted", "rejected"} => server'.report = a
    BY <2>1 DEF TypeOK
  <2> QED
    BY <2>1, <2>2, <2>3, UnderWay, HearsThat DEF AnswerHolds, Answers
<1>4. CASE Undecided
  BY <1>4, UnderWay, HearsThat DEF Undecided, AnswerHolds, Answers
<1> QED
  BY <1>1, <1>2, <1>3, <1>4 DEF Serve

-----------------------------------------------------------------------------
(* The runner's hands. *)

\* No step takes from the pass what it holds.
LEMMA InHandStep ==
  ASSUME TypeOK, InHand, Begun, Told, [Next]_vars
  PROVE  InHand'
<1>1. CASE FinishDrive
  BY <1>1 DEF FinishDrive, InHand, TypeOK, Begun
<1>2. CASE TapMark
  BY <1>2 DEF TapMark, InHand, TypeOK
<1>3. CASE MarkNotDriving
  BY <1>3, TapEffect DEF InHand, TypeOK, Enqueues, Pending, Idle
<1>4. CASE ReportEvent
  BY <1>4, TapEffect DEF InHand, TypeOK, Enqueues, Pending, Idle
<1>5. ASSUME NEW k \in Keys, ComesDue(k) PROVE InHand'
  BY <1>5 DEF ComesDue, InHand, TypeOK
<1>6. ASSUME NEW k \in Keys, Reopen(k) PROVE InHand'
  BY <1>6 DEF Reopen, InHand, TypeOK
<1>7. ASSUME NEW k \in Keys, Ask(k) PROVE InHand'
  BY <1>7 DEF Ask, InHand, TypeOK, Idle, Steps
<1>8. ASSUME NEW k \in Keys, Release(k) PROVE InHand'
  BY <1>8 DEF Release, InHand, TypeOK, Idle
<1>9. CASE NextDue
  BY <1>9 DEF NextDue, InHand, TypeOK, Idle
<1>10. CASE ApplyUpload
  BY <1>10, UnderWay, GoesTo DEF ApplyUpload, InHand, Steps
<1>11. CASE ApplyMark
  BY <1>11, UnderWay, GoesTo DEF ApplyMark, InHand, Steps
<1>12. CASE ApplyReport
  BY <1>12, UnderWay, GoesTo DEF ApplyReport, InHand, Steps
<1>13. CASE BringForward
  BY <1>13, UnderWay, GoesTo DEF BringForward, InHand, Steps, TypeOK
<1>14. CASE UndoMark
  BY <1>14, UnderWay, GoesTo DEF UndoMark, InHand, Steps
<1>15. CASE UndoReport
  BY <1>15, UnderWay, GoesTo DEF UndoReport, InHand, Steps
<1>16. CASE Resync
  BY <1>16, UnderWay, GoesTo DEF Resync, InHand, Steps
<1>17. CASE Done
  BY <1>17 DEF Done, InHand, TypeOK, Idle, Closes
<1>18. CASE Retry
  BY <1>18 DEF Retry, InHand, TypeOK, Idle, Closes
<1>19. CASE Refuse
  BY <1>19, UnderWay, GoesTo DEF Refuse, Closes, InHand, TypeOK, Steps
<1>20. CASE MarkFailed
  BY <1>20, UnderWay, GoesTo DEF MarkFailed, Closes, InHand, TypeOK, Steps, Idle
<1>21. CASE ShowRefusal
  BY <1>21 DEF ShowRefusal, InHand, Idle
<1>22. CASE ServeUpload
  BY <1>22, ServeEffect DEF InHand, Serve
<1>23. CASE ServeMark
  BY <1>23, ServeEffect DEF InHand, Serve
<1>24. CASE ServeReport
  BY <1>24, ServeEffect DEF InHand, Serve
<1>25. CASE Undecided
  BY <1>25, ServeEffect DEF InHand
<1>26. CASE Hear
  BY <1>26, UnderWay, GoesTo, AfterSteps DEF Hear, InHand, Steps
<1>27. CASE Lose
  BY <1>27, UnderWay, GoesTo DEF Lose, InHand, Steps
<1>28. CASE Reread
  BY <1>28, UnderWay, GoesTo DEF Reread, InHand, Steps
<1>29. CASE RereadFails
  BY <1>29, UnderWay, GoesTo DEF RereadFails, InHand, Steps
<1>30. CASE Throws
  BY <1>30, ThrowsTo DEF InHand, Idle
<1>31. CASE Kill
  BY <1>31 DEF Kill, InHand, TypeOK, Idle
<1>32. CASE OtherPhoneReports
  BY <1>32 DEF OtherPhoneReports, InHand, TypeOK
<1>33. CASE UNCHANGED vars
  BY <1>33 DEF vars, InHand
<1> QED
  BY <1>1, <1>2, <1>3, <1>4, <1>5, <1>6, <1>7, <1>8, <1>9, <1>10, <1>11, <1>12, <1>13, <1>14, <1>15,
     <1>16, <1>17, <1>18, <1>19, <1>20, <1>21, <1>22, <1>23, <1>24, <1>25, <1>26, <1>27, <1>28,
     <1>29, <1>30, <1>31, <1>32, <1>33
     DEF Next, Runner, Serve, Apply, Undo, Settle

-----------------------------------------------------------------------------
(* The drive's beginning. *)

\* Nothing is owed of a drive before it is finished, and its upload always after.
LEMMA BegunStep ==
  ASSUME TypeOK, InHand, Begun, Told, [Next]_vars
  PROVE  Begun'
<1> USE DEF Keys
<1>1. CASE FinishDrive
  BY <1>1 DEF FinishDrive, Begun, TypeOK
<1>2. CASE TapMark
  BY <1>2 DEF TapMark, Begun, Kept
<1>3. CASE MarkNotDriving
  BY <1>3, TapEffect DEF MarkNotDriving, Begun, TypeOK
<1>4. CASE ReportEvent
  BY <1>4, TapEffect DEF ReportEvent, Begun, TypeOK
<1>5. ASSUME NEW k \in Keys, ComesDue(k) PROVE Begun'
  BY <1>5 DEF ComesDue, Begun, TypeOK, Pending
<1>6. ASSUME NEW k \in Keys, Reopen(k) PROVE Begun'
  BY <1>6 DEF Reopen, Begun, TypeOK, Pending
<1>7. ASSUME NEW k \in Keys, Ask(k) PROVE Begun'
  BY <1>7 DEF Ask, Begun, TypeOK, Idle, InHand
<1>8. ASSUME NEW k \in Keys, Release(k) PROVE Begun'
  BY <1>8 DEF Release, Begun, TypeOK, InHand
<1>9. CASE NextDue
  BY <1>9 DEF NextDue, Begun, TypeOK, Idle
<1>10. CASE ApplyUpload
  BY <1>10 DEF ApplyUpload, Begun, TypeOK, Idle, Verdict
<1>11. CASE ApplyMark
  BY <1>11 DEF ApplyMark, Begun, TypeOK, Idle
<1>12. CASE ApplyReport
  BY <1>12 DEF ApplyReport, Begun, TypeOK, Idle
<1>13. CASE BringForward
  BY <1>13 DEF BringForward, Begun, TypeOK, Idle
<1>14. CASE UndoMark
  BY <1>14, UnderWay DEF UndoMark, Unmarked, Begun, TypeOK, Kept
<1>15. CASE UndoReport
  BY <1>15 DEF UndoReport, Begun, TypeOK, Idle
<1>16. CASE Resync
  BY <1>16 DEF Resync, Begun, TypeOK, Idle, Verdict
<1>17. CASE Done
  BY <1>17 DEF Done, Begun, TypeOK, Closes, Idle
<1>18. CASE Retry
  BY <1>18 DEF Retry, Begun, TypeOK, Closes, Idle
<1>19. CASE Refuse
  BY <1>19 DEF Refuse, Begun, TypeOK, Closes, Idle
<1>20. CASE MarkFailed
  BY <1>20 DEF MarkFailed, Begun, TypeOK, Closes, Idle
<1>21. CASE ShowRefusal
  BY <1>21 DEF ShowRefusal, Begun, TypeOK, Idle
<1>22. CASE ServeUpload
  BY <1>22, ServeEffect DEF Begun, Serve, Idle
<1>23. CASE ServeMark
  BY <1>23, ServeEffect DEF Begun, Serve, Idle
<1>24. CASE ServeReport
  BY <1>24, ServeEffect DEF Begun, Serve, Idle
<1>25. CASE Undecided
  BY <1>25, ServeEffect DEF Begun, Idle
<1>26. CASE Hear
  BY <1>26 DEF Hear, Begun, TypeOK, Idle
<1>27. CASE Lose
  BY <1>27 DEF Lose, Begun, TypeOK, Idle
<1>28. CASE Reread
  BY <1>28 DEF Reread, Begun, TypeOK, Idle
<1>29. CASE RereadFails
  BY <1>29 DEF RereadFails, Begun, TypeOK, Idle
<1>30. CASE Throws
  BY <1>30, ThrowsTo DEF Begun, Idle
<1>31. CASE Kill
  BY <1>31 DEF Kill, Begun, Idle
<1>32. CASE OtherPhoneReports
  BY <1>32 DEF OtherPhoneReports, Begun
<1>33. CASE UNCHANGED vars
  BY <1>33 DEF vars, Begun
<1> QED
  BY <1>1, <1>2, <1>3, <1>4, <1>5, <1>6, <1>7, <1>8, <1>9, <1>10, <1>11, <1>12, <1>13, <1>14, <1>15,
     <1>16, <1>17, <1>18, <1>19, <1>20, <1>21, <1>22, <1>23, <1>24, <1>25, <1>26, <1>27, <1>28,
     <1>29, <1>30, <1>31, <1>32, <1>33
     DEF Next, Runner, Serve, Apply, Undo, Settle

-----------------------------------------------------------------------------
(* What the server said. *)

\* No step writes of the drive what the server did not say.
LEMMA ToldStep ==
  ASSUME TypeOK, Begun, Told, Rests, [Next]_vars
  PROVE  Told'
<1> USE DEF Keys
<1>1. CASE FinishDrive
  BY <1>1 DEF FinishDrive, Told, TypeOK, CleanOf, Begun
<1>2. CASE TapMark
  BY <1>2 DEF TapMark, Told, TypeOK
<1>3. CASE MarkNotDriving
  BY <1>3, TapEffect DEF MarkNotDriving, Told, TypeOK
<1>4. CASE ReportEvent
  BY <1>4, TapEffect DEF ReportEvent, Told, TypeOK
<1>5. ASSUME NEW k \in Keys, ComesDue(k) PROVE Told'
  BY <1>5 DEF ComesDue, Told, TypeOK
<1>6. ASSUME NEW k \in Keys, Reopen(k) PROVE Told'
  BY <1>6 DEF Reopen, Told, TypeOK
<1>7. ASSUME NEW k \in Keys, Ask(k) PROVE Told'
  BY <1>7 DEF Ask, Told, TypeOK
<1>8. ASSUME NEW k \in Keys, Release(k) PROVE Told'
  BY <1>8 DEF Release, Told, TypeOK
<1>9. CASE NextDue
  BY <1>9 DEF NextDue, Told, TypeOK
<1>10. CASE ApplyUpload
  BY <1>10 DEF ApplyUpload, Told, TypeOK, CleanOf, Verdict, Rests, AnswerHolds
<1>11. CASE ApplyMark
  BY <1>11 DEF ApplyMark, Told, TypeOK
<1>12. CASE ApplyReport
  BY <1>12 DEF ApplyReport, Told, TypeOK, Rests, AnswerHolds
<1>13. CASE BringForward
  BY <1>13 DEF BringForward, Told, TypeOK
<1>14. CASE UndoMark
  BY <1>14 DEF UndoMark, Told, TypeOK, Unmarked, CleanOf, Verdict
<1>15. CASE UndoReport
  BY <1>15 DEF UndoReport, Told, TypeOK
<1>16. CASE Resync
  BY <1>16 DEF Resync, Told, TypeOK, CleanOf, Verdict, Rests
<1>17. CASE Done
  BY <1>17 DEF Done, Told, TypeOK, Closes, Rests
<1>18. CASE Retry
  BY <1>18 DEF Retry, Told, TypeOK, Closes
<1>19. CASE Refuse
  BY <1>19 DEF Refuse, Told, TypeOK, Closes
<1>20. CASE MarkFailed
  BY <1>20 DEF MarkFailed, Told, TypeOK, Closes
<1>21. CASE ShowRefusal
  BY <1>21 DEF ShowRefusal, Told, TypeOK
<1>22. CASE ServeUpload
  BY <1>22, ServeEffect DEF Told, TypeOK, Verdict, Serve
<1>23. CASE ServeMark
  BY <1>23, ServeEffect DEF Told, TypeOK, Verdict, Serve
<1>24. CASE ServeReport
  BY <1>24, ServeEffect DEF Told, TypeOK, Verdict, Serve
<1>25. CASE Undecided
  BY <1>25, ServeEffect DEF Told, TypeOK, Verdict
<1>26. CASE Hear
  BY <1>26 DEF Hear, Told, TypeOK
<1>27. CASE Lose
  BY <1>27 DEF Lose, Told, TypeOK
<1>28. CASE Reread
  BY <1>28 DEF Reread, Told, TypeOK
<1>29. CASE RereadFails
  BY <1>29 DEF RereadFails, Told, TypeOK
<1>30. CASE Throws
  BY <1>30, ThrowsTo DEF Told
<1>31. CASE Kill
  BY <1>31 DEF Kill, Told
<1>32. CASE OtherPhoneReports
  BY <1>32 DEF OtherPhoneReports, Told, TypeOK, Verdict
<1>33. CASE UNCHANGED vars
  BY <1>33 DEF vars, Told
<1> QED
  BY <1>1, <1>2, <1>3, <1>4, <1>5, <1>6, <1>7, <1>8, <1>9, <1>10, <1>11, <1>12, <1>13, <1>14, <1>15,
     <1>16, <1>17, <1>18, <1>19, <1>20, <1>21, <1>22, <1>23, <1>24, <1>25, <1>26, <1>27, <1>28,
     <1>29, <1>30, <1>31, <1>32, <1>33
     DEF Next, Runner, Serve, Apply, Undo, Settle

\* A mark the server took stays owed until the phone says so too, whatever answers are lost and tries refused.
LEMMA MarkHeldStep ==
  ASSUME TypeOK, InHand, Begun, Told, Rests, MarkHeld, [Next]_vars
  PROVE  MarkHeld'
<1> USE DEF Keys
<1>1. CASE FinishDrive
  BY <1>1 DEF FinishDrive, MarkHeld, TypeOK, Begun, Told, Owed, Pending
<1>2. CASE TapMark
  BY <1>2 DEF TapMark, MarkHeld, TypeOK
<1>3. CASE MarkNotDriving
  BY <1>3 DEF MarkNotDriving, MarkHeld, TypeOK
<1>4. CASE ReportEvent
  BY <1>4, TapEffect DEF ReportEvent, MarkHeld, Owed, Pending, TypeOK, Keys
<1>5. ASSUME NEW k \in Keys, ComesDue(k) PROVE MarkHeld'
  BY <1>5 DEF ComesDue, MarkHeld, TypeOK, Owed, Pending, InHand
<1>6. ASSUME NEW k \in Keys, Reopen(k) PROVE MarkHeld'
  BY <1>6 DEF Reopen, MarkHeld, TypeOK, Owed, Pending
<1>7. ASSUME NEW k \in Keys, Ask(k) PROVE MarkHeld'
  BY <1>7 DEF Ask, MarkHeld, TypeOK
<1>8. ASSUME NEW k \in Keys, Release(k) PROVE MarkHeld'
  BY <1>8 DEF Release, MarkHeld, TypeOK, Owed, Pending
<1>9. CASE NextDue
  BY <1>9 DEF NextDue, MarkHeld, TypeOK, Owed, Pending
<1>10. CASE ApplyUpload
  BY <1>10 DEF ApplyUpload, MarkHeld, TypeOK
<1>11. CASE ApplyMark
  BY <1>11 DEF ApplyMark, MarkHeld, TypeOK
<1>12. CASE ApplyReport
  BY <1>12 DEF ApplyReport, MarkHeld, TypeOK
<1>13. CASE BringForward
  BY <1>13 DEF BringForward, MarkHeld, TypeOK, Owed, Pending
<1>14. CASE UndoMark
  BY <1>14 DEF UndoMark, MarkHeld, TypeOK, Rests
<1>15. CASE UndoReport
  BY <1>15 DEF UndoReport, MarkHeld, TypeOK
<1>16. CASE Resync
  BY <1>16 DEF Resync, MarkHeld, TypeOK
<1>17. CASE Done
  BY <1>17 DEF Done, MarkHeld, TypeOK, Closes, Rests, Owed
<1>18. CASE Retry
  BY <1>18 DEF Retry, MarkHeld, TypeOK, Closes, Owed, Pending
<1>19. CASE Refuse
  BY <1>19 DEF Refuse, MarkHeld, TypeOK, Closes, Owed, Pending
<1>20. CASE MarkFailed
  BY <1>20 DEF MarkFailed, MarkHeld, TypeOK, Closes, Rests, Owed, Pending
<1>21. CASE ShowRefusal
  BY <1>21 DEF ShowRefusal, MarkHeld, TypeOK
<1>22. CASE ServeUpload
  BY <1>22, ServeEffect DEF ServeUpload, Serve, MarkHeld, TypeOK
<1>23. CASE ServeMark
  BY <1>23, ServeEffect DEF Serve, ServeMark, MarkHeld, InHand, Owed
<1>24. CASE ServeReport
  BY <1>24, ServeEffect DEF ServeReport, Serve, MarkHeld, TypeOK
<1>25. CASE Undecided
  BY <1>25, ServeEffect DEF Undecided, MarkHeld, TypeOK
<1>26. CASE Hear
  BY <1>26 DEF Hear, MarkHeld, TypeOK
<1>27. CASE Lose
  BY <1>27 DEF Lose, MarkHeld, TypeOK
<1>28. CASE Reread
  BY <1>28 DEF Reread, MarkHeld, TypeOK
<1>29. CASE RereadFails
  BY <1>29 DEF RereadFails, MarkHeld, TypeOK
<1>30. CASE Throws
  BY <1>30, ThrowsTo DEF MarkHeld
<1>31. CASE Kill
  BY <1>31 DEF Kill, MarkHeld, TypeOK
<1>32. CASE OtherPhoneReports
  BY <1>32 DEF OtherPhoneReports, MarkHeld, TypeOK
<1>33. CASE UNCHANGED vars
  BY <1>33 DEF vars, MarkHeld
<1> QED
  BY <1>1, <1>2, <1>3, <1>4, <1>5, <1>6, <1>7, <1>8, <1>9, <1>10, <1>11, <1>12, <1>13, <1>14, <1>15,
     <1>16, <1>17, <1>18, <1>19, <1>20, <1>21, <1>22, <1>23, <1>24, <1>25, <1>26, <1>27, <1>28,
     <1>29, <1>30, <1>31, <1>32, <1>33
     DEF Next, Runner, Serve, Apply, Undo, Settle

\* Each step of an item passes on what its answer said.
LEMMA RestsStep ==
  ASSUME TypeOK, InHand, Begun, Told, Rests, [Next]_vars
  PROVE  Rests'
<1> USE DEF Keys
<1>1. CASE FinishDrive
  BY <1>1 DEF FinishDrive, Begun, Rests, Idle
<1>2. CASE TapMark
  BY <1>2 DEF TapMark, Rests, AnswerHolds, TypeOK, Owed, Pending
<1>3. CASE MarkNotDriving
  BY <1>3, TapEffect DEF MarkNotDriving, Rests, AnswerHolds, Begun, Owed, Pending, TypeOK, Enqueues
<1>4. CASE ReportEvent
  BY <1>4, TapEffect DEF ReportEvent, Rests, AnswerHolds, Begun, Owed, Pending, TypeOK, Enqueues
<1>5. ASSUME NEW k \in Keys, ComesDue(k) PROVE Rests'
  BY <1>5 DEF ComesDue, Rests, AnswerHolds, TypeOK, Owed, Pending
<1>6. ASSUME NEW k \in Keys, Reopen(k) PROVE Rests'
  BY <1>6 DEF Reopen, Rests, AnswerHolds, TypeOK, Owed, Pending
<1>7. ASSUME NEW k \in Keys, Ask(k) PROVE Rests'
  BY <1>7 DEF Ask, Rests
<1>8. ASSUME NEW k \in Keys, Release(k) PROVE Rests'
  BY <1>8 DEF Release, Rests, Idle
<1>9. CASE NextDue
  BY <1>9 DEF NextDue, Rests, AnswerHolds, TypeOK, Owed, Pending
<1>10. CASE ApplyUpload
  BY <1>10, UnderWay, GoesTo DEF ApplyUpload, Rests, AnswerHolds, Steps, TypeOK
<1>11. CASE ApplyMark
  BY <1>11, UnderWay, GoesTo DEF ApplyMark, Rests, AnswerHolds, Steps, TypeOK
<1>12. CASE ApplyReport
  BY <1>12, UnderWay, GoesTo DEF ApplyReport, Rests, AnswerHolds, Steps, TypeOK
<1>13. CASE BringForward
  BY <1>13, UnderWay, GoesTo DEF BringForward, Rests, AnswerHolds, Steps, TypeOK
<1>14. CASE UndoMark
  BY <1>14, UnderWay, GoesTo DEF UndoMark, Rests, AnswerHolds, Steps, TypeOK
<1>15. CASE UndoReport
  BY <1>15, UnderWay, GoesTo DEF UndoReport, Rests, AnswerHolds, Steps, TypeOK
<1>16. CASE Resync
  BY <1>16, UnderWay, GoesTo DEF Resync, Rests, AnswerHolds, Steps, TypeOK
<1>17. CASE Done
  BY <1>17 DEF Done, Rests, Idle
<1>18. CASE Retry
  BY <1>18 DEF Retry, Rests, Idle
<1>19. CASE Refuse
  BY <1>19, UnderWay, GoesTo DEF Refuse, Rests, AnswerHolds, Steps, TypeOK, Closes
<1>20. CASE MarkFailed
  BY <1>20, UnderWay, GoesTo DEF MarkFailed, Rests, Steps, Idle
<1>21. CASE ShowRefusal
  BY <1>21 DEF ShowRefusal, Rests, Idle
<1>22. CASE ServeUpload
  BY <1>22, ServeEffect DEF Rests, Serve
<1>23. CASE ServeMark
  BY <1>23, ServeEffect DEF Rests, Serve
<1>24. CASE ServeReport
  BY <1>24, ServeEffect DEF Rests, Serve
<1>25. CASE Undecided
  BY <1>25, ServeEffect DEF Rests
<1>26. CASE Hear
  BY <1>26, UnderWay, GoesTo, AfterSteps DEF Hear, After, Rests, AnswerHolds, Told, Begun, Owed, Pending, Steps
<1>27. CASE Lose
  BY <1>27, UnderWay, GoesTo DEF Lose, Rests, AnswerHolds, Steps, TypeOK
<1>28. CASE Reread
  BY <1>28, UnderWay, GoesTo DEF Reread, Rests, AnswerHolds, Steps, TypeOK
<1>29. CASE RereadFails
  BY <1>29, UnderWay, GoesTo DEF RereadFails, Rests, AnswerHolds, Steps, TypeOK
<1>30. CASE Throws
  BY <1>30, ThrowsTo DEF Rests, AnswerHolds, Idle
<1>31. CASE Kill
  BY <1>31 DEF Kill, Rests, Idle
<1>32. CASE OtherPhoneReports
  BY <1>32 DEF OtherPhoneReports, Rests, AnswerHolds, TypeOK
<1>33. CASE UNCHANGED vars
  BY <1>33 DEF vars, Rests, AnswerHolds
<1> QED
  BY <1>1, <1>2, <1>3, <1>4, <1>5, <1>6, <1>7, <1>8, <1>9, <1>10, <1>11, <1>12, <1>13, <1>14, <1>15,
     <1>16, <1>17, <1>18, <1>19, <1>20, <1>21, <1>22, <1>23, <1>24, <1>25, <1>26, <1>27, <1>28,
     <1>29, <1>30, <1>31, <1>32, <1>33
     DEF Next, Runner, Serve, Apply, Undo, Settle

-----------------------------------------------------------------------------
(* Theorems. *)

\* The inductive invariant.
Inv == TypeOK /\ SyncInv

\* Inv holds throughout.
LEMMA Inductive == Spec => []Inv
<1>1. Init => Inv
  <2>1. Init => TypeOK
    BY TypeInit
  <2>2. Init => SyncInv
    BY DEF Init, SyncInv, InHand, Begun, Told, Rests, MarkHeld, Idle, Keys
  <2> QED
    BY <2>1, <2>2 DEF Inv
<1>2. Inv /\ [Next]_vars => Inv'
  <2> SUFFICES ASSUME Inv, [Next]_vars PROVE Inv'
    OBVIOUS
  <2>1. TypeOK /\ InHand /\ Begun /\ Told /\ Rests /\ MarkHeld
    BY DEF Inv, SyncInv
  <2>2. TypeOK' /\ InHand' /\ Begun' /\ Told' /\ Rests' /\ MarkHeld'
    BY <2>1, TypeStep, InHandStep, BegunStep, ToldStep, RestsStep, MarkHeldStep
  <2> QED
    BY <2>2 DEF Inv, SyncInv
<1> QED
  BY <1>1, <1>2, PTL DEF Spec

\* Every reachable state is well typed, whatever is tapped, lost, thrown or killed.
THEOREM TypeCorrect == Spec => []TypeOK
<1>1. Inv => TypeOK
  BY DEF Inv
<1> QED
  BY <1>1, Inductive, PTL

\* The phone calls a drive clean only if the server scored it and accepted a report of it (runner.ts's finish and
\* resync).
THEOREM NotFlattered == Spec => []NeverFlattered
<1>1. Inv => NeverFlattered
  BY DEF Inv, SyncInv, Told, NeverFlattered
<1> QED
  BY <1>1, Inductive, PTL

\* Once nothing is left to send, a drive the server has marked is marked on the phone (runner.ts's undo).
THEOREM MarkKept == Spec => []ServerMarkKept
<1>1. Inv => ServerMarkKept
  BY DEF Inv, SyncInv, MarkHeld, ServerMarkKept, AtRest, Keys
<1> QED
  BY <1>1, Inductive, PTL

\* The two steps that take back a mark, the undo and the resync, come after an answer of a server that has the drive.
LEMMA UndoneStep ==
  ASSUME Inv, [Next]_vars, trip.status = "not_driving", trip'.status # "not_driving"
  PROVE  server.held
<1>1. TypeOK /\ Begun /\ Told /\ Rests
  BY DEF Inv, SyncInv
<1>2. CASE UndoMark
  <2>1. ~OnlyOnThisPhone /\ job.at = "undo" /\ job.key = "mark"
    BY <1>2 DEF UndoMark
  <2>2. ~Owed(item["upload"]) /\ item["upload"] # "refused" => item["upload"] = "done"
    BY <1>1 DEF TypeOK, Begun, Owed, Keys
  <2> QED
    BY <1>1, <2>1, <2>2 DEF Rests, Told, OnlyOnThisPhone
<1>3. CASE Resync
  BY <1>1, <1>3 DEF Resync, Rests, Told
<1>4. CASE Apply
  <2>1. CASE ApplyUpload
    BY <2>1 DEF ApplyUpload
  <2>2. CASE ApplyMark \/ ApplyReport
    BY <1>1, <2>2 DEF ApplyMark, ApplyReport, TypeOK
  <2> QED
    BY <1>4, <2>1, <2>2 DEF Apply
<1>5. CASE FinishDrive \/ MarkNotDriving \/ ShowRefusal
  BY <1>1, <1>5 DEF FinishDrive, MarkNotDriving, ShowRefusal, TypeOK
<1>6. CASE Serve
  BY <1>6 DEF Serve, ServeUpload, ServeMark, ServeReport, Answered
<1>7. CASE NextDue \/ BringForward \/ UndoReport \/ Done \/ Retry \/ Refuse \/ MarkFailed
  BY <1>7 DEF NextDue, BringForward, UndoReport, Done, Retry, Refuse, MarkFailed
<1>8. CASE Undecided \/ Hear \/ Lose \/ Reread \/ RereadFails \/ Throws \/ Kill \/ OtherPhoneReports
  BY <1>8 DEF Undecided, Answered, Hear, Lose, Reread, RereadFails, Throws, Kill, OtherPhoneReports
<1>9. CASE TapMark \/ ReportEvent \/ \E k \in Keys : ComesDue(k) \/ Reopen(k) \/ Ask(k) \/ Release(k)
  BY <1>9 DEF TapMark, ReportEvent, ComesDue, Reopen, Ask, Release
<1> QED
  BY <1>2, <1>3, <1>4, <1>5, <1>6, <1>7, <1>8, <1>9 DEF Next, Runner, Undo, Settle, vars

\* A "Wasn't driving" is taken back only for a drive the server holds (runner.ts's undo).
THEOREM UndoneHeld == Spec => UndoneOnlyIfHeld
<1>1. Inv /\ [Next]_vars => [trip.status = "not_driving" /\ trip'.status # "not_driving" => server.held]_vars
  BY UndoneStep
<1> QED
  BY <1>1, Inductive, PTL DEF Spec, UndoneOnlyIfHeld

-----------------------------------------------------------------------------
(* Implementing Delivery. *)

\* What the outbox has promised of the drive's three items.
P == [k \in Keys |-> Promise(item[k])]
DVars == <<P, 0>>

\* A step that leaves every item owed that was, and touches no other.
LEMMA SamePromise ==
  ASSUME \A k \in Keys : item'[k] = item[k] \/ (Owed(item[k]) /\ Owed(item'[k]))
  PROVE  UNCHANGED DVars
BY DEF P, DVars, Promise

\* A step of one item, the others' promise kept.
LEMMA OneMoves ==
  ASSUME NEW j \in Keys, NEW from, NEW to, Promise(item[j]) \in from, Promise(item'[j]) = to,
         \A k \in Keys \ {j} : item'[k] = item[k] \/ (Owed(item[k]) /\ Owed(item'[k]))
  PROVE  D!Move({j}, from, to)
<1>1. \A k \in Keys \ {j} : Promise(item'[k]) = Promise(item[k])
  BY DEF Promise
<1> QED
  BY <1>1 DEF D!Move

\* A key that is queued, or queued again, is a submission, or was owed all along.
LEMMA Submits ==
  ASSUME NEW j \in Keys, item[j] \in {"absent", "ranout", "refused"}, item'[j] = "due",
         \A k \in Keys \ {j} : item'[k] = item[k] \/ (Owed(item[k]) /\ Owed(item'[k]))
  PROVE  [D!Next]_DVars
<1>1. CASE item[j] = "ranout"
  BY <1>1, SamePromise DEF Owed, Pending
<1>2. CASE item[j] # "ranout"
  <2>1. Promise(item[j]) \in {"absent", "refused", "parked"} /\ Promise(item'[j]) = "owed"
    BY <1>2 DEF Promise, Owed, Pending
  <2> DEFINE from == {"absent", "refused", "parked"}
  <2>2. D!Move({j}, from, "owed")
    <3> HIDE DEF from
    <3>1. Promise(item[j]) \in from
      BY <2>1 DEF from
    <3> QED
      BY <2>1, <3>1, OneMoves
  <2>3. D!Submit(j)
    BY <2>2 DEF D!Submit
  <2> QED
    BY <2>3 DEF D!Next
<1> QED
  BY <1>1, <1>2

\* An item the runner closes: taken, refused for good, or owed still.
LEMMA ClosePromise ==
  ASSUME Inv, NEW j \in Keys, NEW s, Owed(item[j]), s \in {"done", "refused"} \/ Owed(s),
         item' = [item EXCEPT ![j] = s]
  PROVE  [D!Next]_DVars
<1>1. item'[j] = s /\ \A k \in Keys \ {j} : item'[k] = item[k]
  BY DEF Inv, TypeOK
<1>2. CASE Owed(s)
  BY <1>1, <1>2, SamePromise
<1>3. CASE s = "done"
  <2>1. D!Deliver(j)
    BY <1>1, <1>3, OneMoves DEF D!Deliver, Promise, Owed, Pending
  <2> QED
    BY <2>1 DEF D!Next
<1>4. CASE s = "refused"
  <2>1. D!Refuse(j)
    BY <1>1, <1>4, OneMoves DEF D!Refuse, Promise, Owed, Pending
  <2> QED
    BY <2>1 DEF D!Next
<1> QED
  BY <1>2, <1>3, <1>4

\* A tap submits at most its own item.
LEMMA TapPromise ==
  ASSUME Inv, MarkNotDriving \/ ReportEvent
  PROVE  [D!Next]_DVars
<1>1. \E j \in Keys : \A k \in Keys \ {j} : item'[k] = item[k] \/ (item'[k] = "due" /\ item[k] = "waiting")
  BY DEF Inv, TypeOK, MarkNotDriving, ReportEvent, MadeDue, Keys
<1>2. PICK j \in Keys : \A k \in Keys \ {j} : item'[k] = item[k] \/ (item'[k] = "due" /\ item[k] = "waiting")
  BY <1>1
<1>3. \/ item'[j] = item[j]
      \/ item'[j] = "due" /\ item[j] \in {"waiting", "absent", "ranout", "refused"}
  BY TapEffect DEF Inv, Enqueues
<1>4. \A k \in Keys \ {j} : item'[k] = item[k] \/ (Owed(item[k]) /\ Owed(item'[k]))
  BY <1>2 DEF Owed, Pending
<1>5. CASE item'[j] = item[j] \/ item[j] = "waiting"
  BY <1>3, <1>4, <1>5, SamePromise DEF Owed, Pending
<1>6. CASE item'[j] = "due" /\ item[j] \in {"absent", "ranout", "refused"}
  BY <1>4, <1>6, Submits
<1> QED
  BY <1>3, <1>5, <1>6

\* Every step is one of Delivery's, or none.
LEMMA PromiseStep ==
  ASSUME Inv, [Next]_vars
  PROVE  [D!Next]_DVars
<1>1. TypeOK /\ InHand /\ Begun
  BY DEF Inv, SyncInv
<1>2. CASE FinishDrive
  <2>1. item["upload"] = "absent" /\ item' = [item EXCEPT !["upload"] = "due"]
    BY <1>1, <1>2 DEF FinishDrive, Begun, Keys
  <2> QED
    BY <1>1, <2>1, Submits DEF TypeOK, Keys
<1>3. CASE MarkNotDriving \/ ReportEvent
  BY <1>3, TapPromise
<1>4. CASE \E k \in Keys : ComesDue(k) \/ Reopen(k) \/ Release(k)
  BY <1>1, <1>4, SamePromise DEF ComesDue, Reopen, Release, InHand, TypeOK, Owed, Pending
<1>5. CASE NextDue
  BY <1>1, <1>5, SamePromise DEF NextDue, TypeOK, Owed, Pending
<1>6. CASE BringForward
  BY <1>1, <1>6, SamePromise DEF BringForward, TypeOK, Owed, Pending, Keys
<1>7. CASE Done \/ Retry \/ Refuse
  <2>1. PICK s \in {"done", "due", "later", "ranout"} : item' = [item EXCEPT ![job.key] = s]
    BY <1>7 DEF Done, Retry, Refuse, Closes
  <2>2. item[job.key] = "sending" /\ job.key \in Keys
    BY <1>1, <1>7, UnderWay DEF Done, Retry, Refuse, InHand
  <2> QED
    BY <2>1, <2>2, ClosePromise DEF Owed, Pending
<1>8. CASE MarkFailed
  <2>1. job.key \in Keys
    BY <1>1, <1>8, UnderWay DEF MarkFailed
  <2>2. CASE item[job.key] \in Pending \cup {"ranout"}
    <3>1. item' = [item EXCEPT ![job.key] = "refused"]
      BY <1>8, <2>2 DEF MarkFailed, Closes
    <3> QED
      BY <2>1, <2>2, <3>1, ClosePromise DEF Owed
  <2>3. CASE item[job.key] \notin Pending \cup {"ranout"}
    BY <1>1, <1>8, <2>1, <2>3, SamePromise DEF MarkFailed, Closes, TypeOK
  <2> QED
    BY <2>2, <2>3
<1>9. CASE UNCHANGED item
  BY <1>9, SamePromise
<1>10. CASE Serve \/ Undecided
  BY <1>9, <1>10 DEF Serve, ServeUpload, ServeMark, ServeReport, Undecided, Answered
<1>11. CASE Apply \/ Undo \/ Resync \/ ShowRefusal
  BY <1>9, <1>11 DEF Apply, ApplyUpload, ApplyMark, ApplyReport, Undo, UndoMark, UndoReport, Resync, ShowRefusal
<1>12. CASE Hear \/ Lose \/ Reread \/ RereadFails \/ Throws
  BY <1>9, <1>12 DEF Hear, Lose, Reread, RereadFails, Throws
<1>13. CASE TapMark \/ Kill \/ OtherPhoneReports \/ \E k \in Keys : Ask(k)
  BY <1>9, <1>13 DEF TapMark, Kill, OtherPhoneReports, Ask
<1>14. CASE UNCHANGED vars
  BY <1>9, <1>14 DEF vars
<1> QED
  BY <1>2, <1>3, <1>4, <1>5, <1>6, <1>7, <1>8, <1>10, <1>11, <1>12, <1>13, <1>14 DEF Next, Runner, Settle

\* The drive's three items keep the promise of Delivery: owed until the server took or refused them, whatever
\* the runner is in the middle of.
THEOREM KeepsPromise == Spec => KeepsItsPromise
<1>1. Init => D!Init
  BY DEF Init, D!Init, Promise, Owed, Pending
<1>2. Inv /\ [Next]_vars => [D!Next]_DVars
  BY PromiseStep
<1> QED
  BY <1>1, <1>2, Inductive, PTL DEF Spec, KeepsItsPromise, D!Spec, P, DVars

-----------------------------------------------------------------------------
(* The report and its event. *)

\* Once the report is done the event says what the server decided; once it is refused, that it was rejected. The
\* item between its undo and its settlement has the event at rejected already.
ReportInv ==
  /\ event = "none" <=> item["report"] = "absent"
  /\ item["report"] = "refused" => event = "rejected"
  /\ item["report"] = "done" \/ (job.at = "done" /\ job.key = "report") => event = server.report /\ event # "none"
  /\ job.at \in {"refuse", "fail"} /\ job.key = "report" => event = "rejected"

\* Without a thrown step, no step parts the event from its report.
LEMMA ReportInvStep ==
  ASSUME MaxFaults = 0, TypeOK, InHand, Begun, Told, Rests, ReportInv, [Next]_vars
  PROVE  ReportInv'
<1> USE DEF Keys
<1>1. CASE FinishDrive
  BY <1>1 DEF FinishDrive, ReportInv, TypeOK, Begun
<1>2. CASE TapMark
  BY <1>2 DEF TapMark, ReportInv, TypeOK
<1>3. CASE MarkNotDriving
  BY <1>3, TapEffect DEF MarkNotDriving, MadeDue, ReportInv, TypeOK
<1>4. CASE ReportEvent
  BY <1>4 DEF ReportEvent, MadeDue, Enqueues, ReportInv, TypeOK, Rests, InHand
<1>5. ASSUME NEW k \in Keys, ComesDue(k) PROVE ReportInv'
  BY <1>5 DEF ComesDue, ReportInv, TypeOK
<1>6. ASSUME NEW k \in Keys, Reopen(k) PROVE ReportInv'
  BY <1>6 DEF Reopen, ReportInv, TypeOK
<1>7. ASSUME NEW k \in Keys, Ask(k) PROVE ReportInv'
  BY <1>7 DEF Ask, ReportInv, TypeOK, Idle
<1>8. ASSUME NEW k \in Keys, Release(k) PROVE ReportInv'
  BY <1>8 DEF Release, ReportInv, TypeOK, InHand
<1>9. CASE NextDue
  BY <1>9 DEF NextDue, ReportInv, TypeOK
<1>10. CASE ApplyUpload
  BY <1>10, UnderWay, GoesTo DEF ApplyUpload, ReportInv, TypeOK, Steps
<1>11. CASE ApplyMark
  BY <1>11, UnderWay, GoesTo DEF ApplyMark, ReportInv, TypeOK, Steps
<1>12. CASE ApplyReport
  BY <1>12, UnderWay, GoesTo DEF ApplyReport, ReportInv, TypeOK, Steps, Rests, AnswerHolds, InHand
<1>13. CASE BringForward
  BY <1>13, UnderWay, GoesTo DEF BringForward, ReportInv, TypeOK, Steps, Rests
<1>14. CASE UndoMark
  BY <1>14, UnderWay, GoesTo DEF UndoMark, ReportInv, TypeOK, Steps
<1>15. CASE UndoReport
  BY <1>15, UnderWay, GoesTo DEF UndoReport, ReportInv, TypeOK, Steps, InHand
<1>16. CASE Resync
  BY <1>16, UnderWay, GoesTo DEF Resync, ReportInv, TypeOK, Steps, Rests, InHand, Told
<1>17. CASE Done
  BY <1>17 DEF Done, ReportInv, TypeOK, Closes, Idle
<1>18. CASE Retry
  BY <1>18 DEF Retry, ReportInv, TypeOK, Closes, InHand, Idle
<1>19. CASE Refuse
  BY <1>19, UnderWay, GoesTo DEF Refuse, ReportInv, TypeOK, Steps, Closes, InHand
<1>20. CASE MarkFailed
  BY <1>20, UnderWay, GoesTo DEF MarkFailed, Closes, ReportInv, TypeOK, Steps, Idle, Pending
<1>21. CASE ShowRefusal
  BY <1>21 DEF ShowRefusal, ReportInv, TypeOK, Idle
<1>22. CASE ServeUpload
  BY <1>22, ServeEffect DEF ServeUpload, Serve, ReportInv, TypeOK
<1>23. CASE ServeMark
  BY <1>23, ServeEffect DEF ServeMark, Serve, ReportInv, TypeOK
<1>24. CASE ServeReport
  BY <1>24, ServeEffect DEF ServeReport, Serve, ReportInv, TypeOK
<1>25. CASE Undecided
  BY <1>25, ServeEffect DEF Undecided, ReportInv, TypeOK
<1>26. CASE Hear
  BY <1>26, UnderWay, GoesTo, AfterSteps DEF Hear, ReportInv, TypeOK, Steps, After
<1>27. CASE Lose
  BY <1>27, UnderWay, GoesTo DEF Lose, ReportInv, TypeOK, Steps
<1>28. CASE Reread
  BY <1>28, UnderWay, GoesTo DEF Reread, ReportInv, TypeOK, Steps
<1>29. CASE RereadFails
  BY <1>29, UnderWay, GoesTo DEF RereadFails, ReportInv, TypeOK, Steps
<1>30. CASE Throws
  BY <1>30, BoundsAssumption DEF Throws, TypeOK
<1>31. CASE Kill
  BY <1>31 DEF Kill, ReportInv, TypeOK, Idle
<1>32. CASE OtherPhoneReports
  BY <1>32 DEF OtherPhoneReports, ReportInv, TypeOK
<1>33. CASE UNCHANGED vars
  BY <1>33 DEF vars, ReportInv
<1> QED
  BY <1>1, <1>2, <1>3, <1>4, <1>5, <1>6, <1>7, <1>8, <1>9, <1>10, <1>11, <1>12, <1>13, <1>14, <1>15,
     <1>16, <1>17, <1>18, <1>19, <1>20, <1>21, <1>22, <1>23, <1>24, <1>25, <1>26, <1>27, <1>28,
     <1>29, <1>30, <1>31, <1>32, <1>33
     DEF Next, Runner, Serve, Apply, Undo, Settle

\* Once nothing is left to send, the event on the phone says what the server made of its report, however many
\* taps, kills and lost answers there were. A step that throws (MaxFaults > 0) breaks this: the undo is swallowed.
THEOREM ReportSettled ==
  ASSUME MaxFaults = 0
  PROVE  Spec => []ReportAgrees
<1>1. Init => ReportInv
  BY DEF Init, ReportInv, Idle, Keys
<1>2. Inv /\ ReportInv /\ [Next]_vars => ReportInv'
  BY ReportInvStep DEF Inv, SyncInv
<1>3. Inv /\ ReportInv => ReportAgrees
  <2> SUFFICES ASSUME TypeOK, Told, ReportInv, AtRest PROVE ReportAgrees
    BY DEF ReportAgrees, Inv, SyncInv
  <2>1. item["report"] \in {"absent", "done", "refused"}
    BY DEF AtRest, TypeOK, Owed, Keys
  <2>2. event \in {"none", "accepted", "rejected"}
    BY <2>1 DEF ReportInv, TypeOK
  <2> QED
    BY <2>1, <2>2 DEF ReportInv, ReportAgrees, TypeOK
<1> QED
  BY <1>1, <1>2, <1>3, Inductive, PTL DEF Spec
=============================================================================
