----------------------------- MODULE DriveSync -----------------------------
(***************************************************************************)
(* One finished drive on its way to the server, as the sync runner         *)
(* (src/src/data/sync/runner.ts), the driver's two actions on it           *)
(* (driveActions.ts) and the server's answers settle it.  The drive has    *)
(* one event; its work is three items of the outbox: the upload, "Wasn't   *)
(* driving" (mark) and the report of the event.                            *)
(*                                                                         *)
(* The runner handles one item at a time.  Each transaction and each       *)
(* request is a step of its own; the driver taps, time passes and the      *)
(* process may die between any two of them.  When an item is due is left   *)
(* to Outbox: here one that waits may come due at any time, and a failed   *)
(* attempt may be the last of its ladder.                                  *)
(*                                                                         *)
(* One driver is signed in throughout, so the owner fence always passes.   *)
(* Left out: an answer that names mergedInto (only servers older than      *)
(* this build give one) and the DashPal events an answer may drop.         *)
(***************************************************************************)
EXTENDS Naturals, FiniteSets

CONSTANTS
  MaxTaps,     \* bound on the taps of "Wasn't driving"
  MaxKills,    \* bound on how often the process dies
  MaxFaults,   \* bound on how often a transaction throws
  OtherPhone   \* whether a second phone may report the event too

ASSUME BoundsAssumption == {MaxTaps, MaxKills, MaxFaults} \subseteq Nat /\ OtherPhone \in BOOLEAN

VARIABLES
  trip,      \* the local drive: status, clean flag, the upload's stored answer, sync_error
  event,     \* the local event's dispute_status; "accepted" also removes it
  item,      \* the outbox's three items
  previous,  \* previousStatus, in the payload of the queued mark
  tap,       \* the status a tap of "Wasn't driving" read, before its transaction
  batch,     \* items the pass claimed and has not begun
  job,       \* the item under way: how far it got and what the server answered
  server,    \* the server's copy of the drive
  used       \* taps, kills and faults so far (bounds the model)

vars == <<trip, event, item, previous, tap, batch, job, server, used>>

-----------------------------------------------------------------------------
Keys == {"upload", "mark", "report"}

\* later: in a retry back-off; waiting: given back before any attempt.
Pending == {"due", "later", "waiting"}
Owed(s) == s \in Pending \cup {"sending", "ranout"}

Idle == [at |-> "idle", key |-> "none", answer |-> "none"]
Answers == {"none", "ok", "accepted", "rejected", "already", "not_found", "refused", "late", "retry"}
Steps == {"asked", "answered", "apply", "forward", "undo", "reread", "resync",
          "done", "retry", "refuse", "fail", "show"}

\* NOT_DRIVING_REFUSALS: the refusals the summary explains, offering no second tap.
Explained == {"refused"}
Kept == {"pending", "scored", "unscored"}

TypeOK ==
  /\ trip \in [status : Kept \cup {"recording", "failed", "not_driving"},
               clean : {"null", "clean", "dirty"},
               answered : {"none", "scored", "unscored"},
               error : Answers]
  /\ event \in {"none", "pending", "accepted", "rejected"}
  /\ item \in [Keys -> Pending \cup {"absent", "sending", "ranout", "done", "refused"}]
  /\ previous \in Kept
  /\ tap \in Kept \cup {"none"}
  /\ batch \in SUBSET Keys
  /\ job \in {Idle} \cup [at : Steps, key : Keys, answer : Answers]
  /\ server \in [held : BOOLEAN, scored : BOOLEAN, marked : BOOLEAN,
                 report : {"none", "accepted", "rejected"}, mine : BOOLEAN]
  /\ used \in [taps : 0..MaxTaps, kills : 0..MaxKills, faults : 0..MaxFaults]

Init ==
  /\ trip = [status |-> "recording", clean |-> "null", answered |-> "none", error |-> "none"]
  /\ event = "none"
  /\ item = [k \in Keys |-> "absent"]
  /\ previous = "pending"
  /\ tap = "none"
  /\ batch = {}
  /\ job = Idle
  /\ server = [held |-> FALSE, scored |-> FALSE, marked |-> FALSE, report |-> "none", mine |-> FALSE]
  /\ used = [taps |-> 0, kills |-> 0, faults |-> 0]

Verdict(scored) == IF scored THEN "scored" ELSE "unscored"

\* Mutant: any report takes the event off, settled or not.
CleanOnceReported(scored, e) ==
  IF ~scored THEN "null" ELSE IF e # "none" THEN "clean" ELSE "dirty"

\* cleanOf: the drive's clean flag from the events it keeps.
CleanOf(scored, e) == IF ~scored THEN "null" ELSE IF e = "accepted" THEN "clean" ELSE "dirty"

\* INSERT OR IGNORE, then arm a failed row again: a row still owed is left as it is.
Enqueues(k) == item[k] \in {"absent", "ranout", "refused"}

-----------------------------------------------------------------------------
(* The phone outside the runner.                                           *)

\* The finalizer's transaction: the drive is kept, its upload queued.
FinishDrive ==
  /\ trip.status = "recording"
  /\ \E scored \in BOOLEAN :
       trip' = [trip EXCEPT !.status = "pending", !.clean = CleanOf(scored, event)]
  /\ item' = [item EXCEPT !["upload"] = "due"]
  /\ UNCHANGED <<event, previous, tap, batch, job, server, used>>

\* "Wasn't driving" where the summary offers it; the status is read before the transaction.
TapMark ==
  /\ tap = "none" /\ used.taps < MaxTaps
  /\ trip.status \in Kept /\ trip.error \notin Explained
  /\ tap' = trip.status
  /\ used' = [used EXCEPT !.taps = @ + 1]
  /\ UNCHANGED <<trip, event, item, previous, batch, job, server>>

\* makeDue: a drive the driver acts on uploads first.
MadeDue == [item EXCEPT !["upload"] = IF @ = "waiting" THEN "due" ELSE @]

\* Mutant: restores the status found by the transaction, not the one the driver saw.
MarkWithCurrentStatus ==
  /\ tap # "none"
  /\ trip' = [trip EXCEPT !.status = "not_driving"]
  /\ item' = IF Enqueues("mark") THEN [MadeDue EXCEPT !["mark"] = "due"] ELSE MadeDue
  /\ previous' = IF Enqueues("mark") THEN trip.status ELSE previous
  /\ tap' = "none"
  /\ UNCHANGED <<event, batch, job, server, used>>

MarkNotDriving ==
  /\ tap # "none"
  /\ trip' = [trip EXCEPT !.status = "not_driving"]
  /\ item' = IF Enqueues("mark") THEN [MadeDue EXCEPT !["mark"] = "due"] ELSE MadeDue
  /\ previous' = IF Enqueues("mark") THEN tap ELSE previous
  /\ tap' = "none"
  /\ UNCHANGED <<event, batch, job, server, used>>

\* Only this changes a dispute_status of "none", so its early read needs no step of its own.
ReportEvent ==
  /\ trip.status # "recording" /\ event = "none"
  /\ event' = "pending"
  /\ item' = IF Enqueues("report") THEN [MadeDue EXCEPT !["report"] = "due"] ELSE MadeDue
  /\ UNCHANGED <<trip, previous, tap, batch, job, server, used>>

\* Time: a back-off ends, or a claim a dead pass left open is reclaimed.
ComesDue(k) ==
  /\ \/ item[k] \in {"later", "waiting"}
     \/ item[k] = "sending" /\ k \notin batch \cup {job.key}
  /\ item' = [item EXCEPT ![k] = "due"]
  /\ UNCHANGED <<trip, event, previous, tap, batch, job, server, used>>

\* A foreground puts back what only ran out of retries.
Reopen(k) ==
  /\ item[k] = "ranout"
  /\ item' = [item EXCEPT ![k] = "due"]
  /\ UNCHANGED <<trip, event, previous, tap, batch, job, server, used>>

Kill ==
  /\ used.kills < MaxKills
  /\ used' = [used EXCEPT !.kills = @ + 1]
  /\ tap' = "none" /\ batch' = {} /\ job' = Idle
  /\ UNCHANGED <<trip, event, item, previous, server>>

-----------------------------------------------------------------------------
(* The pass: claim, ask, hear.                                             *)

NextDue ==
  /\ job = Idle /\ batch = {}
  /\ batch' = {k \in Keys : item[k] = "due"}
  /\ batch' # {}
  /\ item' = [k \in Keys |-> IF k \in batch' THEN "sending" ELSE item[k]]
  /\ UNCHANGED <<trip, event, previous, tap, job, server, used>>

Ask(k) ==
  /\ job = Idle /\ k \in batch
  /\ batch' = batch \ {k}
  /\ job' = [at |-> "asked", key |-> k, answer |-> "none"]
  /\ UNCHANGED <<trip, event, item, previous, tap, server, used>>

\* No session, or another driver's: the claim is given back, counting no attempt.
Release(k) ==
  /\ job = Idle /\ k \in batch
  /\ batch' = batch \ {k}
  /\ \E s \in {"later", "waiting"} : item' = [item EXCEPT ![k] = s]
  /\ UNCHANGED <<trip, event, previous, tap, job, server, used>>

Answered(a) ==
  /\ job' = [job EXCEPT !.at = "answered", !.answer = a]
  /\ UNCHANGED <<trip, event, item, previous, tap, batch, used>>

\* finalize-trip: a drive already held is answered from what was stored.
ServeUpload ==
  /\ job.at = "asked" /\ job.key = "upload"
  /\ \/ server.held /\ Answered("ok") /\ UNCHANGED server
     \/ /\ ~server.held
        /\ \E s \in BOOLEAN : server' = [server EXCEPT !.held = TRUE, !.scored = s]
        /\ Answered("ok")
     \/ ~server.held /\ Answered("refused") /\ UNCHANGED server

\* mark_not_driving and mark_passenger_ride: a repeat is answered as the first was.
ServeMark ==
  /\ job.at = "asked" /\ job.key = "mark"
  /\ \/ ~server.held /\ Answered("not_found") /\ UNCHANGED server
     \/ server.held /\ server' = [server EXCEPT !.marked = TRUE] /\ Answered("ok")
     \/ /\ server.held /\ ~server.marked
        /\ \E a \in {"refused", "late"} : Answered(a)
        /\ UNCHANGED server

\* dispute_event: a repeat of the same report is answered as the first was.
ServeReport ==
  /\ job.at = "asked" /\ job.key = "report"
  /\ LET acts == server.held /\ ~server.marked
     IN \/ ~acts /\ Answered("not_found") /\ UNCHANGED server
        \/ acts /\ server.mine /\ Answered(server.report) /\ UNCHANGED server
        \/ acts /\ ~server.mine /\ server.report # "none" /\ Answered("already") /\ UNCHANGED server
        \/ acts /\ ~server.mine /\ Answered("refused") /\ UNCHANGED server
        \/ /\ acts /\ server.report = "none"
           /\ \E a \in {"accepted", "rejected"} :
                server' = [server EXCEPT !.report = a, !.mine = TRUE] /\ Answered(a)

Serve == ServeUpload \/ ServeMark \/ ServeReport

\* No answer worth the name: the network, a 5xx, a 429, a 401, a function not deployed.
Undecided == job.at = "asked" /\ Answered("retry") /\ UNCHANGED server

OtherPhoneReports ==
  /\ OtherPhone /\ server.held /\ ~server.marked /\ server.report = "none"
  /\ \E a \in {"accepted", "rejected"} : server' = [server EXCEPT !.report = a]
  /\ UNCHANGED <<trip, event, item, previous, tap, batch, job, used>>

-----------------------------------------------------------------------------
(* The pass: write the answer in, then settle.                             *)

\* Mutant: a mark the server cannot find is undone at once.
AfterNotWaiting(k, a) ==
  CASE a \in {"ok", "accepted", "rejected"} -> "apply"
    [] a = "already" -> "reread"
    [] a = "retry" -> "retry"
    [] OTHER -> IF k = "upload" THEN "refuse" ELSE "undo"

\* Mutant: waits for an upload that was refused for good.
AfterWaitingForever(k, a) ==
  CASE a \in {"ok", "accepted", "rejected"} -> "apply"
    [] a = "already" -> "reread"
    [] a = "retry" -> "retry"
    [] a = "not_found" /\ item["upload"] # "done" -> "retry"
    [] OTHER -> IF k = "upload" THEN "refuse" ELSE "undo"

\* Mutant: a report the server already holds is closed unread.
AfterUnread(k, a) ==
  CASE a \in {"ok", "accepted", "rejected"} -> "apply"
    [] a = "already" -> "done"
    [] a = "retry" -> "retry"
    [] a = "not_found" /\ Owed(item["upload"]) -> "retry"
    [] OTHER -> IF k = "upload" THEN "refuse" ELSE "undo"

\* What runFinalize and runAction do with an answer; a mark or a report the
\* server cannot find while the upload is owed waits for it.
After(k, a) ==
  CASE a \in {"ok", "accepted", "rejected"} -> "apply"
    [] a = "already" -> "reread"
    [] a = "retry" -> "retry"
    [] a = "not_found" /\ Owed(item["upload"]) -> "retry"
    [] OTHER -> IF k = "upload" THEN "refuse" ELSE "undo"

Goes(step) == job' = [job EXCEPT !.at = step]

\* The answer arrives, or is lost on its way.
Hear ==
  /\ job.at = "answered"
  /\ Goes(After(job.key, job.answer))
  /\ UNCHANGED <<trip, event, item, previous, tap, batch, server, used>>

Lose ==
  /\ job.at = "answered"
  /\ Goes("retry")
  /\ UNCHANGED <<trip, event, item, previous, tap, batch, server, used>>

\* Mutant: the answer overwrites the mark.
ApplyUploadOverMark ==
  /\ job.at = "apply" /\ job.key = "upload"
  /\ trip' = [status |-> Verdict(server.scored), clean |-> CleanOf(server.scored, event),
              answered |-> Verdict(server.scored),
              error |-> IF trip.status = "failed" THEN "none" ELSE trip.error]
  /\ Goes("forward")
  /\ UNCHANGED <<event, item, previous, tap, batch, server, used>>

\* applyFinalizeResponse: a marked drive keeps its mark and notes the answer.
ApplyUpload ==
  /\ job.at = "apply" /\ job.key = "upload"
  /\ LET marked == trip.status = "not_driving"
         verdict == Verdict(server.scored)
     IN trip' = [status |-> IF marked THEN "not_driving" ELSE verdict,
                 clean |-> IF marked THEN "null" ELSE CleanOf(server.scored, event),
                 answered |-> verdict,
                 error |-> IF trip.status = "failed" THEN "none" ELSE trip.error]
  /\ Goes("forward")
  /\ UNCHANGED <<event, item, previous, tap, batch, server, used>>

ApplyMark ==
  /\ job.at = "apply" /\ job.key = "mark"
  /\ trip' = [trip EXCEPT !.status = "not_driving", !.clean = "null"]
  /\ Goes("done")
  /\ UNCHANGED <<event, item, previous, tap, batch, server, used>>

\* applyDisputeResult: the clean flag of a scored drive is the server's.
ApplyReport ==
  /\ job.at = "apply" /\ job.key = "report"
  /\ event' = job.answer
  /\ trip' = IF job.answer = "accepted" /\ trip.status = "scored"
             THEN [trip EXCEPT !.clean = IF server.scored THEN "clean" ELSE "dirty"]
             ELSE trip
  /\ Goes("done")
  /\ UNCHANGED <<item, previous, tap, batch, server, used>>

\* A mark that waited for this upload goes in the next round.
BringForward ==
  /\ job.at = "forward"
  /\ item' = [item EXCEPT !["mark"] = IF @ \in {"later", "waiting"} THEN "due" ELSE @]
  /\ Goes("done")
  /\ UNCHANGED <<trip, event, previous, tap, batch, server, used>>

\* Mutant: always the status the driver saw, an answer since then forgotten.
UnmarkedAsSeen == [trip EXCEPT !.status = previous, !.error = job.answer]

\* undoAction of a mark: back to the status the server holds.
Unmarked ==
  LET answered == IF previous = "pending" /\ ~Owed(item["upload"]) THEN trip.answered ELSE "none"
  IN IF answered # "none"
     THEN [trip EXCEPT !.status = answered, !.clean = CleanOf(answered = "scored", event),
                       !.error = job.answer]
     ELSE [trip EXCEPT !.status = previous, !.error = job.answer]

OnlyOnThisPhone ==
  job.answer = "not_found" /\ trip.answered = "none" /\ item["upload"] = "refused"

UndoMark ==
  /\ job.at = "undo" /\ job.key = "mark"
  /\ trip' = IF trip.status # "not_driving" \/ OnlyOnThisPhone THEN trip ELSE Unmarked
  /\ Goes("refuse")
  /\ UNCHANGED <<event, item, previous, tap, batch, server, used>>

UndoReport ==
  /\ job.at = "undo" /\ job.key = "report"
  /\ event' = "rejected"
  /\ Goes("refuse")
  /\ UNCHANGED <<trip, item, previous, tap, batch, server, used>>

\* resyncDrive: the server's copy is read, and if it came, written in.
Reread ==
  /\ job.at = "reread"
  /\ Goes("resync")
  /\ UNCHANGED <<trip, event, item, previous, tap, batch, server, used>>

RereadFails ==
  /\ job.at = "reread"
  /\ Goes("retry")
  /\ UNCHANGED <<trip, event, item, previous, tap, batch, server, used>>

\* applyServerDrive, then a report that left its event active was turned down.
Resync ==
  /\ job.at = "resync"
  /\ LET verdict == IF server.marked THEN "not_driving" ELSE Verdict(server.scored)
     IN trip' = [status |-> verdict,
                 clean |-> IF verdict = "scored" THEN CleanOf(TRUE, server.report) ELSE "null",
                 answered |-> Verdict(server.scored), error |-> "none"]
  /\ event' = IF server.report = "accepted" THEN "accepted"
              ELSE IF event = "pending" THEN "rejected" ELSE event
  /\ Goes("done")
  /\ UNCHANGED <<item, previous, tap, batch, server, used>>

Closes(s) ==
  /\ item' = [item EXCEPT ![job.key] = s]
  /\ UNCHANGED <<event, previous, tap, batch, server, used>>

\* Mutant: the settled row is deleted, its key free again.
DoneDeletes == job.at = "done" /\ Closes("absent") /\ job' = Idle /\ UNCHANGED trip

Done == job.at = "done" /\ Closes("done") /\ job' = Idle /\ UNCHANGED trip

\* Up the ladder or off its end; after a refreshed token, straight back.
Retry ==
  /\ job.at = "retry"
  /\ \E s \in {"due", "later", "ranout"} : Closes(s)
  /\ job' = Idle
  /\ UNCHANGED trip

\* A refusal is settled in up to three transactions.
Refuse ==
  /\ job.at = "refuse"
  /\ \E s \in {"later", "ranout"} : Closes(s)
  /\ Goes("fail")
  /\ UNCHANGED trip

MarkFailed ==
  /\ job.at = "fail"
  /\ Closes(IF item[job.key] \in Pending \cup {"ranout"} THEN "refused" ELSE item[job.key])
  /\ IF job.key = "upload" THEN Goes("show") ELSE job' = Idle
  /\ UNCHANGED trip

ShowRefusal ==
  /\ job.at = "show"
  /\ trip' = [trip EXCEPT !.status = IF @ = "not_driving" THEN @ ELSE "failed",
                          !.error = job.answer]
  /\ job' = Idle
  /\ UNCHANGED <<event, item, previous, tap, batch, server, used>>

\* What the runner does when the transaction of a step throws.
Instead == [apply |-> "retry", resync |-> "retry", forward |-> "done", undo |-> "refuse"]

Throws ==
  /\ used.faults < MaxFaults
  /\ used' = [used EXCEPT !.faults = @ + 1]
  /\ \/ job.at \in DOMAIN Instead /\ Goes(Instead[job.at])
     \/ job.at \in {"done", "retry", "refuse", "fail", "show"} /\ job' = Idle
  /\ UNCHANGED <<trip, event, item, previous, tap, batch, server>>

-----------------------------------------------------------------------------
Apply == ApplyUpload \/ ApplyMark \/ ApplyReport
Undo == UndoMark \/ UndoReport
Settle == Done \/ Retry \/ Refuse \/ MarkFailed \/ ShowRefusal

\* The steps the runner takes by itself once it is running.
Runner == NextDue \/ Apply \/ BringForward \/ Undo \/ Resync \/ Settle

Next ==
  \/ FinishDrive \/ TapMark \/ MarkNotDriving \/ ReportEvent
  \/ \E k \in Keys : ComesDue(k) \/ Reopen(k) \/ Ask(k) \/ Release(k)
  \/ Runner \/ Serve \/ Undecided \/ Hear \/ Lose \/ Reread \/ RereadFails
  \/ Throws \/ Kill \/ OtherPhoneReports

\* A wake comes for what is due, the app is opened again, every request ends, a
\* session is there in the end, and the server is reached and heard now and then.
Fairness ==
  /\ WF_vars(Runner) /\ WF_vars(MarkNotDriving) /\ WF_vars(Hear \/ Lose)
  /\ \A K \in {{"upload"}, {"mark", "report"}} :
       /\ WF_vars(\E k \in K : ComesDue(k) \/ Reopen(k))
       /\ SF_vars(\E k \in K : Ask(k))
       /\ SF_vars(job.key \in K /\ Serve)
       /\ SF_vars(job.key \in K /\ job.answer # "retry" /\ Hear)
  /\ SF_vars(Reread)

Spec == Init /\ [][Next]_vars
FairSpec == Spec /\ Fairness

-----------------------------------------------------------------------------
(* Properties.                                                             *)

AtRest == job = Idle /\ batch = {} /\ tap = "none" /\ \A k \in Keys : ~Owed(item[k])

ServerStatus ==
  IF ~server.held THEN {"failed", "not_driving"}
  ELSE IF server.marked THEN {"not_driving"} ELSE {Verdict(server.scored)}

\* With nothing left to send, the phone shows the drive as the server holds it:
\* an optimistic mark is confirmed or taken back, an upload is never left "not
\* synced yet", and a drive the server never took is shown refused or kept marked.
DriveAgrees == AtRest /\ trip.status # "recording" => trip.status \in ServerStatus

\* With nothing left to send, a report is resolved, and an event is off the
\* drive on the phone exactly when the report took it off on the server.
ReportAgrees ==
  AtRest => /\ event # "pending"
            /\ event = "accepted" <=> item["report"] = "done" /\ server.report = "accepted"

\* A mark the server holds is never lost on the phone, whatever answer was
\* lost, whatever threw and whenever the process died.
ServerMarkKept == AtRest /\ server.marked => trip.status = "not_driving"

\* The phone never shows a scored drive as clean that the server rates otherwise.
NeverFlattered ==
  trip.status = "scored" /\ trip.clean = "clean" => server.scored /\ server.report = "accepted"

\* runner.ts:20: "a terminal refusal fails the item for good and is shown".
RefusalShown ==
  AtRest /\ item["upload"] = "refused" /\ ~server.held => trip.status \in {"failed", "not_driving"}

\* runner.ts:447: on a refusal for good "the optimistic `pending` is resolved to
\* a rejection the user can read".
RefusalResolved == item["report"] = "refused" /\ job = Idle => event # "pending"

\* queue.ts:125: "a second try after a refusal is really sent": no mark stays on
\* the phone that the server, holding the drive, never agreed to.
SecondTrySent == AtRest /\ trip.status = "not_driving" /\ server.held => server.marked

\* runner.ts:250: "an accepted report ... takes the server's clean flag".
CleanAgrees ==
  AtRest /\ trip.status = "scored" /\ item["report"] = "done"
    => trip.clean = CleanOf(TRUE, server.report)

\* runner.ts:375: while the server does not hold the drive "the action waits for
\* the upload, and nothing is undone".
UndoneOnlyIfHeld ==
  [][trip.status = "not_driving" /\ trip'.status # "not_driving" => server.held]_vars

\* A row that leaves the outbox's hands unsettled would be work lost: the three
\* items keep what the outbox promises of every key (Delivery). The phone is never
\* emptied here: the one driver stays signed in (Outbox has wipeDevice).
Promise(s) == IF Owed(s) THEN "owed" ELSE s
D == INSTANCE Delivery WITH state <- [k \in Keys |-> Promise(item[k])], wipes <- 0
KeepsItsPromise == D!Spec

\* Once the driver stops tapping and the network is there now and then, all the
\* work is settled for good: no mark and no report waits on the other for ever.
Settles == <>[](\A k \in Keys : ~Owed(item[k]))
=============================================================================
