----------------------------- MODULE DashSetup -----------------------------
(***************************************************************************)
(* Pairing this phone with a DashPal: the setup flow (setup.ts), the keys  *)
(* in SecureStore (secure.ts, early.ts) and the runtime's pairing record   *)
(* (runtime.ts), against a dashcam that holds a new phone provisionally    *)
(* until COMMAND 8 commits it.                                             *)
(*                                                                         *)
(* Every pairing makes a new key, so a key names a setup.  Between any two *)
(* steps of the flow the driver may cancel, a drive may open, the link may *)
(* drop, the dashcam may undo its hold and the app may die.                *)
(*                                                                         *)
(* Setups follow one another here.  Left out: a cancelled flow that still  *)
(* undoes on its own when the next opening has begun (useSetupFlow.ts:65). *)
(* The two share the pending key, so the first's undo may delete the       *)
(* second's.  Left out, too, is a key whose deletion fails: it stays until *)
(* it is written over, a key more and never one less.                      *)
(***************************************************************************)
EXTENDS Integers, Sequences, FiniteSets

CONSTANTS
  MaxSetups,    \* pairings, and so keys
  MaxTroubles,  \* disturbances in all ...
  Troubles,     \* ... and the kinds of them: "drop", "away", "press", "expire", "full", "unheard",
                \* "late", "keychain", "settings", "kill", "reinstall"
  Settled       \* whether a setup that finds two keys starts only once the auto-connect knows which is good

ASSUME BoundsAssumption == MaxSetups \in Nat /\ MaxTroubles \in Nat /\ Settled \in BOOLEAN

VARIABLES
  cam,      \* the dashcam: phones stored, its hold and the record that replaces, its window
  conn,     \* the setup connection, as each side sees it
  near,     \* whether the dashcam is on and in reach
  toPhone,  \* SETUP_RESULTs on their way
  flow,     \* the setup flow
  heard,    \* what the flow heard: `results` and `expired`
  keys,     \* SecureStore: dashpal.auth, dashpal.authPending, dashpal.orphan
  rec,      \* whether the settings hold a pairing with this dashcam
  refused,  \* the auto-connect's last session was answered R_UNKNOWN_PHONE
  app,      \* whether the app runs
  drive,    \* whether a drive is open
  left,     \* disturbances still to come
  ghost     \* history the properties speak of: no guard reads it, but for `made`, the keys so far

vars == <<cam, conn, near, toPhone, flow, heard, keys, rec, refused, app, drive, left, ghost>>
radio == <<cam, conn, near, toPhone>>
world == <<app, drive>>
secure == <<keys, rec, refused>>

None == 0
Keys == 1 .. MaxSetups
Kept == {keys.auth, keys.pend, keys.orphan} \ {None}
Trouble(kind) == kind \in Troubles /\ left > 0 /\ left' = left - 1

NoConn == [up |-> FALSE, sess |-> FALSE, as |-> None, fin |-> None, prev |-> None, verdict |-> "none"]
Silence == [commit |-> "none", undone |-> FALSE, expired |-> FALSE]
Idle == [pc |-> "rest", then |-> "none", stage |-> "pre", key |-> None, keep |-> FALSE, again |-> FALSE,
         tries |-> 0, res |-> "none", retry |-> "restart", cancel |-> FALSE, after |-> FALSE]

Init ==
  /\ cam = [stored |-> {}, hold |-> None, prev |-> None, window |-> TRUE]
  /\ conn = NoConn /\ near = TRUE /\ toPhone = <<>>
  /\ flow = Idle /\ heard = Silence
  /\ keys = [auth |-> None, pend |-> None, orphan |-> None] /\ rec = FALSE /\ refused = FALSE
  /\ app = TRUE /\ drive = FALSE /\ left = MaxTroubles
  /\ ghost = [made |-> 0, given |-> {}, auth |-> None, stored |-> {}]

\* The setup connection takes sealed frames both ways.
Linked == conn.up /\ conn.sess
Running == flow.pc # "rest"
Resumable == ~Running /\ flow.res = "failed" /\ flow.retry \in {"commit", "resume"}
Unlinked == conn' = NoConn /\ toPhone' = <<>>

----------------------------------------------------------------------------
(* The dashcam's answers to a command on the setup connection.             *)

Undone == [cam EXCEPT !.hold = None, !.prev = None, !.window = TRUE]
Holds == cam.hold # None /\ conn.as = cam.hold
Answer(op, code) == toPhone' = Append(toPhone, [op |-> op, code |-> code])

\* COMMAND 8: the hold's connection commits; one committed already hears R_OK again.
CamCommits ==
  \/ /\ Holds
     /\ cam' = [stored |-> (cam.stored \ {cam.prev}) \cup {cam.hold}, hold |-> None, prev |-> None, window |-> FALSE]
     /\ Answer(8, "ok") /\ UNCHANGED left
  \/ /\ Holds /\ Trouble("full") /\ Answer(8, "full") /\ UNCHANGED cam
  \/ /\ ~Holds /\ Answer(8, IF conn.as \in cam.stored THEN "ok" ELSE "notnow") /\ UNCHANGED <<cam, left>>

\* COMMAND 9: the hold's connection undoes it.
CamCancels ==
  /\ cam' = IF Holds THEN Undone ELSE cam
  /\ Answer(9, IF Holds THEN "ok" ELSE "notnow")
  /\ UNCHANGED <<conn, left>>

\* COMMAND 4: as 9 from the hold's connection, else the stored phone is forgotten and hung up on.
CamForgets ==
  \/ Holds /\ CamCancels
  \/ ~Holds /\ cam' = [cam EXCEPT !.stored = @ \ {conn.as}] /\ Unlinked /\ UNCHANGED left

(***************************************************************************)
(* The dashcam by itself, and what happens to it.                          *)
(***************************************************************************)
camOnly == <<near, flow, heard, secure, world, ghost>>

\* The hold's phone away for a minute (a flow still working on the hold gives up sooner).
HoldLapses ==
  /\ cam.hold # None /\ conn.as # cam.hold /\ ~(Running /\ flow.key = cam.hold)
  /\ cam' = Undone
  /\ UNCHANGED <<conn, toPhone, left, camOnly>>

\* The hold's ten minutes.
HoldExpires ==
  /\ cam.hold # None /\ Trouble("expire") /\ cam' = Undone
  /\ IF Holds THEN Answer(9, "expired") ELSE UNCHANGED toPhone
  /\ UNCHANGED <<conn, camOnly>>

\* Five presses open the window: a claim and a hold are undone.
Pressed ==
  /\ IF cam.hold = None /\ conn.fin = None THEN ~cam.window /\ UNCHANGED left ELSE Trouble("press")
  /\ cam' = Undone /\ conn' = [conn EXCEPT !.fin = None]
  /\ UNCHANGED <<toPhone, camOnly>>

\* A connection whose phone is neither held nor stored any more is hung up on.
HangsUp ==
  /\ conn.as # None /\ conn.as \notin cam.stored \cup {cam.hold}
  /\ toPhone = <<>> /\ Unlinked
  /\ UNCHANGED <<cam, left, camOnly>>

Drop ==
  /\ conn.up /\ Trouble("drop") /\ Unlinked
  /\ UNCHANGED <<cam, camOnly>>

GoesAway ==
  /\ near /\ Trouble("away") /\ near' = FALSE /\ Unlinked
  /\ UNCHANGED <<cam, flow, heard, secure, world, ghost>>
ComesBack ==
  /\ ~near /\ near' = TRUE
  /\ UNCHANGED <<cam, conn, toPhone, flow, heard, secure, world, left, ghost>>

----------------------------------------------------------------------------
(* The flow.                                                               *)

At(pc) == flow.pc = pc
Goes(pc) == flow' = [flow EXCEPT !.pc = pc]

\* check(): a cancel or a drive (until COMMAND 8 is sent) stops the setup at its next look.
Stopped == flow.cancel \/ (drive /\ flow.stage # "commit")
Checks == {"connect", "claim", "fin", "verdict", "rehold", "screen", "commit", "await"}
On(pc) == At(pc) /\ ~Stopped

Undoes(why) == flow' = [flow EXCEPT !.pc = "undo", !.res = why, !.retry = "restart"]
Stops ==
  /\ flow.pc \in Checks /\ Stopped
  /\ Undoes(IF flow.cancel THEN "cancelled" ELSE "busy")
  /\ UNCHANGED <<radio, heard, secure, world, left, ghost>>

\* A failure Try again resumes keeps the hold, unless the driver has left: then it is a cancel.
FailsKeeping(stage, retry) ==
  flow' = IF flow.after
          THEN [flow EXCEPT !.pc = "undo", !.stage = stage, !.res = "cancelled"]
          ELSE [flow EXCEPT !.pc = "rest", !.stage = stage, !.res = "failed", !.retry = retry]

\* Nothing is held: the key goes, and so does the connection.
DeletesPending == keys' = [keys EXCEPT !.pend = None]
FailsForgetting == flow' = [flow EXCEPT !.pc = "undo", !.stage = "pre", !.key = None, !.res = "failed", !.retry = "restart"]

Starts ==
  /\ app /\ ~Running /\ ~Resumable /\ ~drive /\ ghost.made < MaxSetups
  /\ Settled /\ None \notin {keys.auth, keys.orphan} => rec /\ refused = (keys.auth \notin cam.stored)
  /\ flow' = [Idle EXCEPT !.pc = "connect"] /\ heard' = Silence
  /\ ghost' = [ghost EXCEPT !.auth = keys.auth, !.stored = cam.stored]
  /\ UNCHANGED <<radio, secure, world, left>>

\* INFO: not reached, the window closed or another setup on it.
Connects ==
  /\ On("connect")
  /\ IF near /\ cam.window /\ cam.hold = None
     THEN conn' = [NoConn EXCEPT !.up = TRUE] /\ Goes("claim")
     ELSE conn' = NoConn /\ Undoes("failed")
  /\ UNCHANGED <<cam, near, toPhone, heard, secure, world, left, ghost>>

\* A lost link is tried once more.
Reconnects ==
  flow' = IF flow.again THEN [flow EXCEPT !.pc = "undo", !.stage = "pre", !.res = "failed"]
                        ELSE [flow EXCEPT !.pc = "connect", !.stage = "pre", !.again = TRUE]

PreviousOwn == IF keys.auth = None THEN keys.orphan ELSE keys.auth   \* the refusal not asked for

\* The key that proves this phone's earlier record: the orphan first when the pairing's was refused.
Previous == IF keys.orphan # None /\ (keys.auth = None \/ refused) THEN keys.orphan ELSE keys.auth

\* PAIR_OPEN and its answer; the key is kept as pending before PAIR_FIN.
Claims ==
  /\ On("claim")
  /\ \/ /\ conn.up
        /\ LET k == ghost.made + 1
               kept == [conn EXCEPT !.fin = k, !.prev = IF Previous \in cam.stored THEN Previous ELSE None]
           IN  /\ ghost' = [ghost EXCEPT !.made = k]
               /\ \/ /\ keys' = [keys EXCEPT !.pend = k] /\ conn' = kept
                     /\ flow' = [flow EXCEPT !.pc = "fin", !.stage = "claim", !.key = k]
                     /\ UNCHANGED left
                  \/ /\ Trouble("keychain") /\ conn' = NoConn
                     /\ flow' = [flow EXCEPT !.pc = "undo", !.stage = "claim", !.res = "failed"]
                     /\ UNCHANGED keys
     \/ ~conn.up /\ Reconnects /\ UNCHANGED <<conn, keys, left, ghost>>
  /\ UNCHANGED <<cam, near, toPhone, heard, rec, refused, world>>

\* PAIR_FIN: the dashcam holds the phone provisionally, if the claim still stands.
SendsFin ==
  /\ On("fin")
  /\ flow' = [flow EXCEPT !.pc = "verdict", !.stage = "fin"]
  /\ IF conn.fin = None
     THEN cam' = cam /\ conn' = [conn EXCEPT !.verdict = "notnow"]
     ELSE /\ cam' = [cam EXCEPT !.hold = conn.fin, !.prev = conn.prev]
          /\ conn' = [conn EXCEPT !.fin = None, !.verdict = "ok"]
  /\ UNCHANGED <<near, toPhone, heard, secure, world, left, ghost>>

\* A verdict not read: maybe held.
ReadsVerdict ==
  /\ On("verdict")
  /\ CASE ~conn.up -> flow' = [flow EXCEPT !.pc = "rehold", !.then = "screen", !.keep = FALSE, !.stage = "hold"] /\ UNCHANGED keys
       [] conn.up /\ conn.verdict = "ok" -> flow' = [flow EXCEPT !.pc = "session", !.stage = "hold"] /\ UNCHANGED keys
       [] OTHER -> DeletesPending /\ FailsForgetting
  /\ UNCHANGED <<radio, heard, rec, refused, world, left, ghost>>

\* A session proves the key; under the provisional record the hold's connection is this one.
Known == flow.key \in cam.stored \cup {cam.hold}
Session == conn' = [NoConn EXCEPT !.up = TRUE, !.sess = TRUE, !.as = flow.key]

FirstSession ==
  /\ At("session")
  /\ IF conn.up /\ Known THEN Session /\ Goes("screen") /\ UNCHANGED toPhone
     ELSE Unlinked /\ flow' = [flow EXCEPT !.pc = "rehold", !.then = "screen", !.keep = FALSE]
  /\ UNCHANGED <<cam, near, heard, secure, world, left, ghost>>

\* Reconnecting under the new key, 45 s at most; R_UNKNOWN_PHONE: the hold was undone.
Rehold ==
  /\ On("rehold") /\ near
  /\ IF Known THEN Session /\ Goes(flow.then) /\ UNCHANGED <<toPhone, keys>>
     ELSE Unlinked /\ DeletesPending /\ FailsForgetting
  /\ UNCHANGED <<cam, near, heard, rec, refused, world, left, ghost>>

GivesUpDeleting ==                             \* the key deleted though a commit went unanswered
  /\ On("rehold") /\ ~near /\ DeletesPending
  /\ IF flow.keep THEN FailsKeeping(flow.stage, "resume") ELSE FailsForgetting
  /\ UNCHANGED <<radio, heard, rec, refused, world, left, ghost>>

GivesUp ==
  /\ On("rehold") /\ ~near
  /\ IF flow.keep THEN FailsKeeping(flow.stage, "resume") /\ UNCHANGED keys
     ELSE DeletesPending /\ FailsForgetting
  /\ UNCHANGED <<radio, heard, rec, refused, world, left, ghost>>

\* The hold ran out: nothing is kept.
Expires ==
  /\ \/ flow.pc \in {"screen", "commit"} /\ ~Stopped /\ heard.expired
     \/ At("answer") /\ heard.expired /\ heard.commit \notin {"ok", "full"}
  /\ DeletesPending /\ FailsForgetting /\ Unlinked
  /\ UNCHANGED <<cam, near, heard, rec, refused, world, left, ghost>>

\* Screens 2 and 3: the driver's Next, or the link is lost.
LeavesScreen ==
  /\ On("screen") /\ ~heard.expired
  /\ flow' = IF Linked THEN [flow EXCEPT !.pc = "commit", !.tries = 0]
             ELSE [flow EXCEPT !.pc = "rehold", !.then = "screen", !.keep = FALSE]
  /\ UNCHANGED <<radio, heard, secure, world, left, ghost>>

\* Once COMMAND 8 went out a reconnection that fails keeps the key.
Finishes ==
  /\ On("commit") /\ ~heard.expired
  /\ flow' = IF Linked THEN [flow EXCEPT !.pc = "send"]
             ELSE [flow EXCEPT !.pc = "rehold", !.then = "send", !.keep = flow.stage = "commit"]
  /\ UNCHANGED <<radio, heard, secure, world, left, ghost>>

\* COMMAND 8.  A write may fail though the dashcam took it: the link is down then.
SendsCommit ==
  /\ At("send")
  /\ heard' = [heard EXCEPT !.commit = "none", !.undone = FALSE]
  /\ \/ /\ Linked /\ CamCommits /\ UNCHANGED <<conn, ghost>>
        /\ flow' = [flow EXCEPT !.pc = "await", !.stage = "commit"]
     \/ /\ Linked /\ Holds /\ Trouble("unheard")
        /\ cam' = [stored |-> (cam.stored \ {cam.prev}) \cup {cam.hold}, hold |-> None, prev |-> None, window |-> FALSE]
        /\ Unlinked /\ Goes("answer")
        /\ ghost' = [ghost EXCEPT !.given = @ \cup {flow.key}]
     \/ ~Linked /\ Goes("answer") /\ UNCHANGED <<cam, conn, toPhone, left, ghost>>
  /\ UNCHANGED <<near, secure, world>>

Hears ==
  /\ app /\ toPhone # <<>> /\ toPhone' = Tail(toPhone)
  /\ LET f == Head(toPhone) IN
     \/ f.op = 9 /\ f.code = "expired" /\ heard' = [heard EXCEPT !.expired = TRUE]
     \/ f.op = 9 /\ f.code # "expired" /\ heard' = [heard EXCEPT !.undone = TRUE]
     \/ f.op = 8 /\ heard' = [heard EXCEPT !.commit = IF @ = "none" THEN f.code ELSE @]
  /\ UNCHANGED <<cam, conn, near, flow, secure, world, left, ghost>>

AwaitsAnswer ==                                \* a lost link or no answer not looked at
  /\ On("await") /\ heard.commit # "none" /\ Goes("answer")
  /\ UNCHANGED <<radio, heard, secure, world, left, ghost>>

\* Two seconds at most.
Awaits ==
  /\ On("await") /\ Goes("answer")
  /\ IF heard.commit # "none" \/ heard.expired \/ ~Linked \/ toPhone = <<>> THEN UNCHANGED <<left, ghost>>
     ELSE Trouble("late") /\ ghost' = [ghost EXCEPT !.given = @ \cup {flow.key}]
  /\ UNCHANGED <<radio, heard, secure, world>>

AnsweredAnything ==                            \* any answer to COMMAND 8 taken for R_OK
  /\ At("answer") /\ Goes(IF heard.commit # "none" THEN "final" ELSE "commit")
  /\ UNCHANGED <<radio, heard, secure, world, left, ghost>>

\* The answer: done, not stored, tried once more, or undone.
Answered ==
  /\ At("answer") /\ (heard.commit \in {"ok", "full"} \/ ~heard.expired)
  /\ CASE heard.commit = "ok" -> Goes("final")
       [] heard.commit = "full" -> FailsKeeping("hold", "commit")
       [] heard.commit \notin {"ok", "full"} /\ (~Linked \/ (flow.tries = 0 /\ heard.commit \in {"none", "notnow"})) ->
            flow' = [flow EXCEPT !.pc = "commit", !.tries = 1]
       [] OTHER -> flow' = [flow EXCEPT !.pc = "undo", !.stage = "hold", !.res = "failed", !.retry = "restart"]
  /\ UNCHANGED <<radio, heard, secure, world, left, ghost>>

\* The pending key becomes the pairing's; one that cannot be made final is kept as the orphan, unless the
\* keychain refuses that write too: the key is given up then.
Finalizes ==
  /\ At("final") /\ Unlinked
  /\ \/ /\ keys' = [keys EXCEPT !.auth = keys.pend, !.pend = None]
        /\ flow' = [flow EXCEPT !.pc = "record", !.stage = "pre", !.key = None]
        /\ UNCHANGED <<left, ghost>>
     \/ /\ Trouble("keychain")
        /\ keys' \in [auth: {keys.auth, keys.pend}, pend: {None}, orphan: {keys.orphan, flow.key}]
        /\ ghost' = [ghost EXCEPT !.given = IF flow.key \in {keys'.auth, keys'.orphan} THEN @ ELSE @ \cup {flow.key}]
        /\ FailsForgetting
  /\ UNCHANGED <<cam, near, heard, rec, refused, world>>

\* The runtime's record of the pairing; then the orphan has served.
Records ==
  /\ At("record")
  /\ \/ /\ rec' = TRUE /\ refused' = FALSE /\ keys' = [keys EXCEPT !.orphan = None]
        /\ flow' = [Idle EXCEPT !.res = "done"] /\ UNCHANGED left
     \/ /\ Trouble("settings") /\ Undoes("failed") /\ UNCHANGED secure
  /\ UNCHANGED <<radio, heard, world, ghost>>

----------------------------------------------------------------------------
(* The undo.                                                               *)

\* After an unanswered commit or verdict, with the link down: one session for the undo to reach it.
UndoReaches ==
  /\ At("undo") /\ flow.stage \in {"commit", "fin"} /\ flow.key # None /\ ~Linked
  /\ IF near /\ Known THEN Session /\ Goes("undocmd") /\ UNCHANGED toPhone
     ELSE /\ Unlinked
          /\ flow' = [flow EXCEPT !.pc = "undoend", !.keep = ~(near /\ flow.stage = "commit")]
  /\ UNCHANGED <<cam, near, heard, secure, world, left, ghost>>
UndoLinked ==
  /\ At("undo") /\ (flow.stage \notin {"commit", "fin"} \/ flow.key = None \/ Linked)
  /\ Goes("undocmd")
  /\ UNCHANGED <<radio, heard, secure, world, left, ghost>>

\* COMMAND 9, or 4 once a commit went out.  `keep`: the dashcam was not reached.
UndoSends ==
  /\ At("undocmd") /\ UNCHANGED <<near, secure, world, ghost>>
  /\ IF flow.stage \in {"hold", "commit", "fin"} /\ Linked
     THEN /\ IF flow.stage = "commit" THEN CamForgets ELSE CamCancels
          /\ flow' = [flow EXCEPT !.pc = "undowait", !.keep = FALSE]
          /\ heard' = [heard EXCEPT !.commit = "none", !.undone = FALSE]
     ELSE /\ flow' = [flow EXCEPT !.pc = "undoend", !.keep = TRUE]
          /\ UNCHANGED <<cam, conn, toPhone, heard, left>>

UndoWaits ==
  /\ At("undowait") /\ Goes("undoend")
  /\ heard.undone \/ ~Linked \/ toPhone = <<>>
  /\ UNCHANGED <<radio, heard, secure, world, left, ghost>>

UndoEndsForgetting ==                          \* no orphan kept
  /\ At("undoend") /\ Unlinked /\ DeletesPending /\ flow' = [Idle EXCEPT !.res = flow.res]
  /\ UNCHANGED <<cam, near, heard, rec, refused, world, left, ghost>>

\* Only a dashcam not reached after a commit may still hold the key: it is kept as the orphan, in the
\* place of an earlier one.  A write the keychain refuses goes unnoticed, and the pending key goes anyway.
KeepsOrphan == flow.stage = "commit" /\ flow.key # None /\ flow.keep
UndoEnds ==
  /\ At("undoend") /\ Unlinked
  /\ flow' = [Idle EXCEPT !.res = flow.res]
  /\ \/ /\ keys' = [keys EXCEPT !.orphan = IF KeepsOrphan THEN flow.key ELSE @,
                                !.pend = IF flow.stage # "pre" \/ flow.key # None THEN None ELSE @]
        /\ ghost' = [ghost EXCEPT !.given = IF KeepsOrphan THEN @ \cup {keys.orphan} ELSE @]
        /\ UNCHANGED left
     \/ /\ KeepsOrphan /\ Trouble("keychain") /\ DeletesPending
        /\ ghost' = [ghost EXCEPT !.given = @ \cup {flow.key}]
  /\ UNCHANGED <<cam, near, heard, rec, refused, world>>

----------------------------------------------------------------------------
(* The driver, drives and the app.                                         *)

\* While the commit's answer is awaited, and no reconnection, Cancel waits for it.
Finishing == flow.pc \in {"commit", "send", "await", "answer", "final", "record"}
TapCancel ==
  /\ app
  /\ CASE Finishing -> flow' = [flow EXCEPT !.after = TRUE]
       [] Running /\ ~Finishing -> flow' = [flow EXCEPT !.cancel = TRUE]
       [] OTHER -> Resumable /\ Undoes("cancelled")
  /\ UNCHANGED <<radio, heard, secure, world, left, ghost>>

\* Try again on a failure that kept the hold.
TapRetry ==
  /\ app /\ Resumable
  /\ flow' = [flow EXCEPT !.cancel = FALSE, !.after = FALSE, !.tries = 0, !.res = "none",
                          !.pc = IF flow.retry = "resume" THEN "rehold" ELSE "commit",
                          !.then = "commit", !.keep = TRUE, !.stage = IF flow.retry = "resume" THEN "commit" ELSE @]
  /\ conn' = IF flow.retry = "resume" THEN NoConn ELSE conn
  /\ toPhone' = IF flow.retry = "resume" THEN <<>> ELSE toPhone
  /\ UNCHANGED <<cam, near, heard, secure, world, left, ghost>>

DriveChanges ==
  /\ app /\ drive' = ~drive
  /\ UNCHANGED <<radio, flow, heard, secure, app, left, ghost>>

\* A drive that opens while a failure keeps the hold stops the setup.
HeldDrive ==
  /\ app /\ Resumable /\ drive /\ Undoes("busy")
  /\ UNCHANGED <<radio, heard, secure, world, left, ghost>>

\* The paired dashcam's auto-connect, stepped aside while a setup runs.
AutoConnects ==
  /\ app /\ ~Running /\ ~Resumable /\ rec /\ near /\ keys.auth # None
  /\ refused' = (keys.auth \notin cam.stored)
  /\ UNCHANGED <<radio, flow, heard, keys, rec, world, left, ghost>>

\* Forget: the dashcam is told if it is connected.
Forgets ==
  /\ app /\ ~Running /\ ~Resumable /\ rec
  /\ cam' \in {cam} \cup (IF near THEN {[cam EXCEPT !.stored = @ \ {keys.auth}]} ELSE {})
  /\ keys' = [keys EXCEPT !.auth = None] /\ rec' = FALSE /\ refused' = FALSE
  /\ ghost' = [ghost EXCEPT !.given = @ \cup {keys.auth}]
  /\ flow' = Idle
  /\ UNCHANGED <<conn, near, toPhone, heard, world, left>>

Dies ==
  /\ app /\ (Trouble("kill") \/ Trouble("reinstall"))
  /\ app' = FALSE /\ drive' = FALSE /\ Unlinked /\ flow' = Idle /\ heard' = Silence
  /\ ghost' = [ghost EXCEPT !.given = @ \cup {flow.key}]
  /\ UNCHANGED <<cam, near, secure>>

\* A launch: the pending key of a setup the app died in goes, and a pairing without its key.
Launches ==
  /\ ~app /\ app' = TRUE
  /\ keys' = [keys EXCEPT !.pend = None]
  /\ rec' = (rec /\ keys.auth # None) /\ refused' = FALSE
  /\ UNCHANGED <<radio, flow, heard, drive, left, ghost>>

\* The first launch of a new install: the key found is set aside as the orphan.
LaunchesAnew ==
  /\ ~app /\ "reinstall" \in Troubles /\ app' = TRUE
  /\ LET found == IF keys.auth # None THEN keys.auth ELSE keys.pend IN
     keys' = [auth |-> None, pend |-> None, orphan |-> IF found # None THEN found ELSE keys.orphan]
  /\ ghost' = [ghost EXCEPT !.given = @ \cup (Kept \ {keys'.orphan})]
  /\ rec' = FALSE /\ refused' = FALSE
  /\ UNCHANGED <<radio, flow, heard, drive, left>>

----------------------------------------------------------------------------
Dashcam == HoldLapses \/ HoldExpires \/ Pressed \/ HangsUp \/ Drop \/ GoesAway \/ ComesBack
Pairing == Connects \/ Claims \/ SendsFin \/ ReadsVerdict \/ FirstSession
Holding == Rehold \/ GivesUp \/ Expires
Commit == Finishes \/ SendsCommit \/ Awaits \/ Answered \/ Finalizes \/ Records
Undo == Stops \/ UndoReaches \/ UndoLinked \/ UndoSends \/ UndoWaits \/ UndoEnds
Steps == Pairing \/ Holding \/ Commit \/ Undo
Driver == Starts \/ LeavesScreen \/ TapCancel \/ TapRetry \/ DriveChanges \/ HeldDrive \/ Forgets
App == AutoConnects \/ Dies \/ Launches \/ LaunchesAnew
Next == Dashcam \/ Steps \/ Hears \/ Driver \/ App
Spec == Init /\ [][Next]_vars

\* The flow's timers and writes go on, a dashcam comes back, and its minute passes.
FairSpec ==
  /\ Spec
  /\ WF_vars(Steps) /\ WF_vars(Hears) /\ WF_vars(HoldLapses) /\ WF_vars(HangsUp) /\ WF_vars(ComesBack)

----------------------------------------------------------------------------
(* Properties.                                                             *)

Codes == {"ok", "full", "notnow"}
Slots == Keys \cup {None}
Cams == [stored: SUBSET Keys, hold: Slots, prev: Slots, window: BOOLEAN]
Conns == [up: BOOLEAN, sess: BOOLEAN, as: Slots, fin: Slots, prev: Slots, verdict: {"none", "ok", "notnow"}]
Frames == [op: {8}, code: Codes] \cup [op: {9}, code: {"ok", "notnow", "expired"}]
Points == Checks \cup {"rest", "session", "send", "answer", "final", "record", "undo", "undocmd", "undowait", "undoend"}
Flows == [pc: Points, then: {"none", "screen", "send", "commit"}, stage: {"pre", "claim", "fin", "hold", "commit"},
          key: Slots, keep: BOOLEAN, again: BOOLEAN, tries: {0, 1},
          res: {"none", "failed", "cancelled", "busy", "done"}, retry: {"restart", "commit", "resume"},
          cancel: BOOLEAN, after: BOOLEAN]

Types ==
  /\ cam \in Cams /\ conn \in Conns /\ toPhone \in Seq(Frames) /\ flow \in Flows
  /\ heard \in [commit: Codes \cup {"none"}, undone: BOOLEAN, expired: BOOLEAN]
  /\ keys \in [auth: Slots, pend: Slots, orphan: Slots]
  /\ ghost \in [made: 0 .. MaxSetups, given: SUBSET Slots, auth: Slots, stored: SUBSET Keys]
  /\ near \in BOOLEAN /\ rec \in BOOLEAN /\ refused \in BOOLEAN /\ app \in BOOLEAN /\ drive \in BOOLEAN
  /\ left \in 0 .. MaxTroubles

\* A setup past PAIR_FIN works with the key SecureStore holds as pending, so that one cut short by the
\* app's death leaves a key the next launch finds.  (Setups follow one another, see above.)
TypeOK == Types /\ ((Running /\ flow.stage \in {"fin", "hold", "commit"}) => flow.key = keys.pend)

\* Every record of this phone the dashcam stores has its key on the phone, as the pairing's, the
\* pending one or the orphan, so it can be used or replaced: whatever a lost link, a cancel, a drive,
\* an expiry or a full store leaves of a setup.  (`given` names the keys that are let go: of a Forget out
\* of reach, of a setup the app died in, of a COMMAND 8 taken though its write failed or answered late,
\* an orphan that a reinstall or an undo puts another in place of, and a key the keychain would not keep
\* as the orphan.)
NoKeyLost == cam.stored \subseteq Kept \cup ghost.given

\* However often this phone is set up, it takes one place at the dashcam: each commit replaces the
\* record of the key it proves.  (But for the records of keys let go, as above: those stay beside it.)
OneRecord == Cardinality(cam.stored \ ghost.given) <= 1

Over == ~Running /\ flow.res \in {"failed", "cancelled", "busy"} /\ ~Resumable
\* "A failed or cancelled setup leaves the previous pairing in place" (setup.ts:18).
PairingKept == Over /\ ghost.auth \in ghost.stored => keys.auth = ghost.auth /\ ghost.auth \in cam.stored

\* Done means paired on both sides: the new key final on the phone, stored by the dashcam, recorded.
DonePaired ==
  [][flow'.res = "done" /\ flow.res # "done" =>
       keys'.auth \in cam.stored /\ keys'.auth = ghost.made /\ rec' /\ keys'.pend = None]_vars

\* A setup never hangs: it comes to rest, or to the screen that waits for the driver.
SetupEnds == flow.pc \notin {"rest", "screen"} ~> flow.pc \in {"rest", "screen"}

============================================================================
