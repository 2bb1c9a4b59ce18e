------------------------- MODULE DashSetupProofs -------------------------
(***************************************************************************)
(* Proofs about DashSetup, for any number of setups and of troubles of     *)
(* every kind.                                                             *)
(*                                                                         *)
(* No property is inductive: whether a key is lost depends on where the    *)
(* setup, the frames and the dashcam's claim stand.  The invariant has two *)
(* layers.  Base holds of every setup: what the flow's point and stage     *)
(* say of the keys (Course), that a session is under the setup's key       *)
(* (Link), that keys are made one after the other (Fresh) and that R_OK to *)
(* COMMAND 8 is said and heard only of a stored key (Stored).  Safe is     *)
(* added when a setup that finds two keys waits for the auto-connect       *)
(* (Settled): whose record each place of the dashcam holds and which the   *)
(* next commit replaces (Accounted), when the setup's key may be stored    *)
(* although the phone has not heard so (Doubt), and that an answer to      *)
(* COMMAND 8 does not come late (Prompt), which is what lets the setup     *)
(* read an answer as its own.                                              *)
(***************************************************************************)
EXTENDS DashSetup, FiniteSetTheorems, TLAPS

(* What holds however a setup begins. *)

\* Keys are made one after the other, and a setup works with the last.
Fresh ==
  /\ cam.stored \cup {cam.hold, cam.prev, conn.fin, conn.prev, keys.auth, keys.pend, keys.orphan} \subseteq 0 .. ghost.made
  /\ flow.key # None => flow.key = ghost.made
  /\ flow.pc \in {"connect", "claim"} =>
       flow.key = None /\ flow.stage = "pre" /\ heard = Silence /\ ghost.made < MaxSetups

\* A session is under the setup's key, on a link, and after the claim.
Link ==
  /\ conn.as # None => conn.up /\ conn.sess /\ conn.as = flow.key /\ conn.fin = None
  /\ conn.sess \/ toPhone # <<>> => conn.as # None
  /\ conn.up => near
  /\ conn.fin # None => conn.fin = flow.key /\ ~heard.expired /\ flow.stage = "claim"
  /\ flow.pc \in {"fin", "verdict"} => conn.as = None

\* Where the flow stands, and with what.
\* (Held: the points with the dashcam's setup mode held, the session up or to be made again.)
Held == {"session", "rehold", "screen", "commit", "send", "await", "answer", "final"}
Course ==
  /\ app => keys.pend = flow.key
  /\ ~app => flow = Idle /\ ~conn.up /\ conn.fin = None
  /\ Running => app
  /\ flow.pc = "rest" => (Resumable <=> flow.key # None)
  /\ Resumable => flow.stage \in {"hold", "commit"}
  /\ flow.pc = "fin" => flow.stage = "claim" /\ flow.key # None
  /\ flow.pc = "verdict" => flow.stage = "fin" /\ flow.key # None
  /\ flow.pc \in Held => flow.stage \in {"hold", "commit"} /\ flow.key # None
  /\ flow.pc \in {"session", "screen"} => flow.stage = "hold"
  /\ flow.pc = "rehold" => flow.then # "none" /\ (flow.then = "screen" => flow.stage = "hold")
  /\ flow.pc = "record" => flow.key = None /\ flow.stage = "pre" /\ keys.auth \in cam.stored /\ keys.auth = ghost.made

\* R_OK to COMMAND 8 is said, and heard, only of a stored key.
SaidOk(f) == f.op = 8 /\ f.code = "ok"
Stored ==
  /\ heard.commit = "ok" /\ flow.key # None => flow.key \in cam.stored
  /\ flow.pc = "final" => heard.commit = "ok"
  /\ \A i \in DOMAIN toPhone : SaidOk(toPhone[i]) => flow.key \in cam.stored

(* What holds when a setup that finds two keys waits for the auto-connect. *)

\* The records whose keys have not been given up.
Owed == cam.stored \ ghost.given

\* Each has its key, and it is the one the next commit replaces.
Replaces(key, prev) ==
  key \notin cam.stored /\ Owed \subseteq {prev} /\ (keys.auth \in cam.stored => keys.auth = prev)
Accounted ==
  /\ NoKeyLost
  /\ ~app => keys.pend \in ghost.given \cup {None}
  /\ keys.auth # None /\ keys.auth \in cam.stored => Owed \subseteq {keys.auth}
  /\ flow.key \in cam.stored => Owed \subseteq {flow.key}
  /\ conn.fin # None => Replaces(conn.fin, conn.prev)
  /\ cam.hold # None /\ cam.hold = flow.key => Replaces(cam.hold, cam.prev)
  /\ flow.pc \in {"connect", "claim"} /\ keys.auth # None /\ keys.orphan # None =>
       refused = (keys.auth \notin cam.stored)

\* Whether the setup's key may be stored is told by the stage, and by the undo's own word.
Doubt ==
  /\ flow.key \in Owed => flow.stage = "commit"
  /\ flow.pc = "rehold" /\ ~flow.keep => flow.stage # "commit"
  /\ flow.pc \in {"undowait", "undoend"} /\ ~flow.keep => flow.key \notin Owed
  /\ flow.key # None /\ (heard.expired \/ \E i \in DOMAIN toPhone : toPhone[i].code = "expired") =>
       flow.key \notin cam.stored /\ cam.hold # flow.key /\ conn.fin = None

\* No answer to COMMAND 8 comes late, unless its key has been given up.
Eights == {i \in DOMAIN toPhone : toPhone[i].op = 8}
Prompt ==
  flow.key \notin ghost.given /\ flow.key # None =>
    /\ flow.pc \in {"session", "screen", "rehold", "rest", "commit", "send"} => Eights = {}
    /\ flow.pc \in {"await", "answer"} =>
         /\ \A i, j \in Eights : i = j
         /\ heard.commit # "none" => Eights = {}
         /\ flow.key \in cam.stored =>
              heard.commit \in {"none", "ok"} /\ \A i \in Eights : toPhone[i].code = "ok"
    /\ flow.pc = "await" /\ Linked => heard.commit # "none" \/ Eights # {}
    /\ flow.pc = "answer" =>
         (heard.expired \/ Eights = {}) /\ (heard.commit # "none" \/ heard.expired \/ ~Linked)

\* What is proved of every setup, and what is added when it waits for the auto-connect.
Base == Types /\ Fresh /\ Link /\ Course /\ Stored
Safe == Accounted /\ Doubt /\ Prompt
Inv == Base /\ (Settled => Safe)

-----------------------------------------------------------------------------
(* The frames on their way. *)

\* A frame is said after the others ...
Said(op, code) ==
  /\ toPhone' # <<>>
  /\ DOMAIN toPhone' = DOMAIN toPhone \cup {Len(toPhone) + 1}
  /\ Len(toPhone) + 1 \notin DOMAIN toPhone
  /\ toPhone'[Len(toPhone) + 1] = [op |-> op, code |-> code]
  /\ \A i \in DOMAIN toPhone : toPhone'[i] = toPhone[i]
  /\ op = 8 => Eights' = Eights \cup {Len(toPhone) + 1}
  /\ op # 8 => Eights' = Eights
\* What Answer does is to say it.
LEMMA AnswerSays ==
  ASSUME Types, NEW op, NEW code, Answer(op, code)
  PROVE  Said(op, code)
<1>1. toPhone \in Seq(Frames) /\ toPhone' = Append(toPhone, [op |-> op, code |-> code])
  BY DEF Types, Answer
<1>2. /\ toPhone' # <<>>
      /\ DOMAIN toPhone' = DOMAIN toPhone \cup {Len(toPhone) + 1}
      /\ Len(toPhone) + 1 \notin DOMAIN toPhone
      /\ toPhone'[Len(toPhone) + 1] = [op |-> op, code |-> code]
      /\ \A i \in DOMAIN toPhone : toPhone'[i] = toPhone[i]
  BY <1>1
<1> QED
  BY <1>2 DEF Said, Eights

\* ... and the first of them is read.
Read(f) ==
  /\ 1 \in DOMAIN toPhone /\ f = toPhone[1] /\ f \in Frames
  /\ \A i \in DOMAIN toPhone' : i + 1 \in DOMAIN toPhone /\ toPhone'[i] = toPhone[i + 1]
  /\ \A i \in Eights' : i + 1 \in Eights /\ toPhone'[i] = toPhone[i + 1]
  /\ f.op # 8 /\ Eights # {} => Eights' # {}
  /\ (\A i, j \in Eights : i = j) => (\A i, j \in Eights' : i = j) /\ (f.op = 8 => Eights' = {})
\* Taking the head off the queue is reading it.
LEMMA TailReads ==
  ASSUME Types, toPhone # <<>>, toPhone' = Tail(toPhone)
  PROVE  Read(Head(toPhone))
<1>1. toPhone \in Seq(Frames)
  BY DEF Types
<1>2. 1 \in DOMAIN toPhone /\ Head(toPhone) = toPhone[1] /\ Head(toPhone) \in Frames
  BY <1>1
<1>3. DOMAIN toPhone' = 1 .. Len(toPhone) - 1 /\ \A i \in 1 .. Len(toPhone) - 1 : toPhone'[i] = toPhone[i + 1]
  BY <1>1
<1>4. DOMAIN toPhone = 1 .. Len(toPhone) /\ Len(toPhone) \in Nat
  BY <1>1
<1>5. \A i \in DOMAIN toPhone' : i + 1 \in DOMAIN toPhone /\ toPhone'[i] = toPhone[i + 1]
  BY <1>3, <1>4
<1>6. \A i \in Eights' : i \in Nat /\ i + 1 \in Eights /\ i + 1 # 1 /\ toPhone'[i] = toPhone[i + 1]
  BY <1>3, <1>4, <1>5 DEF Eights
<1>7. \A i \in Eights : i # 1 => i - 1 \in Eights'
  BY <1>3, <1>4 DEF Eights
<1>8. 1 \in Eights <=> Head(toPhone).op = 8
  BY <1>2 DEF Eights
<1>9. Head(toPhone).op # 8 /\ Eights # {} => Eights' # {}
  BY <1>7, <1>8
<1>10. ASSUME \A i, j \in Eights : i = j
       PROVE  (\A i, j \in Eights' : i = j) /\ (Head(toPhone).op = 8 => Eights' = {})
  <2>1. \A i, j \in Eights' : i = j
    BY <1>6, <1>10
  <2>2. Head(toPhone).op = 8 => Eights' = {}
    BY <1>6, <1>8, <1>10
  <2> QED
    BY <2>1, <2>2
<1> QED
  BY <1>2, <1>5, <1>6, <1>9, <1>10 DEF Read

-----------------------------------------------------------------------------
(* The dashcam by itself. *)

\* The hold undone after its minute ...
LEMMA HoldLapsesKeeps ==
  ASSUME Inv, HoldLapses
  PROVE  Inv'
<1>1. cam' \in Cams
  BY DEF Inv, Base, Types, HoldLapses, None, Running, Undone, camOnly, secure, world, Cams, Conns, Slots, Keys
<1>2. Types'
  BY <1>1 DEF Inv, Base, Types, HoldLapses, radio, world, secure, camOnly
<1>3. Fresh' /\ Link' /\ Course' /\ Stored'
  BY BoundsAssumption
     DEF Inv, Base, Types, Fresh, Link, Course, Stored, HoldLapses, None, Running, Undone, camOnly, secure,
         world, Silence, Idle, Resumable, Held, SaidOk, Flows, Cams, Conns, Slots, Keys, Frames
<1>4. Settled => Accounted' /\ Doubt' /\ Prompt'
  BY BoundsAssumption
     DEF Inv, Base, Types, Safe, Fresh, Link, Course, Stored, Accounted, Doubt, Prompt, HoldLapses, None,
         Running, Undone, camOnly, secure, world, Silence, Idle, Resumable, Held, SaidOk, NoKeyLost, Owed,
         Replaces, Eights, Linked, Kept, Flows, Cams, Conns, Slots, Keys, Frames
<1> QED
  BY <1>2, <1>3, <1>4 DEF Inv, Base, Safe

\* ... or its ten, which is said on its connection.
LEMMA HoldExpiresKeeps ==
  ASSUME Inv, HoldExpires
  PROVE  Inv'
<1> DEFINE Told ==
     /\ cam.hold # None /\ cam' = Undone /\ Holds /\ Answer(9, "expired") /\ UNCHANGED <<conn, camOnly>>
<1> DEFINE Untold ==
     /\ cam.hold # None /\ cam' = Undone /\ ~Holds /\ UNCHANGED <<toPhone, conn, camOnly>>
<1>1. Told \/ Untold
  BY DEF HoldExpires, On, Reconnects, CamCommits, CamForgets, CamCancels, FailsKeeping
<1>2. /\ cam.hold # None
     /\ UNCHANGED <<conn, near, flow, heard, keys, rec, refused, app, drive, ghost>>
     /\ left' \in 0 .. MaxTroubles
  BY BoundsAssumption
     DEF Inv, Base, Types, HoldExpires, On, radio, world, secure, camOnly, Reconnects, CamCommits, CamForgets,
         CamCancels, Trouble
<1> HIDE DEF Told, Untold
<1>3. CASE Told
  <2>1. Said(9, "expired")
    BY <1>3, <1>2, AnswerSays DEF Inv, Base, Told
  <2>2. cam' \in Cams
    BY <1>3, <1>2, <2>1
       DEF Inv, Base, Types, Told, None, Undone, Holds, Answer, camOnly, secure, world, Said, Read, Cams, Conns,
           Slots, Keys
  <2>3. toPhone' \in Seq(Frames)
    BY <1>3, <1>2, <2>1
       DEF Inv, Base, Types, Told, None, Undone, Holds, Answer, camOnly, secure, world, Said, Read, Frames,
           Codes
  <2>4. Types'
    BY <1>3, <1>2, <2>1, <2>2, <2>3 DEF Inv, Base, Types, HoldExpires, Told, radio, world, secure, camOnly
  <2>5. Fresh' /\ Link' /\ Course' /\ Stored'
    BY <1>3, <1>2, <2>1, BoundsAssumption
       DEF Inv, Base, Types, Fresh, Link, Course, Stored, Told, None, Undone, Holds, Answer, camOnly, secure,
           world, Said, Read, Silence, Idle, Running, Resumable, Held, SaidOk, Flows, Cams, Conns, Slots, Keys,
           Frames
  <2>6. Settled => Accounted' /\ Doubt' /\ Prompt'
    BY <1>3, <1>2, <2>1, BoundsAssumption
       DEF Inv, Base, Types, Safe, Fresh, Link, Course, Stored, Accounted, Doubt, Prompt, Told, None, Undone,
           Holds, Answer, camOnly, secure, world, Said, Read, Silence, Idle, Running, Resumable, Held, SaidOk,
           NoKeyLost, Owed, Replaces, Eights, Linked, Kept, Flows, Cams, Conns, Slots, Keys, Frames
  <2> QED
    BY <2>4, <2>5, <2>6 DEF Inv, Base, Safe
<1>4. CASE Untold
  <2>1. cam' \in Cams
    BY <1>4, <1>2
       DEF Inv, Base, Types, Untold, None, Undone, Holds, camOnly, secure, world, Cams, Conns, Slots, Keys
  <2>2. toPhone' \in Seq(Frames)
    BY <1>4, <1>2 DEF Inv, Base, Types, Untold, None, Undone, Holds, camOnly, secure, world, Frames, Codes
  <2>3. Types'
    BY <1>4, <1>2, <2>1, <2>2 DEF Inv, Base, Types, HoldExpires, Untold, radio, world, secure, camOnly
  <2>4. Fresh' /\ Link' /\ Course' /\ Stored'
    BY <1>4, <1>2, BoundsAssumption
       DEF Inv, Base, Types, Fresh, Link, Course, Stored, Untold, None, Undone, Holds, camOnly, secure, world,
           Silence, Idle, Running, Resumable, Held, SaidOk, Flows, Cams, Conns, Slots, Keys, Frames
  <2>5. Settled => Accounted' /\ Doubt' /\ Prompt'
    BY <1>4, <1>2, BoundsAssumption
       DEF Inv, Base, Types, Safe, Fresh, Link, Course, Stored, Accounted, Doubt, Prompt, Untold, None, Undone,
           Holds, camOnly, secure, world, Silence, Idle, Running, Resumable, Held, SaidOk, NoKeyLost, Owed,
           Replaces, Eights, Linked, Kept, Flows, Cams, Conns, Slots, Keys, Frames
  <2> QED
    BY <2>3, <2>4, <2>5 DEF Inv, Base, Safe
<1> QED
  BY <1>1, <1>3, <1>4

\* The button: a claim not yet held falls too.
LEMMA PressedKeeps ==
  ASSUME Inv, Pressed
  PROVE  Inv'
<1>1. left' \in 0 .. MaxTroubles
  BY BoundsAssumption DEF Inv, Base, Types, Pressed, Trouble
<1>2. cam' \in Cams
  BY <1>1 DEF Inv, Base, Types, Pressed, None, Trouble, Undone, camOnly, secure, world, Cams, Conns, Slots, Keys
<1>3. conn' \in Conns
  BY <1>1 DEF Inv, Base, Types, Pressed, None, Trouble, Undone, camOnly, secure, world, Conns, Slots, Flows, Cams
<1>4. Types'
  BY <1>1, <1>2, <1>3 DEF Inv, Base, Types, Pressed, radio, world, secure, camOnly
<1>5. Fresh' /\ Link' /\ Course' /\ Stored'
  BY <1>1, BoundsAssumption
     DEF Inv, Base, Types, Fresh, Link, Course, Stored, Pressed, None, Trouble, Undone, camOnly, secure, world,
         Silence, Idle, Running, Resumable, Held, SaidOk, Flows, Cams, Conns, Slots, Keys, Frames
<1>6. Settled => Accounted' /\ Doubt' /\ Prompt'
  BY <1>1, BoundsAssumption
     DEF Inv, Base, Types, Safe, Fresh, Link, Course, Stored, Accounted, Doubt, Prompt, Pressed, None, Trouble,
         Undone, camOnly, secure, world, Silence, Idle, Running, Resumable, Held, SaidOk, NoKeyLost, Owed,
         Replaces, Eights, Linked, Kept, Flows, Cams, Conns, Slots, Keys, Frames
<1> QED
  BY <1>4, <1>5, <1>6 DEF Inv, Base, Safe

\* The link goes: with the dashcam ...
LEMMA HangsUpKeeps ==
  ASSUME Inv, HangsUp
  PROVE  Inv'
<1>1. conn' \in Conns
  BY DEF Inv, Base, Types, HangsUp, None, Unlinked, camOnly, NoConn, secure, world, Conns, Slots, Flows, Cams
<1>2. toPhone' \in Seq(Frames)
  BY DEF Inv, Base, Types, HangsUp, None, Unlinked, camOnly, NoConn, secure, world, Frames, Codes
<1>3. Types'
  BY <1>1, <1>2 DEF Inv, Base, Types, HangsUp, radio, world, secure, camOnly
<1>4. Fresh' /\ Link' /\ Course' /\ Stored'
  BY BoundsAssumption
     DEF Inv, Base, Types, Fresh, Link, Course, Stored, HangsUp, None, Unlinked, camOnly, NoConn, secure, world,
         Silence, Idle, Running, Resumable, Held, SaidOk, Flows, Cams, Conns, Slots, Keys, Frames
<1>5. Settled => Accounted' /\ Doubt' /\ Prompt'
  BY BoundsAssumption
     DEF Inv, Base, Types, Safe, Fresh, Link, Course, Stored, Accounted, Doubt, Prompt, HangsUp, None, Unlinked,
         camOnly, NoConn, secure, world, Silence, Idle, Running, Resumable, Held, SaidOk, NoKeyLost, Owed,
         Replaces, Eights, Linked, Kept, Flows, Cams, Conns, Slots, Keys, Frames
<1> QED
  BY <1>3, <1>4, <1>5 DEF Inv, Base, Safe

\* ... in the air ...
LEMMA DropKeeps ==
  ASSUME Inv, Drop
  PROVE  Inv'
<1>1. left' \in 0 .. MaxTroubles
  BY BoundsAssumption DEF Inv, Base, Types, Drop, Trouble
<1>2. conn' \in Conns
  BY <1>1
     DEF Inv, Base, Types, Drop, Trouble, Unlinked, camOnly, NoConn, secure, world, None, Conns, Slots, Flows,
         Cams
<1>3. toPhone' \in Seq(Frames)
  BY <1>1 DEF Inv, Base, Types, Drop, Trouble, Unlinked, camOnly, NoConn, secure, world, None, Frames, Codes
<1>4. Types'
  BY <1>1, <1>2, <1>3 DEF Inv, Base, Types, Drop, radio, world, secure, camOnly
<1>5. Fresh' /\ Link' /\ Course' /\ Stored'
  BY <1>1, BoundsAssumption
     DEF Inv, Base, Types, Fresh, Link, Course, Stored, Drop, Trouble, Unlinked, camOnly, NoConn, secure, world,
         None, Silence, Idle, Running, Resumable, Held, SaidOk, Flows, Cams, Conns, Slots, Keys, Frames
<1>6. Settled => Accounted' /\ Doubt' /\ Prompt'
  BY <1>1, BoundsAssumption
     DEF Inv, Base, Types, Safe, Fresh, Link, Course, Stored, Accounted, Doubt, Prompt, Drop, Trouble, Unlinked,
         camOnly, NoConn, secure, world, None, Silence, Idle, Running, Resumable, Held, SaidOk, NoKeyLost, Owed,
         Replaces, Eights, Linked, Kept, Flows, Cams, Conns, Slots, Keys, Frames
<1> QED
  BY <1>4, <1>5, <1>6 DEF Inv, Base, Safe

\* ... or with the dashcam out of reach.
LEMMA GoesAwayKeeps ==
  ASSUME Inv, GoesAway
  PROVE  Inv'
<1>1. left' \in 0 .. MaxTroubles
  BY BoundsAssumption DEF Inv, Base, Types, GoesAway, Trouble
<1>2. conn' \in Conns
  BY <1>1
     DEF Inv, Base, Types, GoesAway, Trouble, Unlinked, secure, world, NoConn, None, Conns, Slots, Flows, Cams
<1>3. toPhone' \in Seq(Frames)
  BY <1>1 DEF Inv, Base, Types, GoesAway, Trouble, Unlinked, secure, world, NoConn, None, Frames, Codes
<1>4. Types'
  BY <1>1, <1>2, <1>3 DEF Inv, Base, Types, GoesAway, radio, world, secure, camOnly
<1>5. Fresh' /\ Link' /\ Course' /\ Stored'
  BY <1>1, BoundsAssumption
     DEF Inv, Base, Types, Fresh, Link, Course, Stored, GoesAway, Trouble, Unlinked, secure, world, NoConn,
         None, Silence, Idle, Running, Resumable, Held, SaidOk, Flows, Cams, Conns, Slots, Keys, Frames
<1>6. Settled => Accounted' /\ Doubt' /\ Prompt'
  BY <1>1, BoundsAssumption
     DEF Inv, Base, Types, Safe, Fresh, Link, Course, Stored, Accounted, Doubt, Prompt, GoesAway, Trouble,
         Unlinked, secure, world, NoConn, None, Silence, Idle, Running, Resumable, Held, SaidOk, NoKeyLost,
         Owed, Replaces, Eights, Linked, Kept, Flows, Cams, Conns, Slots, Keys, Frames
<1> QED
  BY <1>4, <1>5, <1>6 DEF Inv, Base, Safe

\* The dashcam in reach again.
LEMMA ComesBackKeeps ==
  ASSUME Inv, ComesBack
  PROVE  Inv'
<1>1. Types'
  BY DEF Inv, Base, Types, ComesBack, secure, world, radio, camOnly
<1>2. Fresh' /\ Link' /\ Course' /\ Stored'
  BY BoundsAssumption
     DEF Inv, Base, Types, Fresh, Link, Course, Stored, ComesBack, secure, world, None, Silence, Idle, Running,
         Resumable, Held, SaidOk, Flows, Cams, Conns, Slots, Keys, Frames
<1>3. Settled => Accounted' /\ Doubt' /\ Prompt'
  BY BoundsAssumption
     DEF Inv, Base, Types, Safe, Fresh, Link, Course, Stored, Accounted, Doubt, Prompt, ComesBack, secure,
         world, None, Silence, Idle, Running, Resumable, Held, SaidOk, NoKeyLost, Owed, Replaces, Eights,
         Linked, Kept, Flows, Cams, Conns, Slots, Keys, Frames
<1> QED
  BY <1>1, <1>2, <1>3 DEF Inv, Base, Safe

-----------------------------------------------------------------------------
(* The claim. *)

\* The link for the claim, or none.
LEMMA ConnectsKeeps ==
  ASSUME Inv, Connects
  PROVE  Inv'
<1> DEFINE Reached ==
     /\ near /\ cam.window /\ cam.hold = None /\ conn' = [NoConn EXCEPT !.up = TRUE] /\ Goes("claim")
<1> DEFINE Missed ==
     /\ conn' = NoConn /\ Undoes("failed")
<1>1. Reached \/ Missed
  BY DEF Connects, On, Reconnects, CamCommits, CamForgets, CamCancels, FailsKeeping
<1>2. /\ At("connect")
     /\ UNCHANGED <<cam, near, toPhone, heard, keys, rec, refused, app, drive, left, ghost>>
  BY DEF Connects, On, radio, world, secure, camOnly, Reconnects, CamCommits, CamForgets, CamCancels, Trouble
<1> HIDE DEF Reached, Missed
<1>3. CASE Reached
  <2>1. conn' \in Conns
    BY <1>3, <1>2 DEF Inv, Base, Types, Reached, None, NoConn, Goes, At, Conns, Slots
  <2>2. flow' \in Flows
    BY <1>3, <1>2 DEF Inv, Base, Types, Reached, None, NoConn, Goes, At, Flows, Points, Checks, Slots
  <2>3. Types'
    BY <1>3, <1>2, <2>1, <2>2 DEF Inv, Base, Types, Connects, Reached, radio, world, secure, camOnly
  <2>4. Fresh' /\ Link' /\ Course' /\ Stored'
    BY <1>3, <1>2, BoundsAssumption
       DEF Inv, Base, Types, Fresh, Link, Course, Stored, Reached, None, NoConn, Goes, At, Silence, Idle,
           Running, Resumable, Held, SaidOk, Flows, Cams, Conns, Slots, Keys, Frames
  <2>5. Settled => Accounted' /\ Doubt' /\ Prompt'
    BY <1>3, <1>2, BoundsAssumption
       DEF Inv, Base, Types, Safe, Fresh, Link, Course, Stored, Accounted, Doubt, Prompt, Reached, None, NoConn,
           Goes, At, Silence, Idle, Running, Resumable, Held, SaidOk, NoKeyLost, Owed, Replaces, Eights, Linked,
           Kept, Flows, Cams, Conns, Slots, Keys, Frames
  <2> QED
    BY <2>3, <2>4, <2>5 DEF Inv, Base, Safe
<1>4. CASE Missed
  <2>1. conn' \in Conns
    BY <1>4, <1>2 DEF Inv, Base, Types, Missed, NoConn, Undoes, At, None, Conns, Slots
  <2>2. flow' \in Flows
    BY <1>4, <1>2 DEF Inv, Base, Types, Missed, NoConn, Undoes, At, None, Flows, Points, Checks, Slots
  <2>3. Types'
    BY <1>4, <1>2, <2>1, <2>2 DEF Inv, Base, Types, Connects, Missed, radio, world, secure, camOnly
  <2>4. Fresh' /\ Link' /\ Course' /\ Stored'
    BY <1>4, <1>2, BoundsAssumption
       DEF Inv, Base, Types, Fresh, Link, Course, Stored, Missed, NoConn, Undoes, At, None, Silence, Idle,
           Running, Resumable, Held, SaidOk, Flows, Cams, Conns, Slots, Keys, Frames
  <2>5. Settled => Accounted' /\ Doubt' /\ Prompt'
    BY <1>4, <1>2, BoundsAssumption
       DEF Inv, Base, Types, Safe, Fresh, Link, Course, Stored, Accounted, Doubt, Prompt, Missed, NoConn,
           Undoes, At, None, Silence, Idle, Running, Resumable, Held, SaidOk, NoKeyLost, Owed, Replaces, Eights,
           Linked, Kept, Flows, Cams, Conns, Slots, Keys, Frames
  <2> QED
    BY <2>3, <2>4, <2>5 DEF Inv, Base, Safe
<1> QED
  BY <1>1, <1>3, <1>4

\* A new key: it and the one it replaces are claimed, or it could not be kept, or the link was gone.
LEMMA ClaimsKeeps ==
  ASSUME Inv, Claims
  PROVE  Inv'
<1> DEFINE Made ==
     /\ conn.up /\ ghost' = [ghost EXCEPT !.made = ghost.made + 1] /\ keys' = [keys EXCEPT !.pend = ghost.made + 1]
     /\ conn' = [conn EXCEPT !.fin = ghost.made + 1, !.prev = IF Previous \in cam.stored THEN Previous ELSE None]
     /\ flow' = [flow EXCEPT !.pc = "fin", !.stage = "claim", !.key = ghost.made + 1]
<1> DEFINE Unsaved ==
     /\ ghost' = [ghost EXCEPT !.made = ghost.made + 1] /\ UNCHANGED keys /\ conn' = NoConn
     /\ flow' = [flow EXCEPT !.pc = "undo", !.stage = "claim", !.res = "failed"]
<1> DEFINE Again ==
     /\ ~conn.up /\ flow' = [flow EXCEPT !.pc = "connect", !.stage = "pre", !.again = TRUE]
     /\ UNCHANGED <<conn, keys, left, ghost>>
<1> DEFINE Enough ==
     /\ ~conn.up /\ flow' = [flow EXCEPT !.pc = "undo", !.stage = "pre", !.res = "failed"]
     /\ UNCHANGED <<conn, keys, left, ghost>>
<1>1. Made \/ Unsaved \/ Again \/ Enough
  BY DEF Claims, On, Reconnects, CamCommits, CamForgets, CamCancels, FailsKeeping
<1>2. /\ At("claim")
     /\ UNCHANGED <<cam, near, toPhone, heard, rec, refused, app, drive>>
     /\ left' \in 0 .. MaxTroubles
  BY BoundsAssumption
     DEF Inv, Base, Types, Claims, On, radio, world, secure, camOnly, Reconnects, CamCommits, CamForgets,
         CamCancels, Trouble
<1> HIDE DEF Made, Unsaved, Again, Enough
<1>3. CASE Made
  <2>1. /\ ghost.made + 1 \in Keys /\ ghost.made + 1 <= MaxSetups
        /\ Previous \in Slots
    BY <1>3, <1>2, BoundsAssumption DEF Inv, Base, Types, Fresh, At, Keys, Slots, Previous, None
  <2>2. conn' \in Conns
    BY <1>3, <1>2, <2>1 DEF Inv, Base, Types, Made, Previous, None, At, Conns, Slots, Flows, Cams
  <2>3. keys' \in [auth: Slots, pend: Slots, orphan: Slots]
    BY <1>3, <1>2, <2>1 DEF Inv, Base, Types, Made, Previous, None, At, Slots, Flows
  <2>4. flow' \in Flows
    BY <1>3, <1>2, <2>1 DEF Inv, Base, Types, Made, Previous, None, At, Flows, Points, Checks, Slots
  <2>5. ghost' \in [made: 0 .. MaxSetups, given: SUBSET Slots, auth: Slots, stored: SUBSET Keys]
    BY <1>3, <1>2, <2>1 DEF Inv, Base, Types, Made, Previous, None, At, Slots, Flows, Keys, Cams
  <2>6. Types'
    BY <1>3, <1>2, <2>1, <2>2, <2>3, <2>4, <2>5 DEF Inv, Base, Types, Claims, Made, radio, world, secure, camOnly
  <2>7. Fresh' /\ Link' /\ Course' /\ Stored'
    BY <1>3, <1>2, <2>1, BoundsAssumption
       DEF Inv, Base, Types, Fresh, Link, Course, Stored, Made, Previous, None, At, Silence, Idle, Running,
           Resumable, Held, SaidOk, Flows, Cams, Conns, Slots, Keys, Frames
  <2>8. Settled => Accounted' /\ Doubt' /\ Prompt'
    BY <1>3, <1>2, <2>1, BoundsAssumption
       DEF Inv, Base, Types, Safe, Fresh, Link, Course, Stored, Accounted, Doubt, Prompt, Made, Previous, None,
           At, Silence, Idle, Running, Resumable, Held, SaidOk, NoKeyLost, Owed, Replaces, Eights, Linked, Kept,
           Flows, Cams, Conns, Slots, Keys, Frames
  <2> QED
    BY <2>6, <2>7, <2>8 DEF Inv, Base, Safe
<1>4. CASE Unsaved
  <2>1. /\ ghost.made + 1 \in Keys /\ ghost.made + 1 <= MaxSetups
    BY <1>4, <1>2, BoundsAssumption DEF Inv, Base, Types, Fresh, At, Keys
  <2>2. conn' \in Conns
    BY <1>4, <1>2, <2>1 DEF Inv, Base, Types, Unsaved, NoConn, At, None, Conns, Slots, Flows, Cams
  <2>3. keys' \in [auth: Slots, pend: Slots, orphan: Slots]
    BY <1>4, <1>2, <2>1 DEF Inv, Base, Types, Unsaved, NoConn, At, None, Slots, Flows
  <2>4. flow' \in Flows
    BY <1>4, <1>2, <2>1 DEF Inv, Base, Types, Unsaved, NoConn, At, None, Flows, Points, Checks, Slots
  <2>5. ghost' \in [made: 0 .. MaxSetups, given: SUBSET Slots, auth: Slots, stored: SUBSET Keys]
    BY <1>4, <1>2, <2>1 DEF Inv, Base, Types, Unsaved, NoConn, At, None, Slots, Flows, Keys, Cams
  <2>6. Types'
    BY <1>4, <1>2, <2>1, <2>2, <2>3, <2>4, <2>5
       DEF Inv, Base, Types, Claims, Unsaved, radio, world, secure, camOnly
  <2>7. Fresh' /\ Link' /\ Course' /\ Stored'
    BY <1>4, <1>2, <2>1, BoundsAssumption
       DEF Inv, Base, Types, Fresh, Link, Course, Stored, Unsaved, NoConn, At, None, Silence, Idle, Running,
           Resumable, Held, SaidOk, Flows, Cams, Conns, Slots, Keys, Frames
  <2>8. Settled => Accounted' /\ Doubt' /\ Prompt'
    BY <1>4, <1>2, <2>1, BoundsAssumption
       DEF Inv, Base, Types, Safe, Fresh, Link, Course, Stored, Accounted, Doubt, Prompt, Unsaved, NoConn, At,
           None, Silence, Idle, Running, Resumable, Held, SaidOk, NoKeyLost, Owed, Replaces, Eights, Linked,
           Kept, Flows, Cams, Conns, Slots, Keys, Frames
  <2> QED
    BY <2>6, <2>7, <2>8 DEF Inv, Base, Safe
<1>5. CASE Again
  <2>1. conn' \in Conns
    BY <1>5, <1>2 DEF Inv, Base, Types, Again, At, Conns, Slots, Flows, Cams
  <2>2. keys' \in [auth: Slots, pend: Slots, orphan: Slots]
    BY <1>5, <1>2 DEF Inv, Base, Types, Again, At, Slots, Flows
  <2>3. flow' \in Flows
    BY <1>5, <1>2 DEF Inv, Base, Types, Again, At, Flows, Points, Checks, Slots
  <2>4. ghost' \in [made: 0 .. MaxSetups, given: SUBSET Slots, auth: Slots, stored: SUBSET Keys]
    BY <1>5, <1>2 DEF Inv, Base, Types, Again, At, Slots, Flows, Keys, Cams
  <2>5. Types'
    BY <1>5, <1>2, <2>1, <2>2, <2>3, <2>4 DEF Inv, Base, Types, Claims, Again, radio, world, secure, camOnly
  <2>6. Fresh' /\ Link' /\ Course' /\ Stored'
    BY <1>5, <1>2, BoundsAssumption
       DEF Inv, Base, Types, Fresh, Link, Course, Stored, Again, At, None, Silence, Idle, Running, Resumable,
           Held, SaidOk, Flows, Cams, Conns, Slots, Keys, Frames
  <2>7. Settled => Accounted' /\ Doubt' /\ Prompt'
    BY <1>5, <1>2, BoundsAssumption
       DEF Inv, Base, Types, Safe, Fresh, Link, Course, Stored, Accounted, Doubt, Prompt, Again, At, None,
           Silence, Idle, Running, Resumable, Held, SaidOk, NoKeyLost, Owed, Replaces, Eights, Linked, Kept,
           Flows, Cams, Conns, Slots, Keys, Frames
  <2> QED
    BY <2>5, <2>6, <2>7 DEF Inv, Base, Safe
<1>6. CASE Enough
  <2>1. conn' \in Conns
    BY <1>6, <1>2 DEF Inv, Base, Types, Enough, At, Conns, Slots, Flows, Cams
  <2>2. keys' \in [auth: Slots, pend: Slots, orphan: Slots]
    BY <1>6, <1>2 DEF Inv, Base, Types, Enough, At, Slots, Flows
  <2>3. flow' \in Flows
    BY <1>6, <1>2 DEF Inv, Base, Types, Enough, At, Flows, Points, Checks, Slots
  <2>4. ghost' \in [made: 0 .. MaxSetups, given: SUBSET Slots, auth: Slots, stored: SUBSET Keys]
    BY <1>6, <1>2 DEF Inv, Base, Types, Enough, At, Slots, Flows, Keys, Cams
  <2>5. Types'
    BY <1>6, <1>2, <2>1, <2>2, <2>3, <2>4 DEF Inv, Base, Types, Claims, Enough, radio, world, secure, camOnly
  <2>6. Fresh' /\ Link' /\ Course' /\ Stored'
    BY <1>6, <1>2, BoundsAssumption
       DEF Inv, Base, Types, Fresh, Link, Course, Stored, Enough, At, None, Silence, Idle, Running, Resumable,
           Held, SaidOk, Flows, Cams, Conns, Slots, Keys, Frames
  <2>7. Settled => Accounted' /\ Doubt' /\ Prompt'
    BY <1>6, <1>2, BoundsAssumption
       DEF Inv, Base, Types, Safe, Fresh, Link, Course, Stored, Accounted, Doubt, Prompt, Enough, At, None,
           Silence, Idle, Running, Resumable, Held, SaidOk, NoKeyLost, Owed, Replaces, Eights, Linked, Kept,
           Flows, Cams, Conns, Slots, Keys, Frames
  <2> QED
    BY <2>5, <2>6, <2>7 DEF Inv, Base, Safe
<1> QED
  BY <1>1, <1>3, <1>4, <1>5, <1>6

\* PAIR_FIN makes the claim a hold, with what it replaces.
LEMMA SendsFinKeeps ==
  ASSUME Inv, SendsFin
  PROVE  Inv'
<1> DEFINE Refused ==
     /\ conn.fin = None /\ cam' = cam /\ conn' = [conn EXCEPT !.verdict = "notnow"]
     /\ flow' = [flow EXCEPT !.pc = "verdict", !.stage = "fin"]
<1> DEFINE Provisional ==
     /\ conn.fin # None /\ cam' = [cam EXCEPT !.hold = conn.fin, !.prev = conn.prev]
     /\ conn' = [conn EXCEPT !.fin = None, !.verdict = "ok"]
     /\ flow' = [flow EXCEPT !.pc = "verdict", !.stage = "fin"]
<1>1. Refused \/ Provisional
  BY DEF SendsFin, On, Reconnects, CamCommits, CamForgets, CamCancels, FailsKeeping
<1>2. /\ At("fin")
     /\ UNCHANGED <<near, toPhone, heard, keys, rec, refused, app, drive, left, ghost>>
  BY DEF SendsFin, On, radio, world, secure, camOnly, Reconnects, CamCommits, CamForgets, CamCancels, Trouble
<1> HIDE DEF Refused, Provisional
<1>3. CASE Refused
  <2>1. flow'.pc = "verdict" /\ flow'.stage = "fin" /\ flow'.key = flow.key /\ flow'.then = flow.then
    BY <1>3, <1>2 DEF Inv, Base, Types, Flows, Refused
  <2>2. app
    BY <1>3, <1>2, <2>1 DEF Inv, Base, Course, Running, At
  <2>3. cam' \in Cams
    BY <1>3, <1>2, <2>1, <2>2 DEF Inv, Base, Types, Refused, None, At, Cams, Conns, Slots, Keys
  <2>4. conn' \in Conns
    BY <1>3, <1>2, <2>1, <2>2 DEF Inv, Base, Types, Refused, None, At, Conns, Slots, Flows, Cams
  <2>5. flow' \in Flows
    BY <1>3, <1>2, <2>1, <2>2 DEF Inv, Base, Types, Refused, None, At, Flows, Points, Checks, Slots
  <2>6. Types'
    BY <1>3, <1>2, <2>1, <2>2, <2>3, <2>4, <2>5
       DEF Inv, Base, Types, SendsFin, Refused, radio, world, secure, camOnly
  <2>7. Fresh'
    BY <1>3, <1>2, <2>1, <2>2, BoundsAssumption
       DEF Inv, Base, Types, Fresh, Link, Course, Stored, Refused, None, At, Silence, Idle, Running, Resumable,
           Held, SaidOk, Flows, Cams, Conns, Slots, Keys, Frames
  <2>8. Link'
    BY <1>3, <1>2, <2>1, <2>2, BoundsAssumption
       DEF Inv, Base, Types, Fresh, Link, Course, Stored, Refused, None, At, Silence, Idle, Running, Resumable,
           Held, SaidOk, Flows, Cams, Conns, Slots, Keys, Frames
  <2>9. Course'
    BY <1>2, <2>1, <2>2 DEF Inv, Base, Course, Running, Resumable, Held, At
  <2>10. Stored'
    BY <1>3, <1>2, <2>1, <2>2, BoundsAssumption
       DEF Inv, Base, Types, Fresh, Link, Course, Stored, Refused, None, At, Silence, Idle, Running, Resumable,
           Held, SaidOk, Flows, Cams, Conns, Slots, Keys, Frames
  <2>11. Settled => Accounted' /\ Doubt' /\ Prompt'
    BY <1>3, <1>2, <2>1, <2>2, BoundsAssumption
       DEF Inv, Base, Types, Safe, Fresh, Link, Course, Stored, Accounted, Doubt, Prompt, Refused, None, At,
           Silence, Idle, Running, Resumable, Held, SaidOk, NoKeyLost, Owed, Replaces, Eights, Linked, Kept,
           Flows, Cams, Conns, Slots, Keys, Frames
  <2> QED
    BY <2>6, <2>7, <2>8, <2>9, <2>10, <2>11 DEF Inv, Base, Safe
<1>4. CASE Provisional
  <2>1. flow'.pc = "verdict" /\ flow'.stage = "fin" /\ flow'.key = flow.key /\ flow'.then = flow.then
    BY <1>4, <1>2 DEF Inv, Base, Types, Flows, Provisional
  <2>2. app
    BY <1>4, <1>2, <2>1 DEF Inv, Base, Course, Running, At
  <2>3. cam' \in Cams
    BY <1>4, <1>2, <2>1, <2>2 DEF Inv, Base, Types, Provisional, None, At, Cams, Conns, Slots, Keys
  <2>4. conn' \in Conns
    BY <1>4, <1>2, <2>1, <2>2 DEF Inv, Base, Types, Provisional, None, At, Conns, Slots, Flows, Cams
  <2>5. flow' \in Flows
    BY <1>4, <1>2, <2>1, <2>2 DEF Inv, Base, Types, Provisional, None, At, Flows, Points, Checks, Slots
  <2>6. Types'
    BY <1>4, <1>2, <2>1, <2>2, <2>3, <2>4, <2>5
       DEF Inv, Base, Types, SendsFin, Provisional, radio, world, secure, camOnly
  <2>7. Fresh'
    BY <1>4, <1>2, <2>1, <2>2, BoundsAssumption
       DEF Inv, Base, Types, Fresh, Link, Course, Stored, Provisional, None, At, Silence, Idle, Running,
           Resumable, Held, SaidOk, Flows, Cams, Conns, Slots, Keys, Frames
  <2>8. Link'
    BY <1>4, <1>2, <2>1, <2>2, BoundsAssumption
       DEF Inv, Base, Types, Fresh, Link, Course, Stored, Provisional, None, At, Silence, Idle, Running,
           Resumable, Held, SaidOk, Flows, Cams, Conns, Slots, Keys, Frames
  <2>9. Course'
    BY <1>2, <2>1, <2>2 DEF Inv, Base, Course, Running, Resumable, Held, At
  <2>10. Stored'
    BY <1>4, <1>2, <2>1, <2>2, BoundsAssumption
       DEF Inv, Base, Types, Fresh, Link, Course, Stored, Provisional, None, At, Silence, Idle, Running,
           Resumable, Held, SaidOk, Flows, Cams, Conns, Slots, Keys, Frames
  <2>11. Settled => Accounted' /\ Doubt' /\ Prompt'
    BY <1>4, <1>2, <2>1, <2>2, BoundsAssumption
       DEF Inv, Base, Types, Safe, Fresh, Link, Course, Stored, Accounted, Doubt, Prompt, Provisional, None, At,
           Silence, Idle, Running, Resumable, Held, SaidOk, NoKeyLost, Owed, Replaces, Eights, Linked, Kept,
           Flows, Cams, Conns, Slots, Keys, Frames
  <2> QED
    BY <2>6, <2>7, <2>8, <2>9, <2>10, <2>11 DEF Inv, Base, Safe
<1> QED
  BY <1>1, <1>3, <1>4

\* Held, maybe held, or not.
LEMMA ReadsVerdictKeeps ==
  ASSUME Inv, ReadsVerdict
  PROVE  Inv'
<1> DEFINE Lost ==
     /\ flow' = [flow EXCEPT !.pc = "rehold", !.then = "screen", !.keep = FALSE, !.stage = "hold"] /\ UNCHANGED keys
<1> DEFINE Good ==
     /\ flow' = [flow EXCEPT !.pc = "session", !.stage = "hold"] /\ UNCHANGED keys
<1> DEFINE Bad ==
     /\ DeletesPending /\ FailsForgetting
<1>1. Lost \/ Good \/ Bad
  BY DEF ReadsVerdict, On, Reconnects, CamCommits, CamForgets, CamCancels, FailsKeeping
<1>2. /\ At("verdict")
     /\ UNCHANGED <<cam, conn, near, toPhone, heard, rec, refused, app, drive, left, ghost>>
  BY DEF ReadsVerdict, On, radio, world, secure, camOnly, Reconnects, CamCommits, CamForgets, CamCancels, Trouble
<1> HIDE DEF Lost, Good, Bad
<1>3. CASE Lost
  <2>1. keys' \in [auth: Slots, pend: Slots, orphan: Slots]
    BY <1>3, <1>2 DEF Inv, Base, Types, Lost, At, Slots, Flows
  <2>2. flow' \in Flows
    BY <1>3, <1>2 DEF Inv, Base, Types, Lost, At, Flows, Points, Checks, Slots
  <2>3. Types'
    BY <1>3, <1>2, <2>1, <2>2 DEF Inv, Base, Types, ReadsVerdict, Lost, radio, world, secure, camOnly
  <2>4. Fresh' /\ Link' /\ Course' /\ Stored'
    BY <1>3, <1>2, BoundsAssumption
       DEF Inv, Base, Types, Fresh, Link, Course, Stored, Lost, At, None, Silence, Idle, Running, Resumable,
           Held, SaidOk, Flows, Cams, Conns, Slots, Keys, Frames
  <2>5. Settled => Accounted' /\ Doubt' /\ Prompt'
    BY <1>3, <1>2, BoundsAssumption
       DEF Inv, Base, Types, Safe, Fresh, Link, Course, Stored, Accounted, Doubt, Prompt, Lost, At, None,
           Silence, Idle, Running, Resumable, Held, SaidOk, NoKeyLost, Owed, Replaces, Eights, Linked, Kept,
           Flows, Cams, Conns, Slots, Keys, Frames
  <2> QED
    BY <2>3, <2>4, <2>5 DEF Inv, Base, Safe
<1>4. CASE Good
  <2>1. keys' \in [auth: Slots, pend: Slots, orphan: Slots]
    BY <1>4, <1>2 DEF Inv, Base, Types, Good, At, Slots, Flows
  <2>2. flow' \in Flows
    BY <1>4, <1>2 DEF Inv, Base, Types, Good, At, Flows, Points, Checks, Slots
  <2>3. Types'
    BY <1>4, <1>2, <2>1, <2>2 DEF Inv, Base, Types, ReadsVerdict, Good, radio, world, secure, camOnly
  <2>4. Fresh' /\ Link' /\ Course' /\ Stored'
    BY <1>4, <1>2, BoundsAssumption
       DEF Inv, Base, Types, Fresh, Link, Course, Stored, Good, At, None, Silence, Idle, Running, Resumable,
           Held, SaidOk, Flows, Cams, Conns, Slots, Keys, Frames
  <2>5. Settled => Accounted' /\ Doubt' /\ Prompt'
    BY <1>4, <1>2, BoundsAssumption
       DEF Inv, Base, Types, Safe, Fresh, Link, Course, Stored, Accounted, Doubt, Prompt, Good, At, None,
           Silence, Idle, Running, Resumable, Held, SaidOk, NoKeyLost, Owed, Replaces, Eights, Linked, Kept,
           Flows, Cams, Conns, Slots, Keys, Frames
  <2> QED
    BY <2>3, <2>4, <2>5 DEF Inv, Base, Safe
<1>5. CASE Bad
  <2>1. keys' \in [auth: Slots, pend: Slots, orphan: Slots]
    BY <1>5, <1>2 DEF Inv, Base, Types, Bad, DeletesPending, FailsForgetting, At, None, Slots, Flows
  <2>2. flow' \in Flows
    BY <1>5, <1>2
       DEF Inv, Base, Types, Bad, DeletesPending, FailsForgetting, At, None, Flows, Points, Checks, Slots
  <2>3. Types'
    BY <1>5, <1>2, <2>1, <2>2 DEF Inv, Base, Types, ReadsVerdict, Bad, radio, world, secure, camOnly
  <2>4. Fresh' /\ Link' /\ Course' /\ Stored'
    BY <1>5, <1>2, BoundsAssumption
       DEF Inv, Base, Types, Fresh, Link, Course, Stored, Bad, DeletesPending, FailsForgetting, At, None,
           Silence, Idle, Running, Resumable, Held, SaidOk, Flows, Cams, Conns, Slots, Keys, Frames
  <2>5. Settled => Accounted' /\ Doubt' /\ Prompt'
    BY <1>5, <1>2, BoundsAssumption
       DEF Inv, Base, Types, Safe, Fresh, Link, Course, Stored, Accounted, Doubt, Prompt, Bad, DeletesPending,
           FailsForgetting, At, None, Silence, Idle, Running, Resumable, Held, SaidOk, NoKeyLost, Owed,
           Replaces, Eights, Linked, Kept, Flows, Cams, Conns, Slots, Keys, Frames
  <2> QED
    BY <2>3, <2>4, <2>5 DEF Inv, Base, Safe
<1> QED
  BY <1>1, <1>3, <1>4, <1>5

\* The first session under the new key.
LEMMA FirstSessionKeeps ==
  ASSUME Inv, FirstSession
  PROVE  Inv'
<1> DEFINE Linking ==
     /\ conn.up /\ Known /\ Session /\ Goes("screen") /\ UNCHANGED toPhone
<1> DEFINE Lost ==
     /\ Unlinked /\ flow' = [flow EXCEPT !.pc = "rehold", !.then = "screen", !.keep = FALSE]
<1>1. Linking \/ Lost
  BY DEF FirstSession, On, Reconnects, CamCommits, CamForgets, CamCancels, FailsKeeping
<1>2. /\ At("session")
     /\ UNCHANGED <<cam, near, heard, keys, rec, refused, app, drive, left, ghost>>
  BY DEF FirstSession, On, radio, world, secure, camOnly, Reconnects, CamCommits, CamForgets, CamCancels, Trouble
<1> HIDE DEF Linking, Lost
<1>3. CASE Linking
  <2>1. conn' \in Conns
    BY <1>3, <1>2 DEF Inv, Base, Types, Linking, Known, Session, Goes, At, NoConn, None, Conns, Slots, Flows, Cams
  <2>2. toPhone' \in Seq(Frames)
    BY <1>3, <1>2 DEF Inv, Base, Types, Linking, Known, Session, Goes, At, NoConn, None, Frames, Codes
  <2>3. flow' \in Flows
    BY <1>3, <1>2
       DEF Inv, Base, Types, Linking, Known, Session, Goes, At, NoConn, None, Flows, Points, Checks, Slots
  <2>4. Types'
    BY <1>3, <1>2, <2>1, <2>2, <2>3 DEF Inv, Base, Types, FirstSession, Linking, radio, world, secure, camOnly
  <2>5. Fresh' /\ Link' /\ Course' /\ Stored'
    BY <1>3, <1>2, BoundsAssumption
       DEF Inv, Base, Types, Fresh, Link, Course, Stored, Linking, Known, Session, Goes, At, NoConn, None,
           Silence, Idle, Running, Resumable, Held, SaidOk, Flows, Cams, Conns, Slots, Keys, Frames
  <2>6. Settled => Accounted' /\ Doubt' /\ Prompt'
    BY <1>3, <1>2, BoundsAssumption
       DEF Inv, Base, Types, Safe, Fresh, Link, Course, Stored, Accounted, Doubt, Prompt, Linking, Known,
           Session, Goes, At, NoConn, None, Silence, Idle, Running, Resumable, Held, SaidOk, NoKeyLost, Owed,
           Replaces, Eights, Linked, Kept, Flows, Cams, Conns, Slots, Keys, Frames
  <2> QED
    BY <2>4, <2>5, <2>6 DEF Inv, Base, Safe
<1>4. CASE Lost
  <2>1. conn' \in Conns
    BY <1>4, <1>2 DEF Inv, Base, Types, Lost, Unlinked, At, NoConn, None, Conns, Slots, Flows, Cams
  <2>2. toPhone' \in Seq(Frames)
    BY <1>4, <1>2 DEF Inv, Base, Types, Lost, Unlinked, At, NoConn, None, Frames, Codes
  <2>3. flow' \in Flows
    BY <1>4, <1>2 DEF Inv, Base, Types, Lost, Unlinked, At, NoConn, None, Flows, Points, Checks, Slots
  <2>4. Types'
    BY <1>4, <1>2, <2>1, <2>2, <2>3 DEF Inv, Base, Types, FirstSession, Lost, radio, world, secure, camOnly
  <2>5. Fresh' /\ Link' /\ Course' /\ Stored'
    BY <1>4, <1>2, BoundsAssumption
       DEF Inv, Base, Types, Fresh, Link, Course, Stored, Lost, Unlinked, At, NoConn, None, Silence, Idle,
           Running, Resumable, Held, SaidOk, Flows, Cams, Conns, Slots, Keys, Frames
  <2>6. Settled => Accounted' /\ Doubt' /\ Prompt'
    BY <1>4, <1>2, BoundsAssumption
       DEF Inv, Base, Types, Safe, Fresh, Link, Course, Stored, Accounted, Doubt, Prompt, Lost, Unlinked, At,
           NoConn, None, Silence, Idle, Running, Resumable, Held, SaidOk, NoKeyLost, Owed, Replaces, Eights,
           Linked, Kept, Flows, Cams, Conns, Slots, Keys, Frames
  <2> QED
    BY <2>4, <2>5, <2>6 DEF Inv, Base, Safe
<1> QED
  BY <1>1, <1>3, <1>4

-----------------------------------------------------------------------------
(* The hold and the commit. *)

\* A session again, or the hold is gone and nothing stored.
LEMMA ReholdKeeps ==
  ASSUME Inv, Rehold
  PROVE  Inv'
<1> DEFINE Linking ==
     /\ Known /\ Session /\ Goes(flow.then) /\ UNCHANGED <<toPhone, keys>>
<1> DEFINE Gone ==
     /\ ~Known /\ Unlinked /\ DeletesPending /\ FailsForgetting
<1>1. Linking \/ Gone
  BY DEF Rehold, On, Reconnects, CamCommits, CamForgets, CamCancels, FailsKeeping
<1>2. /\ At("rehold") /\ near
     /\ UNCHANGED <<cam, near, heard, rec, refused, app, drive, left, ghost>>
  BY DEF Rehold, On, radio, world, secure, camOnly, Reconnects, CamCommits, CamForgets, CamCancels, Trouble
<1> HIDE DEF Linking, Gone
<1>3. CASE Linking
  <2>1. flow.then \in {"screen", "send", "commit"}
    BY <1>3, <1>2 DEF Inv, Base, Types, Flows, Course, At
  <2>2. conn' \in Conns
    BY <1>3, <1>2, <2>1
       DEF Inv, Base, Types, Linking, Known, Session, Goes, At, NoConn, None, Conns, Slots, Flows, Cams
  <2>3. toPhone' \in Seq(Frames)
    BY <1>3, <1>2, <2>1 DEF Inv, Base, Types, Linking, Known, Session, Goes, At, NoConn, None, Frames, Codes
  <2>4. flow' \in Flows
    BY <1>3, <1>2, <2>1
       DEF Inv, Base, Types, Linking, Known, Session, Goes, At, NoConn, None, Flows, Points, Checks, Slots
  <2>5. keys' \in [auth: Slots, pend: Slots, orphan: Slots]
    BY <1>3, <1>2, <2>1 DEF Inv, Base, Types, Linking, Known, Session, Goes, At, NoConn, None, Slots, Flows
  <2>6. Types'
    BY <1>3, <1>2, <2>1, <2>2, <2>3, <2>4, <2>5
       DEF Inv, Base, Types, Rehold, Linking, radio, world, secure, camOnly
  <2>7. Fresh' /\ Link' /\ Course' /\ Stored'
    BY <1>3, <1>2, <2>1, BoundsAssumption
       DEF Inv, Base, Types, Fresh, Link, Course, Stored, Linking, Known, Session, Goes, At, NoConn, None,
           Silence, Idle, Running, Resumable, Held, SaidOk, Flows, Cams, Conns, Slots, Keys, Frames
  <2>8. Settled => Accounted' /\ Doubt' /\ Prompt'
    BY <1>3, <1>2, <2>1, BoundsAssumption
       DEF Inv, Base, Types, Safe, Fresh, Link, Course, Stored, Accounted, Doubt, Prompt, Linking, Known,
           Session, Goes, At, NoConn, None, Silence, Idle, Running, Resumable, Held, SaidOk, NoKeyLost, Owed,
           Replaces, Eights, Linked, Kept, Flows, Cams, Conns, Slots, Keys, Frames
  <2> QED
    BY <2>6, <2>7, <2>8 DEF Inv, Base, Safe
<1>4. CASE Gone
  <2>1. conn' \in Conns
    BY <1>4, <1>2
       DEF Inv, Base, Types, Gone, Known, Unlinked, DeletesPending, FailsForgetting, At, NoConn, None, Conns,
           Slots, Flows, Cams
  <2>2. toPhone' \in Seq(Frames)
    BY <1>4, <1>2
       DEF Inv, Base, Types, Gone, Known, Unlinked, DeletesPending, FailsForgetting, At, NoConn, None, Frames,
           Codes
  <2>3. flow' \in Flows
    BY <1>4, <1>2
       DEF Inv, Base, Types, Gone, Known, Unlinked, DeletesPending, FailsForgetting, At, NoConn, None, Flows,
           Points, Checks, Slots
  <2>4. keys' \in [auth: Slots, pend: Slots, orphan: Slots]
    BY <1>4, <1>2
       DEF Inv, Base, Types, Gone, Known, Unlinked, DeletesPending, FailsForgetting, At, NoConn, None, Slots,
           Flows
  <2>5. Types'
    BY <1>4, <1>2, <2>1, <2>2, <2>3, <2>4 DEF Inv, Base, Types, Rehold, Gone, radio, world, secure, camOnly
  <2>6. Fresh' /\ Link' /\ Course' /\ Stored'
    BY <1>4, <1>2, BoundsAssumption
       DEF Inv, Base, Types, Fresh, Link, Course, Stored, Gone, Known, Unlinked, DeletesPending,
           FailsForgetting, At, NoConn, None, Silence, Idle, Running, Resumable, Held, SaidOk, Flows, Cams,
           Conns, Slots, Keys, Frames
  <2>7. Settled => Accounted' /\ Doubt' /\ Prompt'
    BY <1>4, <1>2, BoundsAssumption
       DEF Inv, Base, Types, Safe, Fresh, Link, Course, Stored, Accounted, Doubt, Prompt, Gone, Known, Unlinked,
           DeletesPending, FailsForgetting, At, NoConn, None, Silence, Idle, Running, Resumable, Held, SaidOk,
           NoKeyLost, Owed, Replaces, Eights, Linked, Kept, Flows, Cams, Conns, Slots, Keys, Frames
  <2> QED
    BY <2>5, <2>6, <2>7 DEF Inv, Base, Safe
<1> QED
  BY <1>1, <1>3, <1>4

\* The hold given up on keeps a key that may be stored.
LEMMA GivesUpKeeps ==
  ASSUME Inv, GivesUp
  PROVE  Inv'
<1> DEFINE Left ==
     /\ flow.keep /\ UNCHANGED keys /\ flow' = [flow EXCEPT !.pc = "undo", !.stage = flow.stage, !.res = "cancelled"]
<1> DEFINE Waits ==
     /\ flow.keep /\ UNCHANGED keys
     /\ flow' = [flow EXCEPT !.pc = "rest", !.stage = flow.stage, !.res = "failed", !.retry = "resume"]
<1> DEFINE Ends ==
     /\ ~flow.keep /\ DeletesPending /\ FailsForgetting
<1>1. Left \/ Waits \/ Ends
  BY DEF GivesUp, On, Reconnects, CamCommits, CamForgets, CamCancels, FailsKeeping
<1>2. /\ At("rehold") /\ ~near
     /\ UNCHANGED <<cam, conn, near, toPhone, heard, rec, refused, app, drive, left, ghost>>
  BY DEF GivesUp, On, radio, world, secure, camOnly, Reconnects, CamCommits, CamForgets, CamCancels, Trouble
<1> HIDE DEF Left, Waits, Ends
<1>3. CASE Left
  <2>1. flow' \in Flows
    BY <1>3, <1>2 DEF Inv, Base, Types, Left, At, Flows, Points, Checks, Slots
  <2>2. keys' \in [auth: Slots, pend: Slots, orphan: Slots]
    BY <1>3, <1>2 DEF Inv, Base, Types, Left, At, Slots, Flows
  <2>3. Types'
    BY <1>3, <1>2, <2>1, <2>2 DEF Inv, Base, Types, GivesUp, Left, radio, world, secure, camOnly
  <2>4. Fresh' /\ Link' /\ Course' /\ Stored'
    BY <1>3, <1>2, BoundsAssumption
       DEF Inv, Base, Types, Fresh, Link, Course, Stored, Left, At, None, Silence, Idle, Running, Resumable,
           Held, SaidOk, Flows, Cams, Conns, Slots, Keys, Frames
  <2>5. Settled => Accounted' /\ Doubt' /\ Prompt'
    BY <1>3, <1>2, BoundsAssumption
       DEF Inv, Base, Types, Safe, Fresh, Link, Course, Stored, Accounted, Doubt, Prompt, Left, At, None,
           Silence, Idle, Running, Resumable, Held, SaidOk, NoKeyLost, Owed, Replaces, Eights, Linked, Kept,
           Flows, Cams, Conns, Slots, Keys, Frames
  <2> QED
    BY <2>3, <2>4, <2>5 DEF Inv, Base, Safe
<1>4. CASE Waits
  <2>1. flow' \in Flows
    BY <1>4, <1>2 DEF Inv, Base, Types, Waits, At, Flows, Points, Checks, Slots
  <2>2. keys' \in [auth: Slots, pend: Slots, orphan: Slots]
    BY <1>4, <1>2 DEF Inv, Base, Types, Waits, At, Slots, Flows
  <2>3. Types'
    BY <1>4, <1>2, <2>1, <2>2 DEF Inv, Base, Types, GivesUp, Waits, radio, world, secure, camOnly
  <2>4. Fresh' /\ Link' /\ Course' /\ Stored'
    BY <1>4, <1>2, BoundsAssumption
       DEF Inv, Base, Types, Fresh, Link, Course, Stored, Waits, At, None, Silence, Idle, Running, Resumable,
           Held, SaidOk, Flows, Cams, Conns, Slots, Keys, Frames
  <2>5. Settled => Accounted' /\ Doubt' /\ Prompt'
    BY <1>4, <1>2, BoundsAssumption
       DEF Inv, Base, Types, Safe, Fresh, Link, Course, Stored, Accounted, Doubt, Prompt, Waits, At, None,
           Silence, Idle, Running, Resumable, Held, SaidOk, NoKeyLost, Owed, Replaces, Eights, Linked, Kept,
           Flows, Cams, Conns, Slots, Keys, Frames
  <2> QED
    BY <2>3, <2>4, <2>5 DEF Inv, Base, Safe
<1>5. CASE Ends
  <2>1. flow' \in Flows
    BY <1>5, <1>2
       DEF Inv, Base, Types, Ends, DeletesPending, FailsForgetting, At, None, Flows, Points, Checks, Slots
  <2>2. keys' \in [auth: Slots, pend: Slots, orphan: Slots]
    BY <1>5, <1>2 DEF Inv, Base, Types, Ends, DeletesPending, FailsForgetting, At, None, Slots, Flows
  <2>3. Types'
    BY <1>5, <1>2, <2>1, <2>2 DEF Inv, Base, Types, GivesUp, Ends, radio, world, secure, camOnly
  <2>4. Fresh' /\ Link' /\ Course' /\ Stored'
    BY <1>5, <1>2, BoundsAssumption
       DEF Inv, Base, Types, Fresh, Link, Course, Stored, Ends, DeletesPending, FailsForgetting, At, None,
           Silence, Idle, Running, Resumable, Held, SaidOk, Flows, Cams, Conns, Slots, Keys, Frames
  <2>5. Settled => Accounted' /\ Doubt' /\ Prompt'
    BY <1>5, <1>2, BoundsAssumption
       DEF Inv, Base, Types, Safe, Fresh, Link, Course, Stored, Accounted, Doubt, Prompt, Ends, DeletesPending,
           FailsForgetting, At, None, Silence, Idle, Running, Resumable, Held, SaidOk, NoKeyLost, Owed,
           Replaces, Eights, Linked, Kept, Flows, Cams, Conns, Slots, Keys, Frames
  <2> QED
    BY <2>3, <2>4, <2>5 DEF Inv, Base, Safe
<1> QED
  BY <1>1, <1>3, <1>4, <1>5

\* A hold that ran out was never stored.
LEMMA ExpiresKeeps ==
  ASSUME Inv, Expires
  PROVE  Inv'
<1>1. keys' \in [auth: Slots, pend: Slots, orphan: Slots]
  BY DEF Inv, Base, Types, Expires, Stopped, At, DeletesPending, FailsForgetting, Unlinked, world, None, NoConn,
         Slots, Flows
<1>2. flow' \in Flows
  BY DEF Inv, Base, Types, Expires, Stopped, At, DeletesPending, FailsForgetting, Unlinked, world, None, NoConn,
         Flows, Points, Checks, Slots
<1>3. conn' \in Conns
  BY DEF Inv, Base, Types, Expires, Stopped, At, DeletesPending, FailsForgetting, Unlinked, world, None, NoConn,
         Conns, Slots, Flows, Cams
<1>4. toPhone' \in Seq(Frames)
  BY DEF Inv, Base, Types, Expires, Stopped, At, DeletesPending, FailsForgetting, Unlinked, world, None, NoConn,
         Frames, Codes
<1>5. Types'
  BY <1>1, <1>2, <1>3, <1>4 DEF Inv, Base, Types, Expires, radio, world, secure, camOnly
<1>6. Fresh' /\ Link' /\ Course' /\ Stored'
  BY BoundsAssumption
     DEF Inv, Base, Types, Fresh, Link, Course, Stored, Expires, Stopped, At, DeletesPending, FailsForgetting,
         Unlinked, world, None, NoConn, Silence, Idle, Running, Resumable, Held, SaidOk, Flows, Cams, Conns,
         Slots, Keys, Frames
<1>7. Settled => Accounted' /\ Doubt' /\ Prompt'
  BY BoundsAssumption
     DEF Inv, Base, Types, Safe, Fresh, Link, Course, Stored, Accounted, Doubt, Prompt, Expires, Stopped, At,
         DeletesPending, FailsForgetting, Unlinked, world, None, NoConn, Silence, Idle, Running, Resumable,
         Held, SaidOk, NoKeyLost, Owed, Replaces, Eights, Linked, Kept, Flows, Cams, Conns, Slots, Keys, Frames
<1> QED
  BY <1>5, <1>6, <1>7 DEF Inv, Base, Safe

\* COMMAND 8 follows, over a new session when the link is lost.
LEMMA FinishesKeeps ==
  ASSUME Inv, Finishes
  PROVE  Inv'
<1>1. flow' \in Flows
  BY DEF Inv, Base, Types, Finishes, On, Linked, radio, secure, world, At, Stopped, Flows, Points, Checks, Slots
<1>2. Types'
  BY <1>1 DEF Inv, Base, Types, Finishes, radio, world, secure, camOnly
<1>3. Fresh' /\ Link' /\ Course' /\ Stored'
  BY BoundsAssumption
     DEF Inv, Base, Types, Fresh, Link, Course, Stored, Finishes, On, Linked, radio, secure, world, At, Stopped,
         None, Silence, Idle, Running, Resumable, Held, SaidOk, Flows, Cams, Conns, Slots, Keys, Frames
<1>4. Settled => Accounted'
  BY BoundsAssumption
     DEF Inv, Base, Types, Safe, Fresh, Link, Course, Stored, Accounted, Doubt, Prompt, Finishes, On, Linked,
         radio, secure, world, At, Stopped, None, Silence, Idle, Running, Resumable, Held, SaidOk, NoKeyLost,
         Owed, Replaces, Eights, Kept, Flows, Cams, Conns, Slots, Keys, Frames
<1>5. Settled => Doubt'
  BY BoundsAssumption
     DEF Inv, Base, Types, Safe, Fresh, Link, Course, Stored, Accounted, Doubt, Prompt, Finishes, On, Linked,
         radio, secure, world, At, Stopped, None, Silence, Idle, Running, Resumable, Held, SaidOk, NoKeyLost,
         Owed, Replaces, Eights, Kept, Flows, Cams, Conns, Slots, Keys, Frames
<1>6. Settled => Prompt'
  BY BoundsAssumption
     DEF Inv, Base, Types, Safe, Fresh, Link, Course, Stored, Accounted, Doubt, Prompt, Finishes, On, Linked,
         radio, secure, world, At, Stopped, None, Silence, Idle, Running, Resumable, Held, SaidOk, NoKeyLost,
         Owed, Replaces, Eights, Kept, Flows, Cams, Conns, Slots, Keys, Frames
<1> QED
  BY <1>2, <1>3, <1>4, <1>5, <1>6 DEF Inv, Base, Safe

\* COMMAND 8: stored in the place of what the hold replaces, once.
LEMMA SendsCommitKeeps ==
  ASSUME Inv, SendsCommit
  PROVE  Inv'
<1> DEFINE Commits ==
     /\ Linked /\ Holds /\ UNCHANGED <<conn, ghost, left>> /\ Answer(8, "ok")
     /\ cam' = [stored |-> (cam.stored \ {cam.prev}) \cup {cam.hold}, hold |-> None, prev |-> None, window |-> FALSE]
     /\ flow' = [flow EXCEPT !.pc = "await", !.stage = "commit"]
<1> DEFINE Full ==
     /\ Linked /\ Holds /\ UNCHANGED <<conn, ghost, cam>> /\ Answer(8, "full")
     /\ flow' = [flow EXCEPT !.pc = "await", !.stage = "commit"]
<1> DEFINE Before ==
     /\ Linked /\ ~Holds /\ UNCHANGED <<conn, ghost, cam, left>>
     /\ conn.as \in cam.stored /\ Answer(8, "ok") /\ flow' = [flow EXCEPT !.pc = "await", !.stage = "commit"]
<1> DEFINE NotNow ==
     /\ Linked /\ ~Holds /\ UNCHANGED <<conn, ghost, cam, left>>
     /\ conn.as \notin cam.stored /\ Answer(8, "notnow") /\ flow' = [flow EXCEPT !.pc = "await", !.stage = "commit"]
<1> DEFINE Unheard ==
     /\ Linked /\ Holds /\ Unlinked /\ Goes("answer") /\ ghost' = [ghost EXCEPT !.given = @ \cup {flow.key}]
     /\ cam' = [stored |-> (cam.stored \ {cam.prev}) \cup {cam.hold}, hold |-> None, prev |-> None, window |-> FALSE]
<1> DEFINE Unsent ==
     /\ ~Linked /\ Goes("answer") /\ UNCHANGED <<cam, conn, toPhone, left, ghost>>
<1>1. Commits \/ Full \/ Before \/ NotNow \/ Unheard \/ Unsent
  BY DEF SendsCommit, On, Reconnects, CamCommits, CamForgets, CamCancels, FailsKeeping
<1>2. /\ At("send") /\ heard' = [heard EXCEPT !.commit = "none", !.undone = FALSE]
     /\ UNCHANGED <<near, keys, rec, refused, app, drive>>
     /\ left' \in 0 .. MaxTroubles
  BY BoundsAssumption
     DEF Inv, Base, Types, SendsCommit, On, radio, world, secure, camOnly, Reconnects, CamCommits, CamForgets,
         CamCancels, Trouble
<1> HIDE DEF Commits, Full, Before, NotNow, Unheard, Unsent
<1>3. CASE Commits
  <2>1. Said(8, "ok")
    BY <1>3, <1>2, AnswerSays DEF Inv, Base, Commits
  <2>2. heard' \in [commit: Codes \cup {"none"}, undone: BOOLEAN, expired: BOOLEAN]
    BY <1>3, <1>2, <2>1 DEF Inv, Base, Types, Commits, Linked, Holds, Answer, None, At, Said, Read, Codes, Frames
  <2>3. cam' \in Cams
    BY <1>3, <1>2, <2>1
       DEF Inv, Base, Types, Commits, Linked, Holds, Answer, None, At, Said, Read, Cams, Conns, Slots, Keys
  <2>4. conn' \in Conns
    BY <1>3, <1>2, <2>1
       DEF Inv, Base, Types, Commits, Linked, Holds, Answer, None, At, Said, Read, Conns, Slots, Flows, Cams
  <2>5. toPhone' \in Seq(Frames)
    BY <1>3, <1>2, <2>1 DEF Inv, Base, Types, Commits, Linked, Holds, Answer, None, At, Said, Read, Frames, Codes
  <2>6. flow' \in Flows
    BY <1>3, <1>2, <2>1
       DEF Inv, Base, Types, Commits, Linked, Holds, Answer, None, At, Said, Read, Flows, Points, Checks, Slots
  <2>7. ghost' \in [made: 0 .. MaxSetups, given: SUBSET Slots, auth: Slots, stored: SUBSET Keys]
    BY <1>3, <1>2, <2>1
       DEF Inv, Base, Types, Commits, Linked, Holds, Answer, None, At, Said, Read, Slots, Flows, Keys, Cams
  <2>8. Types'
    BY <1>3, <1>2, <2>1, <2>2, <2>3, <2>4, <2>5, <2>6, <2>7
       DEF Inv, Base, Types, SendsCommit, Commits, radio, world, secure, camOnly
  <2>9. Fresh' /\ Link' /\ Course' /\ Stored'
    BY <1>3, <1>2, <2>1, BoundsAssumption
       DEF Inv, Base, Types, Fresh, Link, Course, Stored, Commits, Linked, Holds, Answer, None, At, Said, Read,
           Silence, Idle, Running, Resumable, Held, SaidOk, Flows, Cams, Conns, Slots, Keys, Frames
  <2>10. Settled => Accounted' /\ Doubt' /\ Prompt'
    BY <1>3, <1>2, <2>1, BoundsAssumption
       DEF Inv, Base, Types, Safe, Fresh, Link, Course, Stored, Accounted, Doubt, Prompt, Commits, Linked,
           Holds, Answer, None, At, Said, Read, Silence, Idle, Running, Resumable, Held, SaidOk, NoKeyLost,
           Owed, Replaces, Eights, Kept, Flows, Cams, Conns, Slots, Keys, Frames
  <2> QED
    BY <2>8, <2>9, <2>10 DEF Inv, Base, Safe
<1>4. CASE Full
  <2>1. Said(8, "full")
    BY <1>4, <1>2, AnswerSays DEF Inv, Base, Full
  <2>2. heard' \in [commit: Codes \cup {"none"}, undone: BOOLEAN, expired: BOOLEAN]
    BY <1>4, <1>2, <2>1 DEF Inv, Base, Types, Full, Linked, Holds, Answer, At, None, Said, Read, Codes, Frames
  <2>3. cam' \in Cams
    BY <1>4, <1>2, <2>1
       DEF Inv, Base, Types, Full, Linked, Holds, Answer, At, None, Said, Read, Cams, Conns, Slots, Keys
  <2>4. conn' \in Conns
    BY <1>4, <1>2, <2>1
       DEF Inv, Base, Types, Full, Linked, Holds, Answer, At, None, Said, Read, Conns, Slots, Flows, Cams
  <2>5. toPhone' \in Seq(Frames)
    BY <1>4, <1>2, <2>1 DEF Inv, Base, Types, Full, Linked, Holds, Answer, At, None, Said, Read, Frames, Codes
  <2>6. flow' \in Flows
    BY <1>4, <1>2, <2>1
       DEF Inv, Base, Types, Full, Linked, Holds, Answer, At, None, Said, Read, Flows, Points, Checks, Slots
  <2>7. ghost' \in [made: 0 .. MaxSetups, given: SUBSET Slots, auth: Slots, stored: SUBSET Keys]
    BY <1>4, <1>2, <2>1
       DEF Inv, Base, Types, Full, Linked, Holds, Answer, At, None, Said, Read, Slots, Flows, Keys, Cams
  <2>8. Types'
    BY <1>4, <1>2, <2>1, <2>2, <2>3, <2>4, <2>5, <2>6, <2>7
       DEF Inv, Base, Types, SendsCommit, Full, radio, world, secure, camOnly
  <2>9. Fresh' /\ Link' /\ Course' /\ Stored'
    BY <1>4, <1>2, <2>1, BoundsAssumption
       DEF Inv, Base, Types, Fresh, Link, Course, Stored, Full, Linked, Holds, Answer, At, None, Said, Read,
           Silence, Idle, Running, Resumable, Held, SaidOk, Flows, Cams, Conns, Slots, Keys, Frames
  <2>10. Settled => Accounted' /\ Doubt' /\ Prompt'
    BY <1>4, <1>2, <2>1, BoundsAssumption
       DEF Inv, Base, Types, Safe, Fresh, Link, Course, Stored, Accounted, Doubt, Prompt, Full, Linked, Holds,
           Answer, At, None, Said, Read, Silence, Idle, Running, Resumable, Held, SaidOk, NoKeyLost, Owed,
           Replaces, Eights, Kept, Flows, Cams, Conns, Slots, Keys, Frames
  <2> QED
    BY <2>8, <2>9, <2>10 DEF Inv, Base, Safe
<1>5. CASE Before
  <2>1. Said(8, "ok")
    BY <1>5, <1>2, AnswerSays DEF Inv, Base, Before
  <2>2. heard' \in [commit: Codes \cup {"none"}, undone: BOOLEAN, expired: BOOLEAN]
    BY <1>5, <1>2, <2>1 DEF Inv, Base, Types, Before, Linked, Holds, Answer, At, None, Said, Read, Codes, Frames
  <2>3. cam' \in Cams
    BY <1>5, <1>2, <2>1
       DEF Inv, Base, Types, Before, Linked, Holds, Answer, At, None, Said, Read, Cams, Conns, Slots, Keys
  <2>4. conn' \in Conns
    BY <1>5, <1>2, <2>1
       DEF Inv, Base, Types, Before, Linked, Holds, Answer, At, None, Said, Read, Conns, Slots, Flows, Cams
  <2>5. toPhone' \in Seq(Frames)
    BY <1>5, <1>2, <2>1 DEF Inv, Base, Types, Before, Linked, Holds, Answer, At, None, Said, Read, Frames, Codes
  <2>6. flow' \in Flows
    BY <1>5, <1>2, <2>1
       DEF Inv, Base, Types, Before, Linked, Holds, Answer, At, None, Said, Read, Flows, Points, Checks, Slots
  <2>7. ghost' \in [made: 0 .. MaxSetups, given: SUBSET Slots, auth: Slots, stored: SUBSET Keys]
    BY <1>5, <1>2, <2>1
       DEF Inv, Base, Types, Before, Linked, Holds, Answer, At, None, Said, Read, Slots, Flows, Keys, Cams
  <2>8. Types'
    BY <1>5, <1>2, <2>1, <2>2, <2>3, <2>4, <2>5, <2>6, <2>7
       DEF Inv, Base, Types, SendsCommit, Before, radio, world, secure, camOnly
  <2>9. Fresh' /\ Link' /\ Course' /\ Stored'
    BY <1>5, <1>2, <2>1, BoundsAssumption
       DEF Inv, Base, Types, Fresh, Link, Course, Stored, Before, Linked, Holds, Answer, At, None, Said, Read,
           Silence, Idle, Running, Resumable, Held, SaidOk, Flows, Cams, Conns, Slots, Keys, Frames
  <2>10. Settled => Accounted' /\ Doubt' /\ Prompt'
    BY <1>5, <1>2, <2>1, BoundsAssumption
       DEF Inv, Base, Types, Safe, Fresh, Link, Course, Stored, Accounted, Doubt, Prompt, Before, Linked, Holds,
           Answer, At, None, Said, Read, Silence, Idle, Running, Resumable, Held, SaidOk, NoKeyLost, Owed,
           Replaces, Eights, Kept, Flows, Cams, Conns, Slots, Keys, Frames
  <2> QED
    BY <2>8, <2>9, <2>10 DEF Inv, Base, Safe
<1>6. CASE NotNow
  <2>1. Said(8, "notnow")
    BY <1>6, <1>2, AnswerSays DEF Inv, Base, NotNow
  <2>2. heard' \in [commit: Codes \cup {"none"}, undone: BOOLEAN, expired: BOOLEAN]
    BY <1>6, <1>2, <2>1 DEF Inv, Base, Types, NotNow, Linked, Holds, Answer, At, None, Said, Read, Codes, Frames
  <2>3. cam' \in Cams
    BY <1>6, <1>2, <2>1
       DEF Inv, Base, Types, NotNow, Linked, Holds, Answer, At, None, Said, Read, Cams, Conns, Slots, Keys
  <2>4. conn' \in Conns
    BY <1>6, <1>2, <2>1
       DEF Inv, Base, Types, NotNow, Linked, Holds, Answer, At, None, Said, Read, Conns, Slots, Flows, Cams
  <2>5. toPhone' \in Seq(Frames)
    BY <1>6, <1>2, <2>1 DEF Inv, Base, Types, NotNow, Linked, Holds, Answer, At, None, Said, Read, Frames, Codes
  <2>6. flow' \in Flows
    BY <1>6, <1>2, <2>1
       DEF Inv, Base, Types, NotNow, Linked, Holds, Answer, At, None, Said, Read, Flows, Points, Checks, Slots
  <2>7. ghost' \in [made: 0 .. MaxSetups, given: SUBSET Slots, auth: Slots, stored: SUBSET Keys]
    BY <1>6, <1>2, <2>1
       DEF Inv, Base, Types, NotNow, Linked, Holds, Answer, At, None, Said, Read, Slots, Flows, Keys, Cams
  <2>8. Types'
    BY <1>6, <1>2, <2>1, <2>2, <2>3, <2>4, <2>5, <2>6, <2>7
       DEF Inv, Base, Types, SendsCommit, NotNow, radio, world, secure, camOnly
  <2>9. Fresh' /\ Link' /\ Course' /\ Stored'
    BY <1>6, <1>2, <2>1, BoundsAssumption
       DEF Inv, Base, Types, Fresh, Link, Course, Stored, NotNow, Linked, Holds, Answer, At, None, Said, Read,
           Silence, Idle, Running, Resumable, Held, SaidOk, Flows, Cams, Conns, Slots, Keys, Frames
  <2>10. Settled => Accounted' /\ Doubt' /\ Prompt'
    BY <1>6, <1>2, <2>1, BoundsAssumption
       DEF Inv, Base, Types, Safe, Fresh, Link, Course, Stored, Accounted, Doubt, Prompt, NotNow, Linked, Holds,
           Answer, At, None, Said, Read, Silence, Idle, Running, Resumable, Held, SaidOk, NoKeyLost, Owed,
           Replaces, Eights, Kept, Flows, Cams, Conns, Slots, Keys, Frames
  <2> QED
    BY <2>8, <2>9, <2>10 DEF Inv, Base, Safe
<1>7. CASE Unheard
  <2>1. heard' \in [commit: Codes \cup {"none"}, undone: BOOLEAN, expired: BOOLEAN]
    BY <1>7, <1>2 DEF Inv, Base, Types, Unheard, Linked, Holds, Unlinked, Goes, None, At, NoConn, Codes, Frames
  <2>2. cam' \in Cams
    BY <1>7, <1>2
       DEF Inv, Base, Types, Unheard, Linked, Holds, Unlinked, Goes, None, At, NoConn, Cams, Conns, Slots, Keys
  <2>3. conn' \in Conns
    BY <1>7, <1>2
       DEF Inv, Base, Types, Unheard, Linked, Holds, Unlinked, Goes, None, At, NoConn, Conns, Slots, Flows, Cams
  <2>4. toPhone' \in Seq(Frames)
    BY <1>7, <1>2 DEF Inv, Base, Types, Unheard, Linked, Holds, Unlinked, Goes, None, At, NoConn, Frames, Codes
  <2>5. flow' \in Flows
    BY <1>7, <1>2
       DEF Inv, Base, Types, Unheard, Linked, Holds, Unlinked, Goes, None, At, NoConn, Flows, Points, Checks,
           Slots
  <2>6. ghost' \in [made: 0 .. MaxSetups, given: SUBSET Slots, auth: Slots, stored: SUBSET Keys]
    BY <1>7, <1>2
       DEF Inv, Base, Types, Unheard, Linked, Holds, Unlinked, Goes, None, At, NoConn, Slots, Flows, Keys, Cams
  <2>7. Types'
    BY <1>7, <1>2, <2>1, <2>2, <2>3, <2>4, <2>5, <2>6
       DEF Inv, Base, Types, SendsCommit, Unheard, radio, world, secure, camOnly
  <2>8. Fresh' /\ Link' /\ Course' /\ Stored'
    BY <1>7, <1>2, BoundsAssumption
       DEF Inv, Base, Types, Fresh, Link, Course, Stored, Unheard, Linked, Holds, Unlinked, Goes, None, At,
           NoConn, Silence, Idle, Running, Resumable, Held, SaidOk, Flows, Cams, Conns, Slots, Keys, Frames
  <2>9. Settled => Accounted' /\ Doubt' /\ Prompt'
    BY <1>7, <1>2, BoundsAssumption
       DEF Inv, Base, Types, Safe, Fresh, Link, Course, Stored, Accounted, Doubt, Prompt, Unheard, Linked,
           Holds, Unlinked, Goes, None, At, NoConn, Silence, Idle, Running, Resumable, Held, SaidOk, NoKeyLost,
           Owed, Replaces, Eights, Kept, Flows, Cams, Conns, Slots, Keys, Frames
  <2> QED
    BY <2>7, <2>8, <2>9 DEF Inv, Base, Safe
<1>8. CASE Unsent
  <2>1. heard' \in [commit: Codes \cup {"none"}, undone: BOOLEAN, expired: BOOLEAN]
    BY <1>8, <1>2 DEF Inv, Base, Types, Unsent, Linked, Goes, At, Codes, Frames
  <2>2. cam' \in Cams
    BY <1>8, <1>2 DEF Inv, Base, Types, Unsent, Linked, Goes, At, Cams, Conns, Slots, Keys
  <2>3. conn' \in Conns
    BY <1>8, <1>2 DEF Inv, Base, Types, Unsent, Linked, Goes, At, Conns, Slots, Flows, Cams
  <2>4. toPhone' \in Seq(Frames)
    BY <1>8, <1>2 DEF Inv, Base, Types, Unsent, Linked, Goes, At, Frames, Codes
  <2>5. flow' \in Flows
    BY <1>8, <1>2 DEF Inv, Base, Types, Unsent, Linked, Goes, At, Flows, Points, Checks, Slots
  <2>6. ghost' \in [made: 0 .. MaxSetups, given: SUBSET Slots, auth: Slots, stored: SUBSET Keys]
    BY <1>8, <1>2 DEF Inv, Base, Types, Unsent, Linked, Goes, At, Slots, Flows, Keys, Cams
  <2>7. Types'
    BY <1>8, <1>2, <2>1, <2>2, <2>3, <2>4, <2>5, <2>6
       DEF Inv, Base, Types, SendsCommit, Unsent, radio, world, secure, camOnly
  <2>8. Fresh' /\ Link' /\ Course' /\ Stored'
    BY <1>8, <1>2, BoundsAssumption
       DEF Inv, Base, Types, Fresh, Link, Course, Stored, Unsent, Linked, Goes, At, None, Silence, Idle,
           Running, Resumable, Held, SaidOk, Flows, Cams, Conns, Slots, Keys, Frames
  <2>9. Settled => Accounted' /\ Doubt' /\ Prompt'
    BY <1>8, <1>2, BoundsAssumption
       DEF Inv, Base, Types, Safe, Fresh, Link, Course, Stored, Accounted, Doubt, Prompt, Unsent, Linked, Goes,
           At, None, Silence, Idle, Running, Resumable, Held, SaidOk, NoKeyLost, Owed, Replaces, Eights, Kept,
           Flows, Cams, Conns, Slots, Keys, Frames
  <2> QED
    BY <2>7, <2>8, <2>9 DEF Inv, Base, Safe
<1> QED
  BY <1>1, <1>3, <1>4, <1>5, <1>6, <1>7, <1>8

\* A frame is heard.
LEMMA HearsKeeps ==
  ASSUME Inv, Hears
  PROVE  Inv'
<1> DEFINE Ran ==
     /\ Head(toPhone).op = 9 /\ Head(toPhone).code = "expired" /\ heard' = [heard EXCEPT !.expired = TRUE]
<1> DEFINE Nine ==
     /\ Head(toPhone).op = 9 /\ heard' = [heard EXCEPT !.undone = TRUE]
<1> DEFINE Eight ==
     /\ Head(toPhone).op = 8
     /\ heard' = [heard EXCEPT !.commit = IF @ = "none" THEN Head(toPhone).code ELSE @]
<1>1. Ran \/ Nine \/ Eight
  BY DEF Hears, On, Reconnects, CamCommits, CamForgets, CamCancels, FailsKeeping
<1>2. /\ app /\ toPhone # <<>> /\ toPhone' = Tail(toPhone)
     /\ UNCHANGED <<cam, conn, near, flow, keys, rec, refused, app, drive, left, ghost>>
  BY DEF Hears, On, radio, world, secure, camOnly, Reconnects, CamCommits, CamForgets, CamCancels, Trouble
<1> HIDE DEF Ran, Nine, Eight
<1>3. CASE Ran
  <2>1. Read(Head(toPhone))
    BY <1>3, <1>2, TailReads DEF Inv, Base
  <2>2. toPhone' \in Seq(Frames)
    BY <1>3, <1>2, <2>1 DEF Inv, Base, Types, Ran, Said, Read, Frames, Codes
  <2>3. heard' \in [commit: Codes \cup {"none"}, undone: BOOLEAN, expired: BOOLEAN]
    BY <1>3, <1>2, <2>1 DEF Inv, Base, Types, Ran, Said, Read, Codes, Frames
  <2>4. Types'
    BY <1>3, <1>2, <2>1, <2>2, <2>3 DEF Inv, Base, Types, Hears, Ran, radio, world, secure, camOnly
  <2>5. Fresh' /\ Link' /\ Course' /\ Stored'
    BY <1>3, <1>2, <2>1, BoundsAssumption
       DEF Inv, Base, Types, Fresh, Link, Course, Stored, Ran, Said, Read, None, Silence, Idle, Running,
           Resumable, Held, SaidOk, Flows, Cams, Conns, Slots, Keys, Frames
  <2>6. Settled => Accounted'
    BY <1>3, <1>2, <2>1, BoundsAssumption
       DEF Inv, Base, Types, Safe, Fresh, Link, Course, Stored, Accounted, Doubt, Prompt, Ran, Said, Read, None,
           Silence, Idle, Running, Resumable, Held, SaidOk, NoKeyLost, Owed, Replaces, Eights, Linked, Kept,
           Flows, Cams, Conns, Slots, Keys, Frames
  <2>7. Settled => Doubt'
    BY <1>3, <1>2, <2>1, BoundsAssumption
       DEF Inv, Base, Types, Safe, Fresh, Link, Course, Stored, Accounted, Doubt, Prompt, Ran, Said, Read, None,
           Silence, Idle, Running, Resumable, Held, SaidOk, NoKeyLost, Owed, Replaces, Eights, Linked, Kept,
           Flows, Cams, Conns, Slots, Keys, Frames
  <2>8. Settled => Prompt'
    BY <1>3, <1>2, <2>1, BoundsAssumption
       DEF Inv, Base, Types, Safe, Fresh, Link, Course, Stored, Accounted, Doubt, Prompt, Ran, Said, Read, None,
           Silence, Idle, Running, Resumable, Held, SaidOk, NoKeyLost, Owed, Replaces, Eights, Linked, Kept,
           Flows, Cams, Conns, Slots, Keys, Frames
  <2> QED
    BY <2>4, <2>5, <2>6, <2>7, <2>8 DEF Inv, Base, Safe
<1>4. CASE Nine
  <2>1. Read(Head(toPhone))
    BY <1>4, <1>2, TailReads DEF Inv, Base
  <2>2. toPhone' \in Seq(Frames)
    BY <1>4, <1>2, <2>1 DEF Inv, Base, Types, Nine, Said, Read, Frames, Codes
  <2>3. heard' \in [commit: Codes \cup {"none"}, undone: BOOLEAN, expired: BOOLEAN]
    BY <1>4, <1>2, <2>1 DEF Inv, Base, Types, Nine, Said, Read, Codes, Frames
  <2>4. Types'
    BY <1>4, <1>2, <2>1, <2>2, <2>3 DEF Inv, Base, Types, Hears, Nine, radio, world, secure, camOnly
  <2>5. Fresh' /\ Link' /\ Course' /\ Stored'
    BY <1>4, <1>2, <2>1, BoundsAssumption
       DEF Inv, Base, Types, Fresh, Link, Course, Stored, Nine, Said, Read, None, Silence, Idle, Running,
           Resumable, Held, SaidOk, Flows, Cams, Conns, Slots, Keys, Frames
  <2>6. Settled => Accounted'
    BY <1>4, <1>2, <2>1, BoundsAssumption
       DEF Inv, Base, Types, Safe, Fresh, Link, Course, Stored, Accounted, Doubt, Prompt, Nine, Said, Read,
           None, Silence, Idle, Running, Resumable, Held, SaidOk, NoKeyLost, Owed, Replaces, Eights, Linked,
           Kept, Flows, Cams, Conns, Slots, Keys, Frames
  <2>7. Settled => Doubt'
    BY <1>4, <1>2, <2>1, BoundsAssumption
       DEF Inv, Base, Types, Safe, Fresh, Link, Course, Stored, Accounted, Doubt, Prompt, Nine, Said, Read,
           None, Silence, Idle, Running, Resumable, Held, SaidOk, NoKeyLost, Owed, Replaces, Eights, Linked,
           Kept, Flows, Cams, Conns, Slots, Keys, Frames
  <2>8. Settled => Prompt'
    BY <1>4, <1>2, <2>1, BoundsAssumption
       DEF Inv, Base, Types, Safe, Fresh, Link, Course, Stored, Accounted, Doubt, Prompt, Nine, Said, Read,
           None, Silence, Idle, Running, Resumable, Held, SaidOk, NoKeyLost, Owed, Replaces, Eights, Linked,
           Kept, Flows, Cams, Conns, Slots, Keys, Frames
  <2> QED
    BY <2>4, <2>5, <2>6, <2>7, <2>8 DEF Inv, Base, Safe
<1>5. CASE Eight
  <2>1. Read(Head(toPhone))
    BY <1>5, <1>2, TailReads DEF Inv, Base
  <2>2. toPhone' \in Seq(Frames)
    BY <1>5, <1>2, <2>1 DEF Inv, Base, Types, Eight, Said, Read, Frames, Codes
  <2>3. heard' \in [commit: Codes \cup {"none"}, undone: BOOLEAN, expired: BOOLEAN]
    BY <1>5, <1>2, <2>1 DEF Inv, Base, Types, Eight, Said, Read, Codes, Frames
  <2>4. Types'
    BY <1>5, <1>2, <2>1, <2>2, <2>3 DEF Inv, Base, Types, Hears, Eight, radio, world, secure, camOnly
  <2>5. Fresh' /\ Link' /\ Course' /\ Stored'
    BY <1>5, <1>2, <2>1, BoundsAssumption
       DEF Inv, Base, Types, Fresh, Link, Course, Stored, Eight, Said, Read, None, Silence, Idle, Running,
           Resumable, Held, SaidOk, Flows, Cams, Conns, Slots, Keys, Frames
  <2>6. Settled => Accounted'
    BY <1>5, <1>2, <2>1, BoundsAssumption
       DEF Inv, Base, Types, Safe, Fresh, Link, Course, Stored, Accounted, Doubt, Prompt, Eight, Said, Read,
           None, Silence, Idle, Running, Resumable, Held, SaidOk, NoKeyLost, Owed, Replaces, Eights, Linked,
           Kept, Flows, Cams, Conns, Slots, Keys, Frames
  <2>7. Settled => Doubt'
    BY <1>5, <1>2, <2>1, BoundsAssumption
       DEF Inv, Base, Types, Safe, Fresh, Link, Course, Stored, Accounted, Doubt, Prompt, Eight, Said, Read,
           None, Silence, Idle, Running, Resumable, Held, SaidOk, NoKeyLost, Owed, Replaces, Eights, Linked,
           Kept, Flows, Cams, Conns, Slots, Keys, Frames
  <2>8. Settled => Prompt'
    <3> SUFFICES ASSUME Settled, flow.key \notin ghost.given, flow.key # None
                 PROVE  Prompt'
      BY <1>2 DEF Prompt
    <3>1. heard'.commit # "none" /\ heard'.expired = heard.expired
      BY <1>5, <2>1 DEF Eight, Inv, Base, Types, Codes, Read, Frames
    <3>2. heard.commit = "none" => heard'.commit = Head(toPhone).code
      BY <1>5 DEF Eight, Inv, Base, Types
    <3>3. 1 \in Eights
      BY <1>5, <2>1 DEF Eight, Read, Eights
    <3>4. flow.pc \in {"session", "screen", "rehold", "rest", "commit", "send"} => Eights' = {}
      BY <2>1, <3>3 DEF Inv, Safe, Prompt
    <3>5. flow.pc \in {"await", "answer"} => heard.commit = "none" /\ Eights' = {}
      BY <1>5, <2>1, <3>3 DEF Eight, Inv, Safe, Prompt, Read
    <3>6. flow.pc \in {"await", "answer"} /\ flow.key \in cam.stored => Head(toPhone).code = "ok"
      BY <2>1, <3>3 DEF Inv, Safe, Prompt, Read
    <3> QED
      BY <1>2, <3>1, <3>2, <3>4, <3>5, <3>6 DEF Prompt, Linked
  <2> QED
    BY <2>4, <2>5, <2>6, <2>7, <2>8 DEF Inv, Base, Safe
<1> QED
  BY <1>1, <1>3, <1>4, <1>5

\* An answer not heard in time gives the key up.
LEMMA AwaitsKeeps ==
  ASSUME Inv, Awaits
  PROVE  Inv'
<1> DEFINE Seen ==
     /\ heard.commit # "none" \/ heard.expired \/ ~Linked \/ toPhone = <<>>
     /\ UNCHANGED <<left, ghost>> /\ Goes("answer")
<1> DEFINE Late ==
     /\ ghost' = [ghost EXCEPT !.given = @ \cup {flow.key}] /\ Goes("answer")
<1>1. Seen \/ Late
  BY DEF Awaits, On, Reconnects, CamCommits, CamForgets, CamCancels, FailsKeeping
<1>2. /\ At("await")
     /\ UNCHANGED <<cam, conn, near, toPhone, heard, keys, rec, refused, app, drive>>
     /\ left' \in 0 .. MaxTroubles
  BY BoundsAssumption
     DEF Inv, Base, Types, Awaits, On, radio, world, secure, camOnly, Reconnects, CamCommits, CamForgets,
         CamCancels, Trouble
<1> HIDE DEF Seen, Late
<1>3. CASE Seen
  <2>1. flow' \in Flows
    BY <1>3, <1>2 DEF Inv, Base, Types, Seen, Linked, Goes, At, Flows, Points, Checks, Slots
  <2>2. ghost' \in [made: 0 .. MaxSetups, given: SUBSET Slots, auth: Slots, stored: SUBSET Keys]
    BY <1>3, <1>2 DEF Inv, Base, Types, Seen, Linked, Goes, At, Slots, Flows, Keys, Cams
  <2>3. Types'
    BY <1>3, <1>2, <2>1, <2>2 DEF Inv, Base, Types, Awaits, Seen, radio, world, secure, camOnly
  <2>4. Fresh' /\ Link' /\ Course' /\ Stored'
    BY <1>3, <1>2, BoundsAssumption
       DEF Inv, Base, Types, Fresh, Link, Course, Stored, Seen, Linked, Goes, At, None, Silence, Idle, Running,
           Resumable, Held, SaidOk, Flows, Cams, Conns, Slots, Keys, Frames
  <2>5. Settled => Accounted' /\ Doubt' /\ Prompt'
    BY <1>3, <1>2, BoundsAssumption
       DEF Inv, Base, Types, Safe, Fresh, Link, Course, Stored, Accounted, Doubt, Prompt, Seen, Linked, Goes,
           At, None, Silence, Idle, Running, Resumable, Held, SaidOk, NoKeyLost, Owed, Replaces, Eights, Kept,
           Flows, Cams, Conns, Slots, Keys, Frames
  <2> QED
    BY <2>3, <2>4, <2>5 DEF Inv, Base, Safe
<1>4. CASE Late
  <2>1. flow' \in Flows
    BY <1>4, <1>2 DEF Inv, Base, Types, Late, Goes, At, Flows, Points, Checks, Slots
  <2>2. ghost' \in [made: 0 .. MaxSetups, given: SUBSET Slots, auth: Slots, stored: SUBSET Keys]
    BY <1>4, <1>2 DEF Inv, Base, Types, Late, Goes, At, Slots, Flows, Keys, Cams
  <2>3. Types'
    BY <1>4, <1>2, <2>1, <2>2 DEF Inv, Base, Types, Awaits, Late, radio, world, secure, camOnly
  <2>4. Fresh' /\ Link' /\ Course' /\ Stored'
    BY <1>4, <1>2, BoundsAssumption
       DEF Inv, Base, Types, Fresh, Link, Course, Stored, Late, Goes, At, None, Silence, Idle, Running,
           Resumable, Held, SaidOk, Flows, Cams, Conns, Slots, Keys, Frames
  <2>5. Settled => Accounted' /\ Doubt' /\ Prompt'
    BY <1>4, <1>2, BoundsAssumption
       DEF Inv, Base, Types, Safe, Fresh, Link, Course, Stored, Accounted, Doubt, Prompt, Late, Goes, At, None,
           Silence, Idle, Running, Resumable, Held, SaidOk, NoKeyLost, Owed, Replaces, Eights, Linked, Kept,
           Flows, Cams, Conns, Slots, Keys, Frames
  <2> QED
    BY <2>3, <2>4, <2>5 DEF Inv, Base, Safe
<1> QED
  BY <1>1, <1>3, <1>4

\* Only R_OK leads on; a key an answer refuses is not stored.
LEMMA AnsweredKeeps ==
  ASSUME Inv, Answered
  PROVE  Inv'
<1> DEFINE Done ==
     /\ heard.commit = "ok" /\ Goes("final")
<1> DEFINE Full ==
     /\ heard.commit = "full" /\ flow' = [flow EXCEPT !.pc = "rest", !.stage = "hold", !.res = "failed", !.retry = "commit"]
<1> DEFINE Left ==
     /\ heard.commit = "full" /\ flow' = [flow EXCEPT !.pc = "undo", !.stage = "hold", !.res = "cancelled"]
<1> DEFINE Again ==
     /\ heard.commit \notin {"ok", "full"} /\ ~heard.expired /\ (~Linked \/ heard.commit \in {"none", "notnow"})
     /\ flow' = [flow EXCEPT !.pc = "commit", !.tries = 1]
<1> DEFINE Ends ==
     /\ heard.commit \notin {"ok", "full"} /\ ~heard.expired /\ Linked
     /\ flow' = [flow EXCEPT !.pc = "undo", !.stage = "hold", !.res = "failed", !.retry = "restart"]
<1>1. Done \/ Full \/ Left \/ Again \/ Ends
  BY DEF Answered, On, Reconnects, CamCommits, CamForgets, CamCancels, FailsKeeping
<1>2. /\ At("answer")
     /\ UNCHANGED <<cam, conn, near, toPhone, heard, keys, rec, refused, app, drive, left, ghost>>
  BY DEF Answered, On, radio, world, secure, camOnly, Reconnects, CamCommits, CamForgets, CamCancels, Trouble
<1> HIDE DEF Done, Full, Left, Again, Ends
<1>3. CASE Done
  <2>1. Types'
    BY <1>3, <1>2
       DEF Inv, Base, Types, Answered, Done, Goes, At, Flows, Points, Checks, Slots, radio, world, secure,
           camOnly
  <2>2. Fresh' /\ Link' /\ Course' /\ Stored'
    BY <1>3, <1>2, BoundsAssumption
       DEF Inv, Base, Types, Fresh, Link, Course, Stored, Done, Goes, At, None, Silence, Idle, Running,
           Resumable, Held, SaidOk, Flows, Cams, Conns, Slots, Keys, Frames
  <2>3. Settled => Accounted' /\ Doubt' /\ Prompt'
    BY <1>3, <1>2, BoundsAssumption
       DEF Inv, Base, Types, Safe, Fresh, Link, Course, Stored, Accounted, Doubt, Prompt, Done, Goes, At, None,
           Silence, Idle, Running, Resumable, Held, SaidOk, NoKeyLost, Owed, Replaces, Eights, Linked, Kept,
           Flows, Cams, Conns, Slots, Keys, Frames
  <2> QED
    BY <2>1, <2>2, <2>3 DEF Inv, Base, Safe
<1>4. CASE Full
  <2>1. Types'
    BY <1>4, <1>2
       DEF Inv, Base, Types, Answered, Full, At, Flows, Points, Checks, Slots, radio, world, secure, camOnly
  <2>2. Fresh' /\ Link' /\ Course' /\ Stored'
    BY <1>4, <1>2, BoundsAssumption
       DEF Inv, Base, Types, Fresh, Link, Course, Stored, Full, At, None, Silence, Idle, Running, Resumable,
           Held, SaidOk, Flows, Cams, Conns, Slots, Keys, Frames
  <2>3. Settled => Accounted' /\ Doubt' /\ Prompt'
    BY <1>4, <1>2, BoundsAssumption
       DEF Inv, Base, Types, Safe, Fresh, Link, Course, Stored, Accounted, Doubt, Prompt, Full, At, None,
           Silence, Idle, Running, Resumable, Held, SaidOk, NoKeyLost, Owed, Replaces, Eights, Linked, Kept,
           Flows, Cams, Conns, Slots, Keys, Frames
  <2> QED
    BY <2>1, <2>2, <2>3 DEF Inv, Base, Safe
<1>5. CASE Left
  <2>1. Types'
    BY <1>5, <1>2
       DEF Inv, Base, Types, Answered, Left, At, Flows, Points, Checks, Slots, radio, world, secure, camOnly
  <2>2. Fresh' /\ Link' /\ Course' /\ Stored'
    BY <1>5, <1>2, BoundsAssumption
       DEF Inv, Base, Types, Fresh, Link, Course, Stored, Left, At, None, Silence, Idle, Running, Resumable,
           Held, SaidOk, Flows, Cams, Conns, Slots, Keys, Frames
  <2>3. Settled => Accounted' /\ Doubt' /\ Prompt'
    BY <1>5, <1>2, BoundsAssumption
       DEF Inv, Base, Types, Safe, Fresh, Link, Course, Stored, Accounted, Doubt, Prompt, Left, At, None,
           Silence, Idle, Running, Resumable, Held, SaidOk, NoKeyLost, Owed, Replaces, Eights, Linked, Kept,
           Flows, Cams, Conns, Slots, Keys, Frames
  <2> QED
    BY <2>1, <2>2, <2>3 DEF Inv, Base, Safe
<1>6. CASE Again
  <2>1. Types'
    BY <1>6, <1>2
       DEF Inv, Base, Types, Answered, Again, Linked, At, Flows, Points, Checks, Slots, radio, world, secure,
           camOnly
  <2>2. Fresh' /\ Link' /\ Course' /\ Stored'
    BY <1>6, <1>2, BoundsAssumption
       DEF Inv, Base, Types, Fresh, Link, Course, Stored, Again, Linked, At, None, Silence, Idle, Running,
           Resumable, Held, SaidOk, Flows, Cams, Conns, Slots, Keys, Frames
  <2>3. Settled => Accounted' /\ Doubt' /\ Prompt'
    BY <1>6, <1>2, BoundsAssumption
       DEF Inv, Base, Types, Safe, Fresh, Link, Course, Stored, Accounted, Doubt, Prompt, Again, Linked, At,
           None, Silence, Idle, Running, Resumable, Held, SaidOk, NoKeyLost, Owed, Replaces, Eights, Kept,
           Flows, Cams, Conns, Slots, Keys, Frames
  <2> QED
    BY <2>1, <2>2, <2>3 DEF Inv, Base, Safe
<1>7. CASE Ends
  <2>1. Types'
    BY <1>7, <1>2
       DEF Inv, Base, Types, Answered, Ends, Linked, At, Flows, Points, Checks, Slots, radio, world, secure,
           camOnly
  <2>2. Fresh' /\ Link' /\ Course' /\ Stored'
    BY <1>7, <1>2, BoundsAssumption
       DEF Inv, Base, Types, Fresh, Link, Course, Stored, Ends, Linked, At, None, Silence, Idle, Running,
           Resumable, Held, SaidOk, Flows, Cams, Conns, Slots, Keys, Frames
  <2>3. Settled => Accounted' /\ Doubt' /\ Prompt'
    BY <1>7, <1>2, BoundsAssumption
       DEF Inv, Base, Types, Safe, Fresh, Link, Course, Stored, Accounted, Doubt, Prompt, Ends, Linked, At,
           None, Silence, Idle, Running, Resumable, Held, SaidOk, NoKeyLost, Owed, Replaces, Eights, Kept,
           Flows, Cams, Conns, Slots, Keys, Frames
  <2> QED
    BY <2>1, <2>2, <2>3 DEF Inv, Base, Safe
<1> QED
  BY <1>1, <1>3, <1>4, <1>5, <1>6, <1>7

\* The pending key becomes the pairing's or the orphan; where the keychain takes neither write, it is
\* given up.
LEMMA FinalizesKeeps ==
  ASSUME Inv, Finalizes
  PROVE  Inv'
<1> DEFINE Good ==
     /\ keys' = [keys EXCEPT !.auth = keys.pend, !.pend = None] /\ ghost' = ghost
     /\ flow' = [flow EXCEPT !.pc = "record", !.stage = "pre", !.key = None]
<1> DEFINE Aside ==
     /\ keys' = [auth |-> keys.auth, pend |-> None, orphan |-> flow.key] /\ ghost' = ghost
     /\ FailsForgetting
<1> DEFINE Final ==
     /\ keys' = [auth |-> keys.pend, pend |-> None, orphan |-> keys.orphan] /\ ghost' = ghost
     /\ FailsForgetting
<1> DEFINE Both ==
     /\ keys' = [auth |-> keys.pend, pend |-> None, orphan |-> flow.key] /\ ghost' = ghost
     /\ FailsForgetting
<1> DEFINE Lost ==
     /\ keys' = [auth |-> keys.auth, pend |-> None, orphan |-> keys.orphan] /\ FailsForgetting
     /\ \/ ghost' = [ghost EXCEPT !.given = @ \cup {flow.key}]
        \/ flow.key \in {keys.auth, keys.orphan} /\ ghost' = ghost
<1>1. Good \/ Aside \/ Final \/ Both \/ Lost
  <2>1. CASE UNCHANGED ghost /\ keys' = [keys EXCEPT !.auth = keys.pend, !.pend = None]
                            /\ flow' = [flow EXCEPT !.pc = "record", !.stage = "pre", !.key = None]
    BY <2>1
  <2>2. ASSUME NEW a \in {keys.auth, keys.pend}, NEW o \in {keys.orphan, flow.key},
               keys' = [auth |-> a, pend |-> None, orphan |-> o], FailsForgetting,
               ghost' = [ghost EXCEPT !.given = IF flow.key \in {keys'.auth, keys'.orphan} THEN @ ELSE @ \cup {flow.key}]
        PROVE  Aside \/ Final \/ Both \/ Lost
    <3>1. flow.key = keys.pend
      BY DEF Inv, Base, Course, Running, Finalizes, At
    <3>2. keys'.auth = a /\ keys'.orphan = o
      BY <2>2
    <3>3. ghost = [ghost EXCEPT !.given = ghost.given]
      BY DEF Inv, Base, Types
    <3>4. flow.key \in {a, o} => ghost' = ghost
      BY <2>2, <3>2, <3>3
    <3>5. flow.key \notin {a, o} => ghost' = [ghost EXCEPT !.given = @ \cup {flow.key}]
      BY <2>2, <3>2
    <3>6. CASE a = keys.auth /\ o = keys.orphan
      BY <2>2, <3>3, <3>4, <3>5, <3>6
    <3>7. CASE a = keys.auth /\ o = flow.key
      BY <2>2, <3>3, <3>4, <3>7
    <3>8. CASE a = keys.pend /\ o = keys.orphan
      BY <2>2, <3>1, <3>3, <3>4, <3>8
    <3>9. CASE a = keys.pend /\ o = flow.key
      BY <2>2, <3>3, <3>4, <3>9
    <3> QED
      BY <3>6, <3>7, <3>8, <3>9
  <2> QED
    BY <2>1, <2>2 DEF Finalizes
<1>2. /\ At("final") /\ Unlinked
     /\ UNCHANGED <<cam, near, heard, rec, refused, app, drive>>
     /\ left' \in 0 .. MaxTroubles
  BY BoundsAssumption DEF Inv, Base, Types, Finalizes, world, Trouble
<1> HIDE DEF Good, Aside, Final, Both, Lost
<1>3. CASE Good
  <2>1. conn' \in Conns
    BY <1>3, <1>2
       DEF Inv, Base, Types, Good, None, At, Unlinked, NoConn, Conns, Slots, Flows, Cams
  <2>2. toPhone' \in Seq(Frames)
    BY <1>3, <1>2 DEF Inv, Base, Types, Good, None, At, Unlinked, NoConn, Frames, Codes
  <2>3. keys' \in [auth: Slots, pend: Slots, orphan: Slots]
    BY <1>3, <1>2 DEF Inv, Base, Types, Good, None, At, Unlinked, NoConn, Slots, Flows
  <2>4. flow' \in Flows
    BY <1>3, <1>2
       DEF Inv, Base, Types, Good, None, At, Unlinked, NoConn, Flows, Points, Checks, Slots
  <2>5. ghost' \in [made: 0 .. MaxSetups, given: SUBSET Slots, auth: Slots, stored: SUBSET Keys]
    BY <1>3, <1>2 DEF Inv, Base, Types, Good, Flows, Slots
  <2>6. Types'
    BY <1>3, <1>2, <2>1, <2>2, <2>3, <2>4, <2>5 DEF Inv, Base, Types, Good
  <2>7. Fresh' /\ Link' /\ Course' /\ Stored'
    BY <1>3, <1>2, BoundsAssumption
       DEF Inv, Base, Types, Fresh, Link, Course, Stored, Good, None, At, Unlinked, NoConn,
           Silence, Idle, Running, Resumable, Held, SaidOk, Flows, Cams, Conns, Slots, Keys, Frames
  <2>8. Settled => Accounted' /\ Doubt' /\ Prompt'
    BY <1>3, <1>2, BoundsAssumption
       DEF Inv, Base, Types, Safe, Fresh, Link, Course, Stored, Accounted, Doubt, Prompt, Good, None,
           FailsForgetting, At, Unlinked, NoConn, Silence, Idle, Running, Resumable, Held, SaidOk, NoKeyLost,
           Owed, Replaces, Eights, Linked, Kept, Flows, Cams, Conns, Slots, Keys, Frames
  <2> QED
    BY <2>6, <2>7, <2>8 DEF Inv, Base, Safe
<1>4. CASE Aside
  <2>1. conn' \in Conns
    BY <1>4, <1>2
       DEF Inv, Base, Types, Aside, None, FailsForgetting, At, Unlinked, NoConn, Conns, Slots, Flows, Cams
  <2>2. toPhone' \in Seq(Frames)
    BY <1>4, <1>2 DEF Inv, Base, Types, Aside, None, FailsForgetting, At, Unlinked, NoConn, Frames, Codes
  <2>3. keys' \in [auth: Slots, pend: Slots, orphan: Slots]
    BY <1>4, <1>2 DEF Inv, Base, Types, Aside, None, FailsForgetting, At, Unlinked, NoConn, Slots, Flows
  <2>4. flow' \in Flows
    BY <1>4, <1>2
       DEF Inv, Base, Types, Aside, None, FailsForgetting, At, Unlinked, NoConn, Flows, Points, Checks, Slots
  <2>5. ghost' \in [made: 0 .. MaxSetups, given: SUBSET Slots, auth: Slots, stored: SUBSET Keys]
    BY <1>4, <1>2 DEF Inv, Base, Types, Aside, Flows, Slots
  <2>6. Types'
    BY <1>4, <1>2, <2>1, <2>2, <2>3, <2>4, <2>5 DEF Inv, Base, Types, Aside
  <2>7. Fresh' /\ Link' /\ Course' /\ Stored'
    BY <1>4, <1>2, BoundsAssumption
       DEF Inv, Base, Types, Fresh, Link, Course, Stored, Aside, None, FailsForgetting, At, Unlinked, NoConn,
           Silence, Idle, Running, Resumable, Held, SaidOk, Flows, Cams, Conns, Slots, Keys, Frames
  <2>8. Settled => Accounted' /\ Doubt' /\ Prompt'
    BY <1>4, <1>2, BoundsAssumption
       DEF Inv, Base, Types, Safe, Fresh, Link, Course, Stored, Accounted, Doubt, Prompt, Aside, None,
           FailsForgetting, At, Unlinked, NoConn, Silence, Idle, Running, Resumable, Held, SaidOk, NoKeyLost,
           Owed, Replaces, Eights, Linked, Kept, Flows, Cams, Conns, Slots, Keys, Frames
  <2> QED
    BY <2>6, <2>7, <2>8 DEF Inv, Base, Safe
<1>5. CASE Final
  <2>1. conn' \in Conns
    BY <1>5, <1>2
       DEF Inv, Base, Types, Final, None, FailsForgetting, At, Unlinked, NoConn, Conns, Slots, Flows, Cams
  <2>2. toPhone' \in Seq(Frames)
    BY <1>5, <1>2 DEF Inv, Base, Types, Final, None, FailsForgetting, At, Unlinked, NoConn, Frames, Codes
  <2>3. keys' \in [auth: Slots, pend: Slots, orphan: Slots]
    BY <1>5, <1>2 DEF Inv, Base, Types, Final, None, FailsForgetting, At, Unlinked, NoConn, Slots, Flows
  <2>4. flow' \in Flows
    BY <1>5, <1>2
       DEF Inv, Base, Types, Final, None, FailsForgetting, At, Unlinked, NoConn, Flows, Points, Checks, Slots
  <2>5. ghost' \in [made: 0 .. MaxSetups, given: SUBSET Slots, auth: Slots, stored: SUBSET Keys]
    BY <1>5, <1>2 DEF Inv, Base, Types, Final, Flows, Slots
  <2>6. Types'
    BY <1>5, <1>2, <2>1, <2>2, <2>3, <2>4, <2>5 DEF Inv, Base, Types, Final
  <2>7. Fresh' /\ Link' /\ Course' /\ Stored'
    BY <1>5, <1>2, BoundsAssumption
       DEF Inv, Base, Types, Fresh, Link, Course, Stored, Final, None, FailsForgetting, At, Unlinked, NoConn,
           Silence, Idle, Running, Resumable, Held, SaidOk, Flows, Cams, Conns, Slots, Keys, Frames
  <2>8. Settled => Accounted' /\ Doubt' /\ Prompt'
    BY <1>5, <1>2, BoundsAssumption
       DEF Inv, Base, Types, Safe, Fresh, Link, Course, Stored, Accounted, Doubt, Prompt, Final, None,
           FailsForgetting, At, Unlinked, NoConn, Silence, Idle, Running, Resumable, Held, SaidOk, NoKeyLost,
           Owed, Replaces, Eights, Linked, Kept, Flows, Cams, Conns, Slots, Keys, Frames
  <2> QED
    BY <2>6, <2>7, <2>8 DEF Inv, Base, Safe
<1>6. CASE Both
  <2>1. conn' \in Conns
    BY <1>6, <1>2
       DEF Inv, Base, Types, Both, None, FailsForgetting, At, Unlinked, NoConn, Conns, Slots, Flows, Cams
  <2>2. toPhone' \in Seq(Frames)
    BY <1>6, <1>2 DEF Inv, Base, Types, Both, None, FailsForgetting, At, Unlinked, NoConn, Frames, Codes
  <2>3. keys' \in [auth: Slots, pend: Slots, orphan: Slots]
    BY <1>6, <1>2 DEF Inv, Base, Types, Both, None, FailsForgetting, At, Unlinked, NoConn, Slots, Flows
  <2>4. flow' \in Flows
    BY <1>6, <1>2
       DEF Inv, Base, Types, Both, None, FailsForgetting, At, Unlinked, NoConn, Flows, Points, Checks, Slots
  <2>5. ghost' \in [made: 0 .. MaxSetups, given: SUBSET Slots, auth: Slots, stored: SUBSET Keys]
    BY <1>6, <1>2 DEF Inv, Base, Types, Both, Flows, Slots
  <2>6. Types'
    BY <1>6, <1>2, <2>1, <2>2, <2>3, <2>4, <2>5 DEF Inv, Base, Types, Both
  <2>7. Fresh' /\ Link' /\ Course' /\ Stored'
    BY <1>6, <1>2, BoundsAssumption
       DEF Inv, Base, Types, Fresh, Link, Course, Stored, Both, None, FailsForgetting, At, Unlinked, NoConn,
           Silence, Idle, Running, Resumable, Held, SaidOk, Flows, Cams, Conns, Slots, Keys, Frames
  <2>8. Settled => Accounted' /\ Doubt' /\ Prompt'
    BY <1>6, <1>2, BoundsAssumption
       DEF Inv, Base, Types, Safe, Fresh, Link, Course, Stored, Accounted, Doubt, Prompt, Both, None,
           FailsForgetting, At, Unlinked, NoConn, Silence, Idle, Running, Resumable, Held, SaidOk, NoKeyLost,
           Owed, Replaces, Eights, Linked, Kept, Flows, Cams, Conns, Slots, Keys, Frames
  <2> QED
    BY <2>6, <2>7, <2>8 DEF Inv, Base, Safe
<1>7. CASE Lost
  <2>1. conn' \in Conns
    BY <1>7, <1>2
       DEF Inv, Base, Types, Lost, None, FailsForgetting, At, Unlinked, NoConn, Conns, Slots, Flows, Cams
  <2>2. toPhone' \in Seq(Frames)
    BY <1>7, <1>2 DEF Inv, Base, Types, Lost, None, FailsForgetting, At, Unlinked, NoConn, Frames, Codes
  <2>3. keys' \in [auth: Slots, pend: Slots, orphan: Slots]
    BY <1>7, <1>2 DEF Inv, Base, Types, Lost, None, FailsForgetting, At, Unlinked, NoConn, Slots, Flows
  <2>4. flow' \in Flows
    BY <1>7, <1>2
       DEF Inv, Base, Types, Lost, None, FailsForgetting, At, Unlinked, NoConn, Flows, Points, Checks, Slots
  <2>5. ghost' \in [made: 0 .. MaxSetups, given: SUBSET Slots, auth: Slots, stored: SUBSET Keys]
    BY <1>7, <1>2 DEF Inv, Base, Types, Lost, Flows, Slots
  <2>6. Types'
    BY <1>7, <1>2, <2>1, <2>2, <2>3, <2>4, <2>5 DEF Inv, Base, Types, Lost
  <2>7. Fresh' /\ Link' /\ Course' /\ Stored'
    BY <1>7, <1>2, BoundsAssumption
       DEF Inv, Base, Types, Fresh, Link, Course, Stored, Lost, None, FailsForgetting, At, Unlinked, NoConn,
           Silence, Idle, Running, Resumable, Held, SaidOk, Flows, Cams, Conns, Slots, Keys, Frames
  <2>8. Settled => Accounted' /\ Doubt' /\ Prompt'
    BY <1>7, <1>2, BoundsAssumption
       DEF Inv, Base, Types, Safe, Fresh, Link, Course, Stored, Accounted, Doubt, Prompt, Lost, None,
           FailsForgetting, At, Unlinked, NoConn, Silence, Idle, Running, Resumable, Held, SaidOk, NoKeyLost,
           Owed, Replaces, Eights, Linked, Kept, Flows, Cams, Conns, Slots, Keys, Frames
  <2> QED
    BY <2>6, <2>7, <2>8 DEF Inv, Base, Safe
<1> QED
  BY <1>1, <1>3, <1>4, <1>5, <1>6, <1>7

\* The record of the pairing; the orphan it clears is not owed.
LEMMA RecordsKeeps ==
  ASSUME Inv, Records
  PROVE  Inv'
<1> DEFINE Good ==
     /\ rec' = TRUE /\ refused' = FALSE /\ keys' = [keys EXCEPT !.orphan = None] /\ flow' = [Idle EXCEPT !.res = "done"]
<1> DEFINE Bad ==
     /\ Undoes("failed") /\ UNCHANGED secure
<1>1. Good \/ Bad
  BY DEF Records, On, Reconnects, CamCommits, CamForgets, CamCancels, FailsKeeping
<1>2. /\ At("record")
     /\ UNCHANGED <<cam, conn, near, toPhone, heard, app, drive, ghost>>
     /\ left' \in 0 .. MaxTroubles
  BY BoundsAssumption
     DEF Inv, Base, Types, Records, On, radio, world, secure, camOnly, Reconnects, CamCommits, CamForgets,
         CamCancels, Trouble
<1> HIDE DEF Good, Bad
<1>3. CASE Good
  <2>1. keys' \in [auth: Slots, pend: Slots, orphan: Slots]
    BY <1>3, <1>2 DEF Inv, Base, Types, Good, None, Idle, At, Slots, Flows
  <2>2. flow' \in Flows
    BY <1>3, <1>2 DEF Inv, Base, Types, Good, None, Idle, At, Flows, Points, Checks, Slots
  <2>3. Types'
    BY <1>3, <1>2, <2>1, <2>2 DEF Inv, Base, Types, Records, Good, radio, world, secure, camOnly
  <2>4. Fresh' /\ Link' /\ Course' /\ Stored'
    BY <1>3, <1>2, BoundsAssumption
       DEF Inv, Base, Types, Fresh, Link, Course, Stored, Good, None, Idle, At, Silence, Running, Resumable,
           Held, SaidOk, Flows, Cams, Conns, Slots, Keys, Frames
  <2>5. Settled => Accounted' /\ Doubt' /\ Prompt'
    BY <1>3, <1>2, BoundsAssumption
       DEF Inv, Base, Types, Safe, Fresh, Link, Course, Stored, Accounted, Doubt, Prompt, Good, None, Idle, At,
           Silence, Running, Resumable, Held, SaidOk, NoKeyLost, Owed, Replaces, Eights, Linked, Kept, Flows,
           Cams, Conns, Slots, Keys, Frames
  <2> QED
    BY <2>3, <2>4, <2>5 DEF Inv, Base, Safe
<1>4. CASE Bad
  <2>1. keys' \in [auth: Slots, pend: Slots, orphan: Slots]
    BY <1>4, <1>2 DEF Inv, Base, Types, Bad, Undoes, secure, At, Slots, Flows
  <2>2. flow' \in Flows
    BY <1>4, <1>2 DEF Inv, Base, Types, Bad, Undoes, secure, At, Flows, Points, Checks, Slots
  <2>3. Types'
    BY <1>4, <1>2, <2>1, <2>2 DEF Inv, Base, Types, Records, Bad, radio, world, secure, camOnly
  <2>4. Fresh' /\ Link' /\ Course' /\ Stored'
    BY <1>4, <1>2, BoundsAssumption
       DEF Inv, Base, Types, Fresh, Link, Course, Stored, Bad, Undoes, secure, At, None, Silence, Idle, Running,
           Resumable, Held, SaidOk, Flows, Cams, Conns, Slots, Keys, Frames
  <2>5. Settled => Accounted' /\ Doubt' /\ Prompt'
    BY <1>4, <1>2, BoundsAssumption
       DEF Inv, Base, Types, Safe, Fresh, Link, Course, Stored, Accounted, Doubt, Prompt, Bad, Undoes, secure,
           At, None, Silence, Idle, Running, Resumable, Held, SaidOk, NoKeyLost, Owed, Replaces, Eights, Linked,
           Kept, Flows, Cams, Conns, Slots, Keys, Frames
  <2> QED
    BY <2>3, <2>4, <2>5 DEF Inv, Base, Safe
<1> QED
  BY <1>1, <1>3, <1>4

-----------------------------------------------------------------------------
(* The undo. *)

\* A setup stopped.
LEMMA StopsKeeps ==
  ASSUME Inv, Stops
  PROVE  Inv'
<1>1. flow' \in Flows
  BY DEF Inv, Base, Types, Stops, Checks, Stopped, Undoes, radio, secure, world, Flows, Points, Slots
<1>2. Types'
  BY <1>1 DEF Inv, Base, Types, Stops, radio, world, secure, camOnly
<1>3. Fresh' /\ Link' /\ Course' /\ Stored'
  BY BoundsAssumption
     DEF Inv, Base, Types, Fresh, Link, Course, Stored, Stops, Checks, Stopped, Undoes, radio, secure, world,
         None, Silence, Idle, Running, Resumable, Held, SaidOk, Flows, Cams, Conns, Slots, Keys, Frames
<1>4. Settled => Accounted' /\ Doubt' /\ Prompt'
  BY BoundsAssumption
     DEF Inv, Base, Types, Safe, Fresh, Link, Course, Stored, Accounted, Doubt, Prompt, Stops, Checks, Stopped,
         Undoes, radio, secure, world, None, Silence, Idle, Running, Resumable, Held, SaidOk, NoKeyLost, Owed,
         Replaces, Eights, Linked, Kept, Flows, Cams, Conns, Slots, Keys, Frames
<1> QED
  BY <1>2, <1>3, <1>4 DEF Inv, Base, Safe

\* The undo reaches the dashcam, or knows why not.
LEMMA UndoReachesKeeps ==
  ASSUME Inv, UndoReaches
  PROVE  Inv'
<1> DEFINE Linking ==
     /\ near /\ Known /\ Session /\ Goes("undocmd") /\ UNCHANGED toPhone
<1> DEFINE Missed ==
     /\ ~(near /\ Known) /\ Unlinked /\ flow' = [flow EXCEPT !.pc = "undoend", !.keep = ~(near /\ flow.stage = "commit")]
<1>1. Linking \/ Missed
  BY DEF UndoReaches, On, Reconnects, CamCommits, CamForgets, CamCancels, FailsKeeping
<1>2. /\ At("undo") /\ flow.stage \in {"commit", "fin"} /\ flow.key # None
     /\ UNCHANGED <<cam, near, heard, keys, rec, refused, app, drive, left, ghost>>
  BY DEF UndoReaches, On, radio, world, secure, camOnly, Reconnects, CamCommits, CamForgets, CamCancels, Trouble
<1> HIDE DEF Linking, Missed
<1>3. CASE Linking
  <2>1. conn' \in Conns
    BY <1>3, <1>2 DEF Inv, Base, Types, Linking, Known, Session, Goes, At, None, NoConn, Conns, Slots, Flows, Cams
  <2>2. toPhone' \in Seq(Frames)
    BY <1>3, <1>2 DEF Inv, Base, Types, Linking, Known, Session, Goes, At, None, NoConn, Frames, Codes
  <2>3. flow' \in Flows
    BY <1>3, <1>2
       DEF Inv, Base, Types, Linking, Known, Session, Goes, At, None, NoConn, Flows, Points, Checks, Slots
  <2>4. Types'
    BY <1>3, <1>2, <2>1, <2>2, <2>3 DEF Inv, Base, Types, UndoReaches, Linking, radio, world, secure, camOnly
  <2>5. Fresh' /\ Link' /\ Course' /\ Stored'
    BY <1>3, <1>2, BoundsAssumption
       DEF Inv, Base, Types, Fresh, Link, Course, Stored, Linking, Known, Session, Goes, At, None, NoConn,
           Silence, Idle, Running, Resumable, Held, SaidOk, Flows, Cams, Conns, Slots, Keys, Frames
  <2>6. Settled => Accounted' /\ Doubt' /\ Prompt'
    BY <1>3, <1>2, BoundsAssumption
       DEF Inv, Base, Types, Safe, Fresh, Link, Course, Stored, Accounted, Doubt, Prompt, Linking, Known,
           Session, Goes, At, None, NoConn, Silence, Idle, Running, Resumable, Held, SaidOk, NoKeyLost, Owed,
           Replaces, Eights, Linked, Kept, Flows, Cams, Conns, Slots, Keys, Frames
  <2> QED
    BY <2>4, <2>5, <2>6 DEF Inv, Base, Safe
<1>4. CASE Missed
  <2>1. flow'.keep = ~(near /\ flow.stage = "commit")
    BY <1>4, <1>2 DEF Inv, Base, Types, Flows, Missed
  <2>2. ~flow'.keep => flow.key \notin cam.stored
    BY <1>4, <1>2, <2>1 DEF Known, Missed
  <2>3. conn' \in Conns
    BY <1>4, <1>2, <2>1, <2>2
       DEF Inv, Base, Types, Missed, Known, Unlinked, At, None, NoConn, Conns, Slots, Flows, Cams
  <2>4. toPhone' \in Seq(Frames)
    BY <1>4, <1>2, <2>1, <2>2 DEF Inv, Base, Types, Missed, Known, Unlinked, At, None, NoConn, Frames, Codes
  <2>5. flow' \in Flows
    BY <1>4, <1>2, <2>1, <2>2
       DEF Inv, Base, Types, Missed, Known, Unlinked, At, None, NoConn, Flows, Points, Checks, Slots
  <2>6. Types'
    BY <1>4, <1>2, <2>1, <2>2, <2>3, <2>4, <2>5
       DEF Inv, Base, Types, UndoReaches, Missed, radio, world, secure, camOnly
  <2>7. Fresh' /\ Link' /\ Course' /\ Stored'
    BY <1>4, <1>2, <2>1, <2>2, BoundsAssumption
       DEF Inv, Base, Types, Fresh, Link, Course, Stored, Missed, Known, Unlinked, At, None, NoConn, Silence,
           Idle, Running, Resumable, Held, SaidOk, Flows, Cams, Conns, Slots, Keys, Frames
  <2>8. Settled => Accounted' /\ Doubt' /\ Prompt'
    BY <1>4, <1>2, <2>1, <2>2, BoundsAssumption
       DEF Inv, Base, Types, Safe, Fresh, Link, Course, Stored, Accounted, Doubt, Prompt, Missed, Known,
           Unlinked, At, None, NoConn, Silence, Idle, Running, Resumable, Held, SaidOk, NoKeyLost, Owed,
           Replaces, Eights, Linked, Kept, Flows, Cams, Conns, Slots, Keys, Frames
  <2> QED
    BY <2>6, <2>7, <2>8 DEF Inv, Base, Safe
<1> QED
  BY <1>1, <1>3, <1>4

\* The undo of a setup linked, or with nothing to reach.
LEMMA UndoLinkedKeeps ==
  ASSUME Inv, UndoLinked
  PROVE  Inv'
<1>1. Types'
  BY DEF Inv, Base, Types, UndoLinked, At, None, Linked, Goes, radio, secure, world, Flows, Points, Checks,
         Slots, camOnly
<1>2. Fresh' /\ Link' /\ Course' /\ Stored'
  BY BoundsAssumption
     DEF Inv, Base, Types, Fresh, Link, Course, Stored, UndoLinked, At, None, Linked, Goes, radio, secure,
         world, Silence, Idle, Running, Resumable, Held, SaidOk, Flows, Cams, Conns, Slots, Keys, Frames
<1>3. Settled => Accounted' /\ Doubt' /\ Prompt'
  BY BoundsAssumption
     DEF Inv, Base, Types, Safe, Fresh, Link, Course, Stored, Accounted, Doubt, Prompt, UndoLinked, At, None,
         Linked, Goes, radio, secure, world, Silence, Idle, Running, Resumable, Held, SaidOk, NoKeyLost, Owed,
         Replaces, Eights, Kept, Flows, Cams, Conns, Slots, Keys, Frames
<1> QED
  BY <1>1, <1>2, <1>3 DEF Inv, Base, Safe

\* COMMAND 9 on a hold, or 4 once a commit went out.
LEMMA UndoSendsKeeps ==
  ASSUME Inv, UndoSends
  PROVE  Inv'
<1> DEFINE Cancelled ==
     /\ Linked /\ Holds /\ cam' = Undone /\ Answer(9, "ok") /\ UNCHANGED conn
     /\ flow' = [flow EXCEPT !.pc = "undowait", !.keep = FALSE] /\ heard' = [heard EXCEPT !.commit = "none", !.undone = FALSE]
<1> DEFINE NotNow ==
     /\ Linked /\ ~Holds /\ flow.stage # "commit" /\ cam' = cam /\ Answer(9, "notnow") /\ UNCHANGED conn
     /\ flow' = [flow EXCEPT !.pc = "undowait", !.keep = FALSE] /\ heard' = [heard EXCEPT !.commit = "none", !.undone = FALSE]
<1> DEFINE Forgotten ==
     /\ Linked /\ ~Holds /\ cam' = [cam EXCEPT !.stored = @ \ {conn.as}] /\ Unlinked
     /\ flow' = [flow EXCEPT !.pc = "undowait", !.keep = FALSE] /\ heard' = [heard EXCEPT !.commit = "none", !.undone = FALSE]
<1> DEFINE Unsent ==
     /\ flow' = [flow EXCEPT !.pc = "undoend", !.keep = TRUE] /\ UNCHANGED <<cam, conn, toPhone, heard, left>>
<1>1. Cancelled \/ NotNow \/ Forgotten \/ Unsent
  BY DEF UndoSends, On, Reconnects, CamCommits, CamForgets, CamCancels, FailsKeeping
<1>2. /\ At("undocmd")
     /\ UNCHANGED <<near, keys, rec, refused, app, drive, left, ghost>>
  BY DEF UndoSends, On, radio, world, secure, camOnly, Reconnects, CamCommits, CamForgets, CamCancels, Trouble
<1> HIDE DEF Cancelled, NotNow, Forgotten, Unsent
<1>3. CASE Cancelled
  <2>1. Said(9, "ok")
    BY <1>3, <1>2, AnswerSays DEF Inv, Base, Cancelled
  <2>2. cam' \in Cams
    BY <1>3, <1>2, <2>1
       DEF Inv, Base, Types, Cancelled, Linked, Holds, Undone, Answer, At, None, Said, Read, Cams, Conns, Slots,
           Keys
  <2>3. conn' \in Conns
    BY <1>3, <1>2, <2>1
       DEF Inv, Base, Types, Cancelled, Linked, Holds, Undone, Answer, At, None, Said, Read, Conns, Slots,
           Flows, Cams
  <2>4. toPhone' \in Seq(Frames)
    BY <1>3, <1>2, <2>1
       DEF Inv, Base, Types, Cancelled, Linked, Holds, Undone, Answer, At, None, Said, Read, Frames, Codes
  <2>5. flow' \in Flows
    BY <1>3, <1>2, <2>1
       DEF Inv, Base, Types, Cancelled, Linked, Holds, Undone, Answer, At, None, Said, Read, Flows, Points,
           Checks, Slots
  <2>6. heard' \in [commit: Codes \cup {"none"}, undone: BOOLEAN, expired: BOOLEAN]
    BY <1>3, <1>2, <2>1
       DEF Inv, Base, Types, Cancelled, Linked, Holds, Undone, Answer, At, None, Said, Read, Codes, Frames
  <2>7. Types'
    BY <1>3, <1>2, <2>1, <2>2, <2>3, <2>4, <2>5, <2>6
       DEF Inv, Base, Types, UndoSends, Cancelled, radio, world, secure, camOnly
  <2>8. Fresh' /\ Link' /\ Course' /\ Stored'
    BY <1>3, <1>2, <2>1, BoundsAssumption
       DEF Inv, Base, Types, Fresh, Link, Course, Stored, Cancelled, Linked, Holds, Undone, Answer, At, None,
           Said, Read, Silence, Idle, Running, Resumable, Held, SaidOk, Flows, Cams, Conns, Slots, Keys, Frames
  <2>9. Settled => Accounted' /\ Doubt' /\ Prompt'
    BY <1>3, <1>2, <2>1, BoundsAssumption
       DEF Inv, Base, Types, Safe, Fresh, Link, Course, Stored, Accounted, Doubt, Prompt, Cancelled, Linked,
           Holds, Undone, Answer, At, None, Said, Read, Silence, Idle, Running, Resumable, Held, SaidOk,
           NoKeyLost, Owed, Replaces, Eights, Kept, Flows, Cams, Conns, Slots, Keys, Frames
  <2> QED
    BY <2>7, <2>8, <2>9 DEF Inv, Base, Safe
<1>4. CASE NotNow
  <2>1. Said(9, "notnow")
    BY <1>4, <1>2, AnswerSays DEF Inv, Base, NotNow
  <2>2. cam' \in Cams
    BY <1>4, <1>2, <2>1
       DEF Inv, Base, Types, NotNow, Linked, Holds, Answer, At, None, Said, Read, Cams, Conns, Slots, Keys
  <2>3. conn' \in Conns
    BY <1>4, <1>2, <2>1
       DEF Inv, Base, Types, NotNow, Linked, Holds, Answer, At, None, Said, Read, Conns, Slots, Flows, Cams
  <2>4. toPhone' \in Seq(Frames)
    BY <1>4, <1>2, <2>1 DEF Inv, Base, Types, NotNow, Linked, Holds, Answer, At, None, Said, Read, Frames, Codes
  <2>5. flow' \in Flows
    BY <1>4, <1>2, <2>1
       DEF Inv, Base, Types, NotNow, Linked, Holds, Answer, At, None, Said, Read, Flows, Points, Checks, Slots
  <2>6. heard' \in [commit: Codes \cup {"none"}, undone: BOOLEAN, expired: BOOLEAN]
    BY <1>4, <1>2, <2>1 DEF Inv, Base, Types, NotNow, Linked, Holds, Answer, At, None, Said, Read, Codes, Frames
  <2>7. Types'
    BY <1>4, <1>2, <2>1, <2>2, <2>3, <2>4, <2>5, <2>6
       DEF Inv, Base, Types, UndoSends, NotNow, radio, world, secure, camOnly
  <2>8. Fresh' /\ Link' /\ Course' /\ Stored'
    BY <1>4, <1>2, <2>1, BoundsAssumption
       DEF Inv, Base, Types, Fresh, Link, Course, Stored, NotNow, Linked, Holds, Answer, At, None, Said, Read,
           Silence, Idle, Running, Resumable, Held, SaidOk, Flows, Cams, Conns, Slots, Keys, Frames
  <2>9. Settled => Accounted' /\ Doubt' /\ Prompt'
    BY <1>4, <1>2, <2>1, BoundsAssumption
       DEF Inv, Base, Types, Safe, Fresh, Link, Course, Stored, Accounted, Doubt, Prompt, NotNow, Linked, Holds,
           Answer, At, None, Said, Read, Silence, Idle, Running, Resumable, Held, SaidOk, NoKeyLost, Owed,
           Replaces, Eights, Kept, Flows, Cams, Conns, Slots, Keys, Frames
  <2> QED
    BY <2>7, <2>8, <2>9 DEF Inv, Base, Safe
<1>5. CASE Forgotten
  <2>1. cam' \in Cams
    BY <1>5, <1>2
       DEF Inv, Base, Types, Forgotten, Linked, Holds, Unlinked, At, None, NoConn, Cams, Conns, Slots, Keys
  <2>2. conn' \in Conns
    BY <1>5, <1>2
       DEF Inv, Base, Types, Forgotten, Linked, Holds, Unlinked, At, None, NoConn, Conns, Slots, Flows, Cams
  <2>3. toPhone' \in Seq(Frames)
    BY <1>5, <1>2 DEF Inv, Base, Types, Forgotten, Linked, Holds, Unlinked, At, None, NoConn, Frames, Codes
  <2>4. flow' \in Flows
    BY <1>5, <1>2
       DEF Inv, Base, Types, Forgotten, Linked, Holds, Unlinked, At, None, NoConn, Flows, Points, Checks, Slots
  <2>5. heard' \in [commit: Codes \cup {"none"}, undone: BOOLEAN, expired: BOOLEAN]
    BY <1>5, <1>2 DEF Inv, Base, Types, Forgotten, Linked, Holds, Unlinked, At, None, NoConn, Codes, Frames
  <2>6. Types'
    BY <1>5, <1>2, <2>1, <2>2, <2>3, <2>4, <2>5
       DEF Inv, Base, Types, UndoSends, Forgotten, radio, world, secure, camOnly
  <2>7. Fresh' /\ Link' /\ Course' /\ Stored'
    BY <1>5, <1>2, BoundsAssumption
       DEF Inv, Base, Types, Fresh, Link, Course, Stored, Forgotten, Linked, Holds, Unlinked, At, None, NoConn,
           Silence, Idle, Running, Resumable, Held, SaidOk, Flows, Cams, Conns, Slots, Keys, Frames
  <2>8. Settled => Accounted' /\ Doubt' /\ Prompt'
    BY <1>5, <1>2, BoundsAssumption
       DEF Inv, Base, Types, Safe, Fresh, Link, Course, Stored, Accounted, Doubt, Prompt, Forgotten, Linked,
           Holds, Unlinked, At, None, NoConn, Silence, Idle, Running, Resumable, Held, SaidOk, NoKeyLost, Owed,
           Replaces, Eights, Kept, Flows, Cams, Conns, Slots, Keys, Frames
  <2> QED
    BY <2>6, <2>7, <2>8 DEF Inv, Base, Safe
<1>6. CASE Unsent
  <2>1. cam' \in Cams
    BY <1>6, <1>2 DEF Inv, Base, Types, Unsent, At, Cams, Conns, Slots, Keys
  <2>2. conn' \in Conns
    BY <1>6, <1>2 DEF Inv, Base, Types, Unsent, At, Conns, Slots, Flows, Cams
  <2>3. toPhone' \in Seq(Frames)
    BY <1>6, <1>2 DEF Inv, Base, Types, Unsent, At, Frames, Codes
  <2>4. flow' \in Flows
    BY <1>6, <1>2 DEF Inv, Base, Types, Unsent, At, Flows, Points, Checks, Slots
  <2>5. heard' \in [commit: Codes \cup {"none"}, undone: BOOLEAN, expired: BOOLEAN]
    BY <1>6, <1>2 DEF Inv, Base, Types, Unsent, At, Codes, Frames
  <2>6. Types'
    BY <1>6, <1>2, <2>1, <2>2, <2>3, <2>4, <2>5
       DEF Inv, Base, Types, UndoSends, Unsent, radio, world, secure, camOnly
  <2>7. Fresh' /\ Link' /\ Course' /\ Stored'
    BY <1>6, <1>2, BoundsAssumption
       DEF Inv, Base, Types, Fresh, Link, Course, Stored, Unsent, At, None, Silence, Idle, Running, Resumable,
           Held, SaidOk, Flows, Cams, Conns, Slots, Keys, Frames
  <2>8. Settled => Accounted' /\ Doubt' /\ Prompt'
    BY <1>6, <1>2, BoundsAssumption
       DEF Inv, Base, Types, Safe, Fresh, Link, Course, Stored, Accounted, Doubt, Prompt, Unsent, At, None,
           Silence, Idle, Running, Resumable, Held, SaidOk, NoKeyLost, Owed, Replaces, Eights, Linked, Kept,
           Flows, Cams, Conns, Slots, Keys, Frames
  <2> QED
    BY <2>6, <2>7, <2>8 DEF Inv, Base, Safe
<1> QED
  BY <1>1, <1>3, <1>4, <1>5, <1>6

\* Its answer.
LEMMA UndoWaitsKeeps ==
  ASSUME Inv, UndoWaits
  PROVE  Inv'
<1>1. Types'
  BY DEF Inv, Base, Types, UndoWaits, At, Goes, Linked, radio, secure, world, Flows, Points, Checks, Slots,
         camOnly
<1>2. Fresh' /\ Link' /\ Course' /\ Stored'
  BY BoundsAssumption
     DEF Inv, Base, Types, Fresh, Link, Course, Stored, UndoWaits, At, Goes, Linked, radio, secure, world, None,
         Silence, Idle, Running, Resumable, Held, SaidOk, Flows, Cams, Conns, Slots, Keys, Frames
<1>3. Settled => Accounted' /\ Doubt' /\ Prompt'
  BY BoundsAssumption
     DEF Inv, Base, Types, Safe, Fresh, Link, Course, Stored, Accounted, Doubt, Prompt, UndoWaits, At, Goes,
         Linked, radio, secure, world, None, Silence, Idle, Running, Resumable, Held, SaidOk, NoKeyLost, Owed,
         Replaces, Eights, Kept, Flows, Cams, Conns, Slots, Keys, Frames
<1> QED
  BY <1>1, <1>2, <1>3 DEF Inv, Base, Safe

\* A key that may be stored becomes the orphan, or is given up where the keychain refuses it; any other
\* goes.
LEMMA UndoEndsKeeps ==
  ASSUME Inv, UndoEnds
  PROVE  Inv'
<1> DEFINE Good ==
     /\ keys' = [keys EXCEPT !.orphan = IF KeepsOrphan THEN flow.key ELSE @,
                             !.pend = IF flow.stage # "pre" \/ flow.key # None THEN None ELSE @]
     /\ ghost' = [ghost EXCEPT !.given = IF KeepsOrphan THEN @ \cup {keys.orphan} ELSE @]
<1> DEFINE Lost ==
     /\ KeepsOrphan /\ DeletesPending
     /\ ghost' = [ghost EXCEPT !.given = @ \cup {flow.key}]
<1>1. Good \/ Lost
  BY DEF UndoEnds
<1>2. /\ At("undoend") /\ Unlinked /\ flow' = [Idle EXCEPT !.res = flow.res]
     /\ UNCHANGED <<cam, near, heard, rec, refused, app, drive>>
     /\ left' \in 0 .. MaxTroubles
  BY BoundsAssumption DEF Inv, Base, Types, UndoEnds, world, Trouble
<1> HIDE DEF Good, Lost
<1>3. conn' \in Conns /\ toPhone' \in Seq(Frames) /\ flow' \in Flows
  <2>1. conn' \in Conns
    BY <1>2 DEF Unlinked, NoConn, Conns, Slots, None
  <2>2. toPhone' \in Seq(Frames)
    BY <1>2 DEF Unlinked
  <2>3. flow' \in Flows
    BY <1>2 DEF Inv, Base, Types, Idle, None, Flows, Points, Checks, Slots
  <2> QED
    BY <2>1, <2>2, <2>3
<1>4. CASE Good
  <2>1. keys' \in [auth: Slots, pend: Slots, orphan: Slots]
    BY <1>4, <1>2 DEF Inv, Base, Types, Good, DeletesPending, KeepsOrphan, None, Slots, Flows
  <2>2. ghost' \in [made: 0 .. MaxSetups, given: SUBSET Slots, auth: Slots, stored: SUBSET Keys]
    BY <1>4, <1>2 DEF Inv, Base, Types, Good, KeepsOrphan, Slots, Flows
  <2>3. Types'
    BY <1>2, <1>3, <2>1, <2>2 DEF Inv, Base, Types
  <2>4. Fresh' /\ Link' /\ Course' /\ Stored'
    BY <1>4, <1>2, BoundsAssumption
       DEF Inv, Base, Types, Fresh, Link, Course, Stored, Good, DeletesPending, At, Unlinked, KeepsOrphan, None, Idle,
           NoConn, Silence, Running, Resumable, Held, SaidOk, Flows, Cams, Conns, Slots, Keys, Frames
  <2>5. Settled => Accounted' /\ Doubt' /\ Prompt'
    BY <1>4, <1>2, BoundsAssumption
       DEF Inv, Base, Types, Safe, Fresh, Link, Course, Stored, Accounted, Doubt, Prompt, Good, DeletesPending, At,
           Unlinked, KeepsOrphan, None, Idle, NoConn, Silence, Running, Resumable, Held, SaidOk, NoKeyLost, Owed,
           Replaces, Eights, Linked, Kept, Flows, Cams, Conns, Slots, Keys, Frames
  <2> QED
    BY <2>3, <2>4, <2>5 DEF Inv, Base, Safe
<1>5. CASE Lost
  <2>1. keys' \in [auth: Slots, pend: Slots, orphan: Slots]
    BY <1>5, <1>2 DEF Inv, Base, Types, Lost, DeletesPending, KeepsOrphan, None, Slots, Flows
  <2>2. ghost' \in [made: 0 .. MaxSetups, given: SUBSET Slots, auth: Slots, stored: SUBSET Keys]
    BY <1>5, <1>2 DEF Inv, Base, Types, Lost, KeepsOrphan, Slots, Flows
  <2>3. Types'
    BY <1>2, <1>3, <2>1, <2>2 DEF Inv, Base, Types
  <2>4. Fresh' /\ Link' /\ Course' /\ Stored'
    BY <1>5, <1>2, BoundsAssumption
       DEF Inv, Base, Types, Fresh, Link, Course, Stored, Lost, DeletesPending, At, Unlinked, KeepsOrphan, None, Idle,
           NoConn, Silence, Running, Resumable, Held, SaidOk, Flows, Cams, Conns, Slots, Keys, Frames
  <2>5. Settled => Accounted' /\ Doubt' /\ Prompt'
    BY <1>5, <1>2, BoundsAssumption
       DEF Inv, Base, Types, Safe, Fresh, Link, Course, Stored, Accounted, Doubt, Prompt, Lost, DeletesPending, At,
           Unlinked, KeepsOrphan, None, Idle, NoConn, Silence, Running, Resumable, Held, SaidOk, NoKeyLost, Owed,
           Replaces, Eights, Linked, Kept, Flows, Cams, Conns, Slots, Keys, Frames
  <2> QED
    BY <2>3, <2>4, <2>5 DEF Inv, Base, Safe
<1> QED
  BY <1>1, <1>4, <1>5

-----------------------------------------------------------------------------
(* The driver and the app. *)

\* A setup begins: with two keys, once it is known which is good.
LEMMA StartsKeeps ==
  ASSUME Inv, Starts
  PROVE  Inv'
<1>1. flow' \in Flows
  BY DEF Inv, Base, Types, Starts, Running, Resumable, None, Idle, Silence, radio, secure, world, Flows, Points,
         Checks, Slots
<1>2. heard' \in [commit: Codes \cup {"none"}, undone: BOOLEAN, expired: BOOLEAN]
  BY DEF Inv, Base, Types, Starts, Running, Resumable, None, Idle, Silence, radio, secure, world, Codes, Frames
<1>3. ghost' \in [made: 0 .. MaxSetups, given: SUBSET Slots, auth: Slots, stored: SUBSET Keys]
  BY DEF Inv, Base, Types, Starts, Running, Resumable, None, Idle, Silence, radio, secure, world, Slots, Flows,
         Keys, Cams
<1>4. Types'
  BY <1>1, <1>2, <1>3 DEF Inv, Base, Types, Starts, radio, world, secure, camOnly
<1>5. Fresh' /\ Link' /\ Course' /\ Stored'
  BY BoundsAssumption
     DEF Inv, Base, Types, Fresh, Link, Course, Stored, Starts, Running, Resumable, None, Idle, Silence, radio,
         secure, world, Held, SaidOk, Flows, Cams, Conns, Slots, Keys, Frames
<1>6. Settled => Accounted' /\ Doubt' /\ Prompt'
  BY BoundsAssumption
     DEF Inv, Base, Types, Safe, Fresh, Link, Course, Stored, Accounted, Doubt, Prompt, Starts, Running,
         Resumable, None, Idle, Silence, radio, secure, world, Held, SaidOk, NoKeyLost, Owed, Replaces, Eights,
         Linked, Kept, Flows, Cams, Conns, Slots, Keys, Frames
<1> QED
  BY <1>4, <1>5, <1>6 DEF Inv, Base, Safe

\* Next, or a lost link.
LEMMA LeavesScreenKeeps ==
  ASSUME Inv, LeavesScreen
  PROVE  Inv'
<1>1. flow' \in Flows
  BY DEF Inv, Base, Types, LeavesScreen, On, Linked, radio, secure, world, At, Stopped, Flows, Points, Checks,
         Slots
<1>2. Types'
  BY <1>1 DEF Inv, Base, Types, LeavesScreen, radio, world, secure, camOnly
<1>3. Fresh' /\ Link' /\ Course' /\ Stored'
  BY BoundsAssumption
     DEF Inv, Base, Types, Fresh, Link, Course, Stored, LeavesScreen, On, Linked, radio, secure, world, At,
         Stopped, None, Silence, Idle, Running, Resumable, Held, SaidOk, Flows, Cams, Conns, Slots, Keys, Frames
<1>4. Settled => Accounted' /\ Doubt' /\ Prompt'
  BY BoundsAssumption
     DEF Inv, Base, Types, Safe, Fresh, Link, Course, Stored, Accounted, Doubt, Prompt, LeavesScreen, On,
         Linked, radio, secure, world, At, Stopped, None, Silence, Idle, Running, Resumable, Held, SaidOk,
         NoKeyLost, Owed, Replaces, Eights, Kept, Flows, Cams, Conns, Slots, Keys, Frames
<1> QED
  BY <1>2, <1>3, <1>4 DEF Inv, Base, Safe

\* Cancel.
LEMMA TapCancelKeeps ==
  ASSUME Inv, TapCancel
  PROVE  Inv'
<1> DEFINE Later ==
     /\ Finishing /\ flow' = [flow EXCEPT !.after = TRUE]
<1> DEFINE Now ==
     /\ Running /\ flow' = [flow EXCEPT !.cancel = TRUE]
<1> DEFINE AtRest ==
     /\ Resumable /\ Undoes("cancelled")
<1>1. Later \/ Now \/ AtRest
  BY DEF TapCancel, On, Reconnects, CamCommits, CamForgets, CamCancels, FailsKeeping
<1>2. /\ app
     /\ UNCHANGED <<cam, conn, near, toPhone, heard, keys, rec, refused, app, drive, left, ghost>>
  BY DEF TapCancel, On, radio, world, secure, camOnly, Reconnects, CamCommits, CamForgets, CamCancels, Trouble
<1> HIDE DEF Later, Now, AtRest
<1>3. CASE Later
  <2>1. Types'
    BY <1>3, <1>2
       DEF Inv, Base, Types, TapCancel, Later, Finishing, Flows, Points, Checks, Slots, radio, world, secure,
           camOnly
  <2>2. Fresh' /\ Link' /\ Course' /\ Stored'
    BY <1>3, <1>2, BoundsAssumption
       DEF Inv, Base, Types, Fresh, Link, Course, Stored, Later, Finishing, None, Silence, Idle, Running,
           Resumable, Held, SaidOk, Flows, Cams, Conns, Slots, Keys, Frames
  <2>3. Settled => Accounted' /\ Doubt' /\ Prompt'
    BY <1>3, <1>2, BoundsAssumption
       DEF Inv, Base, Types, Safe, Fresh, Link, Course, Stored, Accounted, Doubt, Prompt, Later, Finishing,
           None, Silence, Idle, Running, Resumable, Held, SaidOk, NoKeyLost, Owed, Replaces, Eights, Linked,
           Kept, Flows, Cams, Conns, Slots, Keys, Frames
  <2> QED
    BY <2>1, <2>2, <2>3 DEF Inv, Base, Safe
<1>4. CASE Now
  <2>1. Types'
    BY <1>4, <1>2
       DEF Inv, Base, Types, TapCancel, Now, Running, Flows, Points, Checks, Slots, radio, world, secure,
           camOnly
  <2>2. Fresh' /\ Link' /\ Course' /\ Stored'
    BY <1>4, <1>2, BoundsAssumption
       DEF Inv, Base, Types, Fresh, Link, Course, Stored, Now, Running, None, Silence, Idle, Resumable, Held,
           SaidOk, Flows, Cams, Conns, Slots, Keys, Frames
  <2>3. Settled => Accounted' /\ Doubt' /\ Prompt'
    BY <1>4, <1>2, BoundsAssumption
       DEF Inv, Base, Types, Safe, Fresh, Link, Course, Stored, Accounted, Doubt, Prompt, Now, Running, None,
           Silence, Idle, Resumable, Held, SaidOk, NoKeyLost, Owed, Replaces, Eights, Linked, Kept, Flows, Cams,
           Conns, Slots, Keys, Frames
  <2> QED
    BY <2>1, <2>2, <2>3 DEF Inv, Base, Safe
<1>5. CASE AtRest
  <2>1. Types'
    BY <1>5, <1>2
       DEF Inv, Base, Types, TapCancel, AtRest, Resumable, Undoes, Running, Flows, Points, Checks, Slots, radio,
           world, secure, camOnly
  <2>2. Fresh' /\ Link' /\ Course' /\ Stored'
    BY <1>5, <1>2, BoundsAssumption
       DEF Inv, Base, Types, Fresh, Link, Course, Stored, AtRest, Resumable, Undoes, Running, None, Silence,
           Idle, Held, SaidOk, Flows, Cams, Conns, Slots, Keys, Frames
  <2>3. Settled => Accounted' /\ Doubt' /\ Prompt'
    BY <1>5, <1>2, BoundsAssumption
       DEF Inv, Base, Types, Safe, Fresh, Link, Course, Stored, Accounted, Doubt, Prompt, AtRest, Resumable,
           Undoes, Running, None, Silence, Idle, Held, SaidOk, NoKeyLost, Owed, Replaces, Eights, Linked, Kept,
           Flows, Cams, Conns, Slots, Keys, Frames
  <2> QED
    BY <2>1, <2>2, <2>3 DEF Inv, Base, Safe
<1> QED
  BY <1>1, <1>3, <1>4, <1>5

\* Try again.
LEMMA TapRetryKeeps ==
  ASSUME Inv, TapRetry
  PROVE  Inv'
<1>1. flow' \in Flows
  BY DEF Inv, Base, Types, TapRetry, Resumable, NoConn, secure, world, Running, None, Flows, Points, Checks, Slots
<1>2. conn' \in Conns
  BY DEF Inv, Base, Types, TapRetry, Resumable, NoConn, secure, world, Running, None, Conns, Slots, Flows, Cams
<1>3. toPhone' \in Seq(Frames)
  BY DEF Inv, Base, Types, TapRetry, Resumable, NoConn, secure, world, Running, None, Frames, Codes
<1>4. Types'
  BY <1>1, <1>2, <1>3 DEF Inv, Base, Types, TapRetry, radio, world, secure, camOnly
<1>5. Fresh' /\ Link' /\ Course' /\ Stored'
  BY BoundsAssumption
     DEF Inv, Base, Types, Fresh, Link, Course, Stored, TapRetry, Resumable, NoConn, secure, world, Running,
         None, Silence, Idle, Held, SaidOk, Flows, Cams, Conns, Slots, Keys, Frames
<1>6. Settled => Accounted' /\ Doubt' /\ Prompt'
  BY BoundsAssumption
     DEF Inv, Base, Types, Safe, Fresh, Link, Course, Stored, Accounted, Doubt, Prompt, TapRetry, Resumable,
         NoConn, secure, world, Running, None, Silence, Idle, Held, SaidOk, NoKeyLost, Owed, Replaces, Eights,
         Linked, Kept, Flows, Cams, Conns, Slots, Keys, Frames
<1> QED
  BY <1>4, <1>5, <1>6 DEF Inv, Base, Safe

\* A drive opens or closes.
LEMMA DriveChangesKeeps ==
  ASSUME Inv, DriveChanges
  PROVE  Inv'
<1>1. Types'
  BY DEF Inv, Base, Types, DriveChanges, radio, secure, world, camOnly
<1>2. Fresh' /\ Link' /\ Course' /\ Stored'
  BY BoundsAssumption
     DEF Inv, Base, Types, Fresh, Link, Course, Stored, DriveChanges, radio, secure, None, Silence, Idle,
         Running, Resumable, Held, SaidOk, Flows, Cams, Conns, Slots, Keys, Frames
<1>3. Settled => Accounted' /\ Doubt' /\ Prompt'
  BY BoundsAssumption
     DEF Inv, Base, Types, Safe, Fresh, Link, Course, Stored, Accounted, Doubt, Prompt, DriveChanges, radio,
         secure, None, Silence, Idle, Running, Resumable, Held, SaidOk, NoKeyLost, Owed, Replaces, Eights,
         Linked, Kept, Flows, Cams, Conns, Slots, Keys, Frames
<1> QED
  BY <1>1, <1>2, <1>3 DEF Inv, Base, Safe

\* A drive that opens stops a failure kept.
LEMMA HeldDriveKeeps ==
  ASSUME Inv, HeldDrive
  PROVE  Inv'
<1>1. flow' \in Flows
  BY DEF Inv, Base, Types, HeldDrive, Resumable, Undoes, radio, secure, world, Running, Flows, Points, Checks,
         Slots
<1>2. Types'
  BY <1>1 DEF Inv, Base, Types, HeldDrive, radio, world, secure, camOnly
<1>3. Fresh' /\ Link' /\ Course' /\ Stored'
  BY BoundsAssumption
     DEF Inv, Base, Types, Fresh, Link, Course, Stored, HeldDrive, Resumable, Undoes, radio, secure, world,
         Running, None, Silence, Idle, Held, SaidOk, Flows, Cams, Conns, Slots, Keys, Frames
<1>4. Settled => Accounted' /\ Doubt' /\ Prompt'
  BY BoundsAssumption
     DEF Inv, Base, Types, Safe, Fresh, Link, Course, Stored, Accounted, Doubt, Prompt, HeldDrive, Resumable,
         Undoes, radio, secure, world, Running, None, Silence, Idle, Held, SaidOk, NoKeyLost, Owed, Replaces,
         Eights, Linked, Kept, Flows, Cams, Conns, Slots, Keys, Frames
<1> QED
  BY <1>2, <1>3, <1>4 DEF Inv, Base, Safe

\* Forget: the key is given up.
LEMMA ForgetsKeeps ==
  ASSUME Inv, Forgets
  PROVE  Inv'
<1>1. cam' \in Cams
  BY DEF Inv, Base, Types, Forgets, Running, Resumable, None, Idle, world, Cams, Conns, Slots, Keys
<1>2. keys' \in [auth: Slots, pend: Slots, orphan: Slots]
  BY DEF Inv, Base, Types, Forgets, Running, Resumable, None, Idle, world, Slots, Flows
<1>3. ghost' \in [made: 0 .. MaxSetups, given: SUBSET Slots, auth: Slots, stored: SUBSET Keys]
  BY DEF Inv, Base, Types, Forgets, Running, Resumable, None, Idle, world, Slots, Flows, Keys, Cams
<1>4. flow' \in Flows
  BY DEF Inv, Base, Types, Forgets, Running, Resumable, None, Idle, world, Flows, Points, Checks, Slots
<1>5. Types'
  BY <1>1, <1>2, <1>3, <1>4 DEF Inv, Base, Types, Forgets, radio, world, secure, camOnly
<1>6. Fresh' /\ Link' /\ Course' /\ Stored'
  BY BoundsAssumption
     DEF Inv, Base, Types, Fresh, Link, Course, Stored, Forgets, Running, Resumable, None, Idle, world, Silence,
         Held, SaidOk, Flows, Cams, Conns, Slots, Keys, Frames
<1>7. Settled => Accounted' /\ Doubt' /\ Prompt'
  BY BoundsAssumption
     DEF Inv, Base, Types, Safe, Fresh, Link, Course, Stored, Accounted, Doubt, Prompt, Forgets, Running,
         Resumable, None, Idle, world, Silence, Held, SaidOk, NoKeyLost, Owed, Replaces, Eights, Linked, Kept,
         Flows, Cams, Conns, Slots, Keys, Frames
<1> QED
  BY <1>5, <1>6, <1>7 DEF Inv, Base, Safe

\* The auto-connect learns which key is good.
LEMMA AutoConnectsKeeps ==
  ASSUME Inv, AutoConnects
  PROVE  Inv'
<1>1. Types'
  BY DEF Inv, Base, Types, AutoConnects, Running, Resumable, None, radio, world, secure, camOnly
<1>2. Fresh' /\ Link' /\ Course' /\ Stored'
  BY BoundsAssumption
     DEF Inv, Base, Types, Fresh, Link, Course, Stored, AutoConnects, Running, Resumable, None, radio, world,
         Silence, Idle, Held, SaidOk, Flows, Cams, Conns, Slots, Keys, Frames
<1>3. Settled => Accounted' /\ Doubt' /\ Prompt'
  BY BoundsAssumption
     DEF Inv, Base, Types, Safe, Fresh, Link, Course, Stored, Accounted, Doubt, Prompt, AutoConnects, Running,
         Resumable, None, radio, world, Silence, Idle, Held, SaidOk, NoKeyLost, Owed, Replaces, Eights, Linked,
         Kept, Flows, Cams, Conns, Slots, Keys, Frames
<1> QED
  BY <1>1, <1>2, <1>3 DEF Inv, Base, Safe

\* A death gives the pending key up.
LEMMA DiesKeeps ==
  ASSUME Inv, Dies
  PROVE  Inv'
<1>1. left' \in 0 .. MaxTroubles
  BY BoundsAssumption DEF Inv, Base, Types, Dies, Trouble
<1>2. conn' \in Conns
  BY <1>1
     DEF Inv, Base, Types, Dies, Trouble, Unlinked, Idle, Silence, secure, NoConn, None, Conns, Slots, Flows,
         Cams
<1>3. toPhone' \in Seq(Frames)
  BY <1>1 DEF Inv, Base, Types, Dies, Trouble, Unlinked, Idle, Silence, secure, NoConn, None, Frames, Codes
<1>4. flow' \in Flows
  BY <1>1
     DEF Inv, Base, Types, Dies, Trouble, Unlinked, Idle, Silence, secure, NoConn, None, Flows, Points, Checks,
         Slots
<1>5. heard' \in [commit: Codes \cup {"none"}, undone: BOOLEAN, expired: BOOLEAN]
  BY <1>1 DEF Inv, Base, Types, Dies, Trouble, Unlinked, Idle, Silence, secure, NoConn, None, Codes, Frames
<1>6. ghost' \in [made: 0 .. MaxSetups, given: SUBSET Slots, auth: Slots, stored: SUBSET Keys]
  BY <1>1
     DEF Inv, Base, Types, Dies, Trouble, Unlinked, Idle, Silence, secure, NoConn, None, Slots, Flows, Keys,
         Cams
<1>7. Types'
  BY <1>1, <1>2, <1>3, <1>4, <1>5, <1>6 DEF Inv, Base, Types, Dies, radio, world, secure, camOnly
<1>8. Fresh' /\ Link' /\ Course' /\ Stored'
  BY <1>1, BoundsAssumption
     DEF Inv, Base, Types, Fresh, Link, Course, Stored, Dies, Trouble, Unlinked, Idle, Silence, secure, NoConn,
         None, Running, Resumable, Held, SaidOk, Flows, Cams, Conns, Slots, Keys, Frames
<1>9. Settled => Accounted' /\ Doubt' /\ Prompt'
  BY <1>1, BoundsAssumption
     DEF Inv, Base, Types, Safe, Fresh, Link, Course, Stored, Accounted, Doubt, Prompt, Dies, Trouble, Unlinked,
         Idle, Silence, secure, NoConn, None, Running, Resumable, Held, SaidOk, NoKeyLost, Owed, Replaces,
         Eights, Linked, Kept, Flows, Cams, Conns, Slots, Keys, Frames
<1> QED
  BY <1>7, <1>8, <1>9 DEF Inv, Base, Safe

\* A launch deletes it.
LEMMA LaunchesKeeps ==
  ASSUME Inv, Launches
  PROVE  Inv'
<1>1. keys' \in [auth: Slots, pend: Slots, orphan: Slots]
  BY DEF Inv, Base, Types, Launches, None, radio, Slots, Flows
<1>2. Types'
  BY <1>1 DEF Inv, Base, Types, Launches, radio, world, secure, camOnly
<1>3. Fresh' /\ Link' /\ Course' /\ Stored'
  BY BoundsAssumption
     DEF Inv, Base, Types, Fresh, Link, Course, Stored, Launches, None, radio, Silence, Idle, Running,
         Resumable, Held, SaidOk, Flows, Cams, Conns, Slots, Keys, Frames
<1>4. Settled => Accounted' /\ Doubt' /\ Prompt'
  BY BoundsAssumption
     DEF Inv, Base, Types, Safe, Fresh, Link, Course, Stored, Accounted, Doubt, Prompt, Launches, None, radio,
         Silence, Idle, Running, Resumable, Held, SaidOk, NoKeyLost, Owed, Replaces, Eights, Linked, Kept,
         Flows, Cams, Conns, Slots, Keys, Frames
<1> QED
  BY <1>2, <1>3, <1>4 DEF Inv, Base, Safe

\* A new install sets one key aside and gives the others up.
LEMMA LaunchesAnewKeeps ==
  ASSUME Inv, LaunchesAnew
  PROVE  Inv'
<1>1. keys' \in [auth: Slots, pend: Slots, orphan: Slots]
  BY DEF Inv, Base, Types, LaunchesAnew, None, Kept, radio, Slots, Flows
<1>2. ghost' \in [made: 0 .. MaxSetups, given: SUBSET Slots, auth: Slots, stored: SUBSET Keys]
  BY DEF Inv, Base, Types, LaunchesAnew, None, Kept, radio, Slots, Flows, Keys, Cams
<1>3. Types'
  BY <1>1, <1>2 DEF Inv, Base, Types, LaunchesAnew, radio, world, secure, camOnly
<1>4. Fresh' /\ Link' /\ Course' /\ Stored'
  BY BoundsAssumption
     DEF Inv, Base, Types, Fresh, Link, Course, Stored, LaunchesAnew, None, Kept, radio, Silence, Idle, Running,
         Resumable, Held, SaidOk, Flows, Cams, Conns, Slots, Keys, Frames
<1>5. Settled => Accounted' /\ Doubt' /\ Prompt'
  BY BoundsAssumption
     DEF Inv, Base, Types, Safe, Fresh, Link, Course, Stored, Accounted, Doubt, Prompt, LaunchesAnew, None,
         Kept, radio, Silence, Idle, Running, Resumable, Held, SaidOk, NoKeyLost, Owed, Replaces, Eights,
         Linked, Flows, Cams, Conns, Slots, Keys, Frames
<1> QED
  BY <1>3, <1>4, <1>5 DEF Inv, Base, Safe

-----------------------------------------------------------------------------
(* The specification. *)

\* At first there are no keys.
LEMMA InitHolds ==
  ASSUME Init
  PROVE  Inv
<1>1. Types
  <2>1. cam \in Cams /\ conn \in Conns
    BY DEF Init, Cams, Conns, Slots, NoConn
  <2>2. flow \in Flows /\ toPhone \in Seq(Frames)
    BY DEF Init, Flows, Points, Slots, Idle
  <2>3. ghost \in [made: 0 .. MaxSetups, given: SUBSET Slots, auth: Slots, stored: SUBSET Keys]
    BY BoundsAssumption DEF Init, Slots
  <2>4. keys \in [auth: Slots, pend: Slots, orphan: Slots]
    BY DEF Init, Slots
  <2>5. heard \in [commit: Codes \cup {"none"}, undone: BOOLEAN, expired: BOOLEAN]
    BY DEF Init, Silence
  <2>6. near \in BOOLEAN /\ rec \in BOOLEAN /\ refused \in BOOLEAN /\ app \in BOOLEAN /\ drive \in BOOLEAN
    BY DEF Init
  <2>7. left \in 0 .. MaxTroubles
    BY BoundsAssumption DEF Init
  <2> QED
    BY <2>1, <2>2, <2>3, <2>4, <2>5, <2>6, <2>7 DEF Types
<1>2. Base
  BY <1>1, BoundsAssumption
     DEF Init, Base, Fresh, Link, Course, Stored, NoConn, Idle, Silence, Running, Resumable, Held, None
<1>3. Safe
  BY <1>1 DEF Init, Safe, Accounted, Doubt, Prompt, NoKeyLost, Owed, NoConn, Idle, Silence, None, Eights
<1> QED
  BY <1>2, <1>3 DEF Inv

\* Every step keeps the invariant.
LEMMA StepKeeps ==
  ASSUME Inv, [Next]_vars
  PROVE  Inv'
<1>1. CASE Dashcam
  BY <1>1, HoldLapsesKeeps, HoldExpiresKeeps, PressedKeeps, HangsUpKeeps, DropKeeps, GoesAwayKeeps, ComesBackKeeps
  DEF Dashcam
<1>2. CASE Pairing
  BY <1>2, ConnectsKeeps, ClaimsKeeps, SendsFinKeeps, ReadsVerdictKeeps, FirstSessionKeeps DEF Pairing
<1>3. CASE Holding
  BY <1>3, ReholdKeeps, GivesUpKeeps, ExpiresKeeps DEF Holding
<1>4. CASE Commit
  BY <1>4, FinishesKeeps, SendsCommitKeeps, AwaitsKeeps, AnsweredKeeps, FinalizesKeeps, RecordsKeeps DEF Commit
<1>5. CASE Undo
  BY <1>5, StopsKeeps, UndoReachesKeeps, UndoLinkedKeeps, UndoSendsKeeps, UndoWaitsKeeps, UndoEndsKeeps DEF Undo
<1>6. CASE Hears
  BY <1>6, HearsKeeps
<1>7. CASE Driver
  BY <1>7, StartsKeeps, LeavesScreenKeeps, TapCancelKeeps, TapRetryKeeps, DriveChangesKeeps, HeldDriveKeeps,
     ForgetsKeeps
  DEF Driver
<1>8. CASE App
  BY <1>8, AutoConnectsKeeps, DiesKeeps, LaunchesKeeps, LaunchesAnewKeeps DEF App
<1>9. CASE UNCHANGED vars
  <2>1. Base'
    BY <1>9 DEF vars, Inv, Base, Types, Fresh, Link, Course, Stored, Running, Resumable
  <2>2. Settled => Safe'
    BY <1>9 DEF vars, Inv, Safe, Accounted, Doubt, Prompt, NoKeyLost, Kept, Owed, Replaces, Eights, Linked
  <2> QED
    BY <2>1, <2>2 DEF Inv
<1> QED
  BY <1>1, <1>2, <1>3, <1>4, <1>5, <1>6, <1>7, <1>8, <1>9 DEF Next, Steps

\* The invariant holds of every state reached.
LEMMA AlwaysInv == Spec => []Inv
<1>1. Init => Inv
  BY InitHolds
<1>2. Inv /\ [Next]_vars => Inv'
  BY StepKeeps
<1> QED
  BY <1>1, <1>2, PTL DEF Spec

\* However often and however badly setups go, a setup past PAIR_FIN works with the key SecureStore holds
\* as pending, so that the launch after the app's death finds and deletes it (connectAndPair, deletePending).
THEOREM TypeCorrect == Spec => []TypeOK
<1>1. Inv => TypeOK
  BY DEF Inv, Base, TypeOK, Course
<1> QED
  BY <1>1, AlwaysInv, PTL

\* No record of this phone at the dashcam is without its key, but those `ghost.given` names (NoKeyLost lists
\* them; an orphan the keychain refuses is one): whatever cancels, drives, lost links, expired holds, full
\* stores and failed writes leave of any number of setups that follow one another, as long as one that
\* finds two keys begins once the auto-connect knows which is good.
THEOREM KeysKept ==
  ASSUME Settled
  PROVE  Spec => []NoKeyLost
<1>1. Inv => NoKeyLost
  BY DEF Inv, Safe, Accounted
<1> QED
  BY <1>1, AlwaysInv, PTL

\* The records owed are one at most: the pairing's, the setup's own, or the orphan's.
LEMMA OwedIsOne ==
  ASSUME Settled, Inv
  PROVE  \E k : Owed \subseteq {k}
<1>1. Accounted /\ Course /\ Types
  BY DEF Inv, Base, Safe
<1>2. 0 \notin cam.stored
  BY <1>1 DEF Types, Cams, Keys
<1>3. CASE keys.auth \in cam.stored
  BY <1>1, <1>2, <1>3 DEF Accounted, None
<1>4. CASE flow.key \in cam.stored
  BY <1>1, <1>4 DEF Accounted
<1>5. CASE keys.auth \notin cam.stored /\ flow.key \notin cam.stored
  <2>1. Owed \subseteq {keys.pend, keys.orphan}
    BY <1>1, <1>5 DEF Accounted, NoKeyLost, Kept, Owed
  <2>2. keys.pend \notin Owed
    BY <1>1, <1>2, <1>5 DEF Accounted, Course, Owed, None, Types
  <2> QED
    BY <2>1, <2>2
<1> QED
  BY <1>3, <1>4, <1>5

\* However often this phone is set up it takes one place at the dashcam: each commit replaces the record of
\* the key it proves (previousKey, and COMMAND 8's prev_id).  Only the records of keys let go, the ones
\* `ghost.given` names, stay beside it.
THEOREM TakesOnePlace ==
  ASSUME Settled
  PROVE  Spec => []OneRecord
<1>1. ASSUME Inv  PROVE  OneRecord
  <2>1. PICK k : Owed \subseteq {k}
    BY <1>1, OwedIsOne
  <2>2. CASE Owed = {}
    BY <2>2, FS_EmptySet DEF OneRecord, Owed
  <2>3. CASE Owed = {k}
    BY <2>3, FS_Singleton DEF OneRecord, Owed
  <2> QED
    BY <2>1, <2>2, <2>3
<1> QED
  BY <1>1, AlwaysInv, PTL

\* A flow says done only from the runtime's record of the pairing (finalize).
LEMMA DoneRecords ==
  ASSUME Inv, [Next]_vars, flow'.res = "done", flow.res # "done"
  PROVE  At("record") /\ rec' = TRUE /\ keys' = [keys EXCEPT !.orphan = None]
<1>1. flow \in Flows
  BY DEF Inv, Base, Types
<1>2. CASE Dashcam
  BY <1>2 DEF Dashcam, HoldLapses, HoldExpires, Pressed, HangsUp, Drop, GoesAway, ComesBack, camOnly
<1>3. CASE Pairing
  <2>1. CASE Connects
    BY <1>1, <2>1 DEF Connects, Goes, Undoes, Flows
  <2>2. CASE Claims
    BY <1>1, <2>2 DEF Claims, Reconnects, Flows
  <2>3. CASE SendsFin
    BY <1>1, <2>3 DEF SendsFin, Flows
  <2>4. CASE ReadsVerdict
    BY <1>1, <2>4 DEF ReadsVerdict, FailsForgetting, Flows
  <2>5. CASE FirstSession
    BY <1>1, <2>5 DEF FirstSession, Goes, Flows
  <2> QED
    BY <1>3, <2>1, <2>2, <2>3, <2>4, <2>5 DEF Pairing
<1>4. CASE Holding
  BY <1>1, <1>4 DEF Holding, Rehold, GivesUp, Expires, Goes, FailsForgetting, FailsKeeping, Flows
<1>5. CASE Commit
  <2>1. CASE Finishes \/ SendsCommit \/ Awaits
    BY <1>1, <2>1 DEF Finishes, SendsCommit, Awaits, Goes, Flows
  <2>2. CASE Answered
    BY <1>1, <2>2 DEF Answered, Goes, FailsKeeping, Flows
  <2>3. CASE Finalizes
    BY <1>1, <2>3 DEF Finalizes, FailsForgetting, Flows
  <2>4. CASE Records
    BY <1>1, <2>4 DEF Records, Undoes, Flows
  <2> QED
    BY <1>5, <2>1, <2>2, <2>3, <2>4 DEF Commit
<1>6. CASE Undo
  <2>1. CASE Stops \/ UndoReaches \/ UndoLinked
    BY <1>1, <2>1 DEF Stops, UndoReaches, UndoLinked, Undoes, Goes, Flows
  <2>2. CASE UndoSends \/ UndoWaits \/ UndoEnds
    BY <1>1, <2>2 DEF UndoSends, UndoWaits, UndoEnds, Goes, Idle, Flows
  <2> QED
    BY <1>6, <2>1, <2>2 DEF Undo
<1>7. CASE Hears
  BY <1>7 DEF Hears
<1>8. CASE Driver
  <2>1. CASE Starts \/ Forgets \/ DriveChanges
    BY <2>1 DEF Starts, Forgets, DriveChanges, Idle
  <2>2. CASE LeavesScreen \/ TapRetry \/ HeldDrive
    BY <1>1, <2>2 DEF LeavesScreen, TapRetry, HeldDrive, Undoes, Flows
  <2>3. CASE TapCancel
    BY <1>1, <2>3 DEF TapCancel, Undoes, Flows
  <2> QED
    BY <1>8, <2>1, <2>2, <2>3 DEF Driver
<1>9. CASE App
  BY <1>9 DEF App, AutoConnects, Dies, Launches, LaunchesAnew, Idle
<1>10. CASE UNCHANGED vars
  BY <1>10 DEF vars
<1> QED
  BY <1>2, <1>3, <1>4, <1>5, <1>6, <1>7, <1>8, <1>9, <1>10 DEF Next, Steps

\* Done means paired on both sides: the key just made is final on the phone, stored by the dashcam and
\* recorded, and none is pending (finalize).
THEOREM DoneIsPaired == Spec => DonePaired
<1>1. ASSUME Inv, [Next]_vars, flow'.res = "done", flow.res # "done"
      PROVE  keys'.auth \in cam.stored /\ keys'.auth = ghost.made /\ rec' /\ keys'.pend = None
  <2>1. At("record") /\ rec' = TRUE /\ keys' = [keys EXCEPT !.orphan = None]
    BY <1>1, DoneRecords
  <2>2. keys'.auth = keys.auth /\ keys'.pend = keys.pend
    BY <1>1, <2>1 DEF Inv, Base, Types
  <2> QED
    BY <1>1, <2>1, <2>2 DEF Inv, Base, Course, At, Running
<1> QED
  BY <1>1, AlwaysInv, PTL DEF Spec, DonePaired
=============================================================================
