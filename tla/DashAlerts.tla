---------------------------- MODULE DashAlerts ----------------------------
(***************************************************************************)
(* Who sounds an alert: the dashcam routes it to the phone and keeps its   *)
(* buzzer silent while the phone answers and plays; the buzzer takes over  *)
(* when the phone cannot, does not answer or is lost.  The phone side is   *)
(* alerts.ts (its table, its one item in the player), the ALERT part of    *)
(* link.ts and what the player (player.ts) does with an item; the dashcam  *)
(* is PROTOCOL.md's sections 4 and 5.                                      *)
(*                                                                         *)
(* Time is left out: a deadline, a guard or a repeat may come at any step, *)
(* so an answer and the deadline it is late for race in every way.         *)
(***************************************************************************)
EXTENDS Integers, Sequences, FiniteSets, SequencesExt

CONSTANTS
  MaxAlerts,    \* alert ids
  MaxTroubles,  \* disturbances in all ...
  Troubles      \* ... and the kinds of them: "deaf" (a call, headphones), "fails" (the player), "lost" (a write),
                \* "drop", "restart" (a sign-out), "hush" (nothing heard for seconds, on either side), "late"

ASSUME BoundsAssumption == MaxAlerts \in Nat /\ MaxTroubles \in Nat

VARIABLES
  cam,      \* the dashcam: its view of the link, the episode and its alert, the one-shot it holds
  radio,    \* whether the connection stands
  toPhone, toCam,
  ses,      \* the phone's session
  can,      \* whether the phone can play
  told,     \* what its last STATE said of that
  table,    \* the phone's alerts
  item,     \* the one item in the player
  left,     \* disturbances still to come
  ghost     \* history the properties speak of: the phone has sounded the one-shot; it was cut short by a
            \* lost link or a critical; word that the phone stopped was lost.  No action's guard reads it

vars == <<cam, radio, toPhone, toCam, ses, can, told, table, item, left, ghost>>
phone == <<ses, can, told, table, item>>

None == 0
Ids == 1 .. MaxAlerts
Air == 1                                      \* frames under way when the dashcam's sound next changes
Trouble(kind) == kind \in Troubles /\ left > 0 /\ left' = left - 1

NoEntry == [in |-> FALSE, cont |-> FALSE, crit |-> FALSE, playing |-> FALSE, confirmed |-> FALSE,
            owed |-> FALSE, due |-> FALSE, step |-> 0]
NoItem == [id |-> None, sounding |-> FALSE, on |-> FALSE, cut |-> FALSE, stopped |-> FALSE]
NoTable == [i \in Ids |-> NoEntry]

Init ==
  /\ cam = [link |-> "synced", can |-> TRUE, ep |-> "none", id |-> None, step |-> 0, gate |-> "none",
            shot |-> None, asked |-> FALSE, made |-> 0]
  /\ radio = TRUE /\ toPhone = <<>> /\ toCam = <<>>
  /\ ses = "on" /\ can = TRUE /\ told = TRUE
  /\ table = NoTable /\ item = NoItem
  /\ left = MaxTroubles
  /\ ghost = [heard |-> FALSE, missed |-> FALSE, excused |-> FALSE]

----------------------------------------------------------------------------
(* The dashcam.  gate: "ask" while the phone's answer is awaited, "phone" once confirmed (the buzzer
   is silent in both), "buzzer" from a fallback to the end of the episode.                          *)

Target == cam.link = "synced" /\ cam.can
Synced == cam.link = "synced"
Routed == cam.gate \in {"ask", "phone"}
Alert(id, cont, crit, route, step) == [t |-> "alert", id |-> id, cont |-> cont, crit |-> crit, route |-> route, step |-> step]
Stop(id) == [t |-> "stop", id |-> id]
Fallback(id) == [t |-> "fallback", id |-> id]
Tells(c, frames) == toPhone' = IF c.link = "synced" /\ radio THEN toPhone \o frames ELSE toPhone

\* The buzzer takes what is routed to the phone, and the one-shot it holds unanswered.
TakesOver(c) ==
  /\ cam' = [c EXCEPT !.gate = IF c.gate \in {"ask", "phone"} THEN "buzzer" ELSE @, !.shot = IF c.asked THEN None ELSE @, !.asked = FALSE]
  /\ Tells(c, (IF c.gate \in {"ask", "phone"} THEN <<Fallback(c.id)>> ELSE <<>>) \o (IF c.asked THEN <<Fallback(c.shot)>> ELSE <<>>))

camOnly == <<radio, toCam, phone>>

\* A sound starts, or its tier changes: the old alert ends and a new one starts.
CamAlerts ==
  /\ Len(toPhone) <= Air /\ cam.made < MaxAlerts /\ \E ep \in {"warn", "crit"} \ {cam.ep} :
     LET id == cam.made + 1
         route == IF Target /\ cam.gate # "buzzer" THEN 1 ELSE 0
     IN  /\ cam' = [cam EXCEPT !.made = id, !.ep = ep, !.id = id, !.step = 0, !.gate = IF route = 1 THEN "ask" ELSE "buzzer"]
         /\ Tells(cam, (IF cam.ep # "none" THEN <<Stop(cam.id)>> ELSE <<>>) \o <<Alert(id, TRUE, ep = "crit", route, 0)>>)
         /\ ghost' = [ghost EXCEPT !.excused = FALSE]
  /\ UNCHANGED <<camOnly, left>>

\* A level change keeps the id.
CamSteps ==
  /\ Len(toPhone) <= Air /\ cam.ep = "crit" /\ cam.step = 0
  /\ cam' = [cam EXCEPT !.step = 1]
  /\ Tells(cam, <<Alert(cam.id, TRUE, TRUE, IF Routed THEN 1 ELSE 0, 1)>>)
  /\ UNCHANGED <<camOnly, left, ghost>>

CamClears ==
  /\ Len(toPhone) <= Air /\ cam.ep # "none"
  /\ cam' = [cam EXCEPT !.ep = "none", !.id = None, !.gate = "none"]
  /\ Tells(cam, <<Stop(cam.id)>>)
  /\ UNCHANGED <<camOnly, left, ghost>>

\* An advisory chime, never during a critical: held for the phone, or on the buzzer at once.
CamChimes ==
  /\ Len(toPhone) <= Air /\ cam.made < MaxAlerts /\ cam.ep # "crit" /\ cam.shot = None
  /\ LET id == cam.made + 1 IN
     /\ cam' = [cam EXCEPT !.made = id, !.shot = IF Target THEN id ELSE None, !.asked = Target]
     /\ Tells(cam, <<Alert(id, FALSE, FALSE, IF Target THEN 1 ELSE 0, 0)>>)
     /\ ghost' = [ghost EXCEPT !.heard = FALSE, !.missed = FALSE]
  /\ UNCHANGED <<camOnly, left>>

\* The phone's answer, taken only for what is routed to it.
CamHearsAck(f) ==
  CASE f.id = cam.id /\ Routed /\ f.outcome = 1 -> cam' = [cam EXCEPT !.gate = "phone"] /\ UNCHANGED toPhone
    [] f.id = cam.id /\ Routed /\ f.outcome = 0 -> cam' = [cam EXCEPT !.gate = "buzzer"] /\ Tells(cam, <<Fallback(f.id)>>)
    [] f.id = cam.shot /\ f.outcome = 1 -> cam' = [cam EXCEPT !.asked = FALSE] /\ UNCHANGED toPhone
    [] f.id = cam.shot /\ f.outcome = 0 -> cam' = [cam EXCEPT !.shot = None, !.asked = FALSE] /\ Tells(cam, <<Fallback(f.id)>>)
    [] OTHER -> UNCHANGED <<cam, toPhone>>

\* A STATE without can_play ends the routing; a hello from the routed link too, and is answered.
CamHearsState(f) ==
  IF f.can THEN cam' = [cam EXCEPT !.can = TRUE] /\ UNCHANGED toPhone ELSE TakesOver([cam EXCEPT !.can = FALSE])
CamHearsHello ==
  LET over == cam.gate \in {"ask", "phone"} IN
  /\ cam' = [cam EXCEPT !.link = "synced", !.gate = IF over THEN "buzzer" ELSE @, !.shot = IF cam.asked THEN None ELSE @, !.asked = FALSE,
                        !.can = IF Synced THEN @ ELSE TRUE]
  /\ toPhone' = toPhone \o (IF over THEN <<Fallback(cam.id)>> ELSE <<>>) \o (IF cam.asked THEN <<Fallback(cam.shot)>> ELSE <<>>)
                        \o <<[t |-> "hello"]>>
                        \o (IF ~Synced /\ cam.ep # "none" THEN <<Alert(cam.id, TRUE, cam.ep = "crit", 0, cam.step)>> ELSE <<>>)

CamHears ==
  /\ toCam # <<>> /\ toCam' = Tail(toCam)
  /\ LET f == Head(toCam) IN
     CASE f.t = "ack" -> CamHearsAck(f)
       [] f.t = "state" -> CamHearsState(f)
       [] OTHER -> CamHearsHello
  /\ UNCHANGED <<radio, phone, left, ghost>>

\* 750 ms, 400 for a critical, without an answer.
Deadline ==
  /\ \/ cam.gate = "ask" /\ cam' = [cam EXCEPT !.gate = "buzzer"] /\ Tells(cam, <<Fallback(cam.id)>>)
     \/ cam.asked /\ cam' = [cam EXCEPT !.shot = None, !.asked = FALSE] /\ Tells(cam, <<Fallback(cam.shot)>>)
  /\ UNCHANGED <<camOnly, left, ghost>>

\* The quiet guard: a confirmed phone not heard for 3 s (1.5 s for a critical).
QuietGuard ==
  /\ cam.gate = "phone" /\ "hush" \in Troubles
  /\ cam' = [cam EXCEPT !.gate = "buzzer"] /\ Tells(cam, <<Fallback(cam.id)>>)
  /\ UNCHANGED <<camOnly, left, ghost>>

\* Three seconds after a confirm the one-shot is the phone's for good (played by then, if ever).
ShotOver ==
  /\ cam.shot # None /\ ~cam.asked /\ toCam = <<>> /\ item.id # cam.shot /\ ~table[cam.shot].in
  /\ cam' = [cam EXCEPT !.shot = None]
  /\ UNCHANGED <<camOnly, toPhone, left, ghost>>

----------------------------------------------------------------------------
(* The link.                                                               *)

Drop ==
  /\ radio /\ Trouble("drop")
  /\ radio' = FALSE /\ toPhone' = <<>> /\ toCam' = <<>>
  /\ ghost' = [ghost EXCEPT !.missed = TRUE]
  /\ UNCHANGED <<cam, phone>>

\* The dashcam finds the connection gone: the phone was lost.
CamNotices ==
  /\ ~radio /\ cam.link # "off"
  /\ TakesOver([cam EXCEPT !.link = "off"])
  /\ UNCHANGED <<radio, toCam, phone, left, ghost>>

Says(frames) == toCam' = toCam \o frames
\* ALERT_ACK, written once: a write that fails is not tried again.
Answers(acks) == \/ Says(acks) /\ UNCHANGED left
                 \/ acks # <<>> /\ Trouble("lost") /\ UNCHANGED toCam
Ack(id, outcome) == [t |-> "ack", id |-> id, outcome |-> outcome]

----------------------------------------------------------------------------
(* The phone's table and player.                                           *)

\* A first play before a repeat, then the higher tier.
Ready(t) == {i \in Ids : t[i].in /\ (t[i].owed \/ (t[i].playing /\ t[i].due))}
Best(t) ==
  LET first == {i \in Ready(t) : t[i].owed}
      pool == IF first # {} THEN first ELSE Ready(t)
      crits == {i \in pool : t[i].crit}
  IN  IF crits # {} THEN crits ELSE pool

\* The table becomes t and the item in the player x; with none in it, the best one due goes in.
Pump(t, x) ==
  IF x # NoItem \/ Ready(t) = {} THEN table' = t /\ item' = x
  ELSE \E i \in Best(t) :
         /\ table' = [t EXCEPT ![i].owed = FALSE, ![i].due = FALSE]
         /\ item' = [NoItem EXCEPT !.id = i, !.sounding = t[i].playing]

\* Every stop bumps the generation: what is queued is dropped unstarted; what is in the player stops
\* if it is the alert's own.
Cut(x, id) == IF x = NoItem THEN x ELSE [x EXCEPT !.cut = TRUE, !.stopped = @ \/ x.id = id]
CutAll(x) == IF x = NoItem THEN x ELSE [x EXCEPT !.cut = TRUE, !.stopped = TRUE]

\* Mutant: what was confirmed stays so once silent.
SilencedStillOwing(ids) == [i \in Ids |-> IF i \in ids THEN [table[i] EXCEPT !.playing = FALSE, !.due = FALSE] ELSE table[i]]

\* The phone stops sounding some alerts, which stay in the table; it owes an ACK(0) for those confirmed.
Silenced(ids) == [i \in Ids |-> IF i \in ids THEN [table[i] EXCEPT !.playing = FALSE, !.due = FALSE, !.confirmed = FALSE] ELSE table[i]]
Quieted(ids) == IF \E i \in ids : table[i].playing
                THEN [Cut(item, None) EXCEPT !.stopped = @ \/ (item.id \in ids /\ table[item.id].playing)] ELSE item

\* Mutant: the confirm is read once it has been cleared.
OwesAfter(ids) == SetToSeq({Ack(i, 0) : i \in {j \in ids : Silenced(ids)[j].confirmed}})

Owes(ids) == SetToSeq({Ack(i, 0) : i \in {j \in ids : table[j].confirmed}})

Playing == {i \in Ids : table[i].in /\ table[i].playing}

\* A new alert: late, without a clock offset or not playable, it is shown and vibrates; else it plays.
Judged(f, late) ==
  CASE f.route = 0 -> ~late /\ UNCHANGED <<toCam, left>>
    [] f.route = 1 /\ ses # "on" -> late /\ Answers(<<Ack(f.id, 0)>>)
    [] f.route = 1 /\ ses = "on" /\ late -> Trouble("late") /\ Says(<<Ack(f.id, 0)>>)
    [] OTHER -> Answers(<<Ack(f.id, IF can THEN 1 ELSE 0)>>)

OnAlertNew(f) ==
  \E late \in BOOLEAN :
    LET plays == f.route = 1 /\ ~late /\ can
        e == [NoEntry EXCEPT !.in = TRUE, !.cont = f.cont, !.crit = f.crit, !.playing = plays,
                             !.confirmed = plays, !.owed = TRUE, !.step = f.step]
    IN  /\ Judged(f, late)
        /\ Pump([table EXCEPT ![f.id] = e], IF plays /\ f.crit THEN CutAll(item) ELSE item)

\* The same alert again: a level change, with no new answer.
OnAlertAgain(f) ==
  /\ IF table[f.id].step = f.step THEN UNCHANGED <<table, item>>
     ELSE Pump([table EXCEPT ![f.id].step = f.step, ![f.id].owed = @ \/ ~table[f.id].playing], item)
  /\ UNCHANGED <<toCam, left>>

OnStop(f) ==
  LET e == table[f.id] IN
  /\ IF ~e.in THEN UNCHANGED <<table, item>>
     ELSE /\ table' = [table EXCEPT ![f.id] = NoEntry]
          /\ item' = IF e.playing \/ item.id = f.id THEN Cut(item, f.id) ELSE item
  /\ UNCHANGED <<toCam, left>>

\* Mutant: the answer is forgotten, and the sound goes on.
OnFallbackSounding(f) ==
  /\ IF ~table[f.id].in THEN UNCHANGED table ELSE table' = [table EXCEPT ![f.id].confirmed = FALSE]
  /\ UNCHANGED <<item, toCam, left>>

\* The dashcam took it over: the phone stops, and owes nothing.
OnFallback(f) ==
  /\ IF ~table[f.id].in THEN UNCHANGED <<table, item>>
     ELSE table' = Silenced({f.id}) /\ item' = Quieted({f.id})
  /\ UNCHANGED <<toCam, left>>

PhoneHears ==
  /\ toPhone # <<>> /\ toPhone' = Tail(toPhone)
  /\ LET f == Head(toPhone) IN
     /\ CASE f.t = "hello" -> UNCHANGED <<table, item, toCam, left>>
          [] f.t = "alert" /\ ~table[f.id].in -> OnAlertNew(f)
          [] f.t = "alert" /\ table[f.id].in -> OnAlertAgain(f)
          [] f.t = "stop" -> OnStop(f)
          [] OTHER -> OnFallback(f)
     /\ ses' = IF f.t = "hello" THEN "on" ELSE ses
     /\ ghost' = [ghost EXCEPT !.missed = @ \/ (f.t = "alert" /\ f.crit)]
  /\ UNCHANGED <<cam, radio, can, told>>

\* The table is cleared with the connection.
LinkDown ==
  /\ ~radio /\ ses # "off"
  /\ ses' = "off" /\ told' = TRUE /\ table' = NoTable /\ item' = CutAll(item)
  /\ UNCHANGED <<cam, radio, toPhone, toCam, can, left, ghost>>

\* A connection: COMMAND 7, answered with a HELLO.
LinkUp ==
  /\ ~radio /\ ses = "off" /\ cam.link = "off"
  /\ radio' = TRUE /\ ses' = "hello" /\ Says(<<[t |-> "ask"]>>) /\ cam' = [cam EXCEPT !.link = "up"]
  /\ UNCHANGED <<toPhone, can, told, table, item, left, ghost>>

\* A sign-out restarts the session; the table stands.
Restart ==
  /\ radio /\ ses = "on" /\ Trouble("restart")
  /\ ses' = "hello" /\ Says(<<[t |-> "ask"]>>)
  /\ UNCHANGED <<cam, radio, toPhone, can, told, table, item, ghost>>

\* Whether the phone can play changes: a call, headphones, the volume; 30 s after a failure.
CanChanges ==
  /\ IF can THEN Trouble("deaf") ELSE UNCHANGED left
  /\ can' = ~can
  /\ ghost' = [ghost EXCEPT !.excused = @ \/ (~can /\ told)]
  /\ UNCHANGED <<cam, radio, toPhone, toCam, ses, told, table, item>>

\* STATE, when its flags change; a lost one is followed by the next.
SendState ==
  /\ ses = "on" /\ radio /\ told # can
  /\ told' = can /\ Says(<<[t |-> "state", can |-> can]>>)
  /\ UNCHANGED <<cam, radio, toPhone, ses, can, table, item, left, ghost>>

TickSilences == ~can /\ Playing # {}
\* A tick: with the phone unable to play, what it sounds is silenced and the dashcam told.
Tick ==
  /\ \/ TickSilences
     \/ item = NoItem /\ Ready(table) # {}
  /\ IF TickSilences
     THEN /\ Pump(Silenced(Playing), Quieted(Playing))
          /\ IF radio THEN Answers(Owes(Playing)) ELSE UNCHANGED <<toCam, left>>
     ELSE Pump(table, item) /\ UNCHANGED <<toCam, left>>
  /\ UNCHANGED <<cam, radio, toPhone, ses, can, told, ghost>>

\* No frame for three seconds: continuous alerts stop, and the dashcam is told.
Stale ==
  /\ "hush" \in Troubles /\ ses # "off"
  /\ LET ids == {i \in Playing : table[i].cont} IN
     /\ ids # {}
     /\ table' = Silenced(ids) /\ item' = Quieted(ids)
     /\ IF radio THEN Answers(Owes(ids)) ELSE UNCHANGED <<toCam, left>>
     /\ ghost' = [ghost EXCEPT !.excused = @ \/ (cam.id \in ids /\ left' # left)]
  /\ UNCHANGED <<cam, radio, toPhone, ses, can, told>>

----------------------------------------------------------------------------
(* The item in the player, behind whatever the phone itself sounds.        *)

\* Read as its turn comes; a dropped item goes the way of one that was played.
Wanted == ~item.cut /\ table[item.id].in /\ (item.sounding => table[item.id].playing)
ItemStarts ==
  /\ item # NoItem /\ ~item.on /\ Wanted /\ ~item.stopped
  /\ item' = [item EXCEPT !.on = TRUE]
  /\ ghost' = [ghost EXCEPT !.heard = @ \/ (item.sounding /\ item.id = cam.shot)]
  /\ UNCHANGED <<cam, radio, toPhone, toCam, ses, can, told, table, left>>

\* Its sound fails: the phone cannot play for 30 s, and says so for this one.
ItemFails ==
  /\ item.on /\ item.sounding /\ ~item.stopped /\ Trouble("fails")
  /\ can' = FALSE
  /\ LET ids == {item.id} \cap Playing IN
     /\ table' = Silenced(ids) /\ item' = [Quieted(ids) EXCEPT !.stopped = TRUE]
     /\ IF radio /\ ses # "off" THEN Says(Owes(ids)) ELSE UNCHANGED toCam
  /\ UNCHANGED <<cam, radio, toPhone, ses, told, ghost>>

\* Mutant: a repeat is due only after a play that began (not after one dropped unstarted).
ItemEndsStarted ==
  /\ item # NoItem /\ (item.on \/ item.stopped \/ ~Wanted)
  /\ LET e == table[item.id]
         t == CASE e.in /\ e.playing /\ e.cont /\ item.on -> [table EXCEPT ![item.id].due = TRUE]
                [] e.in /\ ~e.cont /\ ~e.owed -> [table EXCEPT ![item.id] = NoEntry]
                [] OTHER -> table
     IN  Pump(t, NoItem)
  /\ UNCHANGED <<cam, radio, toPhone, toCam, ses, can, told, left, ghost>>

ItemEnds ==
  /\ item # NoItem /\ (item.on \/ item.stopped \/ ~Wanted)
  /\ LET e == table[item.id]
         t == CASE e.in /\ e.playing /\ e.cont -> [table EXCEPT ![item.id].due = TRUE]
                [] e.in /\ ~e.cont /\ ~e.owed -> [table EXCEPT ![item.id] = NoEntry]
                [] OTHER -> table
     IN  Pump(t, NoItem)
  /\ UNCHANGED <<cam, radio, toPhone, toCam, ses, can, told, left, ghost>>

----------------------------------------------------------------------------
Dashcam == CamAlerts \/ CamSteps \/ CamClears \/ CamChimes \/ ShotOver \/ QuietGuard
CamAnswers == CamHears \/ Deadline \/ CamNotices
Phone == PhoneHears \/ LinkDown \/ LinkUp \/ SendState \/ Tick
Player == ItemStarts \/ ItemEnds
Next == Dashcam \/ CamAnswers \/ Phone \/ Player \/ ItemFails \/ Stale \/ Drop \/ Restart \/ CanChanges
Spec == Init /\ [][Next]_vars

\* The player, the tick and the dashcam's own timers go on; frames get through or the link is found gone.
FairSpec ==
  /\ Spec
  /\ WF_vars(CamAnswers) /\ WF_vars(Phone) /\ WF_vars(Player)

----------------------------------------------------------------------------
(* Properties.                                                             *)

Sides == [link : {"off", "up", "synced"}, can : BOOLEAN, ep : {"none", "warn", "crit"}, id : Ids \cup {None}, step : {0, 1},
          gate : {"none", "ask", "phone", "buzzer"}, shot : Ids \cup {None}, asked : BOOLEAN, made : 0 .. MaxAlerts]
Entries == [in : BOOLEAN, cont : BOOLEAN, crit : BOOLEAN, playing : BOOLEAN, confirmed : BOOLEAN, owed : BOOLEAN,
            due : BOOLEAN, step : {0, 1}]
Items == [id : Ids \cup {None}, sounding : BOOLEAN, on : BOOLEAN, cut : BOOLEAN, stopped : BOOLEAN]
ToPhone == [t : {"alert"}, id : Ids, cont : BOOLEAN, crit : BOOLEAN, route : {0, 1}, step : {0, 1}]
             \cup [t : {"stop", "fallback"}, id : Ids] \cup [t : {"hello"}]
ToCam == [t : {"ack"}, id : Ids, outcome : {0, 1}] \cup [t : {"state"}, can : BOOLEAN] \cup [t : {"ask"}]

TypeOK ==
  /\ cam \in Sides /\ (cam.gate = "none") = (cam.ep = "none") /\ (cam.id = None) = (cam.ep = "none")
  /\ radio \in BOOLEAN /\ toPhone \in Seq(ToPhone) /\ toCam \in Seq(ToCam)
  /\ ses \in {"off", "hello", "on"} /\ can \in BOOLEAN /\ told \in BOOLEAN
  /\ table \in [Ids -> Entries] /\ \A i \in Ids : table[i].confirmed => table[i].playing
  /\ item \in Items /\ (item.id = None) = (item = NoItem)
  /\ left \in 0 .. MaxTroubles /\ ghost \in [heard : BOOLEAN, missed : BOOLEAN, excused : BOOLEAN]

Coming(t, id) == \E i \in DOMAIN toPhone : toPhone[i].t = t /\ toPhone[i].id = id
Going(t) == \E i \in DOMAIN toCam : toCam[i].t = t
Gone(id) == Coming("stop", id) \/ Coming("fallback", id) \/ ~radio

\* One voice: what the phone sounds the dashcam has left to it, or word that it has not is on its way,
\* or the link is gone and the phone has yet to notice.
OneVoice ==
  \A i \in Playing : (i = cam.id /\ Routed) \/ i = cam.shot \/ Gone(i)

\* Never silent: while the dashcam keeps its buzzer silent for a confirmed alert, the phone sounds it,
\* or what will open the buzzer is on its way.
NeverSilent ==
  cam.gate = "phone" /\ ~ghost.excused =>
    \/ cam.id \in Playing
    \/ \E i \in DOMAIN toCam : toCam[i].t = "ack" /\ toCam[i].id = cam.id /\ toCam[i].outcome = 0
    \/ ~radio \/ Going("ask") \/ ~can \/ ~told \/ \E i \in DOMAIN toCam : toCam[i].t = "state" /\ ~toCam[i].can

\* A chime the phone confirmed is heard: by the phone, or by the buzzer.
ChimeHeard ==
  (cam.shot # None /\ ~cam.asked /\ toCam = <<>> /\ radio /\ ~table[cam.shot].in /\ item.id # cam.shot) =>
    ghost.heard \/ ghost.missed

\* An alert is heard in the end, on one side or the other, if it does not end first.
Sounds == cam.gate = "buzzer" \/ (item.on /\ item.sounding /\ item.id = cam.id)
Heard == (cam.ep # "none") ~> (Sounds \/ cam.ep = "none" \/ ghost.excused)

=============================================================================
