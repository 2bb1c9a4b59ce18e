------------------------------- MODULE Outbox -------------------------------
(***************************************************************************)
(* The outbox: the sync_queue table of the phone's database and the one    *)
(* pass that drains it (src/src/data/db/queue.ts, and the settling half of *)
(* src/src/data/sync/runner.ts).                                           *)
(*                                                                         *)
(* Each action is one SQLite transaction.  The runner's pass is the holder *)
(* of claims; everything else (the driver's taps, a foreground, a sign-in, *)
(* a sign-out, archiving, the phone emptied for another driver) runs       *)
(* between its transactions.  The phone may be killed between any two of   *)
(* them, and its clock may be set back.  What an upload carries, whose it  *)
(* is and what the server answers are left to DriveSync; here an answer is *)
(* only how the attempt ends.                                              *)
(*                                                                         *)
(* Times are in one unit; Never is REFUSED_NEVER.                          *)
(***************************************************************************)
EXTENDS Integers, FiniteSets

CONSTANTS
  Keys,          \* idempotency keys
  Batch,         \* items claimed at once
  MaxAttempts,   \* MAX_ATTEMPTS
  FirstDelay,    \* FIRST_DELAY_S
  MaxDelay,      \* MAX_DELAY_S
  ReclaimAfter,  \* RECLAIM_AFTER_S
  ReopenAfter,   \* SERVER_REOPEN_AFTER_MS
  PurgeAfter,    \* PURGE_DONE_AFTER_MS
  Never,         \* REFUSED_NEVER
  ReleaseWaits,  \* how long a claim given back waits (runner.ts)
  RetryAfters,   \* the Retry-After values a server may answer with
  MaxTime,       \* bound on the clock
  MaxSetBacks,   \* bound on how often the clock is set back
  MaxWipes       \* bound on how often the phone is emptied

MaxAhead == 2 * MaxDelay

ASSUME SizesAssumption ==
  /\ Batch \in Nat \ {0}
  /\ MaxAttempts \in Nat \ {0}

ASSUME DelaysAssumption ==
  /\ {FirstDelay, MaxDelay, ReclaimAfter, ReopenAfter, PurgeAfter} \subseteq Nat
  /\ ReleaseWaits \subseteq 0..MaxDelay
  /\ RetryAfters \subseteq Nat
  /\ MaxTime \in Nat
  /\ MaxSetBacks \in Nat
  /\ MaxWipes \in Nat

\* No time the queue can write is the refusal mark.
ASSUME NeverAssumption == Never \in Nat /\ Never > MaxTime + MaxDelay

\* A fact of arithmetic the provers do not know: powers of two are numbers.
ASSUME PowerAssumption == \A n \in 0..MaxAttempts : 2^n \in Nat

VARIABLES
  now,        \* the phone's clock
  item,       \* the sync_queue table: a row per key
  held,       \* the keys the pass under way has claimed and not yet closed
  closing,    \* the second transaction of a settlement, still to run
  setBacks,   \* how often the clock was set back (bounds the model)
  peak,       \* history: the latest the clock has ever read
  wipes       \* history: how often the phone was emptied (bounds the model)

vars == <<now, item, held, closing, setBacks, peak, wipes>>

-----------------------------------------------------------------------------
(* Rows.                                                                   *)

NoClaim == -1
NoError == "none"
Network == "network"    \* TRANSPORT_FAILURE
Missing == "http_404"   \* FUNCTION_MISSING
Server  == "server"     \* any other code the server answered with
Errors  == {Network, Missing, Server}

Time == 0..MaxTime
Statuses == {"absent", "pending", "inflight", "done", "failed"}

Row == [status : Statuses, attempts : 0..MaxAttempts, next : Nat,
        claimed : Time \cup {NoClaim}, err : Errors \cup {NoError}, created : Time]

Absent == [status |-> "absent", attempts |-> 0, next |-> 0, claimed |-> NoClaim,
           err |-> NoError, created |-> 0]

\* The row waits until t.
Waiting(r, t) == [r EXCEPT !.status = "pending", !.claimed = NoClaim, !.next = t]

\* The row's next try is moved to t.
DueAt(r, t) == [r EXCEPT !.next = t]

Fresh(t) == Waiting([Absent EXCEPT !.created = t], t)

\* An item an earlier build failed for good over a missing function.
Parked == [[Absent EXCEPT !.attempts = 1, !.err = Missing]
             EXCEPT !.status = "failed", !.next = Never]

Refused(r) == r.status = "failed" /\ r.next = Never

RefusedForGood(r, e) ==
  [[r EXCEPT !.err = e, !.claimed = NoClaim] EXCEPT !.status = "failed", !.next = Never]

\* OWED: waiting, being sent, or out of retries without ever being refused.
Owed(r) == r.status \in {"pending", "inflight"} \/ (r.status = "failed" /\ r.next # Never)

\* Out of retries, never refused.
LadderEnd(r) == r.status = "failed" /\ r.next # Never

\* n attempts made, the last of which ended with e.
Tried(r, n, e) == [r EXCEPT !.attempts = n, !.err = e]

Rearmed(r, t) == Tried(Waiting(r, t), 0, NoError)

BackoffSeconds(n) ==
  IF FirstDelay * 2^n < MaxDelay THEN FirstDelay * 2^n ELSE MaxDelay

\* A claim nobody can still hold: too old, or stamped under a clock since set back.
Stale(r, t) ==
  r.status = "inflight" /\ (r.claimed = NoClaim \/ r.claimed <= t - ReclaimAfter \/ r.claimed > t)

Reclaimed(r, t) == IF Stale(r, t) THEN Waiting(r, t) ELSE r

Claimable(r, t) == r.status = "pending" /\ (r.next <= t \/ r.next > t + MaxAhead)

\* Mutant: the stamp is when the lease ends, not when it began.
ClaimedUntil(r, t) == [r EXCEPT !.status = "inflight", !.claimed = t + ReclaimAfter]

Claimed(r, t) == [r EXCEPT !.status = "inflight", !.claimed = t]

\* Mutant: gives up one attempt late.
FailedLate(r, e, t) ==
  LET tried == Tried(r, r.attempts + 1, e)
  IN IF r.attempts + 1 > MaxAttempts
     THEN [tried EXCEPT !.status = "failed", !.claimed = NoClaim]
     ELSE Waiting(tried, t + BackoffSeconds(r.attempts))

\* markAttempt of a failure: the ladder's next rung, or giving up where it stands.
Failed(r, e, t) ==
  LET tried == Tried(r, r.attempts + 1, e)
  IN IF r.attempts + 1 >= MaxAttempts
     THEN [tried EXCEPT !.status = "failed", !.claimed = NoClaim]
     ELSE Waiting(tried, t + BackoffSeconds(r.attempts))

\* What reopenRetryable puts back at t.
Reopenable(r, t) ==
  /\ r.status = "failed"
  /\ (r.attempts >= MaxAttempts /\ r.next # Never) \/ r.err = Missing
  /\ \/ r.err \in {Network, Missing}
     \/ r.next > t + MaxAhead
     \/ t - r.next >= ReopenAfter

Update(Which(_), To(_)) == item' = [k \in Keys |-> IF Which(item[k]) THEN To(item[k]) ELSE item[k]]

Set(k, r) == item' = [item EXCEPT ![k] = r]

-----------------------------------------------------------------------------
Idle == [op |-> "idle"]
Closing == {Idle} \cup [op : {"defer"}, key : Keys, at : Nat]
                  \cup [op : {"fail"}, key : Keys, err : Errors]

TypeOK ==
  /\ now \in Time
  /\ item \in [Keys -> Row]
  /\ held \in SUBSET Keys
  /\ closing \in Closing
  /\ setBacks \in 0..MaxSetBacks
  /\ peak \in Time
  /\ wipes \in 0..MaxWipes

Init ==
  /\ now = 0
  /\ item \in [Keys -> {Absent, Parked}]
  /\ held = {}
  /\ closing = Idle
  /\ setBacks = 0
  /\ peak = 0
  /\ wipes = 0

Phone == <<now, setBacks, peak, wipes>>
Others == <<held, closing, now, setBacks, peak, wipes>>

-----------------------------------------------------------------------------
(* The rest of the app, between the pass's transactions.                   *)

\* Mutant: arms any row that is there.
EnqueueAnyStatus(k) ==
  /\ \/ item[k].status = "absent" /\ Set(k, Fresh(now))
     \/ item[k].status # "absent" /\ Set(k, Rearmed(item[k], now))
  /\ UNCHANGED Others

\* INSERT OR IGNORE, then arm the row again if it had failed.
Enqueue(k) ==
  /\ \/ item[k].status = "absent" /\ Set(k, Fresh(now))
     \/ item[k].status = "failed" /\ Set(k, Rearmed(item[k], now))
  /\ UNCHANGED Others

ReopenRetryable ==
  LET Which(r) == Reopenable(r, now)
      To(r) == Rearmed(r, now)
  IN /\ \E k \in Keys : Which(item[k])
     /\ Update(Which, To)
     /\ UNCHANGED Others

MakeUntriedDue ==
  LET Which(r) == r.status = "pending" /\ r.attempts = 0 /\ r.next > now
      To(r) == DueAt(r, now)
  IN /\ \E k \in Keys : Which(item[k])
     /\ Update(Which, To)
     /\ UNCHANGED Others

MakeDue(k) ==
  /\ item[k].status = "pending" /\ item[k].attempts = 0 /\ item[k].next > now
  /\ Set(k, DueAt(item[k], now))
  /\ UNCHANGED Others

BringForward(k) ==
  /\ item[k].status = "pending" /\ item[k].next > now
  /\ Set(k, DueAt(item[k], now))
  /\ UNCHANGED Others

\* A sign-out's last chance: what waits is due, what ran out is armed again.
MakeOwedDue ==
  LET Waits(r) == r.status = "pending" /\ r.next > now
      RanOut(r) == r.status = "failed" /\ r.next # Never
      Which(r) == Waits(r) \/ RanOut(r)
      To(r) == IF Waits(r) THEN DueAt(r, now) ELSE Rearmed(r, now)
  IN /\ \E k \in Keys : Which(item[k])
     /\ Update(Which, To)
     /\ UNCHANGED Others

\* A launch: done items older than the cutoff go.
PurgeDone ==
  LET Which(r) == r.status = "done" /\ r.created < now - PurgeAfter
      To(r) == Absent
  IN /\ held = {} /\ closing = Idle
     /\ \E k \in Keys : Which(item[k])
     /\ Update(Which, To)
     /\ UNCHANGED Others

\* Mutant: deletes every failed row, those only out of retries too.
WipeFailed ==
  LET Which(r) == r.status \in {"done", "failed"}
      To(r) == Absent
  IN /\ \E k \in Keys : Which(item[k])
     /\ Update(Which, To)
     /\ UNCHANGED Others

\* The queue's part of a sign-out's wipe: settled rows go, what is owed stays.
WipeForSignOut ==
  LET Which(r) == r.status = "done" \/ Refused(r)
      To(r) == Absent
  IN /\ \E k \in Keys : Which(item[k])
     /\ Update(Which, To)
     /\ UNCHANGED Others

\* Archiving a drive drops its upload if that was refused for good.
ArchiveRefused(k) ==
  /\ Refused(item[k]) /\ item[k].err # Missing
  /\ Set(k, Absent)
  /\ UNCHANGED Others

-----------------------------------------------------------------------------
(* The pass.                                                               *)

\* nextDue: reclaim, then claim the first Batch by next_attempt_at.
NextDue ==
  LET fresh == [k \in Keys |-> Reclaimed(item[k], now)]
      due == {k \in Keys : Claimable(fresh[k], now)}
  IN /\ held = {} /\ closing = Idle
     /\ \E C \in SUBSET due :
          /\ Cardinality(C) = IF Cardinality(due) < Batch THEN Cardinality(due) ELSE Batch
          /\ \A c \in C, d \in due \ C : fresh[c].next <= fresh[d].next
          /\ held' = C
          /\ item' = [k \in Keys |-> IF k \in C THEN Claimed(fresh[k], now) ELSE fresh[k]]
     /\ UNCHANGED <<Phone, closing>>

\* Closing a claim: only one still inflight is closed.
Close(k) ==
  /\ k \in held /\ closing = Idle
  /\ held' = held \ {k}
  /\ UNCHANGED Phone

Succeed(k) ==
  /\ Close(k)
  /\ item[k].status = "inflight"
  /\ Set(k, [item[k] EXCEPT !.status = "done", !.err = NoError, !.claimed = NoClaim])
  /\ UNCHANGED closing

Fail(k, e) ==
  /\ Close(k)
  /\ item[k].status = "inflight"
  /\ Set(k, Failed(item[k], e, now))

Retry(k) ==
  /\ \E e \in Errors : Fail(k, e)
  /\ UNCHANGED closing

\* Mutant: the server's Retry-After as it comes.
RetryAfterUnheld(k) ==
  /\ Fail(k, Server)
  /\ \E s \in RetryAfters : closing' = [op |-> "defer", key |-> k, at |-> now + s]

\* A retryable answer with a Retry-After, held to the ladder's ceiling.
RetryAfter(k) ==
  /\ Fail(k, Server)
  /\ \E s \in RetryAfters :
       closing' = [op |-> "defer", key |-> k,
                   at |-> now + IF s < MaxDelay THEN s ELSE MaxDelay]

\* A terminal answer: the attempt is closed first, then the item is failed for good.
Refuse(k) ==
  /\ Fail(k, Server)
  /\ closing' = [op |-> "fail", key |-> k, err |-> Server]

Release(k) ==
  /\ Close(k)
  /\ item[k].status = "inflight"
  /\ \E w \in ReleaseWaits :
       Set(k, Waiting(item[k], now + w))
  /\ UNCHANGED closing

\* deferUntil: never in, whatever the row's status.
DeferUntil ==
  /\ closing.op = "defer"
  /\ LET k == closing.key
     IN IF item[k].next < closing.at
        THEN Set(k, DueAt(item[k], closing.at))
        ELSE UNCHANGED item
  /\ closing' = Idle
  /\ UNCHANGED <<Phone, held>>

MarkFailed ==
  /\ closing.op = "fail"
  /\ LET k == closing.key
     IN IF item[k].status \in {"pending", "failed"}
        THEN Set(k, RefusedForGood(item[k], closing.err))
        ELSE UNCHANGED item
  /\ closing' = Idle
  /\ UNCHANGED <<Phone, held>>

-----------------------------------------------------------------------------
(* The phone.                                                              *)

\* A transaction of the settlement throws (a busy database): the pass goes on without it.
SettleThrows ==
  /\ \/ closing # Idle /\ closing' = Idle /\ UNCHANGED held
     \/ closing = Idle /\ UNCHANGED closing /\ \E k \in held : held' = held \ {k}
  /\ UNCHANGED <<Phone, item>>

\* The process dies: its claims stay open.
Crash ==
  /\ held # {} \/ closing # Idle
  /\ held' = {}
  /\ closing' = Idle
  /\ UNCHANGED <<Phone, item>>

Tick ==
  /\ now < MaxTime
  /\ now' = now + 1
  /\ peak' = IF now' > peak THEN now' ELSE peak
  /\ UNCHANGED <<item, held, closing, setBacks, wipes>>

SetClockBack ==
  /\ setBacks < MaxSetBacks
  /\ \E t \in 0..(now - 1) : now' = t
  /\ setBacks' = setBacks + 1
  /\ UNCHANGED <<item, held, closing, peak, wipes>>

\* wipeDevice, for another driver or after an account's deletion: the table goes,
\* owed rows and those being sent too.  Row ids are never given again, so whatever
\* a pass still holds or has to close meets no row any more.
WipeDevice ==
  /\ wipes < MaxWipes
  /\ item' = [k \in Keys |-> Absent]
  /\ held' = {} /\ closing' = Idle
  /\ wipes' = wipes + 1
  /\ UNCHANGED <<now, setBacks, peak>>

App(k) == Enqueue(k) \/ MakeDue(k) \/ BringForward(k) \/ ArchiveRefused(k)

Settle(k) == Succeed(k) \/ Retry(k) \/ RetryAfter(k) \/ Refuse(k) \/ Release(k)

Next ==
  \/ \E k \in Keys : App(k) \/ Settle(k)
  \/ ReopenRetryable \/ MakeUntriedDue \/ MakeOwedDue \/ PurgeDone \/ WipeForSignOut
  \/ NextDue \/ DeferUntil \/ MarkFailed
  \/ SettleThrows \/ Crash \/ Tick \/ SetClockBack \/ WipeDevice

Spec == Init /\ [][Next]_vars

-----------------------------------------------------------------------------
(* Properties.                                                             *)

\* An item that is waiting or being sent still has a rung of the ladder left,
\* and one that gave up is either refused for good or out of rungs: there is no
\* third kind of failed item, which reopenRetryable would never put back though
\* owes() and owedCount() go on counting it.
LadderInv ==
  \A k \in Keys :
    /\ item[k].status \in {"pending", "inflight"} => item[k].attempts < MaxAttempts
    /\ item[k].status = "failed" => item[k].next = Never \/ item[k].attempts = MaxAttempts

\* A claim is only ever closed by the pass that holds it: whatever the app does
\* meanwhile, what the pass holds is still inflight when it comes to close it,
\* so no answer is dropped by markAttempt's own guard.
HeldIsInflight == \A k \in held : item[k].status = "inflight" /\ item[k].claimed # NoClaim

\* nextDue sends an item before its time only when it is more than MAX_AHEAD_MS
\* ahead, taking that for a clock set back.  It is never wrong about it: without
\* a clock that has read more than an hour later than now, no waiting item lies
\* that far ahead, Retry-After and all.
AheadOnlyAfterSetBack ==
  \A k \in Keys :
    item[k].status = "pending" /\ item[k].next > now + MaxAhead => peak > now + MaxDelay

\* queue.ts:39: "An item that ran out on server answers is reopened only this
\* long after it gave up": giving up does not leave it to be reopened at once.
NotReopenedAtOnce ==
  [][\A k \in Keys :
       LadderEnd(item[k])' /\ item'[k].err = Server /\ ~LadderEnd(item[k])
         => ~Reopenable(item[k], now)']_vars

\* The outbox keeps what it promises: work is owed until the server took it or
\* refused it for good, whatever the clock, a crash, a retry or a sign-out does in
\* between.  Only emptying the whole phone ends it otherwise, and that takes every
\* row (device.ts:9, "a different user takes everything").
Promise(r) ==
  IF r.status = "absent" \/ r.status = "done" THEN r.status
  ELSE IF Owed(r) THEN "owed"
  ELSE IF r.err = Missing THEN "parked" ELSE "refused"

D == INSTANCE Delivery WITH state <- [k \in Keys |-> Promise(item[k])], wipes <- wipes
KeepsItsPromise == D!Spec
=============================================================================
