---------------------------- MODULE OutboxProofs ----------------------------
(***************************************************************************)
(* What holds of the outbox for every number of items, every ladder and    *)
(* every bound on the clock: its types, its safety invariants, and that it *)
(* implements Delivery.                                                    *)
(*                                                                         *)
(* The argument is one inductive invariant, IInv.  What it says of the     *)
(* table is said row by row (Sound), so each SQL statement is one lemma    *)
(* about rows, and each action's case only says which rows it rewrites.    *)
(***************************************************************************)
EXTENDS Outbox, TLAPS

\* A row the table may hold when the clock has read p at the latest.
Sound(r, p) ==
  /\ r \in Row
  /\ r.status \in {"pending", "inflight"} => r.attempts < MaxAttempts
  /\ r.status = "failed" => r.next = Never \/ r.attempts = MaxAttempts
  /\ r.next <= p + MaxDelay \/ Refused(r)
  /\ r.status = "inflight" => r.claimed # NoClaim

\* An attempt being settled has been closed and its item is still owed.
ClosingInv ==
  closing # Idle =>
    /\ item[closing.key].status = "pending" \/ LadderEnd(item[closing.key])
    /\ closing.op = "defer" => closing.at <= peak + MaxDelay
    /\ closing.op = "fail" => closing.err # Missing

IInv ==
  /\ TypeOK
  /\ now <= peak
  /\ \A k \in Keys : Sound(item[k], peak)
  /\ \A k \in held : item[k].status = "inflight"
  /\ ClosingInv

-----------------------------------------------------------------------------
(* The row operators.                                                      *)

LEMMA BackoffBound ==
  ASSUME NEW n \in 0..MaxAttempts
  PROVE  BackoffSeconds(n) \in 0..MaxDelay
<1>1. 2^n \in Nat
  BY PowerAssumption
<1>2. FirstDelay * 2^n \in Nat
  <2> DEFINE p == 2^n
  <2>1. FirstDelay \in Nat /\ p \in Nat
    BY <1>1, DelaysAssumption
  <2> HIDE DEF p
  <2>2. FirstDelay * p \in Nat
    BY <2>1
  <2> QED
    BY <2>2 DEF p
<1> DEFINE q == FirstDelay * 2^n
<1>3. q \in Nat /\ MaxDelay \in Nat
  BY <1>2, DelaysAssumption
<1>4. BackoffSeconds(n) = IF q < MaxDelay THEN q ELSE MaxDelay
  BY DEF BackoffSeconds
<1> HIDE DEF q
<1> QED
  BY <1>3, <1>4

LEMMA WaitingRow ==
  ASSUME NEW r \in Row, NEW t \in Nat
  PROVE  /\ Waiting(r, t) \in Row
         /\ Waiting(r, t).status = "pending" /\ Waiting(r, t).next = t
         /\ Waiting(r, t).attempts = r.attempts /\ Waiting(r, t).err = r.err
BY DEF Waiting, Row, Statuses

\* Making a row wait for a time within the ladder keeps it sound.
LEMMA WaitingSound ==
  ASSUME NEW p \in Time, NEW r \in Row, r.attempts < MaxAttempts,
         NEW t \in Nat, t <= p + MaxDelay
  PROVE  Sound(Waiting(r, t), p)
BY WaitingRow DEF Sound

\* Counting an attempt (or none) and its error.
LEMMA TriedRow ==
  ASSUME NEW r \in Row, NEW n \in 0..MaxAttempts, NEW e \in Errors \cup {NoError}
  PROVE  /\ Tried(r, n, e) \in Row
         /\ Tried(r, n, e).attempts = n /\ Tried(r, n, e).err = e
         /\ Tried(r, n, e).status = r.status /\ Tried(r, n, e).next = r.next
<1> DEFINE a == [r EXCEPT !.attempts = n]
<1>1. /\ a \in Row /\ a.attempts = n
      /\ a.status = r.status /\ a.next = r.next
  BY DEF Row
<1>2. Tried(r, n, e) = [a EXCEPT !.err = e]
  BY DEF Tried
<1> HIDE DEF a
<1> QED
  BY <1>1, <1>2 DEF Row

LEMMA DueSound ==
  ASSUME NEW p \in Time, NEW r, Sound(r, p), r.status = "pending",
         NEW t \in Nat, t <= p + MaxDelay
  PROVE  Sound(DueAt(r, t), p) /\ DueAt(r, t).status = "pending"
BY DEF Sound, Row, Statuses, DueAt

LEMMA EndDueSound ==
  ASSUME NEW p \in Time, NEW r, Sound(r, p), LadderEnd(r),
         NEW t \in Nat, t <= p + MaxDelay
  PROVE  Sound(DueAt(r, t), p)
BY DEF Sound, Row, Statuses, DueAt, LadderEnd

LEMMA AbsentSound ==
  ASSUME NEW p \in Time
  PROVE  Sound(Absent, p)
BY SizesAssumption, DelaysAssumption
   DEF Sound, Absent, Row, Statuses, Time, NoClaim, NoError, Refused

LEMMA ParkedSound ==
  ASSUME NEW p \in Time
  PROVE  Sound(Parked, p)
<1> DEFINE a == [Absent EXCEPT !.attempts = 1, !.err = Missing]
<1>1. a \in Row
  <2>1. Absent \in Row
    BY SizesAssumption, DelaysAssumption DEF Absent, Row, Statuses, Time
  <2>2. 1 \in 0..MaxAttempts /\ Missing \in Errors
    BY SizesAssumption DEF Errors
  <2> QED
    BY <2>1, <2>2 DEF Row
<1>2. Parked = [a EXCEPT !.status = "failed", !.next = Never]
  BY DEF Parked
<1> HIDE DEF a
<1> QED
  BY <1>1, <1>2, NeverAssumption DEF Sound, Row, Statuses, Refused

LEMMA FreshSound ==
  ASSUME NEW p \in Time, NEW t \in Time, t <= p
  PROVE  Sound(Fresh(t), p) /\ Fresh(t).status = "pending"
<1> DEFINE a == [Absent EXCEPT !.created = t]
<1>1. a \in Row /\ a.attempts = 0
  BY SizesAssumption, DelaysAssumption
     DEF Absent, Row, Statuses, Time, Errors
<1>2. t \in Nat /\ t <= p + MaxDelay /\ 0 < MaxAttempts
  BY SizesAssumption, DelaysAssumption DEF Time
<1>3. Fresh(t) = Waiting(a, t)
  BY DEF Fresh
<1> HIDE DEF a
<1> QED
  BY <1>1, <1>2, <1>3, WaitingRow, WaitingSound

LEMMA RearmedSound ==
  ASSUME NEW p \in Time, NEW t \in Time, t <= p, NEW r \in Row
  PROVE  Sound(Rearmed(r, t), p) /\ Rearmed(r, t).status = "pending"
<1> DEFINE w == Waiting(r, t)
<1>1. t \in Nat /\ t <= p + MaxDelay /\ 0 \in 0..MaxAttempts /\ 0 < MaxAttempts
  BY SizesAssumption, DelaysAssumption DEF Time
<1>2. w \in Row /\ w.status = "pending" /\ w.next = t
  BY <1>1, WaitingRow
<1>3. Rearmed(r, t) = Tried(w, 0, NoError)
  BY DEF Rearmed
<1> HIDE DEF w
<1>4. /\ Rearmed(r, t) \in Row
      /\ Rearmed(r, t).status = "pending" /\ Rearmed(r, t).next = t
      /\ Rearmed(r, t).attempts = 0
  BY <1>1, <1>2, <1>3, TriedRow
<1> QED
  BY <1>1, <1>4 DEF Sound

\* A closed attempt leaves the item waiting on the next rung, or out of rungs.
LEMMA FailedSound ==
  ASSUME NEW p \in Time, NEW t \in Time, t <= p, NEW r, Sound(r, p),
         r.status = "inflight", NEW e \in Errors
  PROVE  /\ Sound(Failed(r, e, t), p)
         /\ Failed(r, e, t).status = "pending" \/ LadderEnd(Failed(r, e, t))
<1> DEFINE a == Tried(r, r.attempts + 1, e)
           b == BackoffSeconds(r.attempts)
<1>1. r \in Row /\ r.attempts < MaxAttempts /\ r.attempts \in 0..MaxAttempts
  BY DEF Sound, Row
<1>2. a \in Row /\ a.attempts = r.attempts + 1 /\ a.next = r.next
  <2>1. r.attempts + 1 \in 0..MaxAttempts
    BY <1>1, SizesAssumption
  <2> QED
    BY <1>1, <2>1, TriedRow
<1>3. b \in 0..MaxDelay
  BY <1>1, BackoffBound
<1>4. CASE r.attempts + 1 >= MaxAttempts
  <2>1. Failed(r, e, t) = [a EXCEPT !.status = "failed", !.claimed = NoClaim]
    BY <1>4 DEF Failed
  <2>2. r.next <= p + MaxDelay
    BY DEF Sound, Refused
  <2> HIDE DEF a, b
  <2>3. a.next # Never
    BY <1>1, <1>2, <2>2, NeverAssumption, DelaysAssumption DEF Row, Time
  <2>4. a.attempts = MaxAttempts
    BY <1>1, <1>2, <1>4, SizesAssumption DEF Row
  <2>5. Failed(r, e, t) \in Row
    BY <1>2, <2>1 DEF Row, Statuses
  <2>6. /\ Failed(r, e, t).status = "failed" /\ Failed(r, e, t).next = r.next
        /\ Failed(r, e, t).attempts = MaxAttempts
    BY <1>2, <2>1, <2>4 DEF Row
  <2> QED
    BY <1>2, <2>2, <2>3, <2>5, <2>6 DEF Sound, LadderEnd
<1>5. CASE ~(r.attempts + 1 >= MaxAttempts)
  <2>1. Failed(r, e, t) = Waiting(a, t + b)
    BY <1>5 DEF Failed
  <2> HIDE DEF a, b
  <2>2. t + b \in Nat /\ t + b <= p + MaxDelay
    BY <1>3, DelaysAssumption DEF Time
  <2>3. a.attempts < MaxAttempts
    BY <1>1, <1>2, <1>5, SizesAssumption
  <2> QED
    BY <1>2, <2>1, <2>2, <2>3, WaitingRow, WaitingSound
<1> QED
  BY <1>4, <1>5

LEMMA ReclaimedSound ==
  ASSUME NEW p \in Time, NEW t \in Time, t <= p, NEW r, Sound(r, p)
  PROVE  /\ Sound(Reclaimed(r, t), p)
         /\ ~Stale(r, t) => Reclaimed(r, t) = r
         /\ Stale(r, t) => r.status = "inflight" /\ Reclaimed(r, t).status = "pending"
<1>1. t \in Nat /\ t <= p + MaxDelay /\ r \in Row
  BY DelaysAssumption DEF Time, Sound
<1>2. CASE Stale(r, t)
  <2>1. r.status = "inflight" /\ r.attempts < MaxAttempts
    BY <1>2 DEF Stale, Sound
  <2> QED
    BY <1>1, <1>2, <2>1, WaitingRow, WaitingSound DEF Reclaimed
<1>3. CASE ~Stale(r, t)
  BY <1>3 DEF Reclaimed
<1> QED
  BY <1>2, <1>3

LEMMA ClaimedSound ==
  ASSUME NEW p \in Time, NEW t \in Time, NEW r, Sound(r, p), r.status = "pending"
  PROVE  Sound(Claimed(r, t), p) /\ Claimed(r, t).status = "inflight"
<1>1. r \in Row /\ r.attempts < MaxAttempts /\ r.next <= p + MaxDelay
  BY DEF Sound, Refused
<1>2. Claimed(r, t) \in Row
  BY <1>1 DEF Claimed, Row, Statuses
<1>3. /\ Claimed(r, t).status = "inflight" /\ Claimed(r, t).claimed = t
      /\ Claimed(r, t).next = r.next /\ Claimed(r, t).attempts = r.attempts
  BY <1>1 DEF Claimed, Row
<1>4. t # NoClaim
  BY DelaysAssumption DEF Time, NoClaim
<1> QED
  BY <1>1, <1>2, <1>3, <1>4 DEF Sound

LEMMA RefusedSound ==
  ASSUME NEW p \in Time, NEW r, Sound(r, p), NEW e \in Errors
  PROVE  /\ Sound(RefusedForGood(r, e), p) /\ Refused(RefusedForGood(r, e))
         /\ RefusedForGood(r, e).err = e
<1> DEFINE a == [r EXCEPT !.err = e, !.claimed = NoClaim]
<1>1. a \in Row /\ a.err = e
  BY DEF Sound, Row
<1>2. RefusedForGood(r, e) = [a EXCEPT !.status = "failed", !.next = Never]
  BY DEF RefusedForGood
<1> HIDE DEF a
<1> QED
  BY <1>1, <1>2, NeverAssumption DEF Sound, Refused, Row, Statuses

-----------------------------------------------------------------------------
(* The table.                                                              *)

LEMMA ClosingKey ==
  ASSUME TypeOK, closing # Idle
  PROVE  closing.key \in Keys /\ closing.op \in {"defer", "fail"}
BY DEF TypeOK, Closing, Idle

\* Owed and not being sent: what the app may re-arm, and what a settlement half
\* done still works on.
Rests(r) == r.status = "pending" \/ LadderEnd(r)

\* A transaction of the rest of the app: it keeps every row sound, touches none
\* that is being sent, and settles none that is owed.
LEMMA AppStep ==
  ASSUME IInv, UNCHANGED Others,
         item' = [k \in Keys |-> item'[k]],
         \A k \in Keys : Sound(item'[k], peak),
         \A k \in Keys : item[k].status = "inflight" => item'[k] = item[k],
         \A k \in Keys : Rests(item[k]) => Rests(item'[k])
  PROVE  IInv'
<1>1. item' \in [Keys -> Row]
  BY DEF Sound
<1>2. TypeOK'
  BY <1>1 DEF IInv, TypeOK, Others
<1>3. (\A k \in held : item[k].status = "inflight")'
  BY DEF IInv, TypeOK, Others
<1>4. ClosingInv'
  BY ClosingKey DEF IInv, ClosingInv, Others, Rests
<1> QED
  BY <1>2, <1>3, <1>4 DEF IInv, Others

LEMMA NowSound == ASSUME IInv
  PROVE  /\ now \in Time /\ peak \in Time /\ now <= peak
         /\ now \in Nat /\ now <= peak + MaxDelay
         /\ \A k \in Keys : item[k] \in Row /\ Sound(item[k], peak)
BY DelaysAssumption DEF IInv, TypeOK, Time

LEMMA EnqueueStep ==
  ASSUME IInv, NEW k \in Keys, Enqueue(k)
  PROVE  IInv'
<1>1. PICK r : /\ Set(k, r) /\ Sound(r, peak) /\ r.status = "pending"
               /\ item[k].status \in {"absent", "failed"}
  BY NowSound, FreshSound, RearmedSound DEF Enqueue
<1>2. \A j \in Keys : item'[j] = IF j = k THEN r ELSE item[j]
  BY <1>1 DEF Set, IInv, TypeOK
<1>3. item' = [j \in Keys |-> item'[j]]
  BY <1>1 DEF Set, IInv, TypeOK
<1> QED
  BY <1>1, <1>2, <1>3, NowSound, AppStep DEF Enqueue, Rests

LEMMA MakeDueStep ==
  ASSUME IInv, NEW k \in Keys, MakeDue(k) \/ BringForward(k)
  PROVE  IInv'
<1> DEFINE r == DueAt(item[k], now)
<1>1. item[k].status = "pending" /\ Set(k, r) /\ UNCHANGED Others
  BY DEF MakeDue, BringForward
<1>2. Sound(r, peak) /\ r.status = "pending"
  BY <1>1, NowSound, DueSound
<1> HIDE DEF r
<1>3. \A j \in Keys : item'[j] = IF j = k THEN r ELSE item[j]
  BY <1>1 DEF Set, IInv, TypeOK
<1>4. item' = [j \in Keys |-> item'[j]]
  BY <1>1 DEF Set, IInv, TypeOK
<1> QED
  BY <1>1, <1>2, <1>3, <1>4, NowSound, AppStep DEF Rests

LEMMA ArchiveStep ==
  ASSUME IInv, NEW k \in Keys, ArchiveRefused(k)
  PROVE  IInv'
<1>1. Refused(item[k]) /\ Set(k, Absent) /\ UNCHANGED Others
  BY DEF ArchiveRefused
<1>2. \A j \in Keys : item'[j] = IF j = k THEN Absent ELSE item[j]
  BY <1>1 DEF Set, IInv, TypeOK
<1>3. item' = [j \in Keys |-> item'[j]]
  BY <1>1 DEF Set, IInv, TypeOK
<1> QED
  BY <1>1, <1>2, <1>3, NowSound, AbsentSound, AppStep DEF Rests, Refused, LadderEnd

LEMMA ReopenStep ==
  ASSUME IInv, ReopenRetryable
  PROVE  IInv'
<1>1. item' = [k \in Keys |-> IF Reopenable(item[k], now) THEN Rearmed(item[k], now) ELSE item[k]]
  BY DEF ReopenRetryable, Update
<1>2. \A k \in Keys : item'[k] = IF Reopenable(item[k], now) THEN Rearmed(item[k], now) ELSE item[k]
  BY <1>1
<1>3. item' = [k \in Keys |-> item'[k]] /\ UNCHANGED Others
  BY <1>1 DEF ReopenRetryable
<1>4. \A k \in Keys : Reopenable(item[k], now) => item[k].status = "failed"
  BY DEF Reopenable
<1> QED
  BY <1>2, <1>3, <1>4, NowSound, RearmedSound, AppStep DEF Rests

LEMMA MakeUntriedDueStep ==
  ASSUME IInv, MakeUntriedDue
  PROVE  IInv'
<1> DEFINE Which(r) == r.status = "pending" /\ r.attempts = 0 /\ r.next > now
<1>1. item' = [k \in Keys |-> IF Which(item[k]) THEN DueAt(item[k], now) ELSE item[k]]
  BY DEF MakeUntriedDue, Update
<1>2. \A k \in Keys : item'[k] = IF Which(item[k]) THEN DueAt(item[k], now) ELSE item[k]
  BY <1>1
<1>3. item' = [k \in Keys |-> item'[k]] /\ UNCHANGED Others
  BY <1>1 DEF MakeUntriedDue
<1> QED
  BY <1>2, <1>3, NowSound, DueSound, AppStep DEF Rests

LEMMA MakeOwedDueStep ==
  ASSUME IInv, MakeOwedDue
  PROVE  IInv'
<1> DEFINE Waits(r) == r.status = "pending" /\ r.next > now
           To(r) == IF Waits(r) THEN DueAt(r, now) ELSE Rearmed(r, now)
           RanOut(r) == r.status = "failed" /\ r.next # Never
           Which(r) == Waits(r) \/ RanOut(r)
<1>1. item' = [k \in Keys |-> IF Which(item[k]) THEN To(item[k]) ELSE item[k]]
  BY DEF MakeOwedDue, Update
<1>2. \A k \in Keys : item'[k] = IF Which(item[k]) THEN To(item[k]) ELSE item[k]
  BY <1>1
<1>3. item' = [k \in Keys |-> item'[k]] /\ UNCHANGED Others
  BY <1>1 DEF MakeOwedDue
<1>4. \A k \in Keys : Which(item[k]) =>
        Sound(To(item[k]), peak) /\ To(item[k]).status = "pending" /\ item[k].status # "inflight"
  BY NowSound, DueSound, RearmedSound
<1> HIDE DEF Which, To
<1> QED
  BY <1>2, <1>3, <1>4, NowSound, AppStep DEF Rests

LEMMA PurgeStep ==
  ASSUME IInv, PurgeDone
  PROVE  IInv'
<1> DEFINE Which(r) == r.status = "done" /\ r.created < now - PurgeAfter
<1>1. item' = [k \in Keys |-> IF Which(item[k]) THEN Absent ELSE item[k]]
  BY DEF PurgeDone, Update
<1>2. \A k \in Keys : item'[k] = IF Which(item[k]) THEN Absent ELSE item[k]
  BY <1>1
<1>3. item' = [k \in Keys |-> item'[k]] /\ UNCHANGED Others
  BY <1>1 DEF PurgeDone
<1> QED
  BY <1>2, <1>3, NowSound, AbsentSound, AppStep DEF Rests, LadderEnd

LEMMA WipeStep ==
  ASSUME IInv, WipeForSignOut
  PROVE  IInv'
<1> DEFINE Which(r) == r.status = "done" \/ Refused(r)
<1>1. item' = [k \in Keys |-> IF Which(item[k]) THEN Absent ELSE item[k]]
  BY DEF WipeForSignOut, Update
<1>2. \A k \in Keys : item'[k] = IF Which(item[k]) THEN Absent ELSE item[k]
  BY <1>1
<1>3. item' = [k \in Keys |-> item'[k]] /\ UNCHANGED Others
  BY <1>1 DEF WipeForSignOut
<1> QED
  BY <1>2, <1>3, NowSound, AbsentSound, AppStep DEF Rests, LadderEnd, Refused

-----------------------------------------------------------------------------
(* The pass.                                                               *)

LEMMA NextDueStep ==
  ASSUME IInv, NextDue
  PROVE  IInv'
<1> DEFINE fresh == [k \in Keys |-> Reclaimed(item[k], now)]
           due == {k \in Keys : Claimable(fresh[k], now)}
<1>1. PICK C \in SUBSET due :
        /\ held' = C
        /\ item' = [k \in Keys |-> IF k \in C THEN Claimed(fresh[k], now) ELSE fresh[k]]
  BY DEF NextDue
<1>2. closing = Idle /\ closing' = Idle /\ UNCHANGED Phone
  BY DEF NextDue
<1>3. \A k \in Keys : Sound(fresh[k], peak)
  BY NowSound, ReclaimedSound
<1>4. \A k \in C : k \in Keys /\ fresh[k].status = "pending"
  BY DEF Claimable
<1> HIDE DEF fresh, due
<1>5. \A k \in Keys : item'[k] = IF k \in C THEN Claimed(fresh[k], now) ELSE fresh[k]
  BY <1>1
<1>6. \A k \in Keys : Sound(item'[k], peak)
  BY <1>3, <1>4, <1>5, NowSound, ClaimedSound
<1>7. \A k \in C : item'[k].status = "inflight"
  BY <1>3, <1>4, <1>5, NowSound, ClaimedSound
<1>8. item' \in [Keys -> Row] /\ held' \in SUBSET Keys
  BY <1>1, <1>4, <1>6 DEF Sound
<1> QED
  BY <1>1, <1>2, <1>6, <1>7, <1>8 DEF IInv, TypeOK, ClosingInv, Phone, Closing

\* Closing the claim of k: only its row moves.
LEMMA CloseStep ==
  ASSUME IInv, NEW k \in Keys, Close(k), NEW r, Set(k, r), Sound(r, peak),
         closing' \in Closing,
         closing' # Idle => /\ closing'.key = k /\ Rests(r)
                            /\ closing'.op = "defer" => closing'.at <= peak + MaxDelay
                            /\ closing'.op = "fail" => closing'.err # Missing
  PROVE  IInv'
<1>1. \A j \in Keys : item'[j] = IF j = k THEN r ELSE item[j]
  BY DEF Set, IInv, TypeOK
<1>2. item' \in [Keys -> Row]
  BY DEF Set, IInv, TypeOK, Sound
<1>3. TypeOK' /\ (now <= peak)'
  BY <1>2 DEF Close, Phone, IInv, TypeOK
<1>4. (\A j \in Keys : Sound(item[j], peak))'
  BY <1>1, NowSound DEF Close, Phone
<1>5. (\A j \in held : item[j].status = "inflight")'
  BY <1>1 DEF Close, IInv, TypeOK
<1>6. ClosingInv'
  BY <1>1 DEF ClosingInv, Rests, Close, Phone
<1> QED
  BY <1>3, <1>4, <1>5, <1>6 DEF IInv

LEMMA HeldSound ==
  ASSUME IInv, NEW k \in held
  PROVE  k \in Keys /\ item[k].status = "inflight" /\ item[k].attempts < MaxAttempts
BY NowSound DEF IInv, TypeOK, Sound

LEMMA SucceedStep ==
  ASSUME IInv, NEW k \in Keys, Succeed(k)
  PROVE  IInv'
<1> DEFINE r == [item[k] EXCEPT !.status = "done", !.err = NoError, !.claimed = NoClaim]
<1>1. Close(k) /\ Set(k, r) /\ closing' = Idle /\ item[k].status = "inflight"
  BY DEF Succeed, Close
<1>2. item[k] \in Row /\ item[k].next <= peak + MaxDelay
  BY <1>1, NowSound DEF Sound, Refused
<1>3. r \in Row
  BY <1>2 DEF Row, Statuses
<1>4. r.status = "done" /\ r.next = item[k].next
  BY <1>2 DEF Row
<1> HIDE DEF r
<1>5. Sound(r, peak)
  BY <1>2, <1>3, <1>4 DEF Sound
<1> QED
  BY <1>1, <1>5, CloseStep DEF Closing

\* Every way an attempt fails: the row's part.
LEMMA FailRow ==
  ASSUME IInv, NEW k \in Keys, NEW e \in Errors, Fail(k, e)
  PROVE  /\ Close(k) /\ Set(k, Failed(item[k], e, now))
         /\ Sound(Failed(item[k], e, now), peak)
         /\ Rests(Failed(item[k], e, now))
BY NowSound, FailedSound DEF Fail, Rests

LEMMA RetryStep ==
  ASSUME IInv, NEW k \in Keys, Retry(k)
  PROVE  IInv'
<1>1. PICK e \in Errors : Fail(k, e)
  BY DEF Retry
<1>2. closing' = Idle
  BY <1>1 DEF Retry, Fail, Close
<1> QED
  BY <1>1, <1>2, FailRow, CloseStep DEF Closing

LEMMA RetryAfterStep ==
  ASSUME IInv, NEW k \in Keys, RetryAfter(k)
  PROVE  IInv'
<1>1. PICK s \in RetryAfters :
        closing' = [op |-> "defer", key |-> k, at |-> now + IF s < MaxDelay THEN s ELSE MaxDelay]
  BY DEF RetryAfter
<1> DEFINE at == now + IF s < MaxDelay THEN s ELSE MaxDelay
<1>2. at \in Nat /\ at <= peak + MaxDelay
  BY NowSound, DelaysAssumption DEF Time
<1> HIDE DEF at
<1>3. closing' = [op |-> "defer", key |-> k, at |-> at]
  BY <1>1 DEF at
<1>4. /\ closing' \in Closing /\ closing'.key = k /\ closing'.at <= peak + MaxDelay
      /\ closing'.op # "fail"
  BY <1>2, <1>3 DEF Closing
<1>5. Fail(k, Server) /\ Server \in Errors
  BY DEF RetryAfter, Errors
<1> QED
  BY <1>4, <1>5, FailRow, CloseStep

LEMMA RefuseStep ==
  ASSUME IInv, NEW k \in Keys, Refuse(k)
  PROVE  IInv'
<1>1. Fail(k, Server) /\ Server \in Errors
  BY DEF Refuse, Errors
<1>2. closing' = [op |-> "fail", key |-> k, err |-> Server]
  BY DEF Refuse
<1>3. /\ closing' \in Closing /\ closing'.key = k
      /\ closing'.op = "fail" /\ closing'.err # Missing
  BY <1>1, <1>2 DEF Closing, Server, Missing
<1> QED
  BY <1>1, <1>3, FailRow, CloseStep

LEMMA ReleaseStep ==
  ASSUME IInv, NEW k \in Keys, Release(k)
  PROVE  IInv'
<1>1. PICK w \in ReleaseWaits : Set(k, Waiting(item[k], now + w))
  BY DEF Release
<1>2. Close(k) /\ closing' = Idle /\ k \in held
  BY DEF Release, Close
<1>3. now + w \in Nat /\ now + w <= peak + MaxDelay
  BY NowSound, DelaysAssumption DEF Time
<1>4. Sound(Waiting(item[k], now + w), peak)
  BY <1>2, <1>3, NowSound, HeldSound, WaitingSound
<1> QED
  BY <1>1, <1>2, <1>4, CloseStep DEF Closing

\* The second transaction of a settlement: only its item's row moves.
LEMMA ClosedStep ==
  ASSUME IInv, closing # Idle, closing' = Idle, UNCHANGED <<Phone, held>>,
         NEW r, Sound(r, peak),
         item' = [item EXCEPT ![closing.key] = r]
  PROVE  IInv'
<1>1. closing.key \in Keys /\ closing.key \notin held
  BY ClosingKey DEF IInv, ClosingInv, LadderEnd
<1>2. \A j \in Keys : item'[j] = IF j = closing.key THEN r ELSE item[j]
  BY <1>1 DEF IInv, TypeOK
<1>3. item' \in [Keys -> Row]
  BY <1>1 DEF IInv, TypeOK, Sound
<1>4. TypeOK' /\ (now <= peak)'
  BY <1>3 DEF IInv, TypeOK, Phone, Closing
<1>5. (\A j \in Keys : Sound(item[j], peak))'
  BY <1>2, NowSound DEF Phone
<1>6. (\A j \in held : item[j].status = "inflight")'
  BY <1>1, <1>2 DEF IInv, TypeOK
<1> QED
  BY <1>4, <1>5, <1>6 DEF IInv, ClosingInv

\* What is not to be moved is written back as it is.
LEMMA SameRow ==
  ASSUME IInv, NEW k \in Keys, UNCHANGED item
  PROVE  item' = [item EXCEPT ![k] = item[k]]
BY DEF IInv, TypeOK

LEMMA DeferUntilStep ==
  ASSUME IInv, DeferUntil
  PROVE  IInv'
<1>1. closing.op = "defer" /\ closing # Idle /\ closing.key \in Keys
  BY ClosingKey DEF DeferUntil, Idle, IInv
<1> DEFINE k == closing.key
<1>2. closing.at \in Nat /\ closing.at <= peak + MaxDelay
  BY <1>1 DEF IInv, ClosingInv, TypeOK, Closing, Idle
<1>3. Rests(item[k])
  BY <1>1 DEF IInv, ClosingInv, Rests
<1>4. CASE item[k].next < closing.at
  <2>1. item' = [item EXCEPT ![k] = DueAt(item[k], closing.at)]
    BY <1>4 DEF DeferUntil, Set
  <2>2. Sound(DueAt(item[k], closing.at), peak)
    BY <1>1, <1>2, <1>3, NowSound, DueSound, EndDueSound DEF Rests
  <2> QED
    BY <1>1, <2>1, <2>2, ClosedStep DEF DeferUntil
<1>5. CASE ~(item[k].next < closing.at)
  <2>1. UNCHANGED item
    BY <1>5 DEF DeferUntil
  <2> QED
    BY <1>1, <2>1, SameRow, NowSound, ClosedStep DEF DeferUntil
<1> QED
  BY <1>4, <1>5

LEMMA MarkFailedStep ==
  ASSUME IInv, MarkFailed
  PROVE  IInv'
<1>1. closing.op = "fail" /\ closing # Idle /\ closing.key \in Keys
  BY ClosingKey DEF MarkFailed, Idle, IInv
<1> DEFINE k == closing.key
<1>2. closing.err \in Errors
  BY <1>1 DEF IInv, TypeOK, Closing, Idle
<1>3. item[k].status \in {"pending", "failed"}
  BY <1>1 DEF IInv, ClosingInv, LadderEnd
<1>4. item' = [item EXCEPT ![k] = RefusedForGood(item[k], closing.err)]
  BY <1>3 DEF MarkFailed, Set
<1> QED
  BY <1>1, <1>2, <1>4, NowSound, RefusedSound, ClosedStep DEF MarkFailed

LEMMA DropStep ==
  ASSUME IInv, SettleThrows \/ Crash
  PROVE  IInv'
<1>1. /\ UNCHANGED <<Phone, item>> /\ held' \subseteq held
      /\ closing' = Idle \/ closing' = closing
  BY DEF SettleThrows, Crash
<1> QED
  BY <1>1 DEF IInv, TypeOK, ClosingInv, Phone, Closing

\* An emptied phone holds nothing, and nothing is left to close.
LEMMA WipeDeviceStep ==
  ASSUME IInv, WipeDevice
  PROVE  IInv'
<1>1. item' = [k \in Keys |-> Absent] /\ held' = {} /\ closing' = Idle
  BY DEF WipeDevice
<1>2. /\ now' \in Time /\ peak' \in Time /\ now' <= peak'
      /\ setBacks' \in 0..MaxSetBacks /\ wipes' \in 0..MaxWipes
  BY DelaysAssumption DEF WipeDevice, IInv, TypeOK
<1>3. (\A k \in Keys : Sound(item[k], peak))'
  BY <1>1, <1>2, AbsentSound
<1>4. item' \in [Keys -> Row]
  BY <1>1, <1>3 DEF Sound
<1> QED
  BY <1>1, <1>2, <1>3, <1>4 DEF IInv, TypeOK, ClosingInv, Closing

\* A later reading of the clock only loosens what a row may say.
LEMMA LaterSound ==
  ASSUME NEW p \in Time, NEW q \in Time, p <= q, NEW r, Sound(r, p)
  PROVE  Sound(r, q)
BY DelaysAssumption DEF Sound, Time, Row

LEMMA ClockStep ==
  ASSUME IInv, Tick \/ SetClockBack
  PROVE  IInv'
<1>1. UNCHANGED <<item, held, closing, wipes>>
  BY DEF Tick, SetClockBack
<1>2. /\ now' \in Time /\ peak' \in Time /\ setBacks' \in 0..MaxSetBacks
      /\ now' <= peak' /\ peak <= peak'
  BY DelaysAssumption DEF Tick, SetClockBack, IInv, TypeOK, Time
<1>3. (\A k \in Keys : Sound(item[k], peak))'
  BY <1>1, <1>2, NowSound, LaterSound
<1>4. ClosingInv'
  <2>1. ASSUME closing # Idle, closing.op = "defer"
        PROVE  closing.at \in Nat /\ closing.at <= peak' + MaxDelay
    BY <1>2, <2>1, NowSound, DelaysAssumption DEF IInv, ClosingInv, TypeOK, Closing, Idle, Time
  <2> QED
    BY <1>1, <2>1 DEF IInv, ClosingInv
<1> QED
  BY <1>1, <1>2, <1>3, <1>4 DEF IInv, TypeOK

-----------------------------------------------------------------------------
(* The invariant.                                                          *)

LEMMA InitIInv == Init => IInv
<1> SUFFICES ASSUME Init PROVE IInv
  OBVIOUS
<1>1. 0 \in Time /\ 0 \in 0..MaxSetBacks /\ 0 \in 0..MaxWipes
  BY DelaysAssumption DEF Time
<1>2. \A k \in Keys : Sound(item[k], peak)
  BY <1>1, AbsentSound, ParkedSound DEF Init
<1>3. item \in [Keys -> Row]
  BY <1>2 DEF Init, Sound
<1> QED
  BY <1>1, <1>2, <1>3 DEF Init, IInv, TypeOK, ClosingInv, Closing

LEMMA NextIInv == IInv /\ [Next]_vars => IInv'
<1> SUFFICES ASSUME IInv, [Next]_vars PROVE IInv'
  OBVIOUS
<1>1. ASSUME NEW k \in Keys, App(k) PROVE IInv'
  BY <1>1, EnqueueStep, MakeDueStep, ArchiveStep DEF App
<1>2. ASSUME NEW k \in Keys, Settle(k) PROVE IInv'
  BY <1>2, SucceedStep, RetryStep, RetryAfterStep, RefuseStep, ReleaseStep DEF Settle
<1>3. CASE ReopenRetryable \/ MakeUntriedDue \/ MakeOwedDue \/ PurgeDone \/ WipeForSignOut
  BY <1>3, ReopenStep, MakeUntriedDueStep, MakeOwedDueStep, PurgeStep, WipeStep
<1>4. CASE NextDue \/ DeferUntil \/ MarkFailed
  BY <1>4, NextDueStep, DeferUntilStep, MarkFailedStep
<1>5. CASE SettleThrows \/ Crash \/ Tick \/ SetClockBack \/ WipeDevice
  BY <1>5, DropStep, ClockStep, WipeDeviceStep
<1>6. CASE UNCHANGED vars
  BY <1>6 DEF vars, IInv, TypeOK, ClosingInv
<1> QED
  BY <1>1, <1>2, <1>3, <1>4, <1>5, <1>6 DEF Next

\* Every reachable state of the outbox satisfies the inductive invariant.
THEOREM Inductive == Spec => []IInv
BY InitIInv, NextIInv, PTL DEF Spec

\* The table's rows, the pass and the clocks always have their types.
THEOREM TypeCorrect == Spec => []TypeOK
<1>1. IInv => TypeOK
  BY DEF IInv
<1> QED
  BY <1>1, Inductive, PTL

\* No failed item is of a third kind, neither refused nor out of rungs, and no
\* waiting one is out of rungs (queue.ts: markAttempt, markFailed, reopenRetryable).
THEOREM LadderHolds == Spec => []LadderInv
<1>1. IInv => LadderInv
  BY DEF IInv, LadderInv, Sound
<1> QED
  BY <1>1, Inductive, PTL

\* What the pass holds is still inflight when it comes to close it (runner.ts:19).
THEOREM ClaimsHold == Spec => []HeldIsInflight
<1>1. IInv => HeldIsInflight
  BY DEF IInv, TypeOK, HeldIsInflight, Sound
<1> QED
  BY <1>1, Inductive, PTL

\* nextDue's rule for times too far ahead is never applied under a clock that was
\* not set back by more than an hour (queue.ts:41-46).
THEOREM FarAheadMeansSetBack == Spec => []AheadOnlyAfterSetBack
<1>1. IInv => AheadOnlyAfterSetBack
  <2> SUFFICES ASSUME IInv, NEW k \in Keys,
                      item[k].status = "pending", item[k].next > now + MaxAhead
               PROVE  peak > now + MaxDelay
    BY DEF AheadOnlyAfterSetBack
  <2>1. item[k].next <= peak + MaxDelay /\ item[k].next \in Nat
    BY NowSound DEF Sound, Refused, Row
  <2> QED
    BY <2>1, NowSound, DelaysAssumption DEF MaxAhead, Time
<1> QED
  BY <1>1, Inductive, PTL

-----------------------------------------------------------------------------
(* Implementing Delivery.                                                  *)

P == [k \in Keys |-> Promise(item[k])]

DVars == <<P, wipes>>

\* Keys S move together and nothing else does.
LEMMA MoveStep ==
  ASSUME UNCHANGED wipes, NEW S \in SUBSET Keys, NEW from, NEW to,
         \A k \in S : Promise(item[k]) \in from,
         \A k \in Keys : Promise(item'[k]) = IF k \in S THEN to ELSE Promise(item[k])
  PROVE  D!Move(S, from, to)
BY DEF D!Move

LEMMA SamePromise ==
  ASSUME UNCHANGED wipes, \A k \in Keys : Promise(item'[k]) = Promise(item[k])
  PROVE  UNCHANGED DVars
BY DEF P, DVars

LEMMA RestsOwed ==
  ASSUME NEW r, Rests(r) \/ r.status = "inflight"
  PROVE  Promise(r) = "owed"
BY DEF Rests, LadderEnd, Promise, Owed

LEMMA OneRow ==
  ASSUME IInv, NEW k \in Keys, NEW r, Set(k, r)
  PROVE  \A j \in Keys : item'[j] = IF j = k THEN r ELSE item[j]
BY DEF Set, IInv, TypeOK

LEMMA EnqueuePromise ==
  ASSUME IInv, UNCHANGED wipes, NEW k \in Keys, Enqueue(k)
  PROVE  [D!Next]_DVars
<1>1. PICK r : /\ Set(k, r) /\ r.status = "pending"
               /\ item[k].status \in {"absent", "failed"}
  BY NowSound, FreshSound, RearmedSound DEF Enqueue
<1>2. Promise(r) = "owed"
  BY <1>1, RestsOwed DEF Rests
<1>3. CASE Promise(item[k]) = "owed"
  BY <1>1, <1>2, <1>3, OneRow, SamePromise
<1>4. CASE Promise(item[k]) # "owed"
  <2>1. Promise(item[k]) \in {"absent", "refused", "parked"}
    BY <1>1, <1>4 DEF Promise
  <2>2. D!Submit(k)
    BY <1>1, <1>2, <2>1, OneRow, MoveStep DEF D!Submit
  <2> QED
    BY <2>2 DEF D!Next
<1> QED
  BY <1>3, <1>4

LEMMA ReopenPromise ==
  ASSUME IInv, UNCHANGED wipes, ReopenRetryable
  PROVE  [D!Next]_DVars
<1> DEFINE S == {k \in Keys : Reopenable(item[k], now) /\ Promise(item[k]) = "parked"}
<1>1. item' = [k \in Keys |-> IF Reopenable(item[k], now) THEN Rearmed(item[k], now) ELSE item[k]]
  BY DEF ReopenRetryable, Update
<1>2. \A k \in Keys : Reopenable(item[k], now) =>
        Promise(item[k]) \in {"owed", "parked"} /\ Promise(item'[k]) = "owed"
  <2> SUFFICES ASSUME NEW k \in Keys, Reopenable(item[k], now)
               PROVE  Promise(item[k]) \in {"owed", "parked"} /\ Promise(item'[k]) = "owed"
    OBVIOUS
  <2>1. item'[k].status = "pending"
    BY <1>1, NowSound, RearmedSound
  <2>2. Promise(item[k]) \in {"owed", "parked"}
    BY DEF Reopenable, Promise, Owed
  <2> QED
    BY <2>1, <2>2, RestsOwed DEF Rests
<1>3. \A k \in Keys : ~Reopenable(item[k], now) => item'[k] = item[k]
  BY <1>1
<1>4. D!Reopen(S)
  BY <1>2, <1>3, MoveStep DEF D!Reopen
<1> QED
  BY <1>4 DEF D!Next

LEMMA WaitPromise ==
  ASSUME IInv, UNCHANGED wipes, MakeUntriedDue \/ MakeOwedDue
  PROVE  UNCHANGED DVars
<1> DEFINE Waits(r) == r.status = "pending" /\ r.next > now
           To(r) == IF Waits(r) THEN DueAt(r, now) ELSE Rearmed(r, now)
           Which(r) == Waits(r) \/ LadderEnd(r)
           Untried(r) == r.status = "pending" /\ r.attempts = 0 /\ r.next > now
<1>1. \A k \in Keys : Untried(item[k]) => DueAt(item[k], now).status = "pending"
  BY NowSound, DueSound
<1>2. \A k \in Keys : Which(item[k]) => To(item[k]).status = "pending" /\ Rests(item[k])
  BY NowSound, DueSound, RearmedSound DEF Rests
<1>3. CASE MakeUntriedDue
  <2>1. item' = [k \in Keys |-> IF Untried(item[k]) THEN DueAt(item[k], now) ELSE item[k]]
    BY <1>3 DEF MakeUntriedDue, Update
  <2> QED
    BY <1>1, <2>1, RestsOwed, SamePromise DEF Rests
<1>4. CASE MakeOwedDue
  <2>1. item' = [k \in Keys |-> IF Which(item[k]) THEN To(item[k]) ELSE item[k]]
    BY <1>4 DEF MakeOwedDue, Update, LadderEnd
  <2> HIDE DEF Which, To
  <2>2. \A k \in Keys : (item'[k].status = "pending" /\ Rests(item[k])) \/ item'[k] = item[k]
    BY <1>2, <2>1
  <2> QED
    BY <2>2, RestsOwed, SamePromise DEF Rests
<1> QED
  BY <1>3, <1>4

LEMMA DuePromise ==
  ASSUME IInv, UNCHANGED wipes, NEW k \in Keys, MakeDue(k) \/ BringForward(k)
  PROVE  UNCHANGED DVars
<1>1. item[k].status = "pending" /\ Set(k, DueAt(item[k], now))
  BY DEF MakeDue, BringForward
<1>2. DueAt(item[k], now).status = "pending"
  BY <1>1, NowSound, DueSound
<1> QED
  BY <1>1, <1>2, OneRow, RestsOwed, SamePromise DEF Rests

LEMMA ForgetPromise ==
  ASSUME IInv, UNCHANGED wipes, PurgeDone \/ WipeForSignOut \/ \E k \in Keys : ArchiveRefused(k)
  PROVE  [D!Next]_DVars
<1>1. PICK S \in SUBSET Keys :
        /\ \A k \in S : item[k].status = "done" \/ Refused(item[k])
        /\ \A k \in Keys : item'[k] = IF k \in S THEN Absent ELSE item[k]
  <2>1. CASE PurgeDone
    <3> DEFINE S == {k \in Keys : item[k].status = "done" /\ item[k].created < now - PurgeAfter}
    <3>1. \A k \in Keys : item'[k] = IF k \in S THEN Absent ELSE item[k]
      BY <2>1 DEF PurgeDone, Update
    <3> QED
      BY <3>1
  <2>2. CASE WipeForSignOut
    <3> DEFINE S == {k \in Keys : item[k].status = "done" \/ Refused(item[k])}
    <3>1. \A k \in Keys : item'[k] = IF k \in S THEN Absent ELSE item[k]
      BY <2>2 DEF WipeForSignOut, Update
    <3> QED
      BY <3>1
  <2>3. ASSUME NEW k \in Keys, ArchiveRefused(k)
        PROVE  \E S \in SUBSET Keys :
                 /\ \A j \in S : item[j].status = "done" \/ Refused(item[j])
                 /\ \A j \in Keys : item'[j] = IF j \in S THEN Absent ELSE item[j]
    <3>1. Refused(item[k]) /\ \A j \in Keys : item'[j] = IF j \in {k} THEN Absent ELSE item[j]
      BY <2>3, OneRow DEF ArchiveRefused
    <3> QED
      BY <3>1
  <2> QED
    BY <2>1, <2>2, <2>3
<1>2. Promise(Absent) = "absent"
  BY DEF Promise, Absent
<1>3. \A k \in S : Promise(item[k]) \in {"done", "refused", "parked"}
  BY <1>1 DEF Promise, Owed, Refused
<1>4. D!Forget(S)
  BY <1>1, <1>2, <1>3, MoveStep DEF D!Forget
<1> QED
  BY <1>4 DEF D!Next

LEMMA NextDuePromise ==
  ASSUME IInv, UNCHANGED wipes, IInv', NextDue
  PROVE  UNCHANGED DVars
<1> DEFINE fresh == [k \in Keys |-> Reclaimed(item[k], now)]
           due == {k \in Keys : Claimable(fresh[k], now)}
<1>1. PICK C \in SUBSET due :
        item' = [k \in Keys |-> IF k \in C THEN Claimed(fresh[k], now) ELSE fresh[k]]
  BY DEF NextDue
<1>2. \A k \in Keys : Promise(fresh[k]) = Promise(item[k])
  BY NowSound, ReclaimedSound, RestsOwed DEF Rests
<1>3. \A k \in C : k \in Keys /\ fresh[k].status = "pending" /\ Sound(fresh[k], peak)
  BY NowSound, ReclaimedSound DEF Claimable
<1> HIDE DEF fresh, due
<1>4. \A k \in C : Promise(Claimed(fresh[k], now)) = "owed" /\ Promise(fresh[k]) = "owed"
  BY <1>3, NowSound, ClaimedSound, RestsOwed DEF Rests
<1>5. \A k \in Keys : Promise(item'[k]) = Promise(item[k])
  BY <1>1, <1>2, <1>4
<1> QED
  BY <1>5, SamePromise

LEMMA SettlePromise ==
  ASSUME IInv, UNCHANGED wipes, NEW k \in Keys, Settle(k)
  PROVE  [D!Next]_DVars
<1>1. k \in held /\ Promise(item[k]) = "owed"
  BY HeldSound, RestsOwed DEF Settle, Succeed, Retry, RetryAfter, Refuse, Release, Fail, Close, IInv
<1>2. CASE Succeed(k)
  <2> DEFINE r == [item[k] EXCEPT !.status = "done", !.err = NoError, !.claimed = NoClaim]
  <2>1. Set(k, r)
    BY <1>2 DEF Succeed
  <2>2. r.status = "done"
    BY NowSound DEF Row
  <2> HIDE DEF r
  <2>3. Promise(r) = "done"
    BY <2>2 DEF Promise
  <2>4. D!Deliver(k)
    BY <1>1, <2>1, <2>3, OneRow, MoveStep DEF D!Deliver
  <2> QED
    BY <2>4 DEF D!Next
<1>3. CASE Retry(k) \/ RetryAfter(k) \/ Refuse(k)
  <2>1. PICK e \in Errors : Fail(k, e)
    BY <1>3 DEF Retry, RetryAfter, Refuse, Errors
  <2> QED
    BY <1>1, <2>1, FailRow, OneRow, RestsOwed, SamePromise
<1>4. CASE Release(k)
  <2>1. PICK w \in ReleaseWaits : Set(k, Waiting(item[k], now + w))
    BY <1>4 DEF Release
  <2>2. now + w \in Nat
    BY NowSound, DelaysAssumption
  <2>3. Promise(Waiting(item[k], now + w)) = "owed"
    BY <2>2, NowSound, WaitingRow, RestsOwed DEF Rests
  <2> QED
    BY <1>1, <2>1, <2>3, OneRow, SamePromise
<1> QED
  BY <1>2, <1>3, <1>4 DEF Settle

LEMMA ClosedPromise ==
  ASSUME IInv, UNCHANGED wipes, DeferUntil \/ MarkFailed
  PROVE  [D!Next]_DVars
<1>1. closing # Idle /\ closing.key \in Keys
  BY ClosingKey DEF DeferUntil, MarkFailed, Idle, IInv
<1> DEFINE k == closing.key
<1>2. Rests(item[k]) /\ Promise(item[k]) = "owed"
  BY <1>1, RestsOwed DEF IInv, ClosingInv, Rests
<1>3. CASE DeferUntil
  <2>1. closing.op = "defer" /\ closing.at \in Nat /\ closing.at <= peak + MaxDelay
    BY <1>1, <1>3 DEF DeferUntil, IInv, ClosingInv, TypeOK, Closing, Idle
  <2>2. UNCHANGED item \/ Set(k, DueAt(item[k], closing.at))
    BY <1>3 DEF DeferUntil
  <2>3. Rests(DueAt(item[k], closing.at))
    <3>1. closing.at # Never
      BY <2>1, NowSound, NeverAssumption, DelaysAssumption DEF Time
    <3>2. /\ DueAt(item[k], closing.at).status = item[k].status
          /\ DueAt(item[k], closing.at).next = closing.at
      BY <1>1, NowSound DEF DueAt, Row
    <3> QED
      BY <1>2, <3>1, <3>2 DEF Rests, LadderEnd
  <2>4. CASE UNCHANGED item
    BY <2>4, SamePromise
  <2>5. CASE Set(k, DueAt(item[k], closing.at))
    BY <1>1, <1>2, <2>3, <2>5, OneRow, RestsOwed, SamePromise
  <2> QED
    BY <2>2, <2>4, <2>5
<1>4. CASE MarkFailed
  <2>1. closing.op = "fail" /\ closing.err \in Errors /\ closing.err # Missing
    BY <1>1, <1>4 DEF MarkFailed, IInv, ClosingInv, TypeOK, Closing, Idle
  <2> DEFINE r == RefusedForGood(item[k], closing.err)
  <2>2. Set(k, r)
    BY <1>2, <1>4 DEF MarkFailed, Rests, LadderEnd
  <2>3. Refused(r) /\ r.err = closing.err
    BY <1>1, <2>1, NowSound, RefusedSound
  <2> HIDE DEF r
  <2>4. Promise(r) = "refused"
    BY <2>1, <2>3 DEF Promise, Refused, Owed
  <2>5. D!Refuse(k)
    BY <1>1, <1>2, <2>2, <2>4, OneRow, MoveStep DEF D!Refuse
  <2> QED
    BY <1>1, <2>5 DEF D!Next
<1> QED
  BY <1>3, <1>4

\* Emptying the phone is Delivery's own: every key is absent.
LEMMA WipeDevicePromise ==
  ASSUME WipeDevice
  PROVE  D!Empty
<1>1. Promise(Absent) = "absent"
  BY DEF Promise, Absent
<1>2. \A k \in Keys : Promise(item'[k]) = "absent"
  BY <1>1 DEF WipeDevice
<1> QED
  BY <1>2 DEF WipeDevice, D!Empty

LEMMA NextPromise == IInv /\ IInv' /\ [Next]_vars => [D!Next]_DVars
<1> SUFFICES ASSUME IInv, IInv', [Next]_vars PROVE [D!Next]_DVars
  OBVIOUS
<1>1. ASSUME NEW k \in Keys, App(k) PROVE [D!Next]_DVars
  <2>1. UNCHANGED wipes
    BY <1>1 DEF App, Enqueue, MakeDue, BringForward, ArchiveRefused, Others
  <2> QED
    BY <1>1, <2>1, EnqueuePromise, DuePromise, ForgetPromise DEF App
<1>2. ASSUME NEW k \in Keys, Settle(k) PROVE [D!Next]_DVars
  <2>1. UNCHANGED wipes
    BY <1>2 DEF Settle, Succeed, Retry, RetryAfter, Refuse, Release, Fail, Close, Phone
  <2> QED
    BY <1>2, <2>1, SettlePromise
<1>3. CASE ReopenRetryable \/ MakeUntriedDue \/ MakeOwedDue \/ PurgeDone \/ WipeForSignOut
  <2>1. UNCHANGED wipes
    BY <1>3 DEF ReopenRetryable, MakeUntriedDue, MakeOwedDue, PurgeDone, WipeForSignOut, Others
  <2> QED
    BY <1>3, <2>1, ReopenPromise, WaitPromise, ForgetPromise
<1>4. CASE NextDue \/ DeferUntil \/ MarkFailed
  <2>1. UNCHANGED wipes
    BY <1>4 DEF NextDue, DeferUntil, MarkFailed, Phone
  <2> QED
    BY <1>4, <2>1, NextDuePromise, ClosedPromise
<1>5. CASE SettleThrows \/ Crash \/ Tick \/ SetClockBack \/ UNCHANGED vars
  <2>1. UNCHANGED <<item, wipes>>
    BY <1>5 DEF SettleThrows, Crash, Tick, SetClockBack, Phone, vars
  <2> QED
    BY <2>1 DEF P, DVars
<1>6. CASE WipeDevice
  BY <1>6, WipeDevicePromise DEF D!Next
<1> QED
  BY <1>1, <1>2, <1>3, <1>4, <1>5, <1>6 DEF Next

LEMMA InitPromise == Init => D!Init
<1> SUFFICES ASSUME Init PROVE D!Init
  OBVIOUS
<1>1. Promise(Absent) = "absent"
  BY DEF Promise, Absent
<1>2. Promise(Parked) = "parked"
  <2>1. Parked.status = "failed" /\ Parked.next = Never /\ Parked.err = Missing
    BY DEF Parked, Absent
  <2> QED
    BY <2>1 DEF Promise, Owed
<1> QED
  BY <1>1, <1>2 DEF Init, D!Init

\* The outbox implements Delivery: owed work stays owed until the server took it,
\* refused it for good, or the whole phone was emptied (queue.ts, device.ts: wipeDevice),
\* under every clock, crash and interleaving the model has.
THEOREM KeepsPromise == Spec => KeepsItsPromise
<1>1. Spec => [][Next]_vars
  BY DEF Spec
<1>2. Spec => Init
  BY DEF Spec
<1> QED
  BY <1>1, <1>2, Inductive, InitPromise, NextPromise, PTL DEF KeepsItsPromise, D!Spec, P, DVars
=============================================================================
