------------------------------ MODULE Delivery ------------------------------
(***************************************************************************)
(* What the outbox promises the rest of the app, without clocks, ladders,  *)
(* claims or passes.  A piece of work is known by its idempotency key.     *)
(* Once submitted it is owed until the server took it or refused it for    *)
(* good, or until the whole phone is emptied: a change of driver or an     *)
(* account's deletion takes everything, what is owed included.  Nothing    *)
(* else ends it.  Work the server settled may be forgotten.  A key refused *)
(* over a missing function (an earlier build did that) is parked: it may   *)
(* be owed again without anyone submitting it again.                       *)
(***************************************************************************)
EXTENDS Integers, FiniteSets

CONSTANT Keys

VARIABLES
  state,   \* what became of each key
  wipes    \* how often the phone was emptied

States == {"absent", "owed", "done", "refused", "parked"}

TypeOK == state \in [Keys -> States] /\ wipes \in Nat

(* A phone starts with nothing, or with keys an earlier build parked.      *)
Init == state \in [Keys -> {"absent", "parked"}] /\ wipes = 0

Move(S, from, to) ==
  /\ \A k \in S : state[k] \in from
  /\ state' = [k \in Keys |-> IF k \in S THEN to ELSE state[k]]
  /\ UNCHANGED wipes

Submit(k) == Move({k}, {"absent", "refused", "parked"}, "owed")

Deliver(k) == Move({k}, {"owed"}, "done")

Refuse(k) == Move({k}, {"owed"}, "refused")

Reopen(S) == Move(S, {"parked"}, "owed")

Forget(S) == Move(S, {"done", "refused", "parked"}, "absent")

(* The phone is emptied, and no single key ever is without the others.     *)
Empty ==
  /\ state' = [k \in Keys |-> "absent"]
  /\ wipes' = wipes + 1

Next ==
  \/ \E k \in Keys : Submit(k) \/ Deliver(k) \/ Refuse(k)
  \/ \E S \in SUBSET Keys : Reopen(S) \/ Forget(S)
  \/ Empty

Spec == Init /\ [][Next]_<<state, wipes>>
=============================================================================
