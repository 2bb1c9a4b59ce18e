# RoadWise: a TLA+ verification project

RoadWise records drives on a phone, scores them, and uploads them to a server that keeps the Safety
Rating. This directory holds TLA+ models of its logic, the TLC runs that check them and the TLAPS
proofs about them. Source paths are given from the top of the checkout (`src/...`).

## 1. Inventory

The parts with logic of their own, the state they keep, and what can go wrong in them.

| Part | State | Operations | Talks to | Hard |
| --- | --- | --- | --- | --- |
| Outbox (`src/src/data/db/queue.ts`, `src/src/data/sync/queue.ts`) | `sync_queue` rows: status, attempts, next try, claim, error | enqueue, claim, close, release, defer, fail, reopen, make due, purge | everything that owes the server work; the runner | retries, claims outliving a process, a clock set back |
| Sync runner (`src/src/data/sync/runner.ts`) | one pass under way; timers | drain, upload, act, undo, settle, resync, wake | outbox, local drives, server, session | awaits between transactions, lost answers, several transactions per outcome |
| Drive actions (`src/src/data/sync/driveActions.ts`) | the drive's status, the event's dispute status | "Wasn't driving", report | local drives, outbox | optimistic writes racing the answers |
| Server: `finalize-trip`, `trip-actions` and their SQL (`src/supabase/`) | stored drive, its mark, its reports | store, replay, mark, dispute | phone | repeats, order of upload and action, quotas |
| Restore (`src/src/data/hydrate/restore.ts`) | cursor, restored-at | page in, write in one drive | server, local drives | a change of driver between read and write |
| Device ownership (`src/src/boot/device.ts`, `ownerWatch.ts`, `controller.ts`, `src/app/_layout.tsx`) | recorded owner, pending owner, the session last seen; the runtime's generation | adopt, wipe, hand over, rebuild, sign-out's wipe | all local data | sign-out and sign-in during uploads, restores and launches; kills between three writes |
| Native detector and journal (`src/modules/drive-sense/ios/`) | the state record and one journal file per drive, both on disk; the event buffer | begin, row, safety stop, cancel, discard, resume | sensors, host | goes on while JS is dead or behind; events lost or late |
| Drive engine (`src/src/core/engine/`) | machine state, session sums, checkpoint | start, adopt, row, end, cancel, release, recover | host, database | kills mid-drive, failing checkpoints, end rules |
| Drive host (`src/src/drive/host.ts`) | the held drive and its last seq, the capture flag, journals to delete, the drive left unfinalized | native events, drain, end, "Not driving?", boot | engine, natives, database, alerts | three copies of a drive; events out of order; kills between awaits |
| Detection (`src/modules/drive-sense/src/detect/`, `reminder/`) | detector phase, timers, evidence | sensor input, timeouts | host, natives | timer against evidence, restart from saved state |
| DashPal: events (`src/src/dashcam/link.ts`, `store.ts`, `facts.ts`) | the session's boot, cursor and phase; a serial chain of tasks; `dashcam_events`, `dashcam_boots`; a drive's claim | hello, resume, event, prune, drive end | BLE, host, finalizer | replays, reboots that draw the same id, statements that fail, links and wipes in between |
| DashPal: alerts (`src/src/dashcam/alerts.ts`, `link.ts`) | the table of alerts, the generation that cuts, the item in the player, the session | alert, stop, fallback, acknowledge, stale, tick | BLE, player, the dashcam's buzzer | two sides that may each sound or fall silent; frames that cross |
| DashPal: setup and keys (`src/src/dashcam/setup.ts`, `secure.ts`, `early.ts`) | the flow's stage and key; three keys in SecureStore | claim, prove, hold, commit, finalize, undo, retry, cancel | BLE, keychain, settings, drives | a commit whose answer is lost; a death between two stores; the dashcam's own minute |
| Alert player (`src/src/core/alerts/player.ts`) | playing, queue, held session | deliver, stop, release | host, dashcam | pre-emption and late completions |
| Speed limits (`src/src/core/speedLimits/`) | tile cache, fetches in flight | prefetch, match | server, host | stale tiles, failed fetches |
| Boot (`src/src/boot/`) | runtime phases | start, stop, sign-out, headless wake | all | concurrent starts, time limits |
| Scoring (`src/packages/scoring/`) | none | rate, classify | engine, server | formulas over reals |
| Push (`src/supabase/functions/push-sender/`), speed-limit fill, export, attestation | claimed rows, caches | claim, send, delete | third parties | duplicate sends |
| Screens, web, scripts, widget | presentation | | | |

What makes each modelled part correct:

* outbox: work is owed until the server took it or refused it for good, or the whole phone is emptied
  for another driver; nothing is stranded; nothing the pass holds is touched while it holds it; nothing
  goes before its time unless the clock was set back;
* runner, actions and server together: once nothing is left to send, phone and server agree on the
  drive; a refusal reaches the driver; no optimistic write outlives its refusal; everything is
  settled in the end;
* detector, journal, engine and host together: of a drive no row is lost in the middle; one native
  ended is judged on its whole journal; its journal goes only once the drive is stored or cancelled;
  a stored trip never changes; a cancelled one is never stored, and its passenger ride is queued
  (if its own enqueue does not throw); every drive is closed in the end.

* device ownership, restore and controller together: everything on the phone is its owner's however a
  handover is interleaved with uploads, pages and deaths; what was signed out stays gone; a restore on
  record as complete is complete; whoever stays signed in gets the phone in the end;
* DashPal's events: the cursor the phone acknowledges passes nothing that could still be had; a drive
  that says it was synced holds every event of its own; the phone catches up after any fault;
* DashPal's alerts: never both voices for good, never neither, every alert heard while it lasts;
* DashPal's setup: no record at the dashcam without its key on the phone, one place per phone, "done"
  true on both sides, and an end to every setup.

The remaining parts' properties are in the plan below.

## 2. Modules

| Module | What it is |
| --- | --- |
| `Delivery` | The promise: per idempotency key, absent, owed, done, refused or parked; and the phone emptied, all keys at once. No clock, no retry, no claim. |
| `Outbox` | The `sync_queue` table with its clock, ladder and claims, and the pass that drains it. Refines `Delivery`. |
| `OutboxProofs` | The TLAPS proofs about `Outbox`. |
| `DriveJournal` | Drives on an iPhone from their first row to the stored trip: native detector and journal, host, engine, recovery, and kills between. |
| `DriveSync` | One drive from its finalizer to the server's answer: runner, driver, server, and the faults between. Refines `Delivery` for the drive's three items. |
| `DeviceOwner` | A phone that changes hands: session, watch, launch, wipe, sign-out, restore, and a round of the runner, for two drivers. |
| `DashEvents` | DashPal's events from the dashcam's ring to the drive that claims them. |
| `DashAlerts` | DashPal's alerts: which of phone and buzzer sounds, and the frames that settle it. |
| `DashSetup` | Pairing with a DashPal: the flow, the keys in SecureStore, the dashcam's hold and records. |
| `DriveSyncProofs`, `DriveJournalProofs`, `DeviceOwnerProofs`, `DashEventsProofs`, `DashAlertsProofs`, `DashSetupProofs` | The TLAPS proofs about those six. |
| `Extremes` | Lemmas: a set of numbers with something in it has a least member, a bounded one a greatest. |

Each `.cfg` is named after its module: TLC runs the modules themselves, their constants being small
sets and numbers. `DashEvents`, `DashAlerts` and `DashSetup` are three protocols over one link that
share no state but the link's being up, so each has its own and they are checked apart. The dashcam
is not in this repository: its half of each is modelled from `PROTOCOL.md` as `link.ts` and `setup.ts`
quote and use it and from the fake dashcam of the tests, and marked external in `PROJECT.json`.

`Delivery` is the joint between the two: `Outbox` shows that the table's rows keep the promise under
every clock and crash; `DriveSync` uses rows without times (one that waits may come due at any moment,
any failed attempt may be the last) and is shown to keep the same promise with the three keys a drive
has. What `DriveSync` assumes of a row is exactly what `Outbox` shows. `DriveJournal` ends where
`DriveSync` begins: at the trip the finalizer's transaction stores. They share no variable but that
trip, so they are checked apart.

### Outbox

`item[k]` is the row of key `k`: `status`, `attempts`, `next` (`next_attempt_at`), `claimed`
(`claimed_at`), `err` (`last_error`, only as far as `reopenRetryable` tells errors apart) and
`created`. `now` is the phone's clock; `held` the items of the pass's batch not yet closed; `closing`
the second transaction of a settlement that takes two (`markAttempt` then `deferUntil`, `markAttempt`
then `markFailed`). `setBacks` and `peak` are history. Each action is one transaction:

* the app between the pass's transactions: `Enqueue`, `ReopenRetryable`, `MakeUntriedDue`, `MakeDue`,
  `BringForward`, `MakeOwedDue`, `PurgeDone`, `WipeForSignOut`, `ArchiveRefused`;
* the pass: `NextDue` (reclaim and claim in one transaction), `Succeed`, `Retry`, `RetryAfter`,
  `Refuse`, `Release`, then `DeferUntil` and `MarkFailed`;
* the phone: `SettleThrows`, `Crash`, `Tick`, `SetClockBack`, and `WipeDevice`: another driver, or an
  account's deletion, empties the table, owed rows and claimed ones too (`device.ts:174-187`).

`Delivery` knows that last one as `Empty`, which takes every key at once and is counted (`wipes`), so
that a row that goes without the others cannot pass for it: what is owed ends by the server's word or
with the whole phone. A sign-out is not that: `WipeForSignOut` leaves owed rows where they are. After a
wipe the pass may still hold items whose rows are gone; row ids are never given again
(`AUTOINCREMENT`, `schema.ts:49`), so its settlements meet nothing, and the model lets go of them at once.

A row may start `Parked`: failed for good over a missing function by an earlier build, which
`reopenRetryable` puts back and `WipeForSignOut` may delete.

### DriveSync

`trip` is the local drive (status, clean flag, the upload's stored verdict, `sync_error`), `event` the
dispute status of its one event, `item` the three rows, `previous` the `previousStatus` in the queued
mark, `tap` the status `markNotDriving` read before its transaction, `batch` the claimed items not yet
begun, and `job` the item under way: `at` says how far it got.

```
asked -> answered -+-> apply -> (forward) -> done
                   +-> reread -> resync   -> done
                   +-> undo -> refuse -> fail -> (show)
                   +-> retry
```

Each arrow is one action and one transaction or request, so a tap, a kill (`Kill`) or a fault
(`Throws`: what the runner does when that transaction throws) may fall between any two. The server
(`ServeUpload`, `ServeMark`, `ServeReport`) acts when the request arrives, and `Hear` or `Lose`
decides whether the phone learns of it.

Simplifications, all in the module's header or comments: one signed-in driver, so the fence always
passes and the phone is never emptied (`wipes <- 0`); no `mergedInto` answer (only servers older than this build); no DashPal events; `reportEvent`'s
early read is not a step of its own since only that function changes a `dispute_status` of none; the
passenger-ride item has no local effect and is left to `Outbox`.

### DriveJournal

Three parts hold a copy of a drive, and each is a group of variables:

| Variables | Code |
| --- | --- |
| `record`, `journal` | `DetectStateRecord` and the journal files (`RowJournal`), on disk. A deleted file's rows are remembered so that properties can speak of them. |
| `trip`, `marker`, `rides` | SQLite: the trip's row and samples, the cancel marker (`CANCEL_KEY`), the passenger rides queued |
| `engine`, `live`, `captureOn`, `discards`, `failed` | the engine's session; `liveDrive`, `captureOn`, `discardQueue`, `unfinalized` of the host |
| `inbox` | what native sent and the driver tapped, not yet run: `EventHub`'s buffer before the host attached, the host's queue after |
| `job`, `boot` | the task under way (`run` lets one run at a time) and, at a launch, what `bootIos` still has to do |
| `closed`, `cancelled` | history, for the properties |

`job.pc` says between which two awaits the task stands:

```
ready -> drain (one page per action) -> drained -+-> close -> store -> after -> (discard) -> ready
                                                 +-> after                (begun, gap)
                                                 +-> after, drive released (a read failed)
ready -> tell -> ride -> drop -> clear -> after                           ("Not driving?")
down  -> marker -> (ride -> drop -> clear) -> recover -> boot -> ended -> drain ... (a launch)
```

A row is a number that orders all rows in time; its drive and its seq can be told from it. The engine
compares rows by time (`machine.ts:700`), the host by seq alone (`host.ts:2037`), as a row event
carries no drive. Native acts between any two steps of the host: `NativeBegins`, `NativeRow`,
`NativeEnds`. `Kill` may fall anywhere; a relaunch resumes the drive past a gap of seqs
(`ResumeDrive`), ends it (`OrphanAtLaunch`) or finds none (`LaunchAtRest`). When the engine ends a
drive by its own rules is left open: any row or tick may.

Two constants choose what else may go wrong. `Faults` is the set of steps that may throw (`read`,
`list`, `checkpoint`, `store`, `drop`, `ride`), at most `MaxFaults` times. `Early` says when native may begin
a drive though the host is not ready for it: `starting`, before the host's listeners attached;
`behind`, while its queue is not empty. With `Early` empty a drive begins only with the host at rest.

Left out: the Start card and plain captures, sign-out, Android (whose capture has no journal), power
loss (a journal keeps each row written), the deletion of the oldest of too many files, trips of older
builds under another id (the journal link), and a failing write of the empty trip row a drive begins
with; of a cancel, a failing write or removal of its marker and native answering with an error. The gap
since the last row that lets a launch go on with a drive that native does not list (`bootstrap.ts:432`) is
taken to be short enough whenever native records.

### DeviceOwner

| Variables | Code |
| --- | --- |
| `session`, `server` | Supabase's session; which drive the server holds under which account |
| `keys` | the settings: `device.lastUserId`, `session.uid`, `device.pendingOwner`, the restore's cursor and its record |
| `rows`, `open`, `work` | `trips`, the drive being recorded, each drive's upload with its owner stamp |
| `run` | the runtime: off, the identity stage's steps, ready, teardown |
| `checks`, `leaving`, `pass`, `restore` | what is under way: the watch's check of a sign-in, the sign-out's wipe, a round of the runner, a restore |
| `used`, `emptied` | bounds; whether a sign-out emptied the phone and nobody signed in since |

Actions are single awaits: a page of the restore is read (`ReadPage`), then written (`WritePage`);
the record that it is complete is a third step (`RecordRestored`). `RememberDeviceOwner` is three
writes. `Kill` may fall anywhere. `Outlives` names what may be left running into the next sign-in: with
it empty a sign-in finds the wipe of the last sign-out over, that round of the runner ended and the
restore's page answered, which is what the seconds a driver takes to sign in give; each of its members
lifts that for one of them. A drive is a driver and a number; a page holds one drive; the restore's
order is by number. Uploads' answers are `DriveSync`'s concern, so here one is only heard or lost.

### DashEvents

The dashcam keeps a log per power-on and can send again what its ring still holds. On the phone a frame
changes the session as it arrives (`PhoneHears`), and puts a task on the chain (`enqueue`, `link.ts`
815). The chain runs a database statement at a time (`HelloLooksUp`, `HelloEnsures`, `HelloCounts`,
`SameEnsures`, `EventChecks`, `EventInserts`, `Counts`), so a lost link, a wipe, a kill, the prune
(`PruneRaises`, `PruneDeletes`) and the drive's own steps fall between any two. `T.live` is whether the
task's session is still the link's. A drive goes `none -> rolling -> open -> ending -> stamped -> none`
(`rolling`: the traced-back start before it is confirmed; `cut`: its process died), is stamped as
synced on a row or at its end (`Stamps`), and claims its events last (`Facts`).

History is kept in `ghost`: what the phone was told, what the prune gave up, and `blind`, the keys
under which the events of two boots are filed though nothing tells them apart (the second drew the id
of the first and had made more events by the time the phone met it, or the boot's row was wiped under
an event). The store documents that limit; the properties leave those keys out.

Left out: offsets and their quality (every event can be placed), the seconds of coverage, the alerts'
and the view's frames, `dryRun`.

### DashAlerts

The dashcam's `gate` says who has the alert of its episode: `ask` (routed, not yet answered), `phone`,
`buzzer`. The phone's `table` and `item` are `alerts.ts`'s table and the item in the player; `cut` and
`stopped` stand for the generation that drops an item unstarted and for the player's stop. `told` is
whether the last STATE said what `can` is now. A late frame, a lost write, a call, a failing sound, a
lost link, a sign-out's restart and a silence of seconds are the disturbances. `excused` marks an
alert for which silence is by design: an ACK(0) whose write failed on the phone's own staleness rule,
or a phone that could play again before it ever said it could not.

Left out: `buzzer_too`, the no-face sound's own rules, the banner and halo, the cadence of repeats,
voice and haptics, and what the phone's own alerts do in the same player but keep it busy.

### DashSetup

`flow.pc` is where the flow is between two awaits, `flow.stage` the code's `stage`:

```
connect -> claim -> fin -> verdict -> session -> screen -> commit -> send -> await -> answer -+-> final -> record -> rest
                                                                                             +-> commit again, undo, or rest until Try again
verdict, session, screen, commit -> rehold -> screen or send          (45 s at most, under the new key)
any of them -> undo -> (undocmd -> undowait) -> undoend -> rest       (a cancel, a drive, a failure)
```

Keys are numbers in the order they were made. The dashcam holds records of this phone (`cam.stored`),
at most one hold (`cam.hold`) and the record that hold replaces (`cam.prev`); a hold is undone by
itself a minute after the phone is gone, which is `HoldLapses` and `HoldExpires`. SecureStore's three
entries are `keys.auth`, `keys.pend`, `keys.orphan`. `Dies` and `Launches` are a death at any step and
the launch that deletes a pending key; `LaunchesAnew` the first one of a new install. `Settled` says
that a driver who finds two keys starts a new setup only once the auto-connect has shown which is good.

The keychain may refuse a write: the pending key's (`Claims`), the final one's and with it the orphan's
(`Finalizes`), or the orphan's alone (`UndoEnds`). `keepOrphan` swallows that and the pending key is
deleted all the same, so `given` gains the key.

Setups follow one another: `Starts` waits for the flow to be at rest. In the app a closed wizard's flow
finishes its undo on its own while the next opening makes another (`useSetupFlow.ts:65`), and both use
the one pending entry of SecureStore, so the old flow's `deletePending` may take the new setup's key.
That overlap is not modelled, and `TypeOK` (a setup past PAIR_FIN works with the pending key),
`NoKeyLost` and `OneRecord` are claimed of setups without it only. So is a deletion the keychain
refuses (`setup.ts:399`, `setup.ts:1101`): it leaves a key more, never one less.

Left out besides: the scan, permissions, the window's clock, the picture and the aim, the speed watch, other
phones and the limit of four, and the answers that only repeat a step (busy, an id in use).

## 3. Runs

| Run | Bounds | Shows |
| --- | --- | --- |
| `outbox_ladder` | 1 key, 3 attempts, clock 0..7, 2 set-backs, 1 wipe | type, ladder, claims, far-ahead times, promise |
| `drive_rough` | 2 taps, 1 kill, 1 fault, second phone | what holds whatever fails |
| `drive_settles` | 1 tap, no kill, no fault, second phone, fairness | agreement at rest, liveness |
| `journal_behind` | 2 drives, 3 rows, 2 kills, 1 tap, 2 `store` faults, `Early` behind | no holes, nothing unread |
| `journal_faults` | 2 drives, 3 rows, 2 kills, 1 tap, any one fault | type, journals kept, rides owed, stored for good |
| `journal_settles` | 2 drives, 3 rows, 1 kill, 1 tap, `Early` starting and behind, fairness | cancelled drives stay gone, nothing unheld, liveness |
| `dash_events` | 2 events, 1 boot id, rings of 1 and 2, 1 drive, any one disturbance, fairness | type, honest cursor, complete drives, catching up |
| `dash_setup` | 3 setups, any two disturbances, fairness | type, keys kept, one record, done means paired, every setup ends |
| `setup_undone` | 2 setups, one `drop` or `away` | finding 1 |
| `dash_alerts` | 2 alerts, any one disturbance, fairness | type, one voice, never silent, heard |
| `device_owner` | 2 drivers, 2 drives each and one recorded, 4 sign-ins, 2 kills, every kind of session read, fairness | type, rows are the owner's, restores complete, no runtime over a handover, handovers carried out |
| `owner_token` | 1 drive each, 2 sign-ins, a round that outlives its session | finding 2 |

Why the bounds are enough. One key meets every transition of a row; three attempts give a first, a
middle and a last rung; a clock of 8 units with `MaxDelay` 2 lets a time lie more than `MaxAhead`
ahead, a claim go stale, a done row be purged and an item wait out `ReopenAfter`. No row's transition
reads another row (a wipe between the runner's two transactions, and one that falls on what is enqueued
again, are met with one), and the theorems of section 5 hold for any number of keys and any batch. In `DriveSync` two taps give a second try after a refusal, one
kill and one fault are each tried at every step.

In `DriveJournal` two drives are what it takes for one drive's events to meet the other. A third matters
to one property: with the host behind and three drives, `NoHoles` fails (section 4);
`journal_behind` shows what holds with two. `JournalKept`, `NothingUnheld` and `CancelledStaysGone` are
proved for any number of drives, under the assumptions section 5 names. Three rows with checkpoints and pages of two give a checkpoint with rows
after it, a page that is full, one that is short, and one that is empty behind a full one; a replay
cap of one stops a boot's drain before the file's end, so that a live row meets a gap; seqs jump by
two at a resume, so that the journal's seqs and the number of its rows differ. A buffer of two rows
overflows. One kill gives a recovery, two give a recovery of what a recovery left; two failing
stores leave two drives open at a launch, one of which fails again.

In `DashEvents` two events are the least that can leave a hole, arrive out of order over two
connections, or be split by a boot; one boot id makes every reboot draw the same, the hard case; a ring
of one loses the first event for good. With two disturbances the safety properties hold too (16.9
million states, without the liveness property; too long for a run that is repeated). In `DashAlerts`
two alerts meet in the player and on the air, as an episode and its next tier or as an episode and a
chime; with two disturbances (4.1 million states) the four properties hold. In `DashSetup` three
setups give a key final, an orphan and a pending one at once, and two disturbances a failure in the
undo of a failure, as a dashcam gone after COMMAND 8 and a keychain that refuses the orphan. In `DeviceOwner` four sign-ins let a phone go from one driver to the other and back
twice; two kills cut a handover and then the launch that repairs it; two drives give a restore a page
after a page.

The outbox, `DriveSync`, DashPal and `DeviceOwner` runs say `CHECK_DEADLOCK FALSE`: the outbox's clock
stops at `MaxTime`; a drive whose work is settled, a dashcam with no event left and a phone nobody
signs in to any more have nothing left to do. The `DriveJournal` runs check for deadlock: no
task may be left half done. Only `Over`, the state after the last drive the model has, is allowed to
stay as it is.

Each property has a mutant: an operator beside the one it mutates (`FailedLate`, `UnmarkedAsSeen`,
...), the way a plausible slip in that code would read. With it in place the property fails.

### Fairness

`Settles`, `EverythingSettles`, `CatchesUp`, `SetupEnds`, `Heard` and `HandsOver` need it. In `DriveSync`
(`FairSpec`), the runner's own steps, and a tap once begun, go on (weak): the pass is one `async`
loop. A waiting row comes due and one out of retries is reopened (weak): timers while the app is open,
and a foreground otherwise. `Ask` is strongly fair: a session is there again and again, though any
single round may find none. `Serve`, hearing a decided answer and `Reread` are strongly fair: the network
works now and then, though any request may be lost. These are stated for the upload on one side and the
two actions on the other, not key by key: what it takes is that neither side is for ever passed over.
`Hear \/ Lose` is weakly fair: every request ends. The app sets no time limit on one, so that is an
assumption about the platform (see the hazard at `runner.ts:582`).

In `DriveJournal` all fairness is weak. `Host`: `run` (`host.ts:1693`) never rejects, so the next task
always comes. `Launch`: somebody opens the app again, or iOS relaunches it for a location event.
`NativeEnds`: the safety stop ends every drive, after twelve hours at the latest. Nothing is assumed of
rows, taps or kills.

In `DashEvents` it is weak: the dashcam sends and hears, and the phone connects (the transport's
back-offs), hears, runs its chain and fires its timers (`nextWakeAt` covers each of them). In
`DashAlerts` weak: the dashcam's own deadlines and its noticing of a lost link, the phone's frames,
tick and player. In `DashSetup` weak: the flow's polls and sleeps, the dashcam's minute, and that it
comes back in reach; nothing of the driver, who may leave the screen standing. In `DeviceOwner` weak:
the app is opened again, `rebuild` and the watch go on, a session kept is refreshed and so announced
again, and a request ends; strong for a page of the restore, which gets through now and then.

## 4. Findings

Two have a run in which TLC finds the violation.

1. `setup_undone` (`PairingKept`): a Set up again whose COMMAND 8 was taken but not answered, with the
   dashcam away, then cancelled. The dashcam stores the new record in the old one's place; the phone
   keeps the old key as its pairing and the new one as the orphan (`setup.ts:1165`), or has the dashcam
   forget it (`setup.ts:1157`). Either way the previous pairing no longer works, against `setup.ts:18`
   and `secure.ts:11`. The orphan serves the next setup, unless a further setup is undone before it does
   (`keepOrphan`, `setup.ts:403-405`, has room for one, and writes over the earlier). Beyond that, and
   the keys the last paragraph of this section names, every record's key is on the phone (`NoKeyLost`).
2. `owner_token` (`PostedAsOwner`): a sign-out and a sign-in as another driver while an item of a round
   is on its way. The round goes on and posts the first driver's other items under the second's session
   (`runner.ts:536` and `runner.ts:308` against `queue.ts:30-31` of `src/src/data/sync`). The fence keeps
   the answers out of the second driver's phone, not the drives out of their account, and from there
   they come down with that driver's next restore (`RowsAreOwners` fails too then, with `pass` in
   `Outlives`, three sign-ins and a kill).

Lesser or narrower disagreements, for which no run is kept. Each can be had from TLC with the module,
property and bounds named:

* `CleanAgrees` (`DriveSync`, one tap, no fault): a report accepted while a "Wasn't driving" is pending
  does not write the clean flag; if the mark is then refused, the restored drive keeps the old one
  (`runner.ts:250` against `runner.ts:263` and `runner.ts:469`).
* `RefusalShown` (`DriveSync`, one tap, one kill): killed between `markFailed` and the write of the
  drive, a refused upload stays "pending" for ever (`runner.ts:20` against `runner.ts:496-507`).
* `NoHoles` (`DriveJournal`, one `read` fault): a live row past a gap drains the journal first, but what
  the drain came to is not looked at; after a failed read the row is taken in and `lastSeq` set to its
  seq, so the rows of the gap are never read (`host.ts:2029` and `host.ts:2066` against
  `host.ts:2039-2042`).
* `RecoveryReadsAll` (`DriveJournal`, one `read` fault, two kills): a drive released because its journal
  could not be read is to be taken up at the next launch "where it stopped"; if a newer drive is open
  by then, recovery finalizes the older one from its stored rows alone, and its journal is deleted
  (`host.ts:2175-2176`, `host.ts:2190-2191` against `recovery.ts:36-52`).
* `CancelledStaysGone` (`DriveJournal`, one `drop` fault): a pending cancel whose trip cannot be deleted
  is reported and the launch goes on to recover, store and upload that very trip
  (`bootstrap.ts:416-417` against `bootstrap.ts:418`). One `list` fault does it too (`Early` starting, one
  kill): the launch takes up a drive whose start still waits; if the drive is closed and stored before
  that start is read, and `listDrives` then throws, it is opened again, and a "Not driving?" on it is of
  a trip already stored, which `dropTrip` leaves.
* `CatchesUp` (`DashEvents`, `Failing` with `hello`): a statement of a HELLO's task that throws while
  the session still syncs asks for no replay (`link.ts:820` looks for `resumed`), so no RESUME goes out
  until the next connection (`link.ts:124` means a failed write to be asked again).
* `SyncedDriveComplete` (`DashEvents`, one kill, the exception for drives taken up again removed): an
  event that arrives after a relaunch and before the drive is adopted is filed as of no drive
  (`link.ts:951`), and never claimed, since the drive opened before it (`facts.ts:107`).
* `ChimeHeard` (`DashAlerts`, two alerts, no disturbance): a chime the phone confirmed, waiting behind
  the phone's own tone, is dropped unstarted when another alert's stop or fallback bumps the generation
  (`alerts.ts:282-287`), and leaves the table as if played; `cut`'s comment speaks of "another DashPal
  item in flight" being left alone.
* `NeverSilent` (`DashAlerts`, `excused` removed, a lost write): an ACK(0) whose write fails is not
  written again (`link.ts:1303`); the dashcam's quiet guard covers it only once STATE stops too.
* `RestoredMeansHeld` (`DeviceOwner`, `Outlives` with `record`, `page` or `wipe`): a restore's last
  write is fenced on the owner alone (`restore.ts:330-334`), so it may fall after the same driver's
  sign-out emptied the phone, whose next sign-in then restores nothing.
* `RowsAreOwners` (`DeviceOwner`, `Outlives` with `check`): the watch's check of one sign-in records its
  driver as the owner of an empty phone (`ownerWatch.ts:75`) after another has signed in and begun.
* `MountsTheOwner` (`DeviceOwner`, its exception for `unknown` removed): a launch whose session read
  fails keeps the owner without asking `ownerMayHaveChanged` (`bootstrap.ts:337-343`), against "the next
  launch still knows" (`ownerWatch.ts:81`).
* `NotReopenedAtOnce` (`Outbox`, one key, clock 0..6, two attempts, no set-back): giving up leaves
  `next_attempt_at` at the time the last try was due, and the 24 hours an item that ran out on server
  answers should wait run from there; a last try made a day late is reopened at once (`queue.ts:39`
  against `queue.ts:178`, `queue.ts:225`).
* `RideOwed` (`DriveJournal`, `unqueued` removed, one `ride` fault): the enqueue of a cancelled drive's
  passenger ride throws, is reported, and the trip is dropped and the marker cleared after it
  (`host.ts:1002-1006`; at a launch `host.ts:448`), so that nothing queues the ride any more, against
  "its passenger ride is queued all the same" (`cancel.ts:5-6`).
* `NoKeyLost` and `OneRecord` (`DashSetup`, the key of the second case of `UndoEnds`, or that of
  `Finalizes`, not in `given`; two disturbances, or one): the dashcam stores the new record and is out of
  reach, the undo's `writeOrphan` fails and is swallowed (`setup.ts:403-405`), and the pending key is
  deleted (`setup.ts:1165-1166`; `setup.ts:1091-1092` in a finalize). The record's key is nowhere, and the
  next setup, with nothing to prove it by, adds a second record, against "that record is then replaced,
  not added to" (`setup.ts:1088-1090`).
* `RefusalResolved` (`DriveSync`, one tap, one fault): an undo that throws is swallowed and the item
  refused anyway (`runner.ts:447` against `runner.ts:471`).
* `SecondTrySent` (`DriveSync`, two taps): a second tap between undo and settlement is dropped
  (`queue.ts:125` against `queue.ts:131-140`).
* `NoHoles` (`DriveJournal`, `Early` starting): rows of a drive that began and ended before the host
  attached arrive after boot took up the next drive and advance its `lastSeq`; that drive's own rows up
  to there are then dropped as repeats (`host.ts:2028-2029` against `host.ts:2036-2042`). It takes no
  fault, but two drives within one start-up of JS; `journal_behind`, which checks `NoHoles`, therefore
  has no drive begin so early.

* `NoHoles` (`DriveJournal`, `Early` behind, three drives, two rows, no kill, tap or fault): as the host
  reads the journal of drive 1, which native has ended, the engine closes the drive by its own rules.
  `stopCapture` (`host.ts:1741`) names no drive and ends drive 2, which native has begun since, and an
  end of cause "js" sends no `driveEnded` (`DriveDetectorDrive.swift:189`). The start of drive 2, still
  waiting, then opens a drive that is over, and nothing tells the host so. Native begins drive 3; its
  start is passed over (`host.ts:2096`), and its rows past drive 2's last seq are added to drive 2
  (`host.ts:2026-2028`, "never added to another open trip", against `host.ts:2037-2042`).

What no document speaks of is not a disagreement, but is worth knowing: `stopCapture` and `notDriving`
name no drive, so with `Early` behind and taps a stop or a cancel meant for one drive can end the next
(`JournalKept` fails there, and holds in `journal_faults`, where a drive begins only with the host at
rest). It takes no early drive if two things fail: a store that throws leaves drive 1 recording; native
begins drive 2 and the process dies before the host hears of it; at the launch `listDrives` throws, so
the host goes on with drive 1, native with drive 2, and a "Not driving?" for drive 1 deletes the journal
of drive 2 (`JournalKept` with `MaxFaults = 2`; `journal_faults` has one). With a drive that begins while
the host starts, one thing is enough. A `dropTrip` that throws leaves the cancelled drive to be recovered
and held while native records the next one, which a second cancel then deletes. A `listDrives` that
throws at a late start opens a drive again that was closed and its journal deleted. Either failure can
also leave native recording a drive that the host does not hold (`NothingUnheld`).

In `DashSetup`, a COMMAND 8 taken though its write failed leaves a record whose key is deleted; an
answer more than two seconds late, a death between commit and finalize, and a reinstall over an orphan
do the same, and so does an orphan the keychain refuses, above; `NoKeyLost` names them in `given`. With three disturbances there is one more: an undo
keeps its key as the orphan over an earlier orphan whose record the dashcam still stores
(`setup.ts:1165`); `given` names that too. With `Settled` false a second setup can prove the wrong of
two keys and leave a second record.

## 5. Proofs

Seven modules of proofs, one beside each module they are about, and `Extremes`, which three of them cite. A theorem holds for every value of the
constants that satisfies the `ASSUME`s of its module and, where the table names one, its own assumption.

| Module | Theorem | States | Assumes |
| --- | --- | --- | --- |
| `OutboxProofs` | `TypeCorrect` | `Spec => []TypeOK` | |
| | `LadderHolds` | `Spec => []LadderInv` | |
| | `ClaimsHold` | `Spec => []HeldIsInflight` | |
| | `FarAheadMeansSetBack` | `Spec => []AheadOnlyAfterSetBack` | |
| | `KeepsPromise` | `Spec => KeepsItsPromise`, the refinement of `Delivery` | |
| `DeviceOwnerProofs` | `TypeCorrect` | `Spec => []TypeOK` | |
| | `OwnersRows` | `Spec => []RowsAreOwners` | `Prompt` |
| | `OwnersPosts` | `Spec => []PostedAsOwner` | `Prompt` |
| | `MountsOwners` | `Spec => MountsTheOwner`, an action property | |
| | `RestoredHeld` | `Spec => []RestoredMeansHeld` | `Outlives = {}` |
| `DriveSyncProofs` | `TypeCorrect` | `Spec => []TypeOK` | |
| | `NotFlattered` | `Spec => []NeverFlattered` | |
| | `MarkKept` | `Spec => []ServerMarkKept` | |
| | `UndoneHeld` | `Spec => UndoneOnlyIfHeld`, an action property | |
| | `KeepsPromise` | `Spec => KeepsItsPromise`, the refinement of `Delivery` | |
| | `ReportSettled` | `Spec => []ReportAgrees` | `MaxFaults = 0` |
| `DashAlertsProofs` | `TypeCorrect` | `Spec => []TypeOK` | |
| | `NeverBoth` | `Spec => []OneVoice` | |
| | `NeverNeither` | `Spec => []NeverSilent` | |
| `DashEventsProofs` | `TypeCorrect` | `Spec => []TypeOK` | |
| | `CursorIsHonest` | `Spec => []CursorHonest` | |
| | `DrivesComplete` | `Spec => []SyncedDriveComplete` | |
| `DashSetupProofs` | `TypeCorrect` | `Spec => []TypeOK` | |
| | `KeysKept` | `Spec => []NoKeyLost` | `Settled` |
| | `TakesOnePlace` | `Spec => []OneRecord` | `Settled` |
| | `DoneIsPaired` | `Spec => DonePaired`, an action property | |
| `DriveJournalProofs` | `TypeCorrect` | `Spec => []TypeOK` | |
| | `StoredStays` | `Spec => StoredForGood`, an action property | |
| | `RideIsOwed` | `Spec => []RideOwed` | |
| | `CancelledStay` | `Spec => []CancelledStaysGone` | `Told` |
| | `JournalsKept` | `Spec => []JournalKept` | `Steady` |
| | `NoneUnheld` | `Spec => []NothingUnheld` | `Steady` |

### What they assume

Of the constants in general: bounds are numbers. In `DashEvents` the boot ids a dashcam may draw are
numbers, and there is one at least. In `Outbox`: sizes and delays are numbers, the waits of
a release are at most `MaxDelay` (`runner.ts:68-72` against `queue.ts:18`), no time the queue can write
reaches `Never` (`REFUSED_NEVER` is 2^53 - 1), and 2^n is a number, which the provers do not know.

The assumptions of single theorems are each needed, for every property the table has them at and for
each fault and each member of `Outlives` and `Early` they exclude: lifted, TLC finds the property violated. What they leave out
is listed in section 4.

* `Prompt` (`DeviceOwner`): neither a round of the runner nor a check of the watch outlives the session
  it began under. The code does not see to it; it is what the seconds of a sign-in usually give. The
  sign-out's wipe and the restore's page and record may outlive theirs and both properties hold all the
  same: each of them asks, in its own transaction, whose the phone is.
* `Outlives = {}`: for `RestoredMeansHeld` those must be over as well.
* `MaxFaults = 0` (`DriveSync`): an undo that throws is swallowed (`runner.ts:471`), and phone and server
  then disagree about the report for good.
* `Settled` (`DashSetup`): a driver who finds two keys on the phone starts no new setup before the
  auto-connect has shown which of them the dashcam holds. The screen offers the setup at once; the
  auto-connect takes seconds when the dashcam is near.
* `Told` (`DriveJournal`): neither `listDrives` nor `dropTrip` throws. The first is a directory read, the
  second one statement of SQLite; reads of a journal, checkpoints and the store of a drive may fail as
  often as they like, and the process may die anywhere.
* `Steady` (`DriveJournal`): `Told`, and no drive begins while the host is at work with its queue. One may
  begin before the host is there ("starting"), which is when a relaunch finds a drive under way. The code
  does not see to it: `stopCapture` and `notDriving` name no drive (section 4).

### The arguments

`Outbox`. `IInv` adds to the properties: the clock is at most its peak; each row is `Sound` (a waiting
row is at most `MaxDelay` past the peak; `Never` marks only failed rows; a failed row is out of rungs,
refused, or parked); what is held is in flight with a claim; and what `closing` still has to write lies
at most `MaxDelay` past the peak and names a row the pass has already closed. `Sound` is stated once per
row and shown once per row operator, so the step for each action only says which rows it rewrites and by
which operator. `KeepsPromise` then maps each action to a move of `Delivery` or a stutter: reclaiming,
backing off, giving up and reopening leave a key owed; only `MarkFailed` refuses; only `Succeed`
delivers; and `WipeDevice` is `Empty`.

`DeviceOwner`. The properties speak of one moment, but what is written was read several awaits before.
`Turns` says who may be signed in while each thing begun under a session is under way, and stands by
itself. `Ownership` stands on it: rows, uploads owed, the items in a round, the page of a restore and
the server's accounts are each their driver's; and what a check or a launch has found of the owner is
still so when it acts on it. For `RestoredMeansHeld`, `RestoreInv` says for each step of a restore down
to which drive the phone holds them all; `WorkInv` (what is owed, or in a round, is on the phone) and
`RestoreOwner` keep that so while drives come, go up and are taken off, and the phone changes hands.
`MountsTheOwner` needs only that a launch that goes on
as nobody's has nobody signed in (`Named`). That a page of the newest drives has one on it, if any is
left, is `Extremes`.

`DriveSync`. `SyncInv` says that what the pass holds is claimed, by nobody else (`InHand`); that nothing
is owed of a drive still recorded (`Begun`); that what the phone says of the drive the server said
(`Told`); how far the item under way got tells what the server answered and holds (`Rests`, and
`AnswerHolds` for the answer itself); and that a mark the server has is owed or shown (`MarkHeld`).
`ReportInv` ties the event to its report's row, the item between undo and settlement included. The
refinement maps each of the runner's transactions to a move of `Delivery` or a stutter.

`DashAlerts`. Both properties are about two sides and the frames between them. The first layer says of
every routed ALERT on the air, and of everything that sounds, that the dashcam has left it to the phone
or that its end is behind it (`Voice`). It needs what the sessions agree on (`LinkInv`), that ids on the
air have been made (`Fresh`), and that the ALERT of a one-shot is on the air at most once, and only
unanswered (`ShotOnce`): else an ALERT could start what has already been given up. A step of the dashcam
is taken in two: it moves as `CamMoves` says, and whatever moves so keeps each part. The second layer
carries a confirm from the moment it is written, not only once it is heard (`Carried`): the phone sounds
the alert or what opens the buzzer is there. It needs that what sounds is confirmed (`TableInv`), that
no end is on the air of what is routed (`EndInv`), and that word of the phone being unable to play is
the last that the dashcam will hear (`ToldInv`). Both layers were checked by TLC with two alerts and two
disturbances before they were proved.

`DashEvents`. What the cursor acknowledges, and what a drive has claimed, depends on every frame, task
and row between the dashcam and the table, so the invariant follows an event on its way. What a frame
says is so of the dashcam (`Flying`); what a task was told is so of its boot (`Waiting`), in the order it
was said (`InOrder`, `InFront`). `Filing` says which boot a key stands for; `Newest` and `AtHand` why a
boot that drew an id again is told apart from the earlier one, by the time of each statement; `Floors`,
that what lies below a floor has left the ring or was given up by the prune; `Happened`, that what
happened in a drive reaches its row as such. `CursorHonest` is inductive on these. `Owes` says that what a
drive stamped as synced is owed is stored, and claimed once the drive is over, and from it
`SyncedDriveComplete` follows. TLC checked the conjunction before it was proved (2.3 million states).

`DashSetup`. What holds of every setup: what the flow's point and stage say of the keys (`Course`), that
a session is under the setup's key (`Link`), that keys are made one after the other (`Fresh`), and that
the dashcam's yes to COMMAND 8 is said and heard only of a stored key (`Stored`). `DoneIsPaired` needs no
more. Under `Settled` three more carry `NoKeyLost` and `OneRecord`: whose record each place of the dashcam
holds, and which of them the next commit replaces (`Accounted`); when the setup's key may be stored
though the phone has not heard so (`Doubt`); and that no answer to COMMAND 8 comes late but for a key
given up (`Prompt`), which is what lets the setup take an answer for its own. A key the keychain would
not keep is given up in the step that loses it, so all three speak of the others.

`DriveJournal`. For `StoredForGood`, each write of the table of trips is shown to leave stored ones alone.
Two of them do not ask: the recovery drops a trip without rows and closes an orphan. They need
`TodoOpen`, that what a recovery has still to look at is recording; that it looks at one of these at all
is `Extremes` again. For `RideOwed`, `RideInv` says where in a task the marker may stand for a ride not
yet queued: in a process that is down or has yet to look at it, and between the marker and the ride of
one cancel; an enqueue that throws ends that stretch like one that does not, with its drive in
`unqueued`. A second cancel begins in none of these, so the marker it writes over stands for nothing
owed.

`TypeCorrect` needs more than types: which seqs a file has and has skipped, or `top` would pass `MaxSeq`
(`Files`); which drive the engine and the host hold at each `job.pc`, and which tasks a launch runs
(`Control`); and that a live row that waits is one. `Knows` adds what is so whenever native, queue and
host are looked at together: whatever is named anywhere has begun (`BegunInv`); what waits is still true as
it is taken (`Waiting`); a launch takes each drive up once, and none that is open or recorded
(`Launching`); the host believes that native captures while what it holds is recorded (`Capture`); and a
journal to be discarded is of no drive open or yet to be taken up (`Discards`).

On these `CancelInv` follows a cancelled drive: until native has been told the marker stands for its
journal, and until the trip is dropped for its trip (`Gone`); it is not open, not unfinalized and in no
launch's hands (`Spared`); and a start that still waits for the host cannot open a drive a second time,
as that drive is not yet stored or has its journal among those to go (`Again`). For the last two theorems
`Sync` says where the host stands to a drive native records (it holds it, has its start in the queue with
nothing before it that would let it pass, has yet to launch, or is about to stop or cancel it), so that
what a cancel has native forget is the drive it is for. `KeptInv` says that what is stored, to be
discarded or unfinalized has been judged (`Judged`), that what is open or to be taken up has its journal
(`Keeping`), and that a marker is of a cancelled drive. Each part was checked by TLC before it was proved.
One step of the model, `BootContinues`, is shown never to be taken under `Told`: it takes a launch that
could not list the journals.

What the proofs found in the models, put right against the code:

* `Decide`'s cases overlapped for a phone with no owner and nobody signed in (`DeviceOwner`), and so did
  two in `BootKey` and `CamHears` (`DashEvents`): TLC takes the first that applies, the logic does not;
* a tick acknowledged over a link that was gone (`DashAlerts`);
* a host that holds no drive would have taken an event of no drive for its own (`host.ts:2111` asks for
  null first);
* a replay cap as large as `Uncapped` would have meant none;
* `PostedAsOwner` turned out to be what `RowsAreOwners` stands on, through the restore;
* `NoKeyLost` failed for an orphan that a second undo writes over (section 4), which takes one
  disturbance more than the run has;
* what may be on the air at once was given too narrowly in `DashSetup` (to the phone) and in
  `DashEvents` (to the dashcam, after several wipes).

### What stays with TLC

* Liveness (`Settles`, `EverythingSettles`, `CatchesUp`, `SetupEnds`, `Heard`, `HandsOver`): beyond the
  prover.
* `DriveAgrees`: it holds with one tap, no kill and no fault, and not beyond, so there is no general
  theorem to state.
* Of `DriveJournal`, `NoHoles` and `NothingUnread`: they hold under limits on `Early`, the faults and the
  number of drives only (sections 2 and 4), and would need the order of the rows that wait in the inbox.
  With `Early` empty and any fault but `read` TLC finds `NoHoles` to hold (two drives, two kills, a tap
  and a fault, 4.3 million states), which is what a theorem would assume.

## 6. Not modelled, and the plan

In this order:

1. More of `DriveJournalProofs`: `NoHoles`, then `NothingUnread`. `Control` says which drive `engine` and
   `live` hold; what is missing is which drive's rows may wait in the inbox, and in which order.
2. Further modules, each one more run: the Start card and the drive's life over sign-outs, `EndRules`
   (when the engine ends a drive against native's safety stop), `DetectPolicy` (the detection
   automaton), `LimitTiles` and `PushSender` (small automata with fetches in flight).

Left out of the modelled parts, beside what section 2 names: time sync with the dashcam and the
coverage counted from it, the live view, the transport's queue of writes and its back-offs, App Attest,
the sign-out's budgets, the foreground jobs, and in the host the Start card, Android's capture, breaks,
weather and display.

Left out for good: scoring formulas (reals), payload schemas, attestation's cryptography, the native
ports (held to the TypeScript by shared vectors), screens, web, scripts.
