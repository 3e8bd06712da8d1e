# Equipment status board: a TLA+ model

This directory keeps TLA+ models of the equipment status board (ESB): a Flask
application of a makerspace in which people report broken equipment, technicians
work on repair records, members reserve equipment, Slack and a static web page
tell everybody, and the machine access controller (MAC) locks and unlocks the
machines. `PROJECT.json` lists, for every definition, the source lines it stands for.

## 1. The system

Three kinds of process share one MariaDB database and nothing else:

* the **web application** (gunicorn workers: pages, forms, MAC webhooks), which also
  holds the **Slack client** (Socket Mode: commands and modals, one thread each);
* the **worker** (`flask worker run`): one process that drains
  `pending_notifications`, refreshes the cache of machine states, and publishes;
* outside: Slack, the MAC server, the storage that serves the static pages.

A request runs in one database session. All its reads up to a commit come from one
snapshot (REPEATABLE READ, the default, which `esb/config.py` does not change), it
locks nothing except in reservations, and MariaDB 12.2 (pinned in
`docker-compose.yml`, `innodb_snapshot_isolation` on by default) refuses an update of
a row that was changed since that snapshot. Every commit is followed by further
commits for what it announces.

### 1.1 Components

| component | state | operations | interacts with | what makes it correct |
|---|---|---|---|---|
| Repair records (`repair_service`, `views/repairs`, `slack/handlers`) | `repair_records`, timeline, audit log | create, edit, claim, resolve, set status or ETA, note, photo | queues notifications after each commit; its open records decide equipment status and unlocking | links only on duplicates and only to the same equipment; history tells what was replaced; closed stays closed for those who check; a machine is unlocked when its last repair is closed, and only then |
| Notification queue and worker (`notification_service`) | `pending_notifications`, heartbeat, `worker_last_iteration` | queue, poll, deliver, mark, back off, give up, refreshes | everything queues; delivers to Slack, static pages, MAC | nothing is lost, bounded retries, repeated only in doubt, always settled in the end |
| Machine access control (`mac_service`, `views/webhooks`, control buttons) | MAC's oops and lockout flags; `machine_status`, `machine_activity_events` | webhook, poll, reconcile, prune, control, clear, automatic repair on oops | creates repairs; is unlocked by the worker | a machine with an open repair is not unlocked by it; one repair for one oops; the cache converges to MAC's state |
| Equipment status (`status_service`) | none, derived | derive, sort, dashboards, dot | reads repairs | the worst open repair decides; every view tells the same |
| Reservations (`reservation_service`, `reservation_policy`, `reservation_read_service`, views, Slack) | `reservations`, per-equipment settings | create, admin create / replace / cancel, cancel, confirm an override | locks the equipment row; queues DMs and page refreshes | active reservations never overlap unless overridden; limits hold at commit; canceled stays canceled; what was confirmed is what is stored |
| Static pages (`static_page_service`) | the published pages | generate and push, hourly refresh | driven by the queue | the page in the end shows the database |
| Equipment registry (`equipment_service`, `models/equipment`) | areas, equipment, documents, links, notes | create, update, archive, settings | everything refers to it | names and machine names unique; what is archived stays as it is |
| Uploads (`upload_service`) | files and `documents` rows | save, delete | repairs, equipment | file and row agree |
| Slack client (`esb/slack/__init__`) | init flag, socket connection | init, connect, shutdown | handlers call the services | connects once per serving process |
| Accounts (`user_service`, `auth_service`, `views/admin`) | `users`, the session cookie | create, change role or handle, reset and change a password, seed an administrator, login | Slack delivers temporary passwords, else the cookie does | a password is changed only by who knows it; a temporary password is displayed once, to who asked for it |
| Settings (`config_service`) | `app_config` | get, set | `notify_*` switches; the guide shows one | the log tells what was replaced |
| Documentation (`docs_service`) | cached pages and version, per process | render, drop the cache | shows a setting | a page does not show an old setting for ever |
| QR codes, metrics, forms, filters | none | render | | pure output |

### 1.2 What is hard here

* Two requests that overlap: decisions on a snapshot, writes later.
* What follows a commit is in other transactions: a process may die in between.
* The worker talks to systems that answer late, twice or not at all, and may be
  killed between an effect and its record.
* Webhooks and polls report the same machine in any order.
* Reservations are checked under a row lock, but through a snapshot and an identity map.
* Long sequences of small legal edits (duplicate, reopen, relink, archive).

The list, line by line, is under `hazards` in `PROJECT.json`.

## 2. Plan

The order is that of importance: first what several actors can get wrong together.

| # | module | models | status |
|---|---|---|---|
| 1 | `RepairRules`, `RepairLifecycle` | the rules of one record; overlapping requests on all of them | modelled, checked, proved |
| 2 | `NotificationQueue` implementing `NotificationDelivery` | the queue and the worker that drains it, and what they promise | modelled, checked, safety of the refinement proved |
| 3 | `MachineLoop` | composition: MAC, webhooks, closings, the `mac_clear` rows of the queue, the worker | modelled, checked, safety proved |
| 4 | `MachineStatusCache` | the cache of machine states and its two writers | modelled, checked, safety proved |
| 5 | `ReservationRules`, `Reservations` implementing `ReservationCalendar` | the policy; requests with snapshots and row locks; what the calendar promises | modelled, checked, refinement and invariants proved |
| 6 | `StatusDerivation`, `PublicStatus` | what every view derives from the tables; the operations that change them and what they tell the published pages | modelled, checked, proved |
| 7 | `PageChanges`, `StaticPages` | the pushes: queue, worker, storage, CDN; do the pages follow | modelled, checked, safety proved |
| 8 | `Requests`, `EquipmentRegistry`, `Attachments`, `Accounts`, `SiteSettings`, composed by `Administration` | the overlapping requests of the administration | modelled, checked, proved |
| 9 | `Sublists`, `Sublists_proofs` | lists cut out of lists, which 6 and 7 share, and what they keep | proved |
| 10 | `MachineAccess_proofs`, `PublicStatus_proofs`, `StaticPages_proofs`, `Administration_proofs` | the safety of 3 and 4, 6, 7 and 8 without bounds | proved |

Composition: `RepairLifecycle` and `NotificationQueue` meet in the table
`pending_notifications` (`outbox` of the one, the rows of the other). Their product is too
large for TLC, and most of it is independent; `MachineLoop` composes what is not, with
repairs that are only open or closed and rows that are only `mac_clear`.
`Reservations` likewise ends at its commit. `PublicStatus` and `StaticPages` meet in
`PageChanges`, the kinds of changes there are: `PublicStatus` shows that every operation is of
one of these kinds (`ChangesAreTold`), `StaticPages` follows changes of any of these kinds. So the second
may forget what the tables say, and the first what becomes of a push.

Abstract specifications: `NotificationDelivery` and `ReservationCalendar`.

## 3. Modules and code

Every definition names its lines in `PROJECT.json`. Definitions whose comment starts with
`Mutant:` are not part of a model: they stand just before the definition they are a broken
form of, and each property is refuted when one of them takes its place.

### 3.1 `RepairRules`, `RepairLifecycle`

`RepairRules` has what `update_repair_record` does with one record: which
changes are accepted (the duplicate link in particular), which columns are written, that
the link is cleared silently when the status changes away from the duplicate, what follows
(timeline, Slack, page, `mac_clear` check) and in which order. `RepairLifecycle` has the
requests. `repair` is the table; `outbox` counts the rows queued; per thread, `plan` holds
what the request decided from its snapshot, and `todo` what it still has to queue.

| action | code |
|---|---|
| `BeginCreate`, `BeginEdit`, `BeginSet`, `BeginClaim`, `BeginResolve` | the view or Slack handler and the service up to the commit: reads, validation, the decision |
| `CommitCreate`, `CommitUpdate` | `db.session.commit()` |
| `Conflict` | the same, refused by the database because the row is newer than the snapshot |
| `CheckUnlock`, `QueueItem` | `_maybe_queue_mac_clear` and each `queue_notification`, in the order of the code, each its own transaction |
| `ThenSetStatus` | the Slack creation handler, which then updates the record it created |
| `Crash` | the process dies, or a later transaction raises |

`unlockDue` and `cutOff` are history: the machines a closing made due for
unlocking, and those whose request died before it queued that.

### 3.2 `NotificationQueue`, `NotificationDelivery`

The variables are the columns of `pending_notifications` (`waiting`: the
`next_retry_at` is still to come), and the memory of `run_worker_loop`: the batch, the
row in hand, the shutdown flag, and `wedged`, a session in which a statement failed and
nobody called `rollback`. A call (`Process`) works, fails, or has its effect and fails; then
`Mark` commits the outcome. A signal, a kill or a database error may come between any two
steps. `NotificationDelivery` has only: owed, sent, delivered or abandoned.

### 3.3 `MachineLoop`

A press of oops is an `event` that MAC delivers until it is answered. A handler
records it (`Receive`), looks for an open repair (`Guard`), creates one (`CreateRepair`) and
answers, in transactions of their own; `Close`, `Check` and `QueueClear` are the other
end, and `Take`, `ClearOops`, `ClearLockout`, `MarkDelivered` the worker's delivery.

`repaired`, `due`, `lost` and `overtaken` are history. A closing, or the row it queued, is `overtaken`
once a repair of its machine is opened after it. The comment in the code promises more than the code keeps
(`NotUnlockedWhileOpen`, section 5); `UnlockedOnlyAsDecided` is what it does keep: at each call of
the worker that unlocks a machine, it has no open repair unless one was opened since the closing. And
`DueIsUnderWay` is why a machine is unlocked in the end: as long as it is due, some closing, row or press of oops
will see to it.

### 3.4 `MachineStatusCache`

An upsert is a `SELECT` (`ReadRow`) and later an `INSERT` or `UPDATE`, which the database
may refuse. After a lost `INSERT` it rolls back and selects again (`RereadRow`), with `scalar_one`: if whoever
won has lost the row to a reconciliation by then, this raises, and the upsert ends in an error that MAC's next
post or the next refresh makes good. A row that says the same already is updated as well, because
`_apply_status_fields` assigns times with a zone to columns without one, which SQLAlchemy takes for a
difference; so such an upsert too can be refused and wedge the session. The refresh is a fetch, upserts in any order, and the
deletion of orphans. `wedged` is as above. Activity rows and pruning are left out.

That the cache becomes right in the end (`CacheConverges`) leaves open when, and whether it stays so.
`CarriesMac` says that nothing outdated is under way: webhooks, upserts and the refresh all have what MAC
says now. `undisturbed` is history: it has been so since the last fetch. `AgreementStays` says that then
no step makes a right row wrong, `RefreshCompletes` that a refresh which is undisturbed and not refused leaves all
rows right, whatever was in the table, and whatever webhooks wrote beside it. Without `CarriesMac` both are false: an old
webhook or fetch may be written last, until the next refresh.

### 3.5 `ReservationRules`, `Reservations`, `ReservationCalendar`

`ReservationRules` is `reservation_policy.py`: the set of codes a request breaks.
In `Reservations` a request goes through its locks: `original` and `joined` (the row
of `_get_reservation(for_update=True)` and, through the join, its equipment), `equipment`
(with its settings), `conflicts`, `commit`.

| action | code |
|---|---|
| `BeginSlack`, `BeginAdmin`, `BeginCancel` | the handler or view; for staff, the preview on the snapshot, which must show what was confirmed |
| `LockOriginal`, `LockJoined`, `LockEquipment` | `_get_reservation`, `_get_equipment` with `FOR UPDATE` |
| `LockConflicts` | the locking search for conflicts and the decision |
| `CommitBooking`, `CommitCancel` | `persist_reservation` and the cancellation, up to the commit |
| `Refused`, `DeadlockBroken`, `Fails` | errors 1020 and 1213, and any other exception or death |
| `SaveSettings`, `Archive` | the equipment pages |

A request that loses a race is refused by the database (1020) before the code's own
re-check could see the new reservation: the person reads "unexpected error" rather than that the
slot is taken. With `innodb_snapshot_isolation` off the re-check would see it, because it is a
locking read; the equipment and the original would then be old objects of the identity map.

### 3.6 `StatusDerivation`, `PublicStatus`

`StatusDerivation` has the views as functions of the tables: the open records of a piece of equipment
(`OpenRecords`), the worst of them (`WorstRecord`), the dot (`Derived`), the list of the dashboard
(`WorstFirst`), the dashboard, kiosks, equipment page, repair queue and the two published pages. Each
view is written after its own code (one prefetches all records, one queries per
machine, one sorts with another priority for unknown severities), and `ViewsAgree`,
`DotAndListAgree` and `QueueLeadsWithStatus` relate them. `DotAndListAgree` states what the docstring of
`_open_records_sort_key` promises with the one exception the code has: a
record without a severity sorts with "Not Sure" and may lead the list by age, while the status
describes the "Not Sure"; the colours agree all the same.

The lists that the code cuts out of other lists (the records of one machine, the rows that are due) are
`Only` of `Sublists`. It is `SelectSeq` written with a recursive function, because the
operator of the standard module is one that nothing can be proved about.

`PublicStatus` has the operations on these tables, one transaction each, and `told`, the pages the
operation queues a push for. That edits of areas and equipment do not push the status page is a kind of change of
its own (`OtherEdits`), not an oversight of the model.

### 3.7 `PageChanges`, `StaticPages`

Changes are numbered; a page is known by the last change the tables had when it was generated.
`todo` are pushes between the commit of a change and `queue_notification`, `rows` the queue.

| action | code |
|---|---|
| `Change`, `QueuePush`, `PushNotQueued` | the commit of a service, the push in a transaction of its own, its loss |
| `Poll`, `Generate` | the poll opens a snapshot (`session`), which the generation of the first page reuses |
| `OpenFile`, `WriteFile`; `PutObject`, `Purge` | `_push_local`, which empties the file first; `_push_s3` / `_push_gcs` and the CloudFront invalidation |
| `MarkDelivered`, `MarkFailed` | the outcome; after each, the log reads the row and opens the next snapshot |
| `Refresh`, `Idle` | the end of an iteration, with or without the hourly push; `Refresh` leaves a transaction open (`LeaveOpen`), which the next poll sees through |
| `EdgeFetches` | a viewer makes the CDN fetch a page |

How often a row is retried is left to `NotificationQueue`: `MarkFailed` chooses.

### 3.8 `Requests`, `EquipmentRegistry`, `Attachments`, `Accounts`, `SiteSettings`, `Administration`

`Requests` is what they share: a thread's `request` holds what it decided on its snapshot,
`changed` the columns others wrote since; `Unchanged(t, row)` is the database's condition for writing a row. The
pages fall into three *desks* which share no table (registry, accounts, settings), and a behaviour of
`Administration` stays at one of them: two requests at different desks have nothing to race for, and
TLC explores three small products instead of a large one.

| module | actions |
|---|---|
| `EquipmentRegistry` | create, edit, archive areas and equipment: a check on the snapshot, then `Commit...`, where only the name of an area has a constraint behind it |
| `Attachments` | links, notes, documents, photos: `SaveFile` then `InsertDocument`; `RemoveFile` then `DeleteDocumentRow`; deaths in between (`AttachmentAbort`) |
| `Accounts` | `CommitPassword` then `Deliver` then `Respond`; an error ends in `RespondError`, whose page is a response too, a death or a lost response in `AccountAbort`; the cookie is written by *every* response, because `enforce_permanent_session` (`esb/__init__.py`) marks the session changed before each request |
| `SiteSettings` | the form saves its keys one by one (`CommitKey`; or `InsertRefused`, then `CommitKey` or `KeepKey`), then `FinishSave` drops the guide; a page is rendered into the dictionary it found |

`raced`, `cutOff`, `tangled`, `lost` and `excuses` are history: the pairs of names saved by
overlapping requests, the files whose request died, the browsers that did two things at once, the temporary
passwords a page had taken when it failed, and why the guide may be out of date. The properties say that nothing goes wrong except in these cases:

* `SharedMachineNameMeansOverlap`: "may be linked to only one" (`docs/staff.md`) holds unless two
  forms overlap, because the check is a query. Neither row can be edited afterwards without another machine name.
* `OneTabShowsEachPasswordOnce`: "displayed on screen one time" (`docs/staff.md`) holds for a browser that
  does one thing at a time, or the password is lost: `user_created` pops it before it reads the user, and if
  that fails the page of the 500 handler brings the browser a cookie without it. The property says that this is
  the only way to lose one, and that it ends there. Two tabs may lose a password, show it twice, or on another
  user's page.
* `SettingsLogTellsOldValue`: the old value logged is the one replaced, also by who loses the insert of a new key
  and reads again. Of `wifi_password` the log tells only whether there was one, as the view
  read it before it called `set_config`; after a lost insert it therefore says that there was none.
* `ArchivedStaysAsItIs`: requests under way when something is archived may still add to it.
* `GuideOutOfDateOnlyExcused`: the three cases in which the guide keeps an old value until the next save.

## 4. Runs

| run | bounds | shows |
|---|---|---|
| `repair_lifecycle` | 2 records on 1 or 2 machines, 3 requests of which 2 overlap, 1 crash | `LinksStaySettled`, `UnlockNeverForgotten`: no interleaving leaves a link on a record that is not a duplicate, or drops an unlocking without a crash; `AuditTellsOldValues`, `ClosedNeverClaimed`: the decision taken on the snapshot still fits the row it is written to |
| `duplicate_of_closed` | 2 records, 2 requests | violation of `DuplicateOfAnOpenRepair` |
| `notification_worker` | 2 rows, a batch of 1, 2 retries, 2 stops, 1 database error | `CallsBounded`, `SentOnceUnlessDoubtful`, and the refinement `ImplementsDelivery` with liveness |
| `machine_loop` | 1 machine, 1 event, 1 handler, 2 closings, 2 failures | `AnsweredMeansRepaired`, `UnlockedOnlyAsDecided`, `DueIsUnderWay`; `OopsBringsRepair`, `DueIsUnlocked` |
| `unlocked_while_open`, `oops_repaired_twice` | the same with 2 handlers and 1 closer | violations of `NotUnlockedWhileOpen` and `OopsRepairsOnlyOnce` |
| `machine_cache` | 2 machines, 1 handler, 2 changes, 1 failure | `AgreementStays`, `RefreshCompletes`; `CacheConverges` |
| `refresh_self_contained` | the same without failures | violation of `RefreshIsSelfContained` |
| `reservations` | 1 machine, 2 requests, 2 reservations of the same or adjacent slots, 1 change, 1 tick | `OverlapsWereOverridden`, `ReplacedOnce`, `CheckedStaysTrue`, `DeadlocksMixOrders`, the refinement `ImplementsCalendar`, and `RequestsEnd` |
| `public_status` | 2 machines, 2 areas, 3 records, 1 reservation, 3 changes | `DotAndListAgree`, `ViewsAgree`, `QueueLeadsWithStatus`; `ChangesAreTold` |
| `static_pages` | 2 changes of any kind, 2 faults, a directory or a bucket behind a CDN | `BehindIsOwed`, `DeliveredMeansServed`, `ViewersNeverGoBack`; `StatusPageFollows` and `ReservationPageHeals` |
| `administration` | 2 threads; 4 requests at the registry, 4 at the accounts, 3 at the settings; 1 restart | `SharedMachineNameMeansOverlap`, `FilesMatchRows`, `OneTabShowsEachPasswordOnce`, `GuideOutOfDateOnlyExcused`; `ArchivedStaysAsItIs`, `PasswordChangeIsProved`, `SettingsLogTellsOldValue` |

Why the bounds are enough: the races are between two requests, or a request and the worker,
on one row; a third actor adds nothing that two cannot do one after the other, which the
number of requests allows. Two records are what a duplicate needs. A batch of one with two
rows makes a row wait behind the retries of another; two retries distinguish the last from the
others. Two stops put a crash into the recovery from a signal. Two reservations are the
one in the way, or to be replaced, and the one being booked; the bound
on them is in the guard `Room`, before a request starts, so that no request is cut short by it.
Three records of two machines and three changes are a record without a severity, an older and a younger one.
Two changes let the second overtake the push of the first, and two faults lose both the push and its retry.
Four requests (`MaxRequests`) at a desk are a preparation, two that overlap, and one that looks at the result; the settings
need a save, a rendering and one more. The bound is in the guard of `Begin`, so nothing is cut short.
The proofs of section 6 do not depend on bounds. The type invariants of `MachineLoop`, `MachineStatusCache`,
`PublicStatus`, `StaticPages` and `Administration` are proved there and not run.

All runs switch the check for deadlocks off: their systems stop when the bounds are used up. That
nothing waits for ever is a property instead (`RequestsEnd`, `DueIsUnlocked`,
`OopsBringsRepair`, `CacheConverges`, `StatusPageFollows`, `Settled` in `NotificationDelivery`).

`SYMMETRY` is used only in runs without liveness.

### 4.1 Fairness

* The worker is a supervised process (`restart: unless-stopped`, autoheal on an old
  heartbeat), so its steps, a restart among them, are weakly fair; `BackoffPasses` is the clock.
  Signals, crashes and errors have no fairness and are bounded.
* Requests go on or fail: weakly fair. MAC repeats a webhook until 204
  (`views/webhooks.py`): part of `HandlerStep`.
* A request that waits for a row lock is granted it in the order of the lock queue. While others come
  and go, the lock is free again and again, so the steps of a request are strongly
  fair (`SF_vars(Step(q))`); a deadlock is detected, so `DeadlockBroken` is weakly fair.
* In `StaticPages`, `QueuePush` (a request goes on), `WorkerStep` and `BackoffPasses` are weakly fair. `Refresh` is
  strongly fair: at the end of an iteration it happens when an hour has passed or the worker has just
  been started, and an hour passes again and again; `Idle` is the end of the other iterations. `MarkFailed` and
  `WorkerDies` have no fairness and are bounded by `MaxFaults`.
* Nobody is obliged to close a repair, report, reserve or press a button.

## 5. What the runs found

`findings` in `PROJECT.json` quotes the lines:

1. a repair can be closed as a duplicate of a closed one, and the machine stays locked with no
   open repair (`duplicate_of_closed`);
2. a queued `mac_clear` is delivered without a second look: a machine may be unlocked with
   an open repair (`unlocked_while_open`);
3. the automatic repair on oops can be created twice (`oops_repaired_twice`);
4. a refused update in the refresh leaves the worker's session unusable, so that the next polls
   fail until a restart (`refresh_self_contained`).

## 6. Proofs

TLAPS checks the following for every value of the constants that satisfies the `ASSUME` of the module.

**`RepairLifecycle_proofs`**: `TypeCorrect`, `LinksSettled`, `UnlockOwed`, `AuditTells`,
`NeverClaimedClosed`. The invariants are not inductive: a commit writes what was decided
earlier. `IInv` adds `PlansTyped`, `DecisionsSound` (a plan that is not stale was taken on the
row as it is now, and its write, added to it, keeps the link sound) and `DueHaveNoOpenRepair`.
Every step on another thread's row makes the plans on it stale; with that, each commit
finds the row its decision was about, which is also the argument for the two action properties.

**`NotificationQueue_proofs`**: `TypeCorrect`, `CallsAreBounded`, `SentOnce` and `Refines` (the
safety part of the refinement). `IInv` adds `CurrentOK` (the row in hand is pending),
`RetriesOK` (retries and status), `CallsOK` (calls are recorded failures, lost outcomes, the
one in hand, and the delivery) and `SendingsOK` likewise for effects. `Refines` maps every
action to a step of `NotificationDelivery` or a stutter; only `Mark` and `MarkError` settle a
row, and `SendingsOK` gives that what is marked delivered was sent.

**`Reservations_proofs`**: `CalendarKept` of the abstract calendar; `TypeCorrect`, `CheckedHolds`, `Refines`,
and through it `OverlapsOverridden` and `ReplacementUnique`, of the requests; from `NONE \notin Nat`. In the
calendar the two invariants and the types are inductive: the new row has the largest id, so it
is the later one of every overlapping pair it is in, and it carries `"conflict"` exactly if
there is one; the row it replaces was active, so nothing replaced it before. For the requests, `IInv`
adds for each of them `Asked` (what it asks for fits how it came in), `Held` (which rows it has
locked at which step, and that the original it has locked is active) and `Checked`. The heart is `LockedKeeps` with
`CommitKeeps`: a commit writes to its original and to a new row and has the equipment of
both locked, so it changes no reservation of equipment that another request has locked. At the
commit, `Checked` and `MayBookMeans` (what the policy says about a booking that
may go on) give the conditions of the calendar's `Book`.

`DeadlocksNeedBothOrders` is about the waits that `DeadlockBroken` has to end. Bookings lock equipment and then the
reservations in their way; cancellations and replacements lock a reservation, then its
equipment. `InLockOrder` says exactly what a request has locked at the steps where it can wait
(`WhileWaiting`). In a ring of new bookings somebody holds something, so it waits for a reservation, which
only a booking that is ready to commit could hold, and that one does not wait; likewise a
ring of cancellations (`RingsMix`). `RingsMix` shows it for bookings of different machines too, the property
does not claim it: the search for conflicts may lock gaps and rows of other machines on its way, which the
model leaves out (section 7). With the machine locked first, these do not matter for bookings of one machine.

**`MachineAccess_proofs`**, of `MachineLoop`: `TypeCorrect`, `OnlyRepairedIsAnswered`, `UnlocksAsDecided`, `DueUnderWay`.
That an answered event was repaired is not inductive: the answer is sent on what the handler saw or did two
steps before. `IInv` adds the types of handlers, closings and worker, that a handler about to answer has its event
in `repaired`, and `Accounted`: while a machine has an open repair, none of its pressed events is missing from
`repaired`. The last is what makes a handler right that finds a repair somebody else opened.
For `UnlocksAsDecided`, `DecidedOK` follows a decision from the closing to the row: unless overtaken,
a closing that is to be checked has its own repair closed, one that is to queue has found its machine without an open
repair, and so has each pending row. Whatever opens a repair overtakes all of them, and whatever closes one only helps.
For `DueUnderWay`, `DueOK` must know more than `DueIsUnderWay`: once the worker has cleared the oops
of a machine, the row in its hand no longer speaks for a later press. `UnderWay` therefore counts only what is
`Fresh`, or the second call when nothing but the lockout is left; a press of oops after that counts
as `Owed`, because the machine has no open repair and its webhook will bring one.

The second part is about `MachineStatusCache`, instantiated with variables of its own, so that its theorems have that
module's assumption as a hypothesis (`Cache!CacheConstants`): `CacheTypeCorrect`, `AgreementIsKept`,
`RefreshIsComplete`. `RefreshingOK` says what an undisturbed refresh has still to do: while it upserts,
every listed machine agrees with MAC or is `Ahead` (in `todo`, or the one being upserted and not yet written); once it has read the
orphans, all listed machines agree, and the others agree or are about to be deleted (`OrphansAhead`). A handler
beside it writes what MAC says too, so it never undoes this. An upsert may have its insert refused and its row
deleted before it reads again; it then ends in an error, and with it the refresh, which for `RefreshCompletes` has not gone through.

**`Administration_proofs`**: `MachineNamesAreUnique`, `AttachmentSafety`, `FilesHaveRows`, `ArchivingIsFinal`,
`PasswordsAreProved`, `PasswordsAreShownOnce`. A `...StepMoves` lemma per part says which requests a step may touch; what one part writes is then
invisible to the others. The invariants relate each request to the tables *through*
`changed`: `NameChecked` (the name is free, or the other one was written since the snapshot),
`AreaChecked`, `LateIfArchived`, `PasswordOK` (the password presented is the account's, unless the row was
written since). Each is kept by the steps of other requests because a commit enters what
it writes into `changed` of all others (`Tracked` and its relatives), and each gives, at the commit, either what was
checked or the overlap the property excuses. `InsertsAlone` says that no two requests are about to
insert a row for the same file. For the temporary passwords, `PhaseOK` gives the four phases of a browser
that does one thing at a time (idle, one request under way, its page about to be opened, that page under
way) and what cookie and request hold in each. `CarriedOK` and `HandedOK` hold for the tangled browsers
too: a password on its way was handed to nobody, one that was handed belongs to one browser, and a cookie or a
page in progress only has what its browser was handed, as was what is lost with a page. So whatever a tangled browser shows is its own, and
the others' passwords stay where they are.

For the settings, `LogIsTrue` and `GuideShowsTheSetting`: `SaverOK` is `PasswordOK` for settings, and says
that what the view read of a key differs from what `set_config` did only where an insert was refused; that there is a
next key to save, which the model chooses, is `NextKeyExists`, by the well-foundedness of `<`. For the guide, `RenderOK` says of a
page on its way to the cache what the property says of the page in it, and that nobody holds
a dictionary that is still to come. `TypeCorrect` puts the parts together: `TypedInv` has what each of them
keeps, the shape of every kind of request (`AnyRequest`), and that a page which displays a password is a
user's (`PageOK`); a step of one part is shown to leave a request of a known shape and the others' alone.

**`Sublists_proofs`**: what `Only` keeps of a list comes from increasing places (`OnlyPicks`), is what it should be
(`OnlyElements`), and is sorted when the list was (`OnlySorted`). An induction over the
length is not available, so `OnlyPicks` takes the least prefix for which it fails, which exists because `<` is
well-founded, and there is none. `AscendingUnique` does the same with the first place where two ascending lists of the same
elements differ. `SortedByKey` is about lists joined from groups, as `WorstFirst` and
`RepairQueue` are: sorted by key, then in the old order. `FirstOfSorted` tells what comes first.

**`PublicStatus_proofs`**: `TypeCorrect`, `DotFitsList`, `QueueLeads`, `AllViewsAgree`, `EveryChangeIsTold`. The invariant is
the types and that there are finitely many records, so that a query returns a list. Each view is first shown to
list the open records of a machine, in ascending order or by its key (`GroupIsOpenRecords`,
`OldestFirstIs`, `WorstFirstIs`, `QueueIs`). After that only the *set* of records matters: the first of
such a list is the record with the least key and, among those, the least id (`FirstByKey`), and the status describes the
least of the worst severity present (`Described`). The properties are then comparisons of
three keys. `AllViewsAgree` needs that what stands for "no such area" is not also what a kiosk shows, and `AscendingUnique`
for the grouped list of the dashboard against the query of one machine. `EveryChangeIsTold` goes through the operations: each is shown to be of
one of the `ChangeKinds` and to leave the pages as they were that this kind does not alter
(`StatusPageKept`, `SameReservables`). The constants: ids are positive, and the records at the start
are finitely many.

**`StaticPages_proofs`**: `PagesNeverGoBack`, `TypeCorrect`, `OutOfDateIsOwed`, `DeliveredIsServed`. `CopiesInOrder` orders the
copies by age: CDN, storage, the worker's snapshot, the tables; and a page in hand was generated from the
snapshot that is still open. `KeysOK` says that pushes are distinct and no change is told before it happens; `BatchOK` that the
worker has only rows that are pending and that its snapshot has the changes they tell; `HandOK` what storage and CDN have
after the upload and the purge. `OwedOK` is stronger than `BehindIsOwed`: the push that is owed
was queued for a change at least as late as the last one the page misses. Without that, the delivery of an older push
could be thought to settle a newer debt; with it, only a push that delivers the last change can be the
last one, and after `MarkDelivered` the page is as new as what it settles.

Only model-checked: everything with fairness (`ImplementsDelivery`'s `Settled`,
`OopsBringsRepair`, `DueIsUnlocked`, `CacheConverges`, `RequestsEnd`, `StatusPageFollows`, `ReservationPageHeals`), since
the prover does not reach liveness. Every invariant and every action property that a run checks is proved.
The four violations are counterexamples and need no proof.

## 7. Left out, and why

* Notes, photos, watchers, the text of timeline and messages: no decision reads them.
* Linking equipment to another machine while a `mac_clear` waits: `MachineLoop` has the machine's name, not the link.
* In `NotificationQueue`, that the session may still be usable after `mark_delivered` failed:
  `MarkError` always leaves it wedged, which costs a restart and nothing else.
* In `MachineStatusCache`, a machine for which MAC gives neither of the two times: its unchanged row is not
  updated, and so not refused either. `UpdateRow` writes it as it is.
* In `Reservations`, locks on rows that the search scans without returning them (which of them
  depends on the index MariaDB chooses) or on the gaps between them: they add waits and deadlocks, those of
  bookings of different machines among them, which end as the modelled ones do; and `Refused` already
  lets the search be refused for any row of the equipment.
  The shared locks of foreign keys fall on rows that are locked exclusively already.
* Owners, notes and types of reservations, and the age of a confirmation: they refuse requests, which
  the model lets them do at any time (`Fails`).
* Status pages: what the pages show of the machine cache; records of the same second, which the repair queue may list in
  either order.
* In `StaticPages`, the page around the reservation data, which never changes: its upload is part of the delivery.
* Notes and photos of repairs, login and logout, the CSV export, who may edit documents
  (`tech_doc_edit_enabled` is read in the same snapshot as the rest). Locks that foreign keys take only refuse or delay requests: `...Abort`.
* The Slack client: one thread connects once, and a shutdown that runs twice does nothing the second time.
* The components without state of their own: see `components`.
