# FundaConnect in TLA+

FundaConnect is a tutoring marketplace: parents book lessons with teachers, pay through
PayFast, and the platform keeps the money until a lesson is over. The backend is a FastAPI
application (`src/backend/app/api/v1/endpoints`) with PostgreSQL rows, Redis keys and a Celery
worker with a beat schedule (`src/backend/app/tasks`); the frontend is a Next.js site
(`src/frontend`). This directory holds TLA+ modules of the booking engine
and of the parts around it (sessions, links, teacher verification, notifications), TLC
configurations that check them on small instances, and proofs for every instance that TLAPS
checks.

`PROJECT.json` is the machine-readable side: components, runs, mutants (one plausible slip per
property, which must break it), the source lines each definition stands for, findings, hazards
and theorems.

## 1. The system

One request is one database session: `get_db` (`core/database.py`) opens it and commits once,
when the handler returns. Rows are read without locks. Redis commands take effect at once and
are not rolled back. Celery tasks run in worker processes beside the requests, each with a
session of its own; beat queues them for ever (`celery_app.py:29-55`).

| Component | State | Operations | What is hard | What makes it correct |
|---|---|---|---|---|
| **Booking lifecycle** (`endpoints/bookings.py`, `tasks/lessons.py`) | `bookings` rows: status, start, hold, shares | create, reschedule, PayFast notice, cancel one or a series, complete, no-show, dispute, expiry, start and auto-complete jobs | ten statuses, five kinds of actor, redelivered notices, a clock | nothing comes back from expired or cancelled; a series is paid and created whole; every hold and every live lesson ends |
| **Lesson money** (`models/payment.py`, `services/refunds.py`, `tasks/payouts.py`, `endpoints/admin.py`) | `payments`, `payouts`, `refunds`, `disputes` rows | division of the price, queueing payouts, admin decisions and transfers | several handlers rewrite the same division; the admin page shows old rows | a price is divided once, never twice; nothing leaves while disputed; the teacher is paid once and eventually |
| **Slot times** (`services/scheduling.py`) | none | grid, keys, overlap, conflict window, weekly availability, blocked dates | off-by-one at segment ends and at the window | lessons overlap exactly when they share a key |
| **Slot holds** (`services/scheduling.py:64-92`) | Redis keys with a TTL | acquire one key at a time, roll back, release | interleaving of single commands, death in between | a hold is exclusive and whole |
| **Checkout and reschedule races** (`endpoints/bookings.py`) | rows and keys together | look, acquire, commit, release | rows and keys live in two stores without a common transaction | no double booking |
| **Availability and slot search** (`endpoints/teachers.py`) | `availability_slots`, `blocked_dates` | edit the timetable, list bookable slots | the search repeats the checks of the checkout in another form | a listed teacher's start is offered exactly if asking for it would succeed |
| **Overlapping handlers and jobs** (the same files) | what each has read and will commit | every handler and job of a booking, between its reads and its commit | no row locks, writes computed from old reads | a live lesson is paid, an unpaid checkout ends, one payout per payment |
| **Sessions and refresh tokens** (`services/auth_tokens.py`, `endpoints/auth.py`) | Redis: refresh, used-token, session and per-user keys | login, refresh with rotation, reuse detection, logout, revoke one, others or all, list | several commands per operation, death between them, lost answers, two tabs | an exchanged token is dead and recognised; what lives is listed; what was ended stays ended |
| **One-time tokens** (`services/auth_tokens.py`, `endpoints/auth.py`) | Redis: token and newest-token keys | request, follow, consume, apply | two keys per link, death between them | a new link ends the old one; a link takes effect at most once |
| **Google sign-in** (`services/google_oauth.py`) | Redis state token | start, callback | the callback of a state races another | a state takes effect at most once |
| **Teacher verification** (`services/verification_documents.py`, `endpoints/teachers.py`, `endpoints/admin.py`) | documents, derived status, listing | upload, review, verify, reject, suspend, close, anonymize | six handlers recompute the same status from documents | listed means verified with approved documents; nobody waits in vain; a suspension holds |
| **Teacher search index** (`services/teacher_search.py`) | external index | sync, rebuild at start, search with the rows as fallback | told before the commit it mirrors; the rebuild writes what it read earlier; failures are logged only | a listed teacher is found whether or not the index answers, until it was told wrong |
| **Account lifecycle** (`services/account_lifecycle.py`) | user rows, lessons, sessions, listing, files | closure, anonymization after the grace period | cancels lessons by rules of its own; reaches into every part | nobody waits for a closed account |
| **Notification delivery** (`tasks/notifications.py`, `services/notification_service.py`) | delivery rows, preferences, push subscriptions, broker | send over each channel, queue per-channel tasks, retry, acknowledge | retries repeat what was done; rollbacks, dying workers; some notices are queued before their commit | everyone is accounted for, the log claims nothing unsent while a mail server is configured, repeats are bounded |
| **Rate limits** (`services/rate_limits.py`) | one Redis counter per key | INCR, EXPIRE, TTL | death between INCR and EXPIRE | a window ends |
| **Consents** (`services/consent.py`) | append-only rows | record, read latest | nothing | - |
| **Parents and learners**, **reviews listing**, **admin dashboards**, **receipts**, **reference data** | rows | edits and queries | nothing | - |
| **Adapters**: video, e-mail, SMS, storage, malware scan | none of their own | calls | the caller awaits them, and then writes what it had decided before the call | what was committed meanwhile survives, or the exception is known |
| **Admin page and other frontend pages** | rows last loaded | buttons | what it shows is old | offers only what the current row allows |

How they meet: `create_booking` reads rows (scheduling), sets keys (holds) and inserts a
`pending_payment` booking with a `pending` payment; the parent pays at PayFast, which calls
`payfast_itn`; that confirms the booking, creates the later lessons of a series, awaits the
video service and deletes the keys. Celery expires what is not paid, starts and closes lessons and
queues payouts. Parents, teachers and the admin cancel, dispute and resolve. The admin page sends
the money. Account closure reaches into all of it, into the sessions of the user and the
listing of the teacher. A listed teacher can be booked, and the listing follows from documents,
reviews and decisions of admins. Handlers queue notices for the worker, some before their commit.

## 2. Modules

| Module | Models | Extends |
|---|---|---|
| `RefundPolicy` | `services/refunds.py`: how a cancellation or a no-show divides the price, with the odd cent | Integers |
| `LessonLifecycle` | one checkout with all its rows, and every handler, job, notice, admin decision and closure that touches them | `RefundPolicy` |
| `LessonProperties` | what is required of it | `LessonLifecycle` |
| `LessonProofs` | types, money and history of a lesson | `LessonProperties`, TLAPS |
| `SlotTimes` | the pure functions of `scheduling.py` in minutes | Integers |
| `SlotLock` | abstract: requests win and give up disjoint sets of keys, at once | - |
| `SlotAcquire` | `acquire_slot_hold` and `release_slot_hold`, one Redis command per step | `SlotTimes`, refines `SlotLock` |
| `SlotAcquireProofs` | invariant, winner and refinement | `SlotAcquire`, TLAPS |
| `TeacherCalendar` | abstract: lessons enter, leave and move in a calendar without overlaps | `SlotTimes` |
| `SlotHolds` | rows, keys, clock and the handlers that go between them | `SlotTimes`, refines `TeacherCalendar` |
| `SlotHoldsProofs` | times and keys; search; requests in turn and in a rush; refinement | `SlotHolds`, TLAPS |
| `HandlerRaces` | the handlers and jobs of one booking split between reads and commit | Naturals |
| `HandlerRacesProofs` | any number of handlers at once | `HandlerRaces`, TLAPS |
| `RefreshSessions` | the Redis commands of login, rotation, revocation and listing | Naturals, TLC |
| `RefreshSessionsProofs` | tokens under any overlap, and in turn | `RefreshSessions`, TLAPS |
| `OneTimeLinks` | the Redis commands of verification links, reset links and Google states | Naturals |
| `OneTimeLinksProofs` | tickets under any overlap, and in turn | `OneTimeLinks`, TLAPS |
| `TeacherVerification` | documents, status, listing and index of one teacher | Naturals, TLC |
| `TeacherVerificationProofs` | suspension under any overlap; handlers in turn | `TeacherVerification`, TLAPS |
| `NotificationDelivery` | one notice through handler, broker, workers and channels | SequencesExt |
| `NotificationDeliveryProofs` | the log, and what becomes of every duty of a notice | `NotificationDelivery`, TLAPS |
| `MCSlotAcquire`, `MCSlotHolds` | the instances TLC checks | |

### LessonLifecycle

`booking[w]`, `payment[w]`, `payout[w]`, `refund[w]`, `dispute[w]` are the rows of lesson `w`; lesson 0
is the root, the later ones are `"absent"` until the root is paid. A status is the string the column
stores; `none` is a missing row. `start`, `hold` and `now` are ticks of a clock. `teacher` and
`commission` are the shares on the booking, in cents. `ledger` is history: what the admin sent to either
side, and whether a refund already sent was queued once more (`resolve_dispute`). `notices` is the set
of outcomes PayFast has reached; a notice stays there, so it may be delivered again at any time and in
any order. `recorded` is the last outcome in `gateway_metadata`. `page` is what the admin page was last
loaded with; with `AdminPageFresh` it is always the rows.

Each handler is one action with its guards in the code's order of early returns. One is two: a COMPLETE
notice that finds the checkout payable waits for the video service in between (`bookings.py:1508`), so
`ItnComplete` reads and `ConfirmPaid` writes, and `opening` is when it read. A cancellation, an expiry
or the closing of an account may come in between and is written over; `overruled` remembers that
(`"burial"`), and `RoomTime` bounds the call. The other overlaps are the subject of `SlotHolds` and
`HandlerRaces`. `listed` is the teacher's listing, all that `create_booking` asks of the teacher:
`VerifyTeacher` may list a teacher whose account is closed (`"closing"` in `overruled`). The jobs
`StartDueLessons`, `AutoCompleteLessons` and `ProcessWeeklyPayouts` act on every lesson they find, as
the code's loops do, in one step. Payment, payout and refund amounts are integers of cents, since the
code's `quantize` works at two decimals.

Abstracted: who is asking is a role, since only the parties of the lesson pass the guards; the
learner, subject, notes, room URLs, notifications and audit rows are left out; the per-booking
expiry task and the sweep are one action, `ExpireHold`, as they call the same function.

### SlotTimes, SlotAcquire, SlotHolds

Times are minutes from a Monday midnight. A key is the moment of its half hour; the real key also names
the teacher, and all of `SlotHolds` is about one teacher. `SlotAcquire` records in `owner[k]` which
request has set a key, which Redis does not know: `release_slot_hold` deletes by name, and `Release` and
`BackOff` delete exactly the keys the request holds, so that the invariant says that these are never
another's while no TTL ends early. `SlotHolds` takes the whole acquisition as one step, which
`AcquireImplementsLock` justifies, and lets the TTLs end, so that keys deleted by name may well belong
to somebody else.

In `SlotHolds`, `handler[c]` is the program counter of the create or reschedule request of a checkout:
looked at the rows, has the keys, has committed. `Overlap` says whether other requests run between those
steps. `FailCommit` is the exception path with its release, `Die` the process that dies and leaves its
keys to their TTL. `Offers` is `get_teacher_bookable_slots`: its candidate starts, step by step through
the windows of the days searched (`SearchDays`), with its own cutoff and end of search, the conflicts it
reads, the keys it finds and the teacher's listing (`listed`, which `ChangeListing` changes); `Accepted`
puts together the checks the two handlers make. `OffersAreAccepted` compares them in every state, so
after every lapse, payment, move and cancellation. A window may start at any minute, as
`schemas/booking.py` allows. From one that starts off the half hour the search offers starts that the
handlers refuse, so the comparison is of offers on the half hour, and of starts inside a window on it
(`OnTheGrid`); section 5 tells of the others. A move needs no listing, which the search does ask for:
there only what is offered is compared, and what a listed teacher is not offered.

`Release` deletes keys by name, and `deprived` is the history of whom that hurt: the later lessons of a
series still awaiting payment that lost a key to the sweep, the cancellation or the
notice of another checkout. They have no row that would protect them instead. `LaterWeeksStayFree` and
`KeepsCalendar` promise their time to all lessons but these, so the exception is exactly the damage.

### HandlerRaces

`LessonLifecycle` takes a handler as one step, here it is two: `work[h]` is what handler `h`, having
read the rows, is about to write, and `Commit` writes it. SQLAlchemy writes only the columns that
changed, so a write is a set of columns (`"same"` for the others), computed from rows that may have
changed since. `refunds.payment_id` is unique, so the second row takes its whole transaction
with it; `payouts.payment_id` is not. The clock is reduced to the four moments that guards tell
apart. Amounts and disputes are left to `LessonLifecycle`.

### RefreshSessions

`refresh`, `used`, `session` and `members` are the four kinds of Redis keys; `sid`, `parent` and
`expired` are claims inside tokens or history about them; `received` are the tokens that have reached a
browser as its cookie. A request may carry any of them that has not expired (`Cookie`), so one that was
sent before an exchange and arrives after it is a request with an old cookie. `stray` is history: the
tokens still live when such a late logout dropped the record of their session. `request[r].at` is the
Redis command a request comes to next. Login: `SetRefresh`, `SetSession`, `AddMember`, `Answer`.
Rotation: `Refresh` reads the old token, then `DeleteOld`, `MarkUsed` and the same four. A token not
live goes to `GetUsed`; if it was exchanged before, `Members` and `Each` end every session. `LogOut`,
`RevokeSession`, `RevokeOthers` (also the reset of a password) and `CloseAccount` are the endpoints;
`ListSessions` prunes as the code does. `Die` is a dead server and a lost answer alike. `Finish` with a
401 is a refusal.

### OneTimeLinks

A ticket is one key; `newest[k]` is the second key that remembers the user's newest link of a kind.
`Look`, `Replace`, `Set`, `Remember` and `Hand` are the commands of asking; `Follow` reads the
ticket, `Burn` deletes it with the newest-key, and `VerifyEmail`, `ResetPassword` and `GoogleCallback`
are what then commits. `applied[t]` counts effects.

### TeacherVerification

`document`, `status`, `listed` and `account` are columns; `indexed` is whether the index has the
teacher. A handler loads (`was`, `wasListed`), computes `to` and `list` with `Derive`, which is
`derive_teacher_verification_status`, tells the index if it is one of those that do (`Sync`, which may
fail), and commits the columns it changed. An upload loads, waits for the storage, and derives the
status from the row it loaded (`Stored`). `missed` remembers that the index was told wrong or not at
all: the code has no repair but the next sync or the rebuild of a starting server. That is `ReadRows`,
`EmptyIndex` and `AddRead` (or `RebuildFails` anywhere in between), with handlers at work between these
steps; `rebuild[w].late` says that a decision is not in what it read. `overlapped` is history: two
requests have been under way at once.

### NotificationDelivery

`Plan(notice)` lists, for each task of `tasks/notifications.py`, whom it reaches over which channel in
the code's order. A text or push is a task of its own that the first one queues. `run[w].new` are the
rows added but not committed; `Commit` is the one commit at the end of a task or before
`self.retry`. `WorkerDies` is redelivered (`acks_late`), `ProcessDies` is acknowledged by the parent
process, as Celery does unless `task_reject_on_worker_lost` is set. `Refused` may have sent all the
same: a mail server that drops the connection after the data. Preferences and subscriptions are read
afresh by each step, so each step may find any. `smtp` is whether the workers have an `SMTP_HOST`: without
one `_send` returns as if it had sent (`MailAccepted`), and the row says delivered.

## 3. Runs

| Run | Bounds | What it shows |
|---|---|---|
| `lesson` | one lesson, price 3, commission 1, two start times, clock to 10, a room opened within one tick, an admin page of any age | the division of the price, the dispute, the payment and the status stay consistent with every actor in any order; only a notice under way overwrites a cancellation; holds lapse, lessons settle, teachers get a payout row |
| `series` | two lessons, one start, clock to 7, the admin page always current | later lessons exist exactly when the root is paid; nothing is sent during a dispute, never more than was paid but for one refund queued again, each payout once and for good; closure leaves nothing in the future unless overruled |
| `slot_acquire` | four requests that meet in every way: contained, shifted, a series | exclusive, whole holds; no leak on refusal; somebody always wins; refines `SlotLock` |
| `slots` | a prepaid pair, half an hour, an hour and a half; clock to 50 in steps of 10; one request at a time; a search of two days; a window off the half hour | refines `TeacherCalendar` and keeps later weeks free, but for the weeks deprived of their keys; a start is offered exactly if asking for it succeeds |
| `slots_rush` | three overlapping single checkouts, all steps interleaved, clock to 10 | no double booking; each pending checkout has its keys |
| `sessions` | two browsers, four tokens; two requests overlap while there are at most two tokens | an exchanged token is dead and recognised in every interleaving; with requests in turn, what lives is listed and what was ended stays ended, but for what a late logout leaves |
| `links` | four tickets; two requests overlap while there are at most two | with requests in turn, only the last link of a kind works and a ticket takes effect at most once |
| `teachers` | two document types, two copies each; two requests overlap while each type has at most one document; one server rebuilds the index | suspension holds in every overlap but for handlers that loaded before it; with handlers in turn, listed is approved, nobody waits in vain, who is listed is found unless the index was told wrong |
| `notifications` | every notice, one worker, one device, one retry, one trouble | everyone is accounted for, the log claims nothing unsent but mails without a mail server, repeats are bounded, everything comes to rest |
| `races` | three handlers or jobs at once on one booking | what is live is paid; unpaid checkouts end |
| `slots_stale_look` | pair, half, long with interleaving | **violation** of `NoDoubleBooking` |
| `double_payout` | two handlers or jobs at once | **violation** of `OnePayout` |

Why the bounds are enough to meet the interesting cases:

* The price is odd, so the half refund has an odd cent, and commission and share differ.
* `Lesson`: the hold (1) is shorter than the lead (2), as 15 minutes is shorter than 60; the two
  windows of the refund policy (4 and 3 ticks) leave room for a cancellation in each zone; a grace
  of 1 separates no-show from start; the clock goes on past the end of the later slot so that
  jobs, disputes and payouts all happen. A room takes up to one tick, so the hold may lapse, be swept or be
  cancelled while it is opened.
* `Series`: two lessons are the least with a root and a later one; the theorem
  `SeriesIsAllOrNothing` covers any number.
* `Slots`: a step of 10 against a hold of 15 lets a payment come in time, and lets a hold lapse two
  ticks after it was set. The starts of the long lesson include one in the pair's second week, one off
  the grid, one that leaves the window and one on a blocked date, so the refusals happen too. The half
  hour may also be booked in the pair's second week: its hold lapses, the pair sets the same keys, the
  late sweep deletes them, and the long lesson takes the time, so deprived weeks occur and both
  properties meet their exception. The search of two days meets a window, an edge of it, the blocked
  date and a window that begins at 4:15. As long as nothing is deprived `KeepsCalendar` implies
  `NoDoubleBooking`, which is therefore not listed there.
* `SlotsRush` ends before any hold lapses and has neither series nor rescheduling: with them the
  look at the rows is stale, and `slots_stale_look` shows the double booking. This is where
  the passing and the failing runs meet, not a bound chosen for size.
* `Sessions`: four tokens are two logins with an exchange each, or one session exchanged three
  times, so that a cookie can be two generations old. `Links`: four tickets are three
  links of one kind and one more. The overlaps while there are two tokens are those of a login with a
  login, of an exchange with itself, and of either with a revocation. `WhatLivesIsListed`, `EndedForGood`
  and the properties of links are stated for requests in turn (`~overlapped`), because they fail
  otherwise: section 5. Old cookies come at any time, also in turn.
* `Teachers`: two types make `Uploaded` and `Approved` differ from a single document's state, two
  copies let a rejected document be replaced and an approved one be doubted. Two requests are the least that
  overlap, and one document of each type is enough for an upload that waits for the storage while a
  suspension is committed. `SuspensionHolds` is about every overlap; the invariants are stated for
  handlers in turn, because they fail otherwise: section 5. A rebuild overlaps with handlers in any case.
* `Notices`: runs only add rows, counters and messages, never read what other runs wrote, so two
  workers reach no row that one in another order does not. One retry separates the first run
  from the last; one trouble (crash, fault, refusal that was sent) in any place is what the
  properties tell apart.
* `Races`: three is one more than any pair that conflicts; the clock lets a hold lapse between read and
  commit.

Abstractions that matter for reading the results: a hold's Redis TTL and its `hold_expires_at` end in
the same minute, while in the code the TTL is rounded to seconds; the clock stands still while a create
or reschedule handler runs (milliseconds against a quarter of an hour); each checkout has one request in
flight; the notices of one checkout are handled in turn in `SlotHolds`, and at most one awaits its room
in `LessonLifecycle` (in `HandlerRaces` neither holds); hold and room together take less than the lead
time (15 minutes and the ten seconds of the HTTP client against an hour); PayFast answers no sooner than
the tick after the checkout; a token, its key and the record that names it end together and between
requests; in `HandlerRaces` no handler lasts from the lapse of a hold to the lesson, 45 minutes at
least.

`CHECK_DEADLOCK FALSE` is set where the model stops by design: at the end of the clock, when
all requests have ended, when all tickets are used, or when a notice has come to rest.

### Fairness

`FairSpec` of `LessonLifecycle` assumes weak fairness of time, of the four beat jobs and of a notice
that awaits its room: `celery_app.py:29-55` queues each job for ever and each is idempotent, so a failed
run is made up by the next; the call to the video service has a timeout and its failure is caught.
Nothing is assumed of parents, teachers, the admin or PayFast. `HoldsLapse`, `LessonsSettle` and
`TeachersGetPaid` hold under exactly that. Weak fairness is enough, since each job stays enabled until
it has run. The clock ends at `MaxTime`, beyond the end of every lesson a run can hold.

`HandlerRaces` assumes weak fairness of time and strong fairness of the sweep and of commits: beat
queues the sweep every minute although other handlers are under way in between, and not every
process dies before its commit. `UnpaidEnds` needs no more.

`NotificationDelivery` assumes that a handler goes on or dies, and that a worker that can go on does
so (weak fairness of `Work`): a worker is a loop. That a recipient is reached is not assumed.

## 4. Proofs

TLC agrees on small instances first; the theorems then hold for every value of the constants that the
named assumptions allow: `PriceAssumption` and `WindowAssumption` (`RefundPolicy`), `SeriesAssumption`
and `TimingAssumption` (`LessonLifecycle`), `HandlerAssumption` (`SlotAcquire`), `ClockAssumption`,
`CheckoutAssumption` and `WindowAssumption` (`SlotHolds`; the last two say what the validators of
`schemas/booking.py` let through: a window is a day and two times of day, on the half hour or not),
`SessionAssumption`, `TicketAssumption`, `TeacherAssumption` and `NoticeAssumption` (finitely many
workers and devices, and no device is called like a channel). Most of the properties are not inductive;
what each proof adds to them is the point of it.

**Lessons** (`LessonProofs`), for any price, windows, number of weeks, slots and clock.

* `TypeCorrect`: `TypeOK`, one step per action; the arithmetic of the refund policy stays in the
  naturals because the commission never exceeds the price.
* `MoneySafe`: the inductive invariant `MoneyInv`. `EscrowHeld` needs to know that
  `raise_booking_dispute` refuses a lesson whose payout is paid and that resolving is the only way back;
  `SentWithinAmount` that a payout row carries the share on the booking whenever it may still be sent,
  that share and refund come from one division, and that a refund sent twice was queued again by a
  dispute resolved as refunded, after which there is neither payout nor dispute (`RefundedAt`);
  `TeacherPaidOnce` that a row once paid is left alone by everything. So `MoneyInv` says of each lesson:
  it is `Untouched` while absent; a missing row has no cents (`EmptyRows`); the price is divided exactly
  (`SplitAt`); a sendable payout equals the teacher's share (`ShareDue`); the lesson is disputed exactly
  while its dispute is open, with the payout stopped (`DisputeAt`); live lessons and moving money come
  after payment (`PaidAt`); the ledger agrees with the paid row (`SentAt`); of the series, that later
  lessons exist exactly when the root was paid, and that the root pays first (`RootPays`); of a notice
  that awaits its room, that nobody has paid, disputed or moved money since it read (`NoticeInv`); and
  of the admin page, that it shows no row that does not exist (`PageTells`). It holds for a page of any
  age: the parts of `DisputeAt` and `SentAt` that need a current page say so. `SplitIsExact`,
  `MoneyComesFirst`, `DisputesFreezeLessons` and `SeriesIsAllOrNothing` follow without an assumption
  about the page, `EscrowIsHeld`, `SentStaysWithinAmount` and `TeacherIsPaidOnce` with `AdminPageFresh`,
  which the `series` run has; without it the first of these is false (section 5).
* `ClosedAccountsHaveNoFuture`, and of steps `BuriedStaysBuried`, `ConfirmedLiesAhead` and
  `PaidStaysPaid`: from `HistoryInv`, which adds that a hold ends before its lesson starts
  (`HoldEndsFirst`), so does the call for the room (`RoomInTime`), and a closed teacher is listed only
  if an admin has listed the profile again (`ListedIsOpen`). The first two state their exceptions: the
  notice that read before, and that admin. `PaidStaysPaid` again needs a current page.

**Keys** (`SlotAcquireProofs`), for any handlers and requests.

* `HoldsAreOwned`, `NoKeysAreLeaked`, `AcquireImplementsLock`: a request that is acquiring, backing
  off or holding owns what it says it acquired; hence winners have disjoint keys, and every step is a
  step of `SlotLock` or stutters.
* `RivalsLeaveAWinner`: keys are taken in the order of their moments, so whoever stops a request owns
  a later key than any it has got (`Outrun`). Of those that have taken keys, who is furthest can have been
  stopped by nobody that gave up: if a request is refused, another has got further (`UnderWay`), hence
  not all are refused, which is `SomebodyWins`.

**Times, rows and keys** (`SlotHoldsProofs`), for any checkouts, durations, weeks, timetable and clock.

* `OverlapIsSharedKey`, `WindowCatchesEveryOverlap`, `WeeksKeepApart`: two aligned lessons overlap exactly
  when they share a key; the window of the conflict query misses no lesson of up to three hours;
  the weekly lessons of one series never overlap.
* `RowsAndKeysAreTyped`, and `SearchAgreesWithHandlers`: in any state and however requests overlap,
  every start on the half hour in `Offers` passes the checks of `create_booking` or
  `reschedule_booking`, and every start of a listed teacher that passes them, inside a window on the
  half hour, is in `Offers`. Both walk the same half hours, but one steps through a window and the other
  measures from its edge.
* Requests in turn (`~Overlap`). The rows of a pending series say nothing of its later weeks; their keys
  do, but keys are deleted by name, and a late sweep may delete those of a newer series (section 5):
  then requests in turn may share time. No condition rules this out. The theorems hold of every
  behaviour and except only the weeks it befell: `InTurnWeeksStayFree` and `InTurnKeepsCalendar` say
  that all lessons but the deprived ones keep their time, `InTurnNobodySharesTime` that nobody shares
  time while nothing is deprived. In `TurnInv` a lesson claims time by a row that blocks it or by the
  pending checkout of its series; claims are apart (`ClaimsApart`), what a handler has seen is still so
  (`Looked`), once it has its keys no claim is in its way (`Kept`), and a week that may still be paid
  and was not deprived has its keys until the hold ends (`LaterWeeksHeld`, `HasItsKeys`): the only step
  that takes one of them early is a `Release`, which puts the loser on record. Single lessons have no
  later weeks, so nothing is ever deprived (`SinglesLoseNothing`), and `SinglesInTurn` is without
  exception.
* A rush of overlapping requests for single lessons without rescheduling: `RushSharesNoTime` and
  `RushKeepsHolds` hold as long as no hold lapses unpaid (`NobodyLapses`). With a lapse they are false:
  that is `slots_stale_look`. `RushInv` says that what was there when a running request looked is
  `Settled`, that those who hold keys have disjoint ones (`HoldersApart`), and that the keys last as
  long as the checkout (`KeysSet`). `EarlyRush`: up to the first end of a hold, as in `slots_rush`, both
  follow without a condition.

**Overlapping handlers** (`HandlerRacesProofs`): `RacesSafe` and `LiveLessonsArePaid`, for any number at
once. Before the lesson begins each pending commit takes booking and payment along together
(`Together`); once it has begun, either no pending commit makes it live (`NobodyRevives`) or none
touches the payment (`NobodyUnpays`). The clock is what separates them: a failed notice needs a pending
checkout, and no handler lasts from the lapse of a hold to the lesson.

**Sessions** (`RefreshSessionsProofs`): `SessionsSafe`. `TokenInv` holds for any interleaving of single
Redis commands: an exchanged token has been deleted before its successor is set, and marked or timed out
(`InHand`); hence `ParentsAreSpent`. `TurnInv` is about requests in turn, with any cookie a browser ever
had: what a browser holds is listed, dead, or left by a late logout (`Listed`), and a session that a
revocation has yet to end is in what it has left to do (`Turn`); hence `LiveTokensAreListed` and
`EndedStaysEnded`. A logout with an exchanged cookie is the one exception of both: it drops the record,
and the newer token lives on unlisted (`stray`, `Astray`).

**Links and Google states** (`OneTimeLinksProofs`): `TicketsSafe`, `TicketsWorkOnce`, `LastLinkWorks`.
In turn, only the remembered link can be followed (`Fresh`), and between reading and burning it belongs
to the request that does so.

**Teachers** (`TeacherVerificationProofs`), for any documents, requests and servers: `TeacherSafe`.
However handlers overlap, what loaded a suspended teacher and is no decision will commit a suspended
teacher (`Keeps`); hence, of steps, `SuspensionIsLifted`. As long as no two requests have met
(`~overlapped`), with rebuilds at any moment: what a handler has loaded is still in the row when it
commits, and what it will commit is consistent with the documents it leaves (`OnItsWay`); what the index
holds or will be told agrees (`IndexTells`), and a rebuild that is not late has read a listed teacher
(`RebuildTells`). Hence `ListedTeachersAreApproved`, `StatusFollowsDocuments` and
`ListedTeachersAreFound`.

**Notices** (`NotificationDeliveryProofs`), for any workers, devices, retries and troubles.

* `LogSafe`, `TheLogIsTrue`: rows committed and rows held by runs together never outnumber what left. The
  bound counts runs: a run holds at most one row of a kind. E-mails are included only if there is a mail
  server (`Leaving`); without one the code logs what it does not send.
* `NoticesAreCarried`, `NobodyIsForgotten`: unless excused (a message acknowledged unfinished, a fault
  of the database with something given up, the alert that writes no row), `AccountInv` follows every
  duty of the notice: it is still in the plan of a run, or noted by the run and not yet committed, or
  reported, or has become a job that is itself carried by a message or a run; and a notice that was
  given up left the failed row of the e-mail that stopped it.
* `RepeatsAreLimited`, `RepeatsStayBounded`: without crashes what was sent and what may still be sent
  stay together below the limit. `Left` counts the chances for a user and channel: a generation of the
  notice that may still start the step, each copy of a job in the broker with each retry it has left,
  and each run with its retries. A step loses chances, spends one on what leaves, or exchanges one for
  another (a turn for a message, a message for a run, a run for the message of its retry), one for one
  (`Swapped`). That each exchange is one for one needs the notice to be one message or one run at a time
  (`Sole`), plans that take no step twice (`PlansOnce`), and a handler that queues once (`HandlerOnce`).

Model-checked only: the liveness properties `HoldsLapse`, `LessonsSettle`, `TeachersGetPaid`,
`UnpaidEnds` and `Settles`, since liveness under fairness and `ENABLED` are out of TLAPS's reach here.

## 5. Findings

Two disagreements between the code and what the repository says have a run that TLC must find violated:

1. **Look, then lock** (`slots_stale_look`). A commit and release between another request's look
   at the rows and its keys gives both the time (`bookings.py:524`).
2. **Two payouts for one payment** (`double_payout`). Overlapping handlers or jobs each see no payout
   and insert one (`bookings.py:299`, `tasks/payouts.py:29`); the column is not unique.

Differences met while modelling that have no run of their own, by part:

*Money.* A stale admin page sends a payout that is disputed by now: `update_payout` does not compare
the row with the requested status (`admin.py:633`). `resolve_dispute` reopens a refund already sent
(`admin.py:941`), so the parent is refunded twice; `SentWithinAmount` allows exactly this second
time. A COMPLETE notice after the hold marks the payment cancelled and creates no refund
(`bookings.py:1483`). Resolving a dispute as completed leaves a refund under way as it is
(`admin.py:901-915`). Closing an account refunds in full at any hour (`account_lifecycle.py:598-612`), while
`07-booking-and-scheduling.md:211` has a no-refund window. Payouts have no R100 minimum (`payouts.py:43-49`
against `05-payment-integration.md:271`).

*Slots and overlapping handlers.* Keys are deleted by name: `cancel_booking` (`bookings.py:911`) and the
sweep of a lapsed checkout (`lessons.py:66`) may delete keys of a pending series that has taken their
place, whose later weeks have no other protection: the deprived weeks of `SlotHolds`. `payfast_itn`
writes a row it read before awaiting the room (`bookings.py:1508`), so it confirms what was cancelled or
expired meanwhile, also by the closing of an account: the exception of `BuriedForGood` and
`ClosedAccountHasNoFuture`. In `HandlerRaces` the booking comes back together with its payment, which is
why `LiveIsPaid` holds. Two overlapping notices create the later lessons twice. If the server dies
between `bookings.py:1569` and 1589 the confirmation is never queued. A window that does not start on a
half hour (`schemas/booking.py:41` lets it pass, the frontend offers half hours only) yields starts that
are offered and then refused, and starts that would be accepted and are not offered.

*Sessions and links.* A revocation that overlaps a refresh deletes the old token, and the new one lives
on (`auth_tokens.py:229`). A logout whose cookie was exchanged before it arrived deletes the record and
the membership of the session, and the newer token lives on, listed nowhere and out of the reach of
revocations until it is exchanged (`auth_tokens.py:209-213`). Two overlapping requests for a link leave both links
working (`auth_tokens.py:398`); overlapping uses of one link both take effect. A browser that did not
get the answer to a refresh and asks again counts as reuse and loses all sessions
(`auth_tokens.py:383-386`). The deletion of the cookie on a refused refresh is lost, since the exception
discards the injected response (`auth.py:388`). `reset_password` commits before it ends the sessions and
may die in between (`auth.py:592-593`).

*Teachers.* An admin may verify, and so list, the teacher of a closed account (`admin.py:482-483` does
not look at `is_active`, against `08-security-and-compliance.md:126`), and parents can then book that
teacher, since `create_booking` asks for the profile only (`bookings.py:431-439`). An upload and a
review that overlap compute the status each from its own view, and leave status and listing apart from
the documents. An upload that was waiting for the storage when an admin suspended the teacher overwrites
the suspension with a status derived from the row it had loaded (`teachers.py:543-584`). A decision
committed while another server rebuilds the index, after that has read the rows, is missing from the
index with nothing failed (`teacher_search.py:260-280`). `upload_document` assigns `profile.documents`
without having loaded it (`teachers.py:583`). Closure and anonymization do not tell the index; its hits
are looked up in the rows, so nobody is found that should not be.

*Notices.* The notices of reviews, payouts, refunds and submitted documents are queued before the commit
(`admin.py:498`, 654, 786; `teachers.py:601`), so they may tell of what was rolled back. Without an
`SMTP_HOST` a mail counts as delivered (`email.py:25-28`). `tasks/verification.py` is an unused stub of
the same notice.

*Others.* The rate limit is a fixed window where the documents say sliding. A file that storage does not
delete is only logged (`account_lifecycle.py:112-113`).

## 6. Plan

The modules of the plan are written and checked, but for rate limits and the files of anonymization
(see below), and every invariant and action property of the passing runs is the subject of a theorem.
What remains is to say more under weaker conditions:

* `SlotHolds`, a rush: series and rescheduling, for which single rows and keys have to be followed week
  by week.
* `LessonProperties`: the theorems of `AdminPageFresh` for a page that may be one refresh behind, which
  needs the handlers to check what the page showed (the finding of section 5).

Not modelled, and why. Rate limits: one counter that guards requests and that no other part reads.
Consents, parents and learners, audit log, reference data: plain rows written once in the caller's
transaction. Admin dashboards and reports, receipts, the export of an account, rendering, texts, PDF and
CSV output and form validation: read-only or without state. Of anonymization, the redaction of rows and
the deletion of files are left out. Of the timetable, the two handlers that replace windows and blocked
dates: both are constants of `SlotHolds`. Of sessions, the migration of tokens from before sessions had
ids (`auth_tokens.py:125-137`, 364-381). Of push, the management of subscriptions: a step may find any
devices. The external services have no code here. Migrations and deployment files are configuration.
