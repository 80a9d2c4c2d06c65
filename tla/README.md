# Verification of the reservation API

TLA+ models of the NestJS reservation service in this repository: a REST API
over PostgreSQL (through TypeORM) and Redis in which users book spaces by time
period, administrators confirm or complete bookings, and a confirmed booking
gets a chat room. The modules are written from `src/src`; paths below are
relative to `src/src` unless they start with another directory.

One Node process serves all requests. It gives up control at every `await`, so
two requests interleave between any two statements they send to PostgreSQL or
Redis; that is the granularity of every model here.

## Inventory

| Component | State | Operations | Talks to |
| --- | --- | --- | --- |
| Reservations (`reservations/`) | table `reservations`: period, status, version | create, change status, list, minute cron reminder | Spaces (row lock), Chats (room), Common (pagination) |
| TransactionInterceptor (`common/interceptor/transaction.interceptor.ts`) | one query runner, i.e. one pool connection, per request | connect, START TRANSACTION, COMMIT or ROLLBACK, release | wraps POST and PATCH of reservations |
| Spaces (`spaces/`) | table `spaces`, soft-deleted | create, read, patch, remove, list | locked by bookings |
| Chats (`chats/chats.service.ts`) | table `chats`, one row per reservation at most | make room, list | called by Reservations on its own connections |
| Chat gateway, Messages (`chats/chats.gateway.ts`, `messages/`) | sockets, socket rooms, table `message` | connect, join_room, send_message | Auth, Users |
| Auth (`auth/`) | Redis key `refresh_token_<user>`, JWTs held by clients | login, register, rotate access, rotate refresh, logout, guards | Users, Redis |
| Users (`users/`) | table `user`, unique email and nickname | create, find | called by Auth and the guards |
| Reviews (`reviews/`) | table `reviews`, soft-deleted | create, patch, remove, list | Common |
| Pagination (`common/common.service.ts`) | none | page and cursor pagination | called by every list endpoint |
| Infrastructure (`main.ts`, log and metrics interceptors, exception filter, validation messages, DTOs, Docker, CI) | none that matters | formatting, counting | - |

### What is hard, and what makes each part correct

* **Booking.** Two calls may both find a period free. Correct means: calls that
  lock the space never both commit overlapping reservations, what the overlap
  query said is still true at COMMIT, a refusal is backed by a committed row,
  everybody gets an answer, and all of it while spaces are removed, patched and
  brought back, and while connections break (also in the middle of a COMMIT).
* **Status changes.** A PATCH works on a copy read without a lock, and the chat
  room is written outside its transaction. Correct means: a confirmed
  reservation has a room, one room, and no room is made for nothing; a completed
  reservation stays completed; a concurrent change is noticed; the pool does not
  run dry while every request waits for a second connection.
* **Sessions.** Rotation is a GET followed by a SET, racing with login and
  logout, and Redis may come back from an older dump. Correct means: a logout is
  final, for refresh tokens and for the access tokens they are good for; a session
  ends only by its expiry, its own user or Redis; and the stored token serves.
* **Spaces, Reviews.** Read, modify, save of whole entities (lost updates,
  removals undone, answers that are not the row), exists-then-insert without a
  constraint (two reviews).
* **Users.** exists-then-insert behind unique constraints; a registration whose
  Redis SET fails leaves a user behind an error.
* **Chat gateway.** Message handlers are bound before the connection handler
  has found the user; save, read again and emit may reorder messages.
* **Reminder.** A window of one minute looked at by a cron tick that may be late,
  fail or be lost with the process. Correct means: who is confirmed in time is told
  unless a named gap swallowed him, nobody is told more than twice, and whoever is
  told has his chat room.
* **The whole.** Bookings, status changes, chat rooms, reminder and guards draw on
  one pool: everybody must get an answer.
* **Pagination.** The cursor's `where` can be replaced by the caller's; ids are
  assigned before they are committed; a page is read in two statements.

## Modules

| Module | What it is |
| --- | --- |
| `BookingLedger` | abstract specification of POST /reservations/:spaceId: a ledger, each call accepted or refused in one step |
| `Booking` | the transaction of each call, statement by statement, beside the calls on /spaces; refines `BookingLedger` |
| `BookingProofs` | proofs about `Booking`, the refinement included |
| `StatusUpdate` | PATCH /reservations/:reservationId with the chat room, the shared pool and failures |
| `StatusUpdateProofs` | proofs about `StatusUpdate` |
| `Sessions` | refresh and access tokens: login, both rotations, guard and logout, expiry, a Redis that restarts from its dump |
| `SessionsProofs` | proofs about `Sessions` |
| `Catalogue` | POST, PATCH and DELETE on /spaces and /reviews, whole-entity saves with their columns |
| `CatalogueProofs` | proofs about `Catalogue` |
| `ChatBoard` | abstract specification of the chats: boards on which a message is published in one step |
| `ChatGateway` | sockets, their rooms, and the messages sent through them; refines `ChatBoard` |
| `ChatGatewayProofs` | proofs about `ChatGateway` |
| `Registration` | POST /auth/register/email behind the unique columns of the users |
| `RegistrationProofs` | proofs about `Registration` |
| `Pagination` | a client reading a list page by page while the table changes |
| `PaginationProofs` | proofs about `Pagination` |
| `Reminder` | the minute cron of `handleReservationReminder` beside changing statuses, failing queries and restarts |
| `Service` | composition: `Booking`, `StatusUpdate` and `Reminder` over one table, one pool and one process |
| `ServiceProofs` | proofs about `Reminder` and about `Service`, which implements it and `BookingLedger` |
| `MC...` | the constants of the TLC runs |

Operators whose comment begins with *Mutant* are not part of a specification:
each is the body a named definition would have after a plausible mistake, kept
beside it to show which property notices.

### Booking and the code

`pc[r]` is the statement request `r` sends next.

| `pc` | Code | Action |
| --- | --- | --- |
| `idle` | `qr.connect()`, `startTransaction` | `Begin`: takes one of `PoolSize` connections |
| `lock` | `findOne` with `pessimistic_write` | `LockSpace`: waits for the row lock of a live space; a removed or absent one locks nothing |
| `check` | overlap query | `CheckOverlap` |
| `save` | `repository.save` | `SaveRow`: the foreign key rejects an absent space and takes FOR KEY SHARE on the others |
| `commit` | `commitTransaction`, `release` | `Commit`: the row is in the table from here on |
| `refuse`, `abort` | `rollbackTransaction`, `release`, rethrow | `Rollback` |
| `created`, `refused`, `failed` | 201, 400, 500 | - |

Row locks are derived from `pc` and `guarded` (`Exclusive`, `KeyShare`), which is
how PostgreSQL keeps them: to the end of the transaction. FOR UPDATE conflicts
with both; the INSERT's key share and the UPDATE of a space conflict only with
FOR UPDATE. `Visible` hides the rows of a removed space, because TypeORM adds
`deletedAt IS NULL` to the join on `space`. The status of a row plays no part:
the overlap query does not look at it, so a cancelled reservation still blocks
its period, and statuses are left to `StatusUpdate`.

`ConnectionLost` may strike at every statement; at `commit` the row may or may
not be there. PostgreSQL is taken to notice at once, and the TypeORM driver gives
the connection back by itself.

`CreateSpace`, `RemoveSpace`, `PatchRead` and `PatchSave` are the calls on
/spaces. `PatchSave` brings a space that was removed in between back to life:
the save writes every column in which the copy differs from the row, and it
loads soft-deleted rows for that comparison.

### StatusUpdate and the code

`read` is the `findOne` with the 404 and the 400, `reload` the SELECT that TypeORM's
`save` makes to compare, `update` its UPDATE, `find`, `insert` and `reread` the three
statements of `createChatRoom`. `Open` counts the connections held by
transactions; a statement of `createChatRoom` needs a free one for its duration.
`wrote` marks who has sent the UPDATE (and so holds the row lock while its
transaction is open), `kept` those of them whose UPDATE leaves the status alone, because `save`
found it as they want it and only their old version differed, `stale` marks copies that
missed a commit, `lost` marks requests whose transaction was ended by the database while their handler was busy
with the room: they go on and find out at the end. The failures `LoseConnection`
and `RoomError` are bounded by `MaxFaults`.

### Sessions and the code

`stored[u]` and `until[u]` are the Redis key `refresh_token_<u>` and its expiry. A
step is one Redis command with the synchronous code around it. A refresh token is a
record of the claims the code looks at; `sub` says whether it has the claim at all, which
a rotated token has not (`Rotated`). The rotations verify their token outside of any `try`: an expired
one is a 500, a token that is not the stored one a 401. `out` is a history variable: users who logged
out and have not begun a login since. The clock counts seconds, `Life` stands for
the two hours of a refresh token and `AccessLife` for the life of an access token.

The server keeps no access tokens and checks nothing of them but their expiry, so of
each user only the last to expire counts (`entry`). `Guard` is `AccessTokenGuard` in
front of POST /auth/logout; its catch answers 401 to a bad token and to a failing
lookup of the user alike, so it may deny at any time. `Logout` is the DEL, an await later:
logins and rotations fall in between. A DEL that fails is either a logout that happened
or nothing (`RedisFails`).

`Save` and `Restart` are Redis under `restart: always` (`docker-compose.yaml:18`): it comes
back with the keys of its last dump, those apart whose time has come. A logout after the
dump is forgotten, so `out` goes back with it: `LogoutHolds` speaks of the logouts Redis
remembers. `MaxRestarts` bounds the restarts.

### Catalogue and the code

`updateSpaces` and `updateReviews`, `removeSpaces` and `removeReview` have one shape and
share their actions. The first read of each handler is at `idle`: `exists` (`Check`), `findOne`
(`Read` for a PATCH, `Look` for a removal); a review is asked for with its user. `insert` is
the save of a new entity, `reload` and `update` the two halves of the save of a changed one:
TypeORM selects the row by id, soft-deleted or not, and updates the columns in which the
copy differs (`diff`), by id. `delete` is `softDelete`. A row is a function from columns to
values, `deletedAt` among them; `Field` stands for the columns a dto may name, of which the
properties need no more than two. `images` of `CreateSpaceDto` is no column: it is set in
the entity, comes back in the answer and is never stored, so `AnswerIsRow` speaks of the
columns only. A removed space hides its reviews from the join of `exists`. A creation of a
review may name a space that does not exist, which the foreign key rejects
(`InsertRejected`). Each statement commits by itself.
Four variables are history only: `missed` and `late` hold the columns that changed between
the two reads of a PATCH and between the second and its UPDATE, `unsure` the creations whose
check could not see everything, `revived` the items a save brought back.

### Reminder and the code

`Fire` is the cron timer: it fires at the whole minute it was set for (`minute`) or later,
when the event loop is busy, computes the window from `new Date()` and is set for the next whole
minute to come. `Query(t)` is the answer of the `find` of the handler that started at `t`;
handlers are not kept from overlapping, so `pending` is a set. `BETWEEN` includes both ends.
A query that fails is logged by the scheduler and not repeated (`QueryFails`), a restart loses
the pending handlers and sets the timer anew (`Restart`). `since`, `last`, `skipped` and
`punctual` are histories: `skipped` holds those between the windows of two successive handlers
and those in a window that was lost. Statuses change at any time (`StatusChanges`); that
`Service` changes them in this way only is its theorem `ImplementsReminder`.

### Service and the code

`Service` EXTENDS `Reminder` and instantiates `Booking` (as `B`) and `StatusUpdate` (as `S`). A
reservation has the name of the call that books it; the `status` column is shared, and `since` is
kept by conjoining `StatusChanges` to the two COMMITs. `Free` counts the connections of both kinds
of transaction and is conjoined to every step that needs another one: the start of a
transaction, the statements of `createChatRoom` and the query of the reminder.
`ProcessRestart` ends every request under way at once, as PostgreSQL does with the
transactions of a process that is gone; a COMMIT that was done and never answered is a
`Commit` before it. In the ledger of the bookings this is one `Crash`, after which several calls
at once are never answered. The calls on /spaces and broken single connections are left to `Booking` and
`StatusUpdate`: spaces are live here and `S` has no failures.

### ChatGateway and the code

A socket is `new`, `finding` its user (`handleConnection` waits for `findByEmail`), `ready`
or `gone`. Nest binds the message handlers before `handleConnection` returns, so
`JoinRoom` and `SendMessage` are possible while the user is being looked for; the first
asks for no user and no chat, the second is rejected without a user. `Save` and `Emit`
are the two statements of `createMessage`; the emit is synchronous after the second and
reaches whoever is in the room by then. `StatementFails` is bounded by `MaxFaults`; at
the save the row may or may not be there. `made` is the table of chats, which a
confirmation extends (`MakeChat`). `owed[m]` is a history variable: the other sockets that
have been in the room since `m` was saved.

`ChatBoard` knows of all this only that sockets join and leave, and that a message which is
posted may be published, in one step and to exactly those who are there. A row is a posted
message, an emit publishes it; a connection that looks for its user, a rejected message and a
failing statement do not show.

### Registration and the code

`email`, `nickname`, `insert` and `set` are the statements of a registration: two
questions, the INSERT, and the Redis SET of `loginUser`. `conflict` is the unique violation
of PostgreSQL, which no code of the repository turns into a `BadRequestException`, and
`noSession` a rejected SET; both are a 500, the second with the user left in the table. Any other
statement may fail, which is a 500 too, an INSERT perhaps after it was done (`StatementFails`).
`overtaken` is a history variable: requests one of whose values was inserted by another
after they had asked for it. Users who were there before any of the requests are those
of requests that ran first.

### Pagination and the code

`row[i]` is what became of id `i`: the sequence hands ids out at the INSERT
(`InsertRow`), the row appears at the COMMIT or never (`EndInsert`), a removal hides it.
Every list joins a relation, in its `relations` or in its `where`, and for `take` with joins
TypeORM sends two statements: `SelectIds` is the first, the ids of the page (`PageIds`, kept in
`chosen`), and the rows with these ids that still match (`Rows`) are the second. `ReadCursor` is
the second one for a client that follows the next link; `ReadPage` is the second and `CountRows`
the third (`findAndCount`) for one that asks for page after page. `step` says which is next, and
rows come and go before each. A TypeORM that takes a short page for the last one and
does not count finds the same number wherever a property depends on it, in a quiet table.
`overrides` is set for the lists of a USER (reservations, chats), for which
the service passes a `where` that replaces the parsed one. `first` is the filter the
client began with; `stable` and `quiet` are histories for the properties. An answer is
written without recursion: `Sorted` puts each row at the place of its `Rank`, the
number of rows before it. Orders on
other columns than the id are left out: no DTO offers one.

## Runs

| Run | Instance | Shows |
| --- | --- | --- |
| `booking_safety` | 3 calls, 2 spaces, periods that overlap, touch and are inverted, pool 3 | no double booking under the lock, checks never stale, locked spaces stay live, refusals justified; `Booking` implements `BookingLedger` |
| `booking_overlapping_created` | 2 calls | **violated**: both of two overlapping calls get 201 when the space is not live at the locking read |
| `status_safety` | 3 calls, 2 reservations, 3 target statuses, pool 4, 2 failures, fairness | confirmed implies room, no colliding rooms, no room for nothing, completed changes only by stale copies, every call is answered |
| `status_conflict_unnoticed` | 2 calls | **violated**: no 409 for a concurrent change |
| `status_pool_exhausted` | 2 confirmations, pool 2, fairness | **violated**: each holds a connection and waits for another for ever |
| `sessions_safety` | 4 calls, 2 users, refresh tokens live 2 ticks, access tokens 1, one restart of Redis | a remembered logout is final and lets no access token be signed, sessions end for a reason |
| `sessions_rotated_token` | 2 calls, 1 user | **violated**: a rotated token serves for nothing |
| `reviews_safety` | 3 calls, 2 users, 1 old space, 1 old review, 2 fields; one user does not patch | a save of a space or a review overwrites only what it missed, a PATCH answers with its row, two reviews of one user have one of three reasons |
| `chat_safety` | 3 sockets, 2 chats, 2 messages, 1 failure | members are served, in one order, with saved messages only; `ChatGateway` implements `ChatBoard` |
| `registration_safety` | 4 calls, 2 emails, 2 nicknames | refusals are backed by a user; the table rejects only who was overtaken |
| `service` | 2 bookings of one space, 1 change of a status, pool 2, minutes of 2 ticks, 6 ticks, one fault, fairness | who is told, that nobody is told thrice, reminded implies room, the bookings implement `BookingLedger` over the restart, every call is answered |
| `pagination` | 4 ids, 2 rows a page, both orders, every filter, fairness | order of cursor pages and what they may miss, partition of a quiet table, end of a reading |

Bounds. Double booking, stale checks and room collisions take two requests; the
third lets one finish, hold or fail between the steps of the other two. Four
calls are a login, a rotation, a logout and one that makes use of the outcome.
Periods are chosen so that each of overlap, contact, disjointness and inversion
occurs. One failure ends a transaction at any statement, the second meets the
request that takes over. Requests are interchangeable, so the safety runs use
symmetry; the liveness runs do not. Two users show that one does not disturb the
other. In `sessions_safety` `MaxTime` equals `Life`: an access token expires in the middle
and a refresh token at the end of a run, and a login, a dump, a logout and a restart fit in.
In `reviews_safety` three calls are enough for a PATCH between whose two reads another
one writes and a third removes; the second user is there to show that his creations and
removals disturb nobody, and is kept from patching (`MCSpec`) because his PATCHes are
those of the first user under another name. `MCSpec` also keeps the calls to four dtos (undo,
the other field, both) and lets only the last call be about what the first creates.
Three sockets are a sender and two receivers whose
orders can be compared; two messages are enough to be swapped. Four registrations
let two pairs compete for an email and for a nickname at once. Four ids with two rows to
a page give full, partial and empty pages and rows that appear between them.
In `service` a start at a whole minute and one half a minute later meet three ticks of
the timer, late ones included, so that gaps, overlaps and a lost window occur; with two
connections a booking that waits for a lock and a confirmation that wants a room take all there
are. `MaxServed` (6) exceeds the number of ids, so it stops only a reader whose cursors are
ignored.

Deadlock is checked in every run except `status_pool_exhausted`, whose subject is
a system that stops. A `Quiet` step stands for "everything is answered", in `Service`
also for a clock that has come to its bound.

Fairness. `FairSpec` assumes weak fairness of each request's own next step: the
event loop resumes a handler whose statement was answered, and PostgreSQL and
Redis answer what they can. A waiter needs no strong fairness because every
request ends, so locks and connections become free for good. No failure, no call
on /spaces, no tick of the clock and no new request is assumed to happen. `EveryRequestAnswered`
assumes fewer status changes at a time than connections; finding 3 shows that
it has to. In `Pagination` the fairness is the client's: it goes on asking while it is told that there is more.

## Findings

1. `booking_overlapping_created`: the locking `findOne`
   (`reservations/reservations.service.ts:95`) is not checked for null. For a space
   that was soft-deleted nothing is locked and the overlap query sees no row, so
   overlapping calls for it are all answered with a 201, where the controller
   documents a 404. The simplest history removes the space first and then sends two
   calls. `NoDoubleBooking` says that this is the only way.
2. `status_conflict_unnoticed`: TypeORM's `save` does not compare the version column,
   so the catch of `OptimisticLockVersionMismatchError`
   (`reservations.service.ts:150`) is never reached; the last of two concurrent
   PATCHes wins and both get 200. In the same way COMPLETED can be overwritten by a
   PATCH that read the row before, and by nothing else (`CompletedUnlessStale`).
3. `status_pool_exhausted`: `createChatRoom` (`reservations.service.ts:160`) asks
   the pool for a second connection; with as many concurrent PATCHes as
   connections (ten by default, no timeout) all wait for ever. `EveryPatchAnswered`
   shows that one connection more than requests is enough.
4. `sessions_rotated_token`: `rotateRefreshToken` signs for the decoded claims,
   which have no `id` (`auth/auth.service.ts:126`), so a session can be rotated
   once and is dead afterwards. The finality of a logout (`LogoutHolds`) rests on
   this: with a `sub` in the rotated token (the mutant `RotatedWithSub`) a
   rotation racing with a logout would bring the session back, so a repair of one
   needs an atomic compare-and-set for the other.

Some properties hold in a form that says when the plainer one fails:

* `DuplicatesExplained`: `exists` and `save` (`reviews/reviews.service.ts:37`) are two
  statements without a constraint behind them. A user can have two reviews of a
  space after two creations at once, after one made while the space was
  removed, or after a removed review came back.
* `OnlyStaleCopiesOverwrite`: a PATCH that read a review before its removal writes
  `deletedAt` back as null (`reviews.service.ts:77`), and with it what others wrote
  between its two reads.
* `ConflictOnlyIfOvertaken`: the loser of two registrations made at once gets a 500
  instead of the 400 (`users/users.service.ts:43`).
* `ServedInOrder` and `ReaderFinishes` make an exception of `overrides`: the lists of a
  USER answer every cursor with the first page, as their `where` replaces the
  cursor's.
* `StableRowsServed` promises something to `stable` rows only: a row whose
  transaction commits late, with an id below the cursor, is never served. And it does not
  promise that the reader gets all of them: when a row is soft-deleted after the first
  statement of a page has chosen it and before the second has read it, the page is
  shorter than `take`, so `cursorPaginate` (`common/common.service.ts:80`) gives no next link,
  and the rows behind this page are never served although they were there all the time.
  With four ids and pages of two TLC needs three steps for that: ids 1 and 2 are chosen,
  1 is removed, 2 is served, and the reading ends before 3. What holds is that such a tail
  is all that can be missing, and that nothing is when every chosen row was served.

## Proofs

TLAPS proves the following for every value of the constants, from the assumptions
stated in the modules (`Call` is a set of well-formed calls, the pool is not
empty, `MaxFaults` is a natural number, lifetimes and minutes are positive, `NoToken` is not a
token, tables and pages have room for a row, reviews there are already have different users or spaces).

* **Booking.** `IInv` is inductive. No double booking alone is not: at a COMMIT one
  has to know that no row that came since the overlap query conflicts
  (`CheckStillHolds`), which needs that no two calls hold the lock of one space and
  none inserts beside it (`LockDiscipline`), and the query saw every row only
  because a locked space stays live (`LockedSpaceStaysLive`). `NeverDoubleBooked`,
  `CheckNeverStale`, `LockedSpaceNeverRemoved` and `RefusalsTrue` follow.
  `BookingImplementsLedger` maps each step to an `Accept`, `Refuse` or `Fail` of the
  ledger or to a stutter.
* **StatusUpdate.** `CopyDiscipline` (one writer per row; a copy that is not stale
  is not final) and `RoomDiscipline` (a confirmation is committed only with a room;
  without failures only the writer of the row needs a new one) make `ConfirmedHasRoom`,
  `NoRoomCollision` and `RoomHasConfirmer` inductive; `CompletedUnlessStale` is an
  action property that follows from the invariant.
* **Sessions.** `OutDiscipline` (no SET of a login is under way for who is out, and only such
  a SET stores a token with a `sub`), `KeyDiscipline` (a key outlives its token) and
  `DumpDiscipline` (the same of the dump) give `LogoutAlwaysHolds`, `OutNeverAdmitted` and
  `SessionsEndForAReason`.
* **Reminder.** `NobodyForgotten` goes by the windows of two successive handlers: who is newly
  due stands in the new one or before it, and then in the gap. `GapDiscipline` (without failures
  the timer is set for the minute after the last handler) gives `WholeMinutesServed`: a gap between
  punctual handlers lies strictly between two whole minutes. `NobodyToldThrice` counts tellings and
  windows that wait for their query (`TellingDiscipline`): whoever has been in a window starts before
  the coming handler's thirty minutes are over, so of three handlers the last starts more than a
  minute after the first, a restart included. The lemmas on whole minutes
  (`Scaled`, `NextMinuteIsLater`, `NoWholeMinuteBetween`) hold for every length of a minute.
* **Service.** The inductive invariant joins those of the three parts and adds how they share the
  table: `OneTable` says that a reservation has a status exactly when its booking is committed, and
  that a call has a copy of a row only where there is one. Every step maps to a step or a stutter of
  `Reminder` (`ImplementsReminder`, hence `ServiceReminds`), of `Booking` (`BookMapsToBooking`) and of
  `StatusUpdate`, where a COMMIT of a booking is its `Book` (`BookMapsToStatus`,
  `ChangeMapsToStatus`); so the lemmas on single steps of `BookingProofs` and `StatusUpdateProofs` are
  used as they stand, by `INSTANCE`. Only the death of the process is a step of none of them, and
  `RestartKeepsBookings` and `RestartKeepsStatus` show that it breaks no invariant of theirs. From this
  follow, for any number of calls, connections and restarts, `ServiceNeverDoubleBooks`,
  `ServiceCheckNeverStale`, `ServiceRooms`, `ServiceCompletedFinal`, `RemindedHasRoom`, and
  `ServiceImplementsLedger`, where a restart is a `Crash` of the ledger. `RoomHasConfirmer` is the
  one promise of `StatusUpdate` that a restart breaks: a confirmation cut short leaves its room
  behind. It is proved for as long as nothing has failed.
* **Pagination.** The answer to a query is the rows found, each at the place of its `Rank`. Ranks
  grow along the order (`Ranks`) and are as many as the rows, so every place is taken
  (`EveryRank`: an injection of a finite set into one of the same size, no induction), and an answer
  is sorted and complete (`SortedRows`, `RowsOfPage`). `FirstPageIsFirst` says that what is not on a
  first page comes after all of it and leaves it full, `NextPage` that a page goes on where the one
  before ended, `PagesAreEnough` that the last of `totalPage` pages is the last with rows.
  `CursorDiscipline` (the cursor stands at the last row served; a stable row that is missing
  lies ahead of it, and of the page that is being read unless it is one of its ids) and
  `StableThere` make `ServedInOrder` and `StableRowsServed` inductive, `PageDiscipline` (what has been
  served of a quiet list are its first pages) makes `PagesPartition`; for every size of table and
  page, whatever happens to the table between two statements. The name of the theorem,
  `OnlyATailIsMissed`, says what it does not promise.
* **Catalogue.** `CopyDiscipline` (a PATCH under way holds a copy of a row that is there,
  and a creation has no row before its insert) and `DiffDiscipline` (the columns in which a
  copy differs from its row, and those about to be written, are in the dto or were
  missed) give `OnlyStaleCopies`, `LateDiscipline` (the same after the second read)
  `AnswersAreRows`; `CheckFresh` (a creation about to insert that
  is not unsure has no live rival, revived reviews aside) makes `DuplicatesExplained`
  inductive.
* **ChatGateway.** `SentDiscipline` (only sent messages are in an inbox) makes `SameOrder`
  inductive, because a message is appended to all its inboxes at once and is new to each;
  `OwedDiscipline` (who is owed a message under way is in its room) gives
  `MembersAlwaysServed`. `GatewayImplementsBoard` maps a save to `Post`, an emit to `Publish`, a
  disconnect to `Leave`; it needs that nothing is saved twice (`SaveDiscipline`).
* **Registration.** `AskedDiscipline` (a value asked for is free, or the request was
  overtaken) gives `ConflictsOvertaken`; `RefusalsBacked` needs that users stay. Both hold whatever fails.

Only model-checked: the liveness properties (TLAPS has no support for ENABLED under
this toolchain) and, naturally, the violations. Every invariant and every safety property of a step
that a passing run checks is also a theorem.

## Not modelled, and the plan

What could be added:

1. An abstract specification of the sessions, refined by `Sessions`.
2. The other way round: that the chats and the ledger keep the properties of the runs because of
   their abstract specifications alone.
3. In `Service`: the calls on /spaces, several changes of a status at a time (the state space
   with two exceeds what a run can do with liveness), and the guard's own query.

Not modelled, as nothing in the repository says what is right: `take` of zero, the messages of a
socket whose user is still being looked for, the bound that a next link drops, and the requests
that the metrics do not count (`tap` sees only answers that succeed).

Left out for good: RoleGuard, BasicTokenGuard and the parsing of headers (functions of one
request), DTO validation (pure), metrics and logging interceptors, the exception filter, Swagger,
Docker, CI and Prometheus (no state that a property here is about).
