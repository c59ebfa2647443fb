# University library: a verification project

TLA+ models of the library application in `src/backend`, the TLC runs that
check them and the theorems TLAPS proves about them. `PROJECT.json` maps every
definition to the lines of code it stands for.

The application is a NestJS server on one PostgreSQL database. Its interesting
state is in the database, its concurrency is that of HTTP requests whose
handlers give up control at every `await`, and its safeguards are four: a
`SELECT ... FOR UPDATE`, a version column, a unique index, and a table of legal
status changes that is asked about a status read earlier.

## 1. Inventory

| Component | State | Operations | What is hard | What makes it correct |
|---|---|---|---|---|
| Loan circulation, `loan/service/loan.service.ts` | `resource_copy` (status, version), `loan` | `borrowCopy`, `returnLoan`, `renewLoan`, `markOverdueLoans` | row locks and waiting, two reads before one write, updates by id, a crash between write and event | no copy lent twice, no copy stranded, no deadlock, legal status changes, renewal cap, one notice per due date |
| Hold queue, `reservation/service/reservation-queue.service.ts` | `reservation` with a unique index on (resource, position) | `enqueue`, `cancel`, `markReadyForPickup` | two enqueues reading one maximum, bounded retries, stale status | positions distinct and in order of arrival, failures only with rivals, legal status changes, announced once |
| State machines, `common/statemachine` | none (four tables) | `assertLegal`, `isLegal` | asked about stale values | rows move along the tables |
| Thesis workflow, `thesis/service` | `thesis_submission` (status, file, version) | `createDraft`, `createUploadUrl`, `confirmUpload`, `transition` | status and file written by several people, a version nobody compares | what was submitted is what is judged |
| Upload client, `web/client/thesis-upload.ts`, and `storage` | one page's upload, stored objects | start, cancel, retry; PUT | cancel racing an answer, retry beside a request still going, a body the server has no parser for | a page confirms only bytes that were stored, and no thesis is submitted without a file |
| Inter-library requests, `ill` | `ill_request` | `submit`, `transition` | stale status | an illegal change only when another change came between |
| Notifications, `notification` | `notification_log`, mails sent | `onLoanOverdue`, `onReservationReady`, `onEmbargoLifted` | mail sent and log write failed, log write done and its confirmation lost, a crash | the log tells what happened, and no event leaves nothing behind |
| Audit, `audit` | `audit_log_entry` | `intercept`, `record` | written after the answer, failures swallowed | an entry per change, never an entry without one |
| Fines, `loan/service/fine-calculation.service.ts` | `fine` | `calculateOverdueFine`, `createOverdueFine` (called by no code yet) | rounding, grace, cap, charging twice | the amount is the policy's, and a later return costs no less |
| Access policy and resources, `resource` | `resource` and five subtype tables | five create operations, `findById`, `resolve` | boundary dates, one rule written in four places | the label on a page or a card agrees with the decision |
| Search, `search` | reads only | `search`: count, page, six facet queries; pagination; a second implementation in memory | statements that see different tables, rows added while somebody pages, filters and facets written apart | facets count what filters find, a walk through the pages misses nothing |
| Web portal, `web/controllers` | none | pages, `borrow`, `reserve`, search links | checks one copy, borrows any; a form submitted twice | the member gets what was shown, or a conflict |
| Guards, CSRF, sessions | two cookies | per request | two first requests at once, an expired session | a form of the book, login or account pages is refused only after such a race |

How they meet: the controllers call the services; `renewLoan` reads the rows
`enqueue`, `cancel` and `markReadyForPickup` write; `markOverdueLoans` and
`markReadyForPickup` emit events that the notification dispatcher handles;
every service asks the same validator. `PROJECT.json` lists the hazards at
their lines.

## 2. Modules

| Module | What it is |
|---|---|
| `StateTransitions` | `LOAN_TRANSITIONS`, `RESERVATION_TRANSITIONS`, `SUBMISSION_TRANSITIONS` and `isLegal`, as functions from a status to a set |
| `LendingDesk` | the abstract specification of lending: a copy is on the shelf or out on one loan, a loan is given back once |
| `LoanService` | the four operations of `loan.service.ts`, run by `Procs` requests at once |
| `ReservationQueue` | the operations of the hold queue, run by `Procs` requests at once |
| `Circulation` | `LoanService` and `ReservationQueue` on one database |
| `ThesisReview` | the abstract specification of the thesis workflow: what is judged is the file that was submitted |
| `ThesisSubmission` | the thesis service and the object store, run by `Procs` requests at once |
| `ThesisUpload` | the browser's upload pages in front of `ThesisSubmission`, beside its other clients |
| `Catalog` | the rules of the catalogue as operators: access, labels, filters, facets, pagination, and the in-memory search |
| `CatalogSearch` | resources being added, the clock, and a reader walking through the pages of a search |
| `IllRequests`, `AuditLog`, `Notifications`, `Fines` | one component each, with no specification of their own |
| `BackOffice` | these four composed in one server that may crash |
| `Portal` | one browser with several tabs, its cookies, and the portal's server |
| `LoanService_proofs`, `ReservationQueue_proofs`, `Circulation_proofs`, `ThesisSubmission_proofs`, `ThesisUpload_proofs`, `CatalogSearch_proofs`, `Portal_proofs`, `BackOffice_proofs` | the theorems of the module each is named for |
| `MCLoans`, `MCReservations`, `MCCirculation`, `MCThesis`, `MCUpload`, `MCCatalog`, `MCBackOffice`, `MCPortal` | instances for TLC |

### LoanService

A request is a process `p`; `req[p]` is what it is doing, where it has got to
and what it has read. An action is one SQL statement. The statements of a
transaction write what nobody else sees until COMMIT, so its writes are one
action, the one that commits, and the row locks it takes before are the
variable `lockedBy`.

| Code | Actions |
|---|---|
| `borrowCopy`: the SELECT takes its snapshot | `BorrowSelect` |
| ... locks the next candidate in the order of ids, and finds it AVAILABLE, or passes over it and keeps the lock | `BorrowLock`, `BorrowPassOver` |
| ... `NoAvailableCopyException` | `BorrowRefused` |
| ... updates the copy, inserts the loan, commits | `BorrowCommit` |
| `returnLoan`: reads and checks the loan; reads the copy | `ReturnReadLoan`, `ReturnReadCopy` |
| ... updates the copy with the version it read, or finds no such row | `ReturnUpdateCopy`, `ReturnConflict` |
| ... updates the loan by its id, commits | `ReturnCommit` |
| `renewLoan`: reads and checks the loan; looks for a hold; writes | `RenewRead`, `RenewCheckHold`/`RenewBlocked`, `RenewWrite` |
| `markOverdueLoans`: reads the late loans; for each, updates and emits | `SweepRead`, `SweepMark` |
| a transaction timeout, a failed statement, a server that stops | `Abort`, `SweepDies` |

The helpers `Start`, `ReadOn`, `LockRow` and `RollBack` are the four kinds of step
that write no row.

What is abstracted: a request that is refused on its first read changes
nothing and is not a step; the calls of the controllers that only read the
resource, the policy or the loan's owner are part of the first action; any
member may ask for any loan, more than the controllers allow; the row lock of
a loan is held only between its update and the COMMIT that is the same action;
`now` may move between any two steps. `holds` is the part of the reservation
table `renewLoan` looks at, which in this module comes and goes at will
(`PlaceHold`, `DropHold`). Copies are their primary keys, since `ORDER BY id`
compares them. RESERVED and LOST are in the enum and no code writes them.

READ COMMITTED, PostgreSQL's default and the one Prisma uses, gives each
statement a snapshot of its own. When a locked row is released, FOR UPDATE and
UPDATE look at its new version: `BorrowPassOver` and `ReturnConflict` are what
they do when it no longer matches.

### ReservationQueue

No transaction, no lock: each statement is an action. `rows[r]` is the queue
table of resource `r` in the order of insertion. `EnqueueRead` reads the
highest position of the active rows, `EnqueueInsert` inserts unless the unique
index refuses (`Collides`, over rows of every status), `EnqueueRetry` and
`EnqueueGiveUp` are the loop. `cancel` and `markReadyForPickup` read a row
(`ReadRow`) and write it by its id (`Cancel`, `MarkReady`); the server may stop
between the write and the event (`MarkReadyDies`).

### ThesisSubmission and ThesisUpload

Every operation of the thesis service reads the row, checks what it read and
updates the row by its id; the check and the update are two actions.

| Code | Actions |
|---|---|
| `createDraft` | `CreateDraft` |
| `createUploadUrl`: `requireOwned` and `requireDraft`; the key of this millisecond is signed | `AskUrl`, `IssueUrl` |
| the PUT: signature and expiry; the bytes are stored | `AcceptPut`, `StorePut` |
| `confirmUpload`: `requireOwned`, `requireDraft`, the key's prefix; the update | `ReadForConfirm`, `AttachFile` |
| `transition`: who may, file attached, `assertLegal`; the update | `ReadForMove`, `WriteStatus` |
| the page: Upload and Retry; the answers to URL and PUT; the answer to confirm; Cancel or a failure | `ClickStart`, `Answered`, `ConfirmRefused`, `Stop` |
| its calls on the server; the CSRF middleware's answer to its confirm | `Take`, `Serve`, `ServeFails`, `Lose`; `RefuseConfirm` |

A key is the pair of submission and time of issue. `confirmUpload` accepts any
key with the right prefix, issued or not, stored or not, and so does
`ReadForConfirm`. In `ThesisUpload` `wire` and `answers` are what is under way
between pages and server: `Stop` leaves them alone, since cancelling a fetch
does not call back what was sent, and `Awaited` drops the answers of an aborted
run. A page's confirm is a multipart form without the token's header, and
nothing on the server parses one, so it is answered 403 by the middleware and
reaches no handler (`RefuseConfirm`). The confirms that do reach
`confirmUpload` are other clients', such as the urlencoded one of
`test/portal.e2e-spec.ts:115`. Their requests of every kind, for any key and in
any order, go on beside the pages, as do submission, the staff's moves and the
clock (`Elsewhere`). S3 takes a PUT in the same two steps, acceptance and
storage. `version` is kept because the code increments it, and no guard mentions
it because no code does. The upload of something other than a PDF, and buttons
and progress, are left out.

### Catalog and CatalogSearch

`Catalog` has one operator per function of the code, by the code's name:
`resolve` and its cases, `catalogAccessStatus`, `toPageViewModel` and
`toSummaryViewModel`, `filterSql`, `facetValueExpr`, `computeFacets`,
`clampPagination`, and `searchInMemory` for the implementation the tests use.
A search text is abstracted to where a resource contains it: in a ranked field
(title, description), in a searched but unranked one, or nowhere; which word
is where, and how PostgreSQL ranks two ranked rows, is left out. A year
is a number in a column and a text in a request: `YearText` writes it, and `parseInt`
reads it, taking 2026x for 2026 as `Number.parseInt` does. A type or degree there is not
makes the SQL cast, and with it the search, fail (`Castable`, `CountFails`). A number in a
request is an integer, absent, zero, negative or infinite, the cases
`clampPagination` and the controllers tell apart. `findById` is the set of
entities with a key, empty when there is none. `InputOK` is what a form or an
address can ask for, and `InputsAssumption` says a run's `Inputs` keep to it.

| Code | Actions |
|---|---|
| the five `POST /api/resources/...` | `createPhysicalBook`, `createThesis`, `createJournalArticle`, `createResearchReport`, `createRareMaterial` |
| a search from the portal or the API, up to its first statement | `Open` |
| `SELECT COUNT(*)`, or its failure; the page; the facets | `Count`, `CountFails`; `ReadPage`; `ReadFacets` |
| Next on the portal's page, or the API asked for the next page | `FollowNext` |
| the reader goes away | `Leave` |

A row's `stamp` is its place in the order of `updatedAt` and id. `updatedAt` is
taken before the commit, so a row may appear anywhere in that order, which is
what an inserted row does to a reader. The six facet queries are one action,
since only the types are shown and the properties speak of one dimension at a
time. Dates are days in UTC, as `@db.Date` columns come back, and `CURRENT_DATE` is
taken in UTC too: the database's time zone is the container's.

### BackOffice

| Code | Actions |
|---|---|
| `IllRequestService.submit`; `transition`: read and check; update | `submit`; `ReadRequest`, `WriteRequest` |
| the interceptor takes the result; the promise nobody waits for ends or fails | `Answer`; `record`, `RecordFails` |
| an event is emitted; `dispatch`: the mail, the SENT row, the catch block, each with its failure | `Emit`; `MailSent`, `MailFails`, `LogSent`, `LogSentFails`, `LogFailed`, `LogFailedFails` |
| `createOverdueFine` | `createOverdueFine` |
| the server stops | `Crash` |

The event is the same whichever of the three handlers takes it: they differ in
what the mail says. A failed write may have been done and its confirmation
lost, and so may a failed mail. The audit is modelled behind one audited
handler, the only one whose service has a read and a write to get between.

### Portal

A tab is on a page, has a request under way, or has an answer on its way. A
request carries the cookies the browser had when it was asked; an answer sets
cookies when it arrives, which is what lets two requests race. The server's
order is the middleware (`Token`, `CsrfValid`, `Refuse`), the guards
(`GuardsPass`, `ToLogin`), the handler.

| Code | Actions |
|---|---|
| the book page; the login page; home, account and the 404 page | `detail`; `loginForm`; `Plain` |
| `POST /login`, `POST /logout` | `login`, `logout` |
| `POST .../borrow`: the check of the copy's version and status; `borrowCopy` | `borrow`; `borrowCopy` |
| `POST .../reserve` | `reserve` |
| CSRF failure; no session | `Refuse`; `ToLogin` |
| the browser | `Ask`, `Receive`, `Expire` |
| loans and returns by others | `OthersMove` |

`borrowCopy` is one step: its locks are `LoanService`'s matter, and what the
portal adds is the check before it.

### Serial specifications

`Spec` lets everything overlap. `SerialSpec` adds that no two requests work on
one loan (one reservation, one submission) at a time. Nothing in the code imposes it: there is
no lock for it, and a member with two browser tabs can break it. It is there to
separate two kinds of promise. What holds of `Spec` is guaranteed by the locks,
the version and the index. What holds of `SerialSpec` only is right in the
logic of each operation, and is lost when they overlap; section 4 lists where
that contradicts what the repository says.

`renewLoan` makes an OVERDUE loan ACTIVE again and does not ask the validator;
`LOAN_TRANSITIONS` has no such move. `LoanMovesLegal` allows it, as the comment
on that property says.

## 3. Runs

| Run | Specification and bounds | Checks |
|---|---|---|
| `loan_races` | `FairSpec`; 3 requests at once, 4 in all, 2 copies of a book, 1 member, clock to 2 | `TypeOK`; `BorrowerHoldsCopy`: at commit the borrower holds the lock of a copy still AVAILABLE; `LentFromShelf`: a loan is made only of an AVAILABLE copy; `OnLoanBacked`: an ON_LOAN copy is out on its newest loan, open and not returned; `ReturnOnReadVersion`; `NoWaitCycle`; `RequestsFinish` |
| `loan_serial` | `SerialSpec`; 2 requests at once, 4 in all, 2 copies, 2 members, one of whom places holds, a loan of 1 or 2 ticks, clock to 3 | `RenewalCap`, `OverdueIsLate`, `EachNoticeOnce`, `LoanMovesLegal`, and `ImplementsDesk`: the refinement of `LendingDesk` |
| `queue` | `Spec`; 3 requests at once, 6 in all, 2 resources, 3 attempts | `TypeOK`, `ArrivalOrder`, `RetriesHaveRivals` |
| `circulation` | 2 loan requests of 2 and 2 queue requests of 3, 1 copy, 2 members | `DeskImplemented`: the composition implements `LoanService` with the active reservations for `holds`; `ReservationMovesLegal`, `AnnouncedOnce` |
| `thesis_serial` | `SerialSpec`; 2 requests at once, 6 in all, 2 submissions, clock to 2, URLs of 1 tick | `TypeOK`; `ImplementsReview`: the refinement of `ThesisReview`; `UploadWindow`: a PUT is accepted for a thesis no longer a draft only within the life of a URL after its submission |
| `thesis_upload` | `UploadSpec`, requests overlap; 2 pages with 2 runs each, 2 requests at once, 4 in all, 1 submission | `UploadTypeOK`: types, and what is stored for a page is stored under the key of its PUT; `SubmittedHasFile`; `ConfirmNamesStored`: a page confirms only what is stored, whatever was cancelled, lost or late |
| `catalog` | `Spec` of `CatalogSearch`; 7 kinds of resource of which 3 are added, 10 searches, one for 2026x, one for a year that is none and one for a type there is not, 3 pages, 2 days and one tick | `TypeOK`; `FacetsPromise`: a facet counts what choosing it finds; `EnginesAgree`: the SQL search and the in-memory one find and count the same for well-formed filters; `LabelPromisesAccess`; `WalkSeesAll`: paging to the end misses nothing that was there; `PageAddsUp`: count, page and facets of one answer fit; `LinkedPagesNotEmpty` |
| `portal` | 2 tabs, 2 copies, 3 loans, 1 hold, 1 login, 2 moves by others; constraint `OneMatterAtATime` | `LentAsShown`: the copy lent is the one shown, up to two named ways; `ResubmitRefused`: of two loans made from forms that show one state of one copy, the later was checked before the earlier was made, or the earlier had lent another copy; `RefusedOnlyAfterRace` |
| `back_office` | 2 librarians on 1 request with 3 changes, 1 event, 2 fines of 2 policies, 1 crash | `IllegalOnlyByRace`; `TrailAccounts`: every change has one entry, one coming or one lost, and each entry is of its change; `LogTellsTruth`; `NothingVanishes`; `FinesFair`: fines against a count of whole days |
| `portal_paging` | as `catalog` | violated: Next after a search by type leaves the type out |
| `single_return` | `Spec`; 2 requests at once | violated: two returns of one loan both commit |
| `queue_reuse` | `Spec`; 5 attempts as in the code | violated: an enqueue fails on the position of a cancelled row |

Why the bounds are enough for the cases that matter: two copies and three
requests give a borrower that passes over a row, holds its lock and waits for
the next, with a rival on either; one loan can be borrowed, returned and
borrowed again (a second loan of one copy) with a return of the first still
going; `MaxTime` 2 is past the due date of a loan of one tick, 3 past that of a
renewed one. In the queue six requests fill a queue, cancel in the middle and
at the end, and defeat an enqueue of three attempts. A thesis is uploaded in three requests and
submitted in a fourth; a page makes two of them, and its two runs make four, while
what an aborted run has sent is served beside them; six requests reach PUBLISHED
through EMBARGOED. Three resources on pages of one
give three pages with a row inserted before, on and after the page being read;
`MCStock` has each type, both sides of an embargo, a license that lapses, and
empty, absent and present values of every column that is tested for them; the
clock passes the first instant of a day, the middle of it and the next day. Three
changes of one inter-library request are enough for a stale write between a read
and a write of somebody else, with the third one's audit entry overtaking. In the portal two tabs
race for the cookie and for the copy, and one move by others takes the copy
shown or gives back a lower one; with two moves and two loans copy 1 goes, comes back
and is lent in place of the copy 2 two tabs show, and the second tab's form still
lends copy 2. Fines are asked for just before, at and just
after the ends of days and of the days of grace, and past the cap.

Bounds are `MaxTime`, `MaxRequests` (`MaxDeskRequests`, `MaxQueueRequests`),
`MaxSubmissions`, `MaxRuns`, `MaxRows`, `MaxPages`, `MaxChanges`, `MaxFines`,
`MaxCrashes`, `MaxMoves`, `MaxLoans`, `MaxHolds`, `MaxLogins`, the sets `Stock`,
`Inputs` and `Lateness`, and two constraints. `FinesByThemselves`: fines share no
state with the rest, so their interleavings with it are not explored. `OneMatterAtATime`, in
`portal`: the third loan and the second move by others are explored only where the
tabs have not raced for the CSRF cookie and nothing was reserved. `catalog` and
`portal` check for deadlock: there a reader and a member can always go on.
The other runs stop when requests, changes and ticks are used up, so deadlock is not checked and
`NoWaitCycle` and `RequestsFinish` say instead that no request is left waiting.
Interchangeable requests, pages and tabs are symmetric, except in runs with liveness.

Refinement mapping of `ImplementsDesk`: a copy is out on its newest loan while
its status is ON_LOAN, the number of loans made is the length of the table, the
closed loans are the RETURNED ones. It fails of `Spec`, as `single_return`
shows: the second return can put a copy on the shelf that the next borrower has.
`ImplementsReview` maps a row to its status, file and time of submission; it
fails of `Spec` of `ThesisSubmission` too, where a confirm that read the draft
replaces the file after the submission.

Mutants: each property has one in the module, an operator named for the bug
(`BorrowWithoutLock`, `LocksKept`, `EnqueueInsertUnindexed`, ...) that stands in
for the definition of the code and breaks the property.

## 4. Where the code and the repository's words differ

Three runs show a disagreement: `single_return`, `queue_reuse` and
`portal_paging`; `PROJECT.json` quotes the lines. The models show others, met on
the way and left without a run of their own:

- A renewal or a sweep that read a loan before it was returned writes it
  afterwards: the RETURNED loan is ACTIVE or OVERDUE again, and
  `transition-rules.ts:40` calls RETURNED terminal. `LoanMovesLegal` and
  `OverdueIsLate` are therefore checked of `SerialSpec`.
- A hold placed between `renewLoan`'s look at the queue and its write does not
  stop the renewal (`loan.service.ts:98`).
- A signed URL is good for its whole life, and a PUT replaces the bytes of a
  thesis already submitted (`thesis-submission.service.ts:119`). `UploadWindow`
  bounds it.
- An upload in the browser stores the bytes and never attaches them. The page
  posts its confirm as `FormData`, which is sent as multipart, with the token in
  the body and not in the header `X-CSRF-Token` (`thesis-upload.ts:144`);
  `main.ts:17` parses urlencoded bodies, Nest JSON, and nothing multipart; so
  `csrf.middleware.ts:48` finds no token and answers 403. `thesis-upload.ts:155`
  expects a 303, and the end-to-end test confirms by a form of its own.
  `ThesisUpload` has it as `RefuseConfirm`, every time, and needs no run to find it.
- `confirmUpload` does not look whether the object exists: a client other than
  the page may attach a key never stored and submit the thesis. Only a proposed
  plan, `docs/aws-cloud-infrastructure-plan.md:122`, wants it looked up, so no
  property claims it.
- The two search engines differ on filters that are not well-formed:
  `year=2026x` is 2026 to `postgres-fts-search.service.ts:144` and no year to
  `in-memory-search.service.ts:72`, and a type or degree there is not is an error
  to the first (lines 140 and 149) and an empty result to the second.
  `EnginesAgree` says nothing of them.
- The portal compares the version the member saw in a statement of its own
  (`web-resource.controller.ts:151`), and `borrowCopy` lends any copy: a copy
  other than the one checked can be lent. `LentAsShown` names the two ways,
  `ResubmitRefused` the two in which a form submitted again lends a second copy:
  its check ran before the first loan was made, or the first loan was of another
  copy, so that the one shown has not changed.
- A report whose scope is the empty string is AVAILABLE to
  `catalog-access-status.ts:20` and DEPARTMENT_SCOPED to the SQL and the access
  policy, which compare with NULL. The creation form accepts it. The properties
  except it, each in its comment.
- After an expired session a posted form leads to the login page with the
  form's own address as `next`, which answers no GET (`web-auth.guard.ts:22`).
- `createOverdueFine` called twice charges twice.

## 5. Fairness

Two properties need it. `NothingVanishes`: weak fairness of the dispatcher's
next step for every event (`HandlersRun`), since an await of the mail port or
of the database ends, in success or in an error; the error branches count as
steps, so nothing is assumed to succeed.

`RequestsFinish`: `WF_vars(Continue(p))` for every request. Node's
event loop serves every answer of the database, and PostgreSQL grants a row
lock that is free to a transaction that waits for it; a lock holder is itself a
request that goes on. No fairness is assumed of new requests, of failures, of
holds or of the clock. Weak fairness is enough because the requests that could
take a lock away again are bounded; with an endless stream of borrowers it
would rest on PostgreSQL's queue of waiters.

## 6. Theorems

Proved by TLAPS for every number of requests, tabs, pages, copies, books, members,
resources, searches, attempts, librarians, events, crashes and policies. Every
invariant and action property of a passing run has a theorem, and so do the three
refinements the runs check and a fourth, of `ThesisSubmission` by `ThesisUpload`; only the two liveness properties have none.

Assumptions, each named in the module that declares the constants:

| Assumption | What it says, and why the code justifies it |
|---|---|
| `LoanServiceAssumption` | ids and policies are naturals, no request is called `Nobody` |
| `LoanPolicyAssumption` | a policy lends for some time, as the rows the seed migration writes do; `EachNoticeOnce` alone needs it, since a renewal by nothing would let the sweep announce one due date twice |
| `CirculationAssumption` | the two above, of the constants of the composition |
| `ReservationQueueAssumption` | at least one attempt (`MAX_ENQUEUE_ATTEMPTS` is 5) |
| `ThesisSubmissionAssumption`, `NoCallAssumption` | no key is `NoFile`, no call is `NoCall` |
| `CatalogAssumption`, `TypeNotNullAssumption` | a day has ticks, page sizes are positive and the default fits the maximum, dates are integers, and neither `Null` nor infinity is a number, nor `Null` a type of resource |
| `YearAssumption` | a year is read back from the digits that write it; what `parseInt` makes of any other text is left open |
| `InputsAssumption` | a search is one that a form or an address can ask for: `InputOK` |
| `PortalAssumption` | finitely many copies, with naturals for keys |
| `FineAssumption`, `BackOfficeAssumption` | a day has ticks; rates, days of grace and maxima are naturals, as the seeded policies are when counted in cents; times are integers |

The bounds (`MaxTime`, `MaxRequests`, `BoundsAssumption`, ...) are only assumed to
be naturals, so no theorem depends on how small a run's are.

### What the desk promises when everything overlaps

`LoanService_proofs`: `TypeCorrect`, `BorrowerHoldsCopyHolds`,
`LentFromShelfHolds`, `OnLoanBackedHolds`, `ReturnOnReadVersionHolds`. The
inductive invariant `IInv` is `TypeOK`, `BorrowerHoldsCopy`, `OnLoanBacked` and
`ReturnerHoldsCopy`: a return about to commit holds the lock of its copy, whose
version is the one it read. Neither lock invariant is inductive alone, since a
commit writes a copy and must be known to write only one it has locked. The
argument is a frame: `StepFramed` says that a step of one request leaves alone
the other requests, the copies they have locked and which copy a loan is of;
`LocksRespected` says that what is framed keeps both lock invariants; and
`BackedStep` looks at the four actions that write a loan. `LentFromShelf` then
follows from the lock invariant and from there being one lowest candidate
(`CandidateUnique`).

`NoWaitCycleHolds`: no ring of requests waiting for each other's row locks.
`NoWaitCycle` is proved from `LocksAscend`: whoever still waits for a row holds
only rows of lower ids, because `borrowCopy` scans in the order of ids and a
return locks one row. The holder of the highest locked row then waits for
nobody, and a highest one exists because each step locks one row at most
(`WaitInv`, `HighestWaitsForNone`).

### What each operation is right about on its own

`LoanService_proofs` goes on with `SerialSpec`. `SerialInv` adds to `IInv` what
no invariant of `Spec` can say: `StillTrue`, that what a request has read of its
loan is so when it writes. It stands because requests that overlap claim
different loans, and a step writes only what its request has claimed
(`LoansMove`, `RowStep`). From it follow `RenewalCapHolds`,
`OverdueIsLateHolds` and `LoanMovesLegalHolds`. `EachNoticeOnceHolds` needs one
more fact, `ToldOf`: a notice sent is of an earlier due date than the loan has
now, or of this one and the loan is no longer ACTIVE; so a sweep that finds it
ACTIVE and late has something new to say.

`ImplementsDeskHolds`: `SerialSpec` implements `LendingDesk`. The mapping is in
section 3. `OutOnIs` says what `OutOn` is when copies and loans are typed, and a
step that writes no copy and makes or closes no loan leaves the mapped state
alone (`RowWrittenUnseen`, `NoRowUnseen`); `BorrowLends` and `ReturnGivesBack`
are the two that do not. The second uses `OpenIsOut`, that an open loan is the
newest of a copy that is ON_LOAN. That is the converse of `OnLoanBacked` and does
not hold of `Spec`, which is why the refinement is of `SerialSpec`.

### The queue, and the desk beside it

`ReservationQueue_proofs`: `TypeCorrect`, `ArrivalOrderHolds`,
`PositionsUnique`, `RetriesHaveRivalsHolds`, `DefeatNeedsRivals`. That the
i-th row has position i is strengthened with what a pending enqueue knows: the
position it will insert is at most one past the end of the queue, so the unique
index lets it in only exactly there; and while nobody has left the queue it is
exactly one past an end the queue once had, which counts the rivals of each
retry.

Of its `SerialSpec`: `AnnouncedOnceHolds` and `ReservationMovesLegalHolds`, from
`StillLegal` (the move a request has checked is still legal) and `AnnouncedLeft`
(a reservation announced has left QUEUED for good). `WaitingStep` says what the
rest of the library sees of the queue: a step lets one member begin or cease to
wait for one resource, or neither.

`Circulation_proofs` needs no invariant of its own: it cites the theorems of
both parts through `QueueTheory` and `DeskTheory`, instances of their proof
modules at the constants of the composition. `AnnouncedOnceHolds` and
`ReservationMovesLegalHolds` carry over as they are. `DeskImplementedHolds`: by
`WaitingStep`, what the queue does is to the desk a hold placed, a hold dropped
or nothing, so `LoanService`'s environment, which places and drops holds at will,
leaves out nothing the real queue can do. `DeskSafe` then gives `LentFromShelf`,
`OnLoanBacked` and `NoWaitCycle` of the two together.

### Theses

`ThesisSubmission_proofs`: `TypeCorrect`, `SubmittedHasFileHolds`, of the
specification in which everything overlaps. `SubmittedHasFile` is strengthened
with `Backed`: a request about to submit knows of a file, one about to make any
other move knows that its row has left DRAFT and has read its time of
submission. These facts are stale-proof (`Kept`, `BackedKept`): no update takes a
file away or puts a row back to DRAFT.

Of its `SerialSpec`: `UploadWindowHolds`, from `ReadOf` (what a request read is
still so) and `Expires`: a URL of a thesis that has left DRAFT was signed before
its submission, so it dies within one life of it. `ImplementsReviewHolds`: the
refinement of `ThesisReview`, one lemma for each of its moves (`DraftOpens`,
`AttachIsAttach`, `WriteIsMove`).

`ThesisUpload_proofs`: `UploadTypeCorrect` and `ConfirmNamesStoredHolds`, with
everything overlapping, other clients beside the pages, and calls lost, late or
answered after the page was left. A page goes by its answers alone; what makes
it right is in the messages. `UploadInv` says of every call, on the wire or
answered, that a confirm names a stored key and that the answer to a put tells
of one, and of every request that serves a page that it does that page's call
(`ServesOwnCall`). Only the answer to a put of the run under way moves a page on
to its confirm, and such an answer names the key the page holds; an answer to an
earlier run is recognised by its number (`PageMoves`). `PagesAreClients`:
`UploadSpec` implements `Spec` of `ThesisSubmission`, whose theorems therefore
hold behind the pages.

### The catalogue

`CatalogSearch_proofs`. The rules are lemmas about any table of resources, any
request and any date: `LabelIsFacet` and `FilterIsFacet` (the TypeScript label,
the SQL filter and the SQL facet agree), `DocumentIsFacet` (so do the rows of
the in-memory search), `Promise`, `Agreement` and `LabelPromise`.
`Agreement` is of filters that can be cast and are plainly written.
`FacetsPromiseHolds`, `EnginesAgreeHolds` and `LabelPromisesAccessHolds` only
say that the table of a reachable state is such a table.

`WalkSeesAllHolds`, `PageAddsUpHolds` and `LinkedPagesNotEmptyHolds` are about a
reader between whose statements rows appear. `Ranks` is their foundation: the
ranks of n found rows are 0 to n-1, once each, by counting (`PrecedesOrder` is a
strict total order). So a page holds as many rows as its window has ranks
(`PageHolds`), and a row added moves ranks up, never down (`RanksGrow`,
`FoundGrows`). The invariant has a part for each thing the walk remembers:
`CountKept` (what was counted is still found), `LinkReaches` (a link that was
followed leads to a page that has rows), `PageFull`, `TypesAdd`, and `SeenSoFar`:
a row that was there at the start, and ranks below the pages read so far, has been
seen. Since ranks only grow, a row slips onto a later page but never onto an
earlier one. `Lasting` is why this is not said of every search: one for what is
EMBARGOED loses a row on the day its embargo ends.

### The portal

`Portal_proofs`: `LentAsShownHolds`, `ResubmitRefusedHolds`,
`RefusedOnlyAfterRaceHolds`. `IInv` types the tabs and says what each knows at
each stage: a form carries a token that was minted, and the shelf
as it once was (`FormOK`); a request between the version check and `borrowCopy`
saw its copy AVAILABLE at the form's version, and no loan made before the check
spent that version (`CheckOK`). `Since` is what makes these stale-proof: a copy that differs
from what was shown has a higher version. `Spent` adds that a loan of the copy
shown has moved it past the version its form carried, so the same form finds the
version changed. A loan of another copy spends nothing, which is why
`ResubmitRefused` excepts it.

### The back office

`BackOffice_proofs`: `LogTellsTruthHolds`, `IllegalOnlyByRaceHolds`,
`TrailAccountsHolds`. `IInv` is three invariants side by side, since the parts
share nothing but the librarians' calls. `NoteInv` says for each stage of a
handler what is in the log, whether the mail is out and what has gone wrong; a
step of one handler leaves the rows of the others alone (`DispatchFrame`).
`IllInv` adds to `IllegalOnlyByRace` what a call about to write knows
(`Informed`): the row still has the status it read, or a change of it stands in
the history after the read. `AuditInv` replaces the sum of cardinalities of
`TrailAccounts` by what is inductive: every change is somewhere (`Somewhere`),
nowhere twice (`Once`), and whatever carries it says what it was (`Truthful`).

`FinesFairHolds`, in the same module: a row is the result of `calculateOverdueFine`
for its own facts; the floor of the division counts whole days (`WholeDays`,
`DaysCounted`), and grace and cap keep the order (`AmountMonotone`).

### Only model-checked

`RequestsFinish` and `NothingVanishes`: liveness under fairness is outside the
prover's reach, as are ENABLED and induction over recursive data. No module uses
a RECURSIVE operator. The three properties that are violated have no theorem:
`single_return`, `queue_reuse` and `portal_paging` show them false.

## 7. Not modelled

- How PostgreSQL matches and ranks a text, and what a resource's columns contain
  beyond those some rule reads: no property tells them apart.
- Templates, wording, JSON projections, DTO validation beyond what the creation
  and search forms accept, configuration and wiring: no state.
- Roles, API keys, token signatures and password hashes. They decide who may
  call an operation; the models let anyone call it, so nothing proved rests on
  them. The session is a flag with an expiry.
- The hold position the page polls, which only reads; login under an unknown
  name; the portal's pages of the other resource types.
- The object store behind `s3-object-storage.service.ts`, the mail service and
  the job that would call `createOverdueFine` are external.

## 8. Plan

Left to prove: no property of a run within the prover's reach. What would say more
than the runs do:

- that the copies of `LoanService` move only as those of `Portal` do, so that the
  portal's theorems hold with the loan service behind it;
- how much of `LendingDesk` is left when returns overlap: `Spec` should implement
  a desk on which a loan may be given back twice.

Left to model: nothing that keeps state today. A scheduled caller of
`markOverdueLoans` or `createOverdueFine` would be a new actor, once the code
has one.
