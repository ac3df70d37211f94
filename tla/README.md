# AlloAppart: TLA+ models, TLC runs and TLAPS proofs

AlloAppart is a rental platform: a NestJS backend over PostgreSQL (Prisma), a Next.js
front end, PayDunya for payments, Clerk for accounts, Meilisearch for search. This
directory models the parts of the backend that keep money, entitlements, prices and
public labels right, whom it tells of what, and what the web application shows, offers
and sends; it checks them with TLC and proves their main invariants with TLAPS.

Paths below are relative to `src/Backend/src` unless they start with `Frontend` or are
files of the repository's root.

## 1. Inventory of the system

Production is one backend container (`docker-compose.prod.yml`, `DEPLOY.md`). Node runs
one JavaScript step at a time but switches to another request at every `await`.
Almost every handler has this shape:

    SELECT the row  ->  checks on what was read  ->  (call PayDunya)  ->  UPDATE ... WHERE id

without a transaction and without the checks in the `WHERE`. Only `terminateLease`
and the deletion of a listing group their writes. Whatever another request does between
the SELECT and the UPDATE is overwritten. This is the hard part of the backend, together
with what comes from outside (PayDunya's notifications, Clerk's events), which repeats,
comes late, and meets rows that have moved on. The hard part of the front end is the same
one step further: a page offers, announces or sends back what it loaded earlier.

| Component | State | Operations | Interactions | Hard behaviour | What makes it correct |
|---|---|---|---|---|---|
| Bookings, escrow (`bookings/`) | `booking.status`, `escrowStatus`, dates | create, createMonthlyRequest, confirm, approve/reject, terminateLease, cancel, complete, reportDispute, resolveDispute | payments, listings (RENTED/ACTIVE), contracts, reviews | stale reads before late writes; two products (nightly stay, lease) in one table; disputes | funds held only if paid; no early payout; a lease is approved and paid; a dispute freezes the funds |
| Payments (`payments/`) | `booking.paymentRef`, escrow | initiate, webhook, verifyBooking, markBookingPaid, release, refund | PayDunya, bookings, listings, contracts | repeated/late notifications racing the tenant's own verification; a payment is up to three writes | a payment is recorded once and not lost |
| Contracts (`contracts/`) | one row per lease | generateForBooking, PDF | called after a paid lease, failure ignored | best effort | only for an approved and paid lease |
| Verifications (`verifications/`) | `listing.isVerified`, `verification.status`, agent, payment row, rating | create, webhook, assign, decline (asked, approved, refused), start, complete, validate, reject, rate, nightly expiry | PayDunya, listings | reassignment while the agent's request is in flight; badge and status are two writes; payment matched by listing | badge only after a visit; one visit per payment; rating for who came |
| Subscriptions (`subscriptions/`) | `subscription.status`, plan, endDate, paymentRef | initiate, verify, webhook, cancel, suspend/activate/extend by an admin, nightly job | PayDunya, listings | job in three statements; renewal against the job; old invoice still in the row | ACTIVE only if paid or granted; expiry takes effect; a month is paid once |
| Listings (`listings/`) | `listing.status`, boost score and end, boost payments, favourites, reports | create, publish, unpublish, archive, restore, activate, suspend, remove, boost | subscriptions (gate), search index | gate read before the write; paths that skip it; count then insert; two notifications of a boost at once | publication is covered by a subscription; STARTER limit; a boost is paid or granted |
| Platform configuration (`platform-config/`) | live prices, one scheduled change, PIN, one-time codes | read (promotes a due change), update, cancel, change PIN, request code | every price | promotion from a stale row; code found then consumed | a scheduled change applies once, never after its cancellation |
| Search index (`search/`) | Meilisearch documents | index, delete, reindexAll | fire-and-forget after each status change | updates out of order | only ACTIVE listings are searchable |
| Messages (`messages/`, `MessagesShell.tsx`) | rooms, messages; the list a page shows | createRoom, send, edit, delete, markRead, recount of masked contacts | Soketi events, notifications | find-then-create; count after insert; answer, event and load of one message in any order | one room per tenant and listing; nothing shown twice; read means received; three masked contacts are reported |
| Accounts (`auth/`, `common/guards/`) | users, roles, suspension, password flag | sync, Clerk webhook, auto-creation in the guard, agents, agencies, password, suspension, deletion | Clerk | creation from three places; two systems without a transaction; rows remade under a handler | staff never mixed with tenants; a temporary password is replaced; placeholder data is temporary |
| Web application, acting (`Frontend`) | rows and times of the last load, modals, requests under way | buttons on bookings and visits, booking card, tariffs, conversations | every service above | rules repeated from the services, late loads, lost answers, repeated presses | an offered button is accepted; what is announced happens; one's own act is shown |
| Web application, moving (layouts, `redirect`, sign-in, menus) | address, session, roles read by layout and page, the menu drawn | links, guards, gates, refresh | `/auth/me`, Clerk, every controller's roles | copies of the account that change at different times; pages that send the tab to each other | what a menu leads to is served; a navigation comes to rest |
| Web application, writing (`publier`, edit page, `ImageUploadZone`) | fields, step, zone of uploads, draft in the browser | steps, uploads, publish, save | listings, upload | lost answers and retries; a zone dropped with its step; read, check, write | one listing per filling; chosen photos are kept; nights stay in order |
| Notifications (`notifications/`, bell, counters) | `notification` rows; list, badge and counters of a tab | one notice per act, read, read all | every service, Soketi, SMTP | sent from memory after the answer; live messages cross fetches | the other party is told; nothing unread or waiting is hidden |
| Reviews (`reviews/`) | one review per stay | create, remove | bookings | | one step of the pages' model |
| PDF, SMS, OneSignal, analytics, public agency pages, i18n | rows or none | | | | I/O and reads |

The hazards, each at its line and with the properties aimed at it, are in
`PROJECT.json` (`hazards`).

## 2. Modules

| Module | What it is | Run | Proofs |
|---|---|---|---|
| `BookingLifecycle` | abstract: what a booking promises, one step per move of agreement and money | (target of the refinement) | |
| `BookingEscrow` | bookings, payments, escrow, contracts, status of the listing of a lease, await by await | `escrow_races` | `BookingEscrowProofs` |
| `BookingHistory` | the same with the statuses each row has had: what a late write may do | `escrow_races` | `BookingEscrowProofs` |
| `SerialEscrow` | `BookingEscrow` when requests do not overlap, and its refinement of `BookingLifecycle` | `escrow_serial` | `BookingEscrowProofs` |
| `Availability` | the calendar of one listing: booking card, `create`, `createMonthlyRequest` | `availability` | `AvailabilityProofs` |
| `Verifications` | the AlloVérifié label: payment, visit, agent, rating, badge | `verification` | `VerificationProofs` |
| `SerialVerifications` | the same under two regimes, overlapping or not, and the invariant of the second | `verification` | `VerificationProofs` |
| `AgencySubscription` | subscriptions of agencies composed with publication | `subscription_months`, `catalogue` | `AgencySubscriptionProofs` |
| `PlatformConfig` | tariffs, scheduled change, PIN, one-time codes, the admin's form | `platform_config` | `PlatformConfigProofs` |
| `Catalogue` | status of a listing and its document in Meilisearch; boosts and their payments | `catalogue` | `ListingProofs` |
| `Messaging` | rooms, messages, receipts, alert, and the page `MessagesShell` | `messaging` | `ListingProofs` |
| `Accounts` | identity at Clerk and row in the database | `accounts` | `AccountsProofs` |
| `Desks` | eight pages that act on a booking or a visit | `desks` | `DesksProofs` |
| `Routes` | the handlers of the API and the roles they ask for | `web_application` | `DesksProofs` |
| `Pages` | what each page asks, calls and leads to | `web_application` | `DesksProofs` |
| `Navigation` | one tab through layouts, guards, gates and menus | `web_application` | `DesksProofs` |
| `Alerts` | notices: letters, rows, live messages; the bell and the counters | `web_application` | `DesksProofs` |
| `ListingForms` | the wizard and the edit page of a listing, create and update | `web_application` | `ListingProofs` |
| `Orders` | positions of a sequence in order, for uploads that end in any order | `web_application` | `ListingProofs` |
| `MC*` | instances of the above for TLC: symmetry, constraints, functions of the cfg; `MCNavigation` and `MCCatalogue` hold several modules, of which `regime` lets one move in a behaviour | | |

Three modules are composed through others. `SerialEscrow` instantiates
`BookingLifecycle` and is shown to implement it. `Availability` takes what becomes of a
booking after its INSERT from the same `BookingLifecycle`, but its requests overlap: a handler
that read a row writes what the lifecycle gives after that status, whatever the row has become
(`Life!LateMoves`, of all the statuses the row has had). That the detailed handlers,
overlapping, move the status no other way is the property `MovesFromRowsRead` of
`BookingHistory`, checked by `escrow_races` and proved (`StatusesMoveAsRowsRead`). `Desks` sees each service as one step. `Navigation`
is built on `Pages`, and that on `Routes`: the pages and the guards they meet come from
different files, and the run and a theorem (`MenusFit`) compare them.

### How code becomes actions

The modules of the backend share one scheme. `Proc` is the set of requests served at the
same time; `request[p]` is what the handler run by `p` still has to do.

* The **SELECT and the checks** of a handler are one action (`Confirm`, `Cancel`,
  `Complete`, ...). Its guard is the conjunction of the code's early returns; it writes
  nothing but `request[p]`, where it leaves the columns it is going to write, computed
  from the row just read.
* Each **later await** is an action of its own: PayDunya's answer (`ConfirmAnswer`),
  the UPDATE (`Write`, `Activate`, `WriteStatus`, ...), a second or third UPDATE
  (`RentListing`, `GenerateForBooking`, `WriteBadge` then `WriteStatus`,
  `InsertVerification` then `LinkPayment`). A trailing write is never optional: it is
  the next stage of the same request, and only `Abort` can prevent it.
* A handler that is a **single statement** (`assignAgent`, `suspendById`,
  `activateListing`, deletion) is one action; it still needs a free slot.
* `Abort` is a database error, an unreachable PayDunya, or a restart, at any await.
* **PayDunya** is the variable `invoice`: `created` (exists, its URL not yet returned),
  `open`, then `completed` or `failed`. A notification may come for any existing
  invoice at any time and any number of times; the code asks PayDunya back for the
  status, so a notification carries no more than its token.
* **Time** is abstracted to what the checks compare: `phase` in `BookingEscrow` (more
  than 7 days before the stay, less, the first 24 hours, later, over, and `spent` for a stay
  of no night, over as it starts), a badge that is
  `fresh` or `old`, an end date that is `running` or `over`, a change whose notice has
  `elapsed`.
* **History variables** (`past`, `visits`, `granted`, `seen`, `told`, `heard`, `had`, ...)
  record which handlers have written, so that properties can say why a state is
  legitimate. No guard reads them, but for `had` in `Availability`, which stands there for
  what requests being served have read.

Authorisation checks (who may call) select which user calls a handler and are left out
where they do not change what it does; where they do (`cancel` by tenant or owner) there
is one action per party. The admin branch of `cancel` is unreachable in the code
(`findOne` has already refused), so it has no action.

### BookingEscrow, SerialEscrow, BookingLifecycle

`Booking` rows start as `create` and `createMonthlyRequest` leave them; the dates are
arbitrary: nothing compares them, so that a stay may be over at its start (`spent`). `initiate` reuses the checkout of a booking that waits for payment by verifying
it first: that branch is `VerifyBooking`. `ConfirmAnswer` stands for the webhook and the
active verification, which treat the answer alike except for the token and for a failed
invoice of a booking already cancelled. `MoveListing` is every operation of
`ListingsService` on the status: none looks at the bookings. `BookingHistory` adds the variable
`had` to it.

`BookingLifecycle` has no requests, invoices or time. It allows what the code really does,
including a payment that brings a cancelled or closed booking back to life (`Pay`).

### Availability

One listing, and days stored as the instants they begin in UTC. `card[t]` is the booking card in
the browser of a tenant, with the ranges loaded when the page opened (`StillToCome`: those whose
last day has not begun) and the dates chosen on the calendar (`HandleSelectDate`), then the
request it waits for. The calendar cuts a range to days of the browser (`setHours`,
`AvailabilityCalendar.tsx:31`): for the tenants of `West` that is the day before (`LocalDay`),
so that a range seems to end a day early. `today` moves on (`NextDay`). `create` is
`RequestStay`, `CheckOverlap`, `InsertStay`; `createMonthlyRequest` is `RequestLease`,
`CheckLeases`, `CheckMoveIn`, `InsertLease`. `found` and `seen` remember the rows that existed
at the query: the properties say that a clash has one of two causes, an insertion between a
query and an INSERT, or a booking `revived`, which had ceased to stand and came back: paid late,
or confirmed or approved by a request that had read it before (`bookings/bookings.service.ts:348`).

### Verifications

A pool of rows that may be inserted bounds the number of visits. `LatestPending` is the
query that matches a notification with a row (`status PENDING`, newest first), which is
not necessarily the row of its token; `ConfirmPayment` then fails when another row holds
the token, which is `@unique`. `start` and `assignAgent` do not look at the status, as
in the code.

### AgencySubscription

Composes `SubscriptionsService` with the publication half of `ListingsService`: `Gate`
and `Count` are the two queries of `assertCanPublish`, `Publish` the INSERT of `create`
or the UPDATE of `publishListing`. `Move` is archive, restore and unpublish, which skip
the gate. `SweepRead`, `SweepSuspend` and `SweepCascade` are the three statements of
the nightly job, which runs beside the requests. `ManageListing` gathers the single
UPDATEs of admins, field agents and leases.

### PlatformConfig

`row` is the singleton with the live prices and at most one scheduled change. Any read
(`getPricing`, the page, every operation of the admin) promotes a change whose notice is
over: find, then write, in two steps. An operation is confirmed by the PIN or by a code
that is found and then consumed. `page` is the admin's form, which sends every field back
whichever was edited, so that a stale tab schedules old values; `told` is what the
notification announced.

### Catalogue

A handler's UPDATE of `listing.status` and the call to Meilisearch it fires leave
together; `calls` are those under way, which arrive in any order or are lost. `ReindexRead`,
`ReindexClear` and `ReindexFill` are the admin's rebuild. The other half is `boost`: the
row inserted after the invoice, the webhook that takes the newest PENDING row, and
`applyBoost` from a score read earlier.

### Messaging

The server's rows, Soketi's `events`, and `shell[u]`, the page of a user: opening a room
starts a run of `loadMessages` (fetch, show, mark as read), a message sent is shown by the
answer or by the event, whichever is first, and events are dropped once the room is left.

### Accounts

The row of a person has three writers (`CreateUser` in the guard, `UserCreated` in the
webhook, `InsertStaff` for accounts the admin opens). `created` numbers the rows of a
person, because handlers write by `id`: a handler that held a deleted row must not touch
its successor. Clerk delivers each event at least once, in any order, and refuses an
address that is in use.

### Desks

One page, one row. `Offers` is the page's own rule for each button; `Serve` is what the service
makes of the request (nothing when it refuses). They are separate definitions from
separate files, and the run compares them. Loads may overtake each other, answers may be lost, a
press may be repeated until a button is disabled, others change the row meanwhile. `screen` is
what the page draws: the row, its skeleton, or an error. A load that finds no token
(`LoadWithoutToken`) returns without a word and leaves the row there was: `missed` remembers it
on the tenant's page of a booking, and `OwnActIsShown` names that exception. An act without a
token (`EndsTokenless`) ends silently; one whose token is refused with an error, refused, or
unanswered ends in the `catch` (`Fails`).

### Routes, Pages, Navigation

`Routes` gives each handler what its decorators ask for (`@Public`, `@Roles`, or any
account). A page of `Pages` is the requests it makes when it opens and those of its
buttons; the menus are those of `layout.tsx`, by role. In `Navigation`, `stage` says how far
the page at `path` has come: its layout on the server, the second layout of the
administration, its own code, its first requests, shown; or come to rest with a message
(`failed`), or with a spinner: `tokenless` when Clerk's `getToken()` gave nothing or rejected
although there is a session (`NoToken`; which pages spin, by `SpinWithoutToken` and
`SpinOnFailure` of `Pages`), `unread` for a room whose messages could not be read. `menu` is the roles the frame was
drawn with and stays while the tab remains in the dashboard; `read` those the page itself
has read. `Moves` is what the framework runs by itself, `Person` what the visitor does,
`Others` what is done to the account elsewhere.

### Alerts

`Perform` is a handler of another module whose own writes are done. `Notices` gives what it
starts, with the ids its caller passes; a notice goes on letter by letter (`SendLetter`),
then row by row (`WriteRows`), the other way round for tariffs. `Concerned` is whom the act
concerns, by what the service says of each notice, which is not always whom its caller lets it
reach: a tenant's cancellation (`cancel`, apart from the landlord's `refuse`) concerns both.
`LoseRow` is a failed insert: swallowed where it is awaited, and otherwise an unhandled
rejection, which ends the process and all it had in memory. Of the browser there is one tab: its
bell (`FetchReads` and `FetchSettles` for the two requests of `fetchNotifs`, `BellHears`,
`ReadAll*` for the read-alls it may have under way, `MarkOne`) and an administrator's counters
(`ShellHears`, `AskReads`, `AskSettles`). `cut`, `astray` and `crossed` remember what was lost or
has crossed.

### ListingForms

`values` are the fields, of which only what the steps check is kept; `zone` the items of
`ImageUploadZone`, which exists while its step is shown, and `tasks` what it is doing;
`draft` what `localStorage` keeps, as the last "Next" left it; `other` the edit page of another
tab; `posts` and `saves` the requests. `CreateListing`, `UpdateChecks` and `UpdateWrites` are
`listings.service.ts`. A filling of the wizard is numbered, so that a second listing of the
same filling can be told from a second filling.

`wanted` are the photos the owner has chosen and neither removed, nor been shown as failed, nor
left under way; `lost` those of them that are gone all the same. The code loses a photo in three
ways, and `PhotosKept` says there is no fourth: the zone loses sight of it (a crop confirmed
twice or cancelled late takes the next photo out of the queue, `PhotoCropper.tsx:147`; an upload
whose token is refused spins for ever), the wizard is left before "Next" has saved it
(`publier/page.tsx:401`), or a form filled from an older row is written over it (`basis`,
`edit/page.tsx:261`).

## 3. Runs

| Run | Instance | What it shows |
|---|---|---|
| `escrow_races` | 1 booking of either product, 2 invoices, 2 requests | no early payout, no lease without approval and payment, and what late writes may make of a status, under every interleaving of two requests |
| `escrow_serial` | same, 1 request, fairness | handlers that do not overlap implement `BookingLifecycle`; a dispute freezes the escrow, no checkout without approval; a settled invoice reaches a booking that waits |
| `availability` | 2 tenants, one west of UTC, 2 bookings, 3 days, MIXED listing, leases from 3 days | no shared day without one of the two causes; calendar and server agree, but for the last day of a range seen from the west |
| `verification` | races: 2 requests, 1 visit, 1 invoice; serial: 1 request at a time, 2 visits, 2 invoices; 2 agents | badge and paid visit rest on a real visit or payment; in series, ratings follow reassignments and a payment gives one visit |
| `subscription_months` | 1 agency, 2 invoices, no listing, 1 request + nightly job, fairness | ACTIVE only if paid or granted; expiries and payments take effect |
| `platform_config` | 1 admin, 2 fields of 2 prices, 2 changes, 1 code, 2 requests | notice, withdrawal and announcement of a change |
| `catalogue` | 1 listing, 2 invoices, 2 requests, 2 calls under way; in behaviours of their own, 1 agency, 3 listings, limit 2, 1 invoice, 1 request + nightly job | what the index may hold; boosts are earned, confirmed rows are paid; the STARTER limit |
| `messaging` | 2 tenants, 2 rooms, 3 messages, the owner's page | the list of a page, receipts, the alert at three |
| `accounts` | 2 people, 2 addresses, 2 rows each, 2 requests | staff apart, temporary passwords |
| `desks` | 8 pages, 2 requests, 2 loads, 4 changes of the row | offered is accepted, the refund is the one announced, one's own act is shown unless the reload had no token |
| `web_application` | 5 kinds of behaviours: 1 tab and 5 accounts (fairness); 26 pairs of acts with 1 failure; 1 wizard and 2 submissions; 2 photos and a video; 2 changes from two tabs | menus fit, navigations come to rest, the other party is told unless a failure has cut it off and but for two gaps, bell and counters hide nothing, one listing per filling, photos kept but for three ways, nights in order |
| `cancel_untold` | the same; expected to find a violation | the service says the landlord is notified when the tenant cancels (`notifications/notifications.service.ts:385`); its caller passes no landlord (`bookings/bookings.service.ts:761`), and TLC shows the cancellation nobody told them of |

### Bounds, and why they are enough

The theorems cover every other number where there is one; the bounds matter for what is
only model-checked, and for finding mistakes before proving.

* **Escrow.** The handlers of `BookingEscrow` never relate two bookings (the overlap
  checks are in `Availability`), so one booking, whose product Init chooses, shows every
  behaviour; two invoices are needed for a retry after a refused payment and for a token
  replaced in the row; two requests are what a lost update takes. `MCFourStatuses`: with one
  invoice the row goes through as many statuses as it can; once the second exists, through
  four, which is a retry after a cancellation or a refusal.
* **Availability.** Two bookings clash or not; three days are the least on which a range
  can step over the day of another, and each tenant stands for a side of UTC. `MCOneChooses`
  serialises the choice of dates, not the requests; `MCOneLivesOn` lets one booking change
  status, the other waits. `MCShortLife`: four statuses are what a revival takes, and one day
  passes, to show the filter on what is still to come.
* **Verifications.** `SerialVerifications` adds a variable `regime`, chosen by Init: the
  handlers are the same, `serial` only starts one when no other is open. Two properties
  hold in that regime and are stated with it; `MCVerifications` gives each regime its bounds.
* **Subscriptions.** `subscription_months` has no listing because nothing in the
  subscription reads them; the behaviours of `catalogue` about publication have one invoice
  because the gate reads only the status.
* **Tariffs.** Two fields tell apart the price edited from the one sent back unchanged.
  `MCNotOvertaken` stops at a request that overwrote another's write: only
  `NoticeRespected` says anything beyond, and it is proved without the constraint.
  `MCOneConfirmed`: past the confirmation, one request of an admin at a time; any number
  of readers promote beside it.
* **Catalogue.** The search half and the boost half share only the existence of the
  listing; `MCApart` leaves out the states in which both are busy. `MaxCalls` bounds the
  calls under way. `MCCatalogue` adds the variable `regime`: what an agency may publish is a
  matter of `AgencySubscription`, in behaviours where `Catalogue` rests.
* **Messaging.** Three messages are what the alert counts. The constraints keep contents
  and page apart (the page does not look at contents, nor the recount at the page) and
  stop at a recount that failed or overlapped a write (`MCPromised`). Two requests of one
  tenant that create a room together (`AtOnce = 2`) only give two rooms instead of one.
* **Accounts.** `MCSmall`: everything overlaps while one person has an account; with two
  people, one request at a time, which is what the conflict of addresses takes.
* **Desks.** `MaxChanges` is the number of times the row changes: load, press, answer and
  a change by somebody else fit in it. On the three pages with most buttons, requests and
  loads are two together and changes one or two fewer.
* **Web application.** `MCNavigation` adds a variable `regime`, chosen by Init, because
  the parts share no variable: in each kind of behaviour the others rest. *pages*: one
  tenant, one who owns, one agency and one agent with a password to change, one
  administrator; three failed calls of `/auth/me`, as many as `/redirect` makes before it gives up.
  *alerts*: each act with a review, so that the notices of two acts mix, without a tab;
  two acts and one load of the tab in front of an administrator's counters and of a
  landlord's bell; `Click` lets two read-alls be under way. *posting*: two submissions, two fillings and one mishap are a retry after a lost answer.
  *photos*: two items in the zone; from the filled wizard to the edit page. *changing*: two
  changes, from the page or from another tab, of every order of two numbers of nights, or of the
  photos.

`CHECK_DEADLOCK FALSE` everywhere: with bounded pools of invoices, rows, changes and
messages, and bookings that end, the system may really come to rest. Symmetry is used in
safety runs only, over elements no property names.

### Fairness

Fairness is stated in `Fairness` of `BookingEscrow` and `AgencySubscription` and used by
their `FairSpec`, and in the specification of `Navigation`; the other modules have safety
properties only.

* PayDunya repeats a notification until it is answered 200. The handlers answer an error
  when they fail (they throw), and answer 200 only after their last write or when they
  have nothing to do. Delivery and each stage of the processing for one invoice are
  therefore strongly fair: the slot may be taken, or the attempt may abort, in between.
  This is an assumption about an external service, and about failures that do not last
  for ever.
* A request being served goes on: weak fairness of `Resume`, or of `Resume \/ Abort`.
* The nightly job runs every night and does not fail every night at the same statement:
  strong fairness of its read and its first UPDATE, weak for the cascade. Nothing is
  said of `SweepAbort`.
* The framework runs the layout, the guard and the requests of the page that is open, and
  answers a refresh: weak fairness of `Moves` and of `RefreshLayout`, in the kind of
  behaviours that is about pages (`MCSpec`).
* Users, agents, admins, PayDunya's decision on an invoice, and time owe nothing.

### What the code does otherwise than one would say

These behaviours shaped a property or a model; each is in `hazards`:

* `restoreListing` (`listings/listings.service.ts:446`) does not call the gate, although
  the comment above the gate says that all the paths to ACTIVE must: an agency that never
  subscribed publishes by archiving a draft and restoring it.
* `release` and `refund` (`payments/payments.service.ts:457`) can overwrite a dispute
  reported between their read and their write: `DisputeFreezesEscrow` is a property of
  requests that do not overlap.
* `verifyBooking` (`payments/payments.service.ts:360`) skips CONFIRMED and ACTIVE only:
  a finished booking verified again is paid again. `BookingLifecycle` allows it.
* `confirm` (`bookings/bookings.service.ts:664`) makes both payment paths take the booking
  for one already processed: `SettledInvoiceReachesBooking` is about bookings that wait.
* The AlloVérifié webhook (`verifications/verifications.service.ts:312`) confirms the
  payment before it creates the visit, and cannot resume; and `create` (line 86) does not
  count DECLINE_PENDING as active.
* `paymentRef` (`subscriptions/subscriptions.service.ts:163`) outlives its month.
* Two simultaneous requests can take the same nights (`bookings/bookings.service.ts:101`),
  and a payment, or the answer of a landlord who read the row before its cancellation
  (`:348`), can bring back a booking whose nights were given away:
  the two exceptions of `NoDoubleStay` and `LeaseFoundThePlaceFree`; two simultaneous first messages make two rooms
  (`messages/messages.service.ts:77`), two with one code are both confirmed
  (`platform-config/platform-config.service.ts:256`).
* To the west of UTC the calendar ends every booked range a day early
  (`Frontend/src/components/listings/AvailabilityCalendar.tsx:31`): a stay that begins on the
  last day of another can be chosen, and the server refuses it.
* `cancel` and `create` of a booking (`bookings/bookings.service.ts:761`, `:184`) pass no
  `landlordId`: the landlord of a stay its tenant cancels is told nothing (the finding of
  `cancel_untold`), that of a new one by letter only, though
  `notifications/notifications.service.ts:137` announces rows beside letters. These are the two
  gaps of `OtherIsTold`.
  A rejected visit and a completed booking notify nobody.
* `void this.pushInApp(...)` and most `void notify...` have no `catch`: a failed insert is an
  unhandled rejection. The owners' letters about tariffs go out after all the rows of their language.
* Six requests of pages are refused to the people who are shown them (`Unserved` in
  `Navigation`), among them the administrator's restore of a reported listing
  (`Frontend/src/app/(dashboard)/espace/reports/page.tsx:125`) and a route that does not exist
  (`.../espace/users/page.tsx:143`).
* A suspended account that is signed in is sent from `/sign-in` to `/redirect` and back
  for ever; several pages show their spinner for ever when Clerk gives no token, once the
  session has ended or with a live one (`/redirect`,
  `Frontend/src/app/redirect/page.tsx:40`; the wizard, `.../publier/page.tsx:235`; the pages
  `bailleur/ma-vitrine`, line 70, `locataire`, line 42, and `become-bailleur`, line 69); the
  terms are asked for on the way through `/redirect` only.
* The tenant's page of a booking that reloads without a token returns and keeps the row there was
  (`Frontend/src/app/(dashboard)/locataire/bookings/[id]/page.tsx:77`): after an act it may go on showing the state before.
* A live message that crosses the bell's first requests or its read-all is not counted;
  the button "mark all" does not look whether it was refused.
* Enter in the only text field of the wizard's first step publishes the whole form, again and again;
  the draft belongs to the browser, not to the account, and holds what the last "Next"
  saved: photos finished since are lost with the page; uploads under way are dropped
  when their step is left; the cropper's button can be pressed twice, which loses the next
  photo; a stale tab's save writes its photos over newer ones; two overlapping updates can put the shortest stay above the longest.

## 4. Proofs

All theorems hold for every value of the constants, under the named assumptions of each
module (`BookingAssumption`, `AvailabilityAssumption`, `VerificationAssumption` and
`PaymentsAssumption`, `SubscriptionAssumption`, `ConfigAssumption` and `NullAssumption`,
`CatalogueAssumption`, `MessagingAssumption`, `AccountsAssumption`, `DesksAssumption` and
`NothingAssumption`, `NavigationAssumption`, `AlertsAssumption`, `FormAssumption`): functions
from rows to their owners are total, limits and numbers of nights are naturals, acts and
accounts are of the kinds the code knows, and the "null" values are not elements. Finiteness
is assumed once, of the invoices of visits in the theorems about requests in series
(`PaymentsAssumption`), since `OneVisitPerPayment` compares two numbers of rows; elsewhere
it is proved where it is needed. A theorem about requests that do not overlap says so: its
`Proc` is a single process, or the `regime` is `serial`.

Each proof module has the same plan: lemmas for what a step keeps of the types, lemmas that
facts of the past cannot be undone, one lemma per group of actions, then the invariance
and its corollaries by PTL. The invariants the runs check are seldom inductive; below is
what each needs beside it, and why.

**BookingEscrow** (`BookingEscrowProofs`). A late UPDATE writes what was right when the row
was read. `IInv` adds `RequestsJustified`, which says of every pending write that its reason
is either irreversible (an invoice completed, an approval on record, the stay over) or the
handler itself, and `BilledAfterApproval`, which carries the approval through the invoice to
the payment. `FactsOnlyGrow` shows the reasons stay; `WriteStep` that the row inherits them.
Theorems: `TypeCorrect`, `Invariance`, `ProductsNeverMix`, `HeldFundsWerePaid`,
`LeasesAreEarned`, `PayoutsAreNotEarly`, `PendingWritesAreJustified`. `HistoryInv` says in the
same way that a pending write is the lifecycle's move from a status the row has had, whence
`StatusesMoveAsRowsRead`, for any number of requests. With one process,
`SerialInv` says that the statuses and escrows each handler checked are still in the row
when it writes (`ChecksHoldUntilWrites`). Then every step is a step of `BookingLifecycle` or
a stutter (`LifecycleImplemented`), no request the landlord has not accepted has a checkout
(`UnapprovedHasNoCheckout`), and a dispute ends only by a decision (`DisputesFreeze`).

**Availability** (`AvailabilityProofs`). `CardChecked` carries from the query to the INSERT
what it found: nothing in the way that stands without having been revived; `RowsChecked`
says the same of the rows. `Harmless` is stable because a booking leaves the standing
statuses for good or is recorded in `revived`, whichever late write brings it back. Of the
calendar `CardChecked` says that the dates chosen avoid the ranges shown, up to the last day
of one for a browser of `West`. Theorems: `Invariance`, `StaysAreApart`,
`LeasesAreAlone`, `CalendarIsRight`, `StaysAreLongEnough`.

**Verifications** (`VerificationProofs`). The strengthening (`VisitsHappened`,
`FoundedVisit`, `FoundedPayment`) says that a visit under way was started, a finished one
completed, and that what a request in flight has checked still has its visit or its payment
when it writes. Theorems: `TypeCorrect`, `Invariance`, `BadgesAreEarned`,
`PaidVisitsArePaid`, `RatingsAreEarned`. In series, `RegimeInv` adds what only holds there: a
finished visit is that of its present agent (`DoneByAgent`); a token is in one row, which
keeps its own until it is confirmed with a paid one (`OneRowPerInvoice`); a confirmed row has
at most one visit (`OneVisitPerRow`); and the one request being served finds all this as it
read it (`VisitAsRead`, `RowAsRead`). The second property then counts: visits map into
confirmed rows, and these into completed invoices, both one to one. Theorems:
`RegimeInvariant`, `RatingsAreVisitors`, `VisitsArePaidOnce`.

**AgencySubscription** (`AgencySubscriptionProofs`). `RefsAreOwn` and `ActivationsArePaid`: a
row or request refers to invoices of its own subscription, and an activation in flight to a
paid one. Theorems: `TypeCorrect`, `Invariance`, `SubscriptionsAreEarned`, `GateIsEarned`.
The limit of a STARTER agency is an action property for one process beside the nightly job
(`StarterStaysWithinCap`; the run `catalogue` checks it
through an instance). `CountHolds` carries the count from the query to the write:
nothing between them adds a row of that agency, and the job only changes statuses. The rows of an
agency are finite although the pool need not be, because they appear one at a time.

**PlatformConfig** (`PlatformConfigProofs`). A change that has left the row never returns;
what a request read under the name of a change is what the row holds under that name; and
as long as no request has overwritten another, a request about to write has read the
present row. Theorems: `NoticeIsRespected`, `WithdrawnStaysWithdrawn`, `ChangeAppliesAsTold`
(the property of actions `AppliedAsTold`).

**Accounts** (`AccountsProofs`). `RowIsFounded` says what kind of account a row rests on,
`RequestIsFounded` what of it still holds for a request on its way to a write: of the row it
read if that row is still there (`KindIsKept`), of the account anyway. `RequestsSurvive`
shows that this outlives the steps of the others, from two facts that never go back:
`AccountsGrow` and `RowsGrow` (an `id` is never reused, a row keeps its kind).
`FirstRowIsAwaited` is the other half: before the first row and while it is a placeholder,
the event `user.created` is unacknowledged. Theorems: `TypeCorrect`, `Invariance`,
`StaffApart`, `PasswordReplaced`, `PlaceholderAwaited`.

**Catalogue** (`ListingProofs`). Of the index: a call or a rebuild brings only documents of
listings that have been published (`OnlyPublishedIsSent`); the newest call agrees with the
row (`LastCallFollows`), and so does what a rebuild has read unless a status has moved since
(`RebuildFollows`). Of the boosts: an invoice not yet returned is unpaid, and a notification on its way to a
row has looked at a completed invoice of that row's listing (`BoostIsFounded`). Theorems:
`CatalogueTypes`, `CatalogueInvariant`, `OnlyPublished`, `IndexFollows`, `BoostsEarned`.

**Messaging** (`ListingProofs`). Messages are numbered without a gap, and all that refers to
a room comes from one of its two people (`InTheirRooms`), so a new message meets neither a
load nor an event that speaks of it. `Following` generalises `ReadWasReceived` from what
is marked as read to what is about to be: the room being marked, or open on the page.
`Reporting` says where the count stands while recounts are to come: at three exactly, since
the first that reads three reports. Theorems: `MessagingInvariant`, `NothingShownTwice`,
`ReadIsReceived`, `ThirdIsReported`.

**ListingForms** (`ListingProofs`). `FillingsApart` follows a filling of the wizard, which is
in the fields, in the draft, in a request or in a row, and in two of these only if its owner is
known to have submitted it again. `PhotosFollow` says that outside the photos' step nothing
is missing that is not in `lost`, and inside it what is missing spins in the zone, in hand or
stuck; `KnownElsewhere` that a form of another tab as recent as the row has its photos; the lemmas about `Orders`
(`OrderIsOnto`, `ThoseKept`) give what filtering the zone keeps. `CheckedHolds`: without an
overlap, a change that passed the check of the nights still passes it when it is written.
Theorems: `FormsInvariant`, `OneListing`, `PhotosArePublished`, `NightsAreInOrder`. The runs
about photos and changes start in the middle (a filled wizard, a listing that is there); the
theorems start from an empty browser.

**Desks** (`DesksProofs`). The types say most: rows on the pages are rows of their kind.
`NothingFromTheFuture` orders the versions, `RefundFounded` keeps the clock that announced
a refund behind the one that decided it. `OneThing` is about the tenant's page of a booking:
it has one request or one load at a time, and what it waits for after an act is not older
than that act, unless its last load has `missed`. Theorems: `DesksInvariant`, `OffersAccepted`, `RefundIsAnnounced`,
`OwnActShown`.

**Alerts** (`DesksProofs`). `ToldOrOwed`: whoever an act concerns, but the landlord left out of
a cancellation, has been told, or a row, or the only letter of a new stay, is still to come; `RowsOnce`: what is to be written has not been announced.
`BellFollows`: badge, or the count that is to replace it, plus the messages on their way are
at least the unread rows. `CountersFollow`: the latest of a counter and its request under way is
at least what has been announced, or has not been read yet, or a message will ask for it again.
Theorems: `AlertsInvariant`, `EverybodyIsTold`, `BadgeTellsAll`, `CountersTellAll`.

**Routes, Pages, Navigation** (`DesksProofs`). First a table: for each role the routes it may
call (`TenantMay`, `OwnerMay`, `AgencyMay`, `AgentMay`, `AdminMay`, and `EveryoneMay`), for
each page that what it calls is among them (`TenantPagesFit`, ...), and that a menu leads
to pages of its roles only (`ProposedPages`). `MenuIsServed` follows in every state and for every
set of roles, also those no handler gives (`MenuServes`). Putting the table down shows one page apart:
`bailleur_listings_new` asks every owner for an agency's subscription, and no menu and no
link leads there any more (owners publish through `publier`). The other half needs three
facts together: who is owed the owner's menu has the role (`RoleIsHeld`), a page past the
dashboard's layout has a frame (`FrameIsThere`), and a frame drawn before the role awaits a
refresh (`MenuFollows`). Theorems: `TabInvariant`, `MenusFit`.

Beside the invariants the runs list, theorems state parts of the inductive ones that say
something by themselves: `ProductsNeverMix`, `HeldFundsWerePaid`, `PendingWritesAreJustified`,
`ChecksHoldUntilWrites`, `StaysAreLongEnough`,
`RatingsAreEarned`, `GateIsEarned`, `PlaceholderAwaited`. The type invariant of every module
is proved, of `PlatformConfig` the part the proofs use (`Typed`).

Every safety property a passing run checks is also a theorem. Checked by TLC only are the four
liveness properties (`SettledInvoiceReachesBooking`, `ExpiredIsSuspended`,
`PaidInvoiceActivates`, `Lands`), which fairness and ENABLED put out of the prover's reach.

## 5. Not modelled

Listed in `PROJECT.json` (`components`) with the reason. In short: PDF, translation,
analytics and the public agency pages are I/O and reads; SMS repeat letters, and no browser
registers with OneSignal. On the front end, what the dashboards draw, filters, maps and
carousels are layout; `ChatRoom` and the public page of messages keep their list
otherwise than `MessagesShell` and only their requests are modelled (`Pages`).

Within the modelled parts: amounts (the comparison of `verifyBooking` and of the webhook
uses the total the invoice was created with), the deletion of a listing that has
bookings, the development bypasses, the reminder e-mails, the dates of appointments
(any order is allowed), the contents of a report, favourites and reports of listings,
profiles of agencies and acceptance of the terms, an event of Clerk without a primary
address (`auth/auth.service.ts:348`: every account the application opens has one), the regular expressions of the contact
filter (modelled by their outcome), the price estimates of the forms, two tabs that share
one draft, the counters of unread messages.

## 6. Plan

What is left, in order of use:

1. Theorems with more than one request where the properties are stated for one: which part of
   `SerialInv` and of `RegimeInv` survives two requests on different bookings or visits.
2. `ChatRoom` and the public page of messages, next to `MessagesShell`.
3. The deletion of a listing with bookings, and amounts where two prices can meet (the
   plan of a subscription after a second `initiate`).
4. The pages of subscriptions and listings of an agency, in the manner of `Desks`.
