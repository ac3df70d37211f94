--------------------------- MODULE Verifications ---------------------------
(***************************************************************************)
(* The AlloVérifié label: VerificationsService.                            *)
(*                                                                         *)
(* An owner asks for a visit of a listing, for free or after a PayDunya    *)
(* payment; an admin assigns a field agent, who starts and completes the   *)
(* visit; the listing gets a badge that a nightly job withdraws after six  *)
(* months.  As in BookingEscrow a handler reads, checks and later writes:  *)
(* request[p] holds what the handler of process p has still to do.         *)
(***************************************************************************)
EXTENDS Naturals, FiniteSets, Sequences

CONSTANTS
    Listing,         \* rows of the listings table
    Verification,    \* verifications that may be created (bounded pool)
    ListingOf,       \* verification.listingId
    Payment,         \* PayDunya invoices for a visit, and the row each leads to
    ListingPaid,     \* verificationPayment.listingId, custom_data.listing_id
    Agent,           \* field agents
    NoAgent,         \* agentId is null
    NoPayment,       \* a visit asked for by an admin or a PRO agency
    Proc             \* requests the backend serves at the same time

ASSUME VerificationAssumption ==
    /\ ListingOf \in [Verification -> Listing]
    /\ ListingPaid \in [Payment -> Listing]
    /\ NoAgent \notin Agent
    /\ NoPayment \notin Payment

VARIABLES
    badge,     \* listing.isVerified, and whether verifiedAt is over six months old
    status,    \* verification.status
    agent,     \* verification.agentId
    rated,     \* agentRating.agentId of the rating of a verification
    payment,   \* verificationPayment.status
    token,     \* verificationPayment.paymentRef
    linked,    \* payments whose verificationId is set
    rows,      \* verification payments in the order of their createdAt
    invoice,   \* PayDunya's side of each invoice
    request,   \* what each process has still to do
    origin,    \* history: the payment a verification was created from
    visits     \* history: the agents who started, and who completed, a visit

vars == <<badge, status, agent, rated, payment, token, linked, rows, invoice,
          request, origin, visits>>

Badge == {"none", "fresh", "old"}
VerifStatus == {"REQUESTED", "SCHEDULED", "IN_PROGRESS", "DONE", "REJECTED", "DECLINE_PENDING"}
PaymentStatus == {"PENDING", "CONFIRMED", "FAILED"}
InvoiceState == {"none", "created", "open", "completed", "failed"}

Absent == "NONE"         \* no such row yet

Idle == [stage |-> "idle"]

\* What a handler still has to do: the stage it waits in, the listing, and, where
\* they matter, the verification, the agent, the payment row and the invoice.
Request ==
         [stage : {"askPending", "bill"}, l : Listing, row : {NoPayment}]
    \cup [stage : {"insert"}, l : Listing, row : Payment \cup {NoPayment}]
    \cup [stage : {"row"}, l : Listing, row : Payment]
    \cup [stage : {"query", "confirm", "fail", "load", "link"}, l : Listing,
          row : Payment, inv : Payment]
    \cup [stage : {"decline", "start", "badge", "done", "rate"}, v : Verification, a : Agent]
    \cup [stage : {"unassign", "schedule", "validate", "reject"}, v : Verification,
          a : {NoAgent}]

TypeOK ==
    /\ badge \in [Listing -> Badge]
    /\ status \in [Verification -> VerifStatus \cup {Absent}]
    /\ agent \in [Verification -> Agent \cup {NoAgent}]
    /\ rated \in [Verification -> Agent \cup {NoAgent}]
    /\ payment \in [Payment -> PaymentStatus \cup {Absent}]
    /\ token \in [Payment -> Payment]
    /\ linked \in SUBSET Payment
    /\ rows \in Seq(Payment)
    /\ invoice \in [Payment -> InvoiceState]
    /\ request \in [Proc -> Request \cup {Idle}]
    /\ origin \in [Verification -> Payment \cup {NoPayment}]
    /\ visits \in [Verification -> [started : SUBSET Agent, completed : SUBSET Agent]]

Init ==
    /\ badge = [l \in Listing |-> "none"]
    /\ status = [v \in Verification |-> Absent]
    /\ agent = [v \in Verification |-> NoAgent]
    /\ rated = [v \in Verification |-> NoAgent]
    /\ payment = [y \in Payment |-> Absent]
    /\ token = [y \in Payment |-> y]
    /\ linked = {}
    /\ rows = <<>>
    /\ invoice = [y \in Payment |-> "none"]
    /\ request = [p \in Proc |-> Idle]
    /\ origin = [v \in Verification |-> NoPayment]
    /\ visits = [v \in Verification |-> [started |-> {}, completed |-> {}]]

table == <<badge, status, agent, rated, payment, token, linked, rows, origin, visits>>

-----------------------------------------------------------------------------
(***************************************************************************)
(* Asking for a visit.                                                     *)
(***************************************************************************)

Enter(p, r) ==
    /\ request[p] = Idle
    /\ request' = [request EXCEPT ![p] = r]
    /\ UNCHANGED <<table, invoice>>

\* The handler p runs goes on with r, or ends when r is Idle.
Continue(p, r) == request' = [request EXCEPT ![p] = r]

\* create() refuses a second visit while one is in one of these statuses.
ActiveStatus == {"REQUESTED", "SCHEDULED", "IN_PROGRESS"}

\* An admin or a PRO agency gets the visit at once; anybody else has to pay first.
Create(p, l) ==
    /\ \A v \in Verification : ListingOf[v] = l => status[v] \notin ActiveStatus
    /\ \E stage \in {"insert", "askPending"} :
         Enter(p, [stage |-> stage, l |-> l, row |-> NoPayment])

\* The second check of create(): no payment already waits for this listing.
AskPending(p) ==
    LET r == request[p]
        waiting == \E y \in Payment : ListingPaid[y] = r.l /\ payment[y] = "PENDING"
    IN
    /\ r.stage = "askPending"
    /\ Continue(p, IF waiting THEN Idle ELSE [r EXCEPT !.stage = "bill"])
    /\ UNCHANGED <<table, invoice>>

\* checkout-invoice/create answers with a token.
CreateInvoice(p) ==
    LET r == request[p] IN
    /\ r.stage = "bill"
    /\ \E y \in Payment :
         /\ ListingPaid[y] = r.l
         /\ invoice[y] = "none"
         /\ invoice' = [invoice EXCEPT ![y] = "created"]
         /\ Continue(p, [r EXCEPT !.stage = "row", !.row = y])
    /\ UNCHANGED table

\* The payment row is stored and the owner gets the URL.
InsertPayment(p) ==
    LET y == request[p].row IN
    /\ request[p].stage = "row"
    /\ payment' = [payment EXCEPT ![y] = "PENDING"]
    /\ rows' = Append(rows, y)
    /\ invoice' = [invoice EXCEPT ![y] = IF @ = "created" THEN "open" ELSE @]
    /\ Continue(p, Idle)
    /\ UNCHANGED <<badge, status, agent, rated, token, linked, origin, visits>>

\* A new verification; one that was paid for is then linked to its payment.
InsertVerification(p) ==
    LET r == request[p] IN
    /\ r.stage = "insert"
    /\ \E v \in Verification :
         /\ ListingOf[v] = r.l
         /\ status[v] = Absent
         /\ status' = [status EXCEPT ![v] = "REQUESTED"]
         /\ origin' = [origin EXCEPT ![v] = r.row]
    /\ Continue(p, IF r.row = NoPayment THEN Idle
                   ELSE [stage |-> "link", l |-> r.l, row |-> r.row, inv |-> r.row])
    /\ UNCHANGED <<badge, agent, rated, payment, token, linked, rows, invoice, visits>>

-----------------------------------------------------------------------------
(***************************************************************************)
(* Hearing from PayDunya.                                                  *)
(***************************************************************************)

PresentAt(k, l) == ListingPaid[rows[k]] = l      \* mutant: whatever its status

\* The k-th payment row is one of listing l that is still PENDING.
PendingAt(k, l) == ListingPaid[rows[k]] = l /\ payment[rows[k]] = "PENDING"

\* findFirst status PENDING orderBy createdAt desc: not the row of the token.
LatestPending(k, l) ==
    /\ PendingAt(k, l)
    /\ \A j \in DOMAIN rows : j > k => ~PendingAt(j, l)

\* PayDunya's notification for invoice i, at any time and any number of times.
HandleWebhookPayDunya(p, i) ==
    LET l == ListingPaid[i] IN
    /\ invoice[i] # "none"
    /\ \E k \in DOMAIN rows :
         /\ LatestPending(k, l)
         /\ Enter(p, [stage |-> "query", l |-> l, row |-> rows[k], inv |-> i])

ConfirmAnswerUnchecked(p) ==                     \* mutant: pending counts as paid
    LET r == request[p] IN
    /\ r.stage = "query"
    /\ Continue(p, [r EXCEPT !.stage = IF invoice[r.inv] = "failed" THEN "fail" ELSE "confirm"])
    /\ UNCHANGED <<table, invoice>>

\* checkout-invoice/confirm answers.
ConfirmAnswer(p) ==
    LET r == request[p] IN
    /\ r.stage = "query"
    /\ Continue(p, CASE invoice[r.inv] = "completed" -> [r EXCEPT !.stage = "confirm"]
                     [] invoice[r.inv] = "failed"    -> [r EXCEPT !.stage = "fail"]
                     [] OTHER                        -> Idle)
    /\ UNCHANGED <<table, invoice>>

\* The row takes the notified token: paymentRef is unique, so the UPDATE fails when
\* another row has it.
ConfirmPayment(p) ==
    LET r == request[p]
        taken == \E y \in Payment \ {r.row} : payment[y] # Absent /\ token[y] = r.inv
    IN
    /\ r.stage = "confirm"
    /\ payment' = IF taken THEN payment ELSE [payment EXCEPT ![r.row] = "CONFIRMED"]
    /\ token' = IF taken THEN token ELSE [token EXCEPT ![r.row] = r.inv]
    /\ Continue(p, IF taken THEN Idle ELSE [r EXCEPT !.stage = "load"])
    /\ UNCHANGED <<badge, status, agent, rated, linked, rows, invoice, origin, visits>>

FailPayment(p) ==
    LET r == request[p] IN
    /\ r.stage = "fail"
    /\ payment' = [payment EXCEPT ![r.row] = "FAILED"]
    /\ Continue(p, Idle)
    /\ UNCHANGED <<badge, status, agent, rated, token, linked, rows, invoice, origin, visits>>

\* createVerificationFromPayment reads the row again, and stops if it is linked.
LoadPayment(p) ==
    LET r == request[p] IN
    /\ r.stage = "load"
    /\ Continue(p, IF r.row \in linked THEN Idle
                   ELSE [stage |-> "insert", l |-> r.l, row |-> r.row])
    /\ UNCHANGED <<table, invoice>>

LinkPayment(p) ==
    LET r == request[p] IN
    /\ r.stage = "link"
    /\ linked' = linked \cup {r.row}
    /\ Continue(p, Idle)
    /\ UNCHANGED <<badge, status, agent, rated, payment, token, rows, invoice, origin, visits>>

-----------------------------------------------------------------------------
(***************************************************************************)
(* The visit.  Each handler reads the verification, checks it, and leaves  *)
(* its UPDATE to Write.                                                    *)
(***************************************************************************)

Visit(stage, v, a) == [stage |-> stage, v |-> v, a |-> a]

AssignAgentKeepingStatus(p, v, a) ==             \* mutant: the status is not reset
    /\ request[p] = Idle
    /\ status[v] # Absent
    /\ agent' = [agent EXCEPT ![v] = a]
    /\ UNCHANGED <<badge, status, rated, payment, token, linked, rows, invoice, request,
                   origin, visits>>

\* One UPDATE, whatever the status of the verification.
AssignAgent(p, v, a) ==
    /\ request[p] = Idle
    /\ status[v] # Absent
    /\ agent' = [agent EXCEPT ![v] = a]
    /\ status' = [status EXCEPT ![v] = "SCHEDULED"]
    /\ UNCHANGED <<badge, rated, payment, token, linked, rows, invoice, request, origin, visits>>

\* The agent asks to be released; an admin accepts or refuses.
Decline(p, v, a) ==
    /\ agent[v] = a
    /\ status[v] = "SCHEDULED"
    /\ Enter(p, Visit("decline", v, a))

ApproveDecline(p, v) ==
    /\ status[v] = "DECLINE_PENDING"
    /\ Enter(p, Visit("unassign", v, NoAgent))

RefuseDecline(p, v) ==
    /\ status[v] = "DECLINE_PENDING"
    /\ Enter(p, Visit("schedule", v, NoAgent))

\* The agent starts the visit, whatever its status.  scheduledAt is any date, past
\* dates included, so the clock excludes no order of events.
Start(p, v, a) ==
    /\ agent[v] = a
    /\ Enter(p, Visit("start", v, a))

CompleteUnstarted(p, v, a) ==                    \* mutant: the visit need not be started
    /\ agent[v] = a
    /\ Enter(p, Visit("badge", v, a))

Complete(p, v, a) ==
    /\ agent[v] = a
    /\ status[v] = "IN_PROGRESS"
    /\ Enter(p, Visit("badge", v, a))

\* An admin grants the badge on a visit that is done.
Validate(p, v) ==
    /\ status[v] = "DONE"
    /\ Enter(p, Visit("validate", v, NoAgent))

\* The agent of the visit or an admin.
Reject(p, v) ==
    /\ status[v] \in ActiveStatus
    /\ Enter(p, Visit("reject", v, NoAgent))

\* The owner rates the agent he reads in the row.
Rate(p, v) ==
    /\ status[v] = "DONE"
    /\ agent[v] # NoAgent
    /\ Enter(p, Visit("rate", v, agent[v]))

\* The status an UPDATE of the verification writes.
Written ==
    [decline  |-> "DECLINE_PENDING", unassign |-> "REQUESTED", schedule |-> "SCHEDULED",
     start    |-> "IN_PROGRESS",     done     |-> "DONE",      reject   |-> "REJECTED"]

WriteStatus(p) ==
    LET r == request[p] IN
    /\ r.stage \in DOMAIN Written
    /\ status' = [status EXCEPT ![r.v] = Written[r.stage]]
    /\ agent' = IF r.stage = "unassign" THEN [agent EXCEPT ![r.v] = NoAgent] ELSE agent
    /\ visits' = CASE r.stage = "start" -> [visits EXCEPT ![r.v].started = @ \cup {r.a}]
                   [] r.stage = "done"  -> [visits EXCEPT ![r.v].completed = @ \cup {r.a}]
                   [] OTHER             -> visits
    /\ Continue(p, Idle)
    /\ UNCHANGED <<badge, rated, payment, token, linked, rows, invoice, origin>>

\* The UPDATE of the listing: the badge, dated now.  complete() writes it before the
\* verification.
WriteBadge(p) ==
    LET r == request[p] IN
    /\ r.stage \in {"badge", "validate"}
    /\ badge' = [badge EXCEPT ![ListingOf[r.v]] = "fresh"]
    /\ Continue(p, IF r.stage = "badge" THEN Visit("done", r.v, r.a) ELSE Idle)
    /\ UNCHANGED <<status, agent, rated, payment, token, linked, rows, invoice, origin, visits>>

\* The upsert keeps the agent of the first rating.
WriteRating(p) ==
    LET r == request[p] IN
    /\ r.stage = "rate"
    /\ rated' = [rated EXCEPT ![r.v] = IF @ = NoAgent THEN r.a ELSE @]
    /\ Continue(p, Idle)
    /\ UNCHANGED <<badge, status, agent, payment, token, linked, rows, invoice, origin, visits>>

\* A database error, an unreachable PayDunya or a restart of the container.
Abort(p) ==
    /\ request[p] # Idle
    /\ Continue(p, Idle)
    /\ UNCHANGED <<table, invoice>>

\* The nightly job, one UPDATE.
ExpireOldBadges ==
    /\ \E l \in Listing : badge[l] = "old"
    /\ badge' = [l \in Listing |-> IF badge[l] = "old" THEN "none" ELSE badge[l]]
    /\ UNCHANGED <<status, agent, rated, payment, token, linked, rows, invoice, request,
                   origin, visits>>

-----------------------------------------------------------------------------
(***************************************************************************)
(* The environment: the owner's payment, PayDunya, time.                   *)
(***************************************************************************)

PayInvoice(i) ==
    /\ invoice[i] = "open"
    /\ invoice' = [invoice EXCEPT ![i] = "completed"]
    /\ UNCHANGED <<table, request>>

FailInvoice(i) ==
    /\ invoice[i] \in {"created", "open"}
    /\ invoice' = [invoice EXCEPT ![i] = "failed"]
    /\ UNCHANGED <<table, request>>

\* Six months after verifiedAt.
BadgeAges(l) ==
    /\ badge[l] = "fresh"
    /\ badge' = [badge EXCEPT ![l] = "old"]
    /\ UNCHANGED <<status, agent, rated, payment, token, linked, rows, invoice, request,
                   origin, visits>>

-----------------------------------------------------------------------------
Handler(p) ==
    \/ \E l \in Listing : Create(p, l)
    \/ \E i \in Payment : HandleWebhookPayDunya(p, i)
    \/ \E v \in Verification, a \in Agent :
         AssignAgent(p, v, a) \/ Decline(p, v, a) \/ Start(p, v, a) \/ Complete(p, v, a)
    \/ \E v \in Verification :
         \/ ApproveDecline(p, v)
         \/ RefuseDecline(p, v)
         \/ Validate(p, v)
         \/ Reject(p, v)
         \/ Rate(p, v)

Resume(p) ==
    /\ request[p] # Idle
    /\ \/ AskPending(p)
       \/ CreateInvoice(p)
       \/ InsertPayment(p)
       \/ InsertVerification(p)
       \/ ConfirmAnswer(p)
       \/ ConfirmPayment(p)
       \/ FailPayment(p)
       \/ LoadPayment(p)
       \/ LinkPayment(p)
       \/ WriteStatus(p)
       \/ WriteBadge(p)
       \/ WriteRating(p)

Next ==
    \/ \E p \in Proc : Handler(p) \/ Resume(p) \/ Abort(p)
    \/ ExpireOldBadges
    \/ \E i \in Payment : PayInvoice(i) \/ FailInvoice(i)
    \/ \E l \in Listing : BadgeAges(l)

Spec == Init /\ [][Next]_vars

-----------------------------------------------------------------------------
(***************************************************************************)
(* Safety that holds whatever the interleaving.                            *)
(***************************************************************************)

\* A listing carries the badge only if an agent who was assigned to a visit of it has
\* started that visit: neither an admin, nor a payment, nor a late write of a
\* reassigned, rejected or declined mission gives it otherwise.
BadgeNeedsVisit ==
    \A l \in Listing : badge[l] # "none" =>
        \E v \in Verification : ListingOf[v] = l /\ visits[v].started # {}

\* A visit asked for by somebody who has to pay exists only once PayDunya reports a
\* completed invoice for that listing, whichever row the notification was
\* matched with.
PaidVisitWasPaid ==
    \A v \in Verification : origin[v] # NoPayment =>
        \E i \in Payment : ListingPaid[i] = ListingOf[v] /\ invoice[i] = "completed"

\* A rating exists only for a visit an agent has completed.
RatedVisitWasCompleted ==
    \A v \in Verification : rated[v] # NoAgent => visits[v].completed # {}

\* A visit under way has been started, one that is DONE has been completed.
VisitsHappened ==
    \A v \in Verification :
        /\ status[v] \in {"IN_PROGRESS", "DONE"} => visits[v].started # {}
        /\ status[v] = "DONE" => visits[v].completed # {}

ListingWasPaid(l) == \E i \in Payment : ListingPaid[i] = l /\ invoice[i] = "completed"

\* What the handlers in flight have checked cannot be undone before they write: a badge
\* or a rating has its visit, a paid visit its payment.
FoundedVisit(r) ==
    /\ r.stage \in {"badge", "done", "validate"} => visits[r.v].started # {}
    /\ r.stage = "rate" => visits[r.v].completed # {}

FoundedPayment(r) ==
    /\ r.stage = "query" => ListingPaid[r.inv] = r.l
    /\ r.stage \in {"confirm", "load"} => ListingWasPaid(r.l)
    /\ r.stage = "insert" /\ r.row # NoPayment => ListingWasPaid(r.l)

\* The inductive invariant behind the three properties above.
IInv ==
    /\ TypeOK
    /\ VisitsHappened
    /\ \A p \in Proc : FoundedVisit(request[p]) /\ FoundedPayment(request[p])
    /\ BadgeNeedsVisit
    /\ PaidVisitWasPaid
    /\ RatedVisitWasCompleted

-----------------------------------------------------------------------------
(***************************************************************************)
(* Safety when requests do not overlap (a single process in Proc).         *)
(***************************************************************************)

\* The rating of a visit is held by an agent who completed it, after reassignments,
\* declines and repeated visits.
RatedAgentVisited ==
    \A v \in Verification : rated[v] # NoAgent => rated[v] \in visits[v].completed

\* One payment, one visit: repeated notifications, also after a failure half-way,
\* never create more visits than were paid for.
OneVisitPerPayment ==
    Cardinality({v \in Verification : origin[v] # NoPayment})
        <= Cardinality({i \in Payment : invoice[i] = "completed"})
=============================================================================
