------------------------- MODULE AgencySubscription -------------------------
(***************************************************************************)
(* The subscription of an agency (SubscriptionsService) and what it is     *)
(* for: publishing listings (ListingsService, assertCanPublish and the     *)
(* operations that change listing.status).                                 *)
(*                                                                         *)
(* An agency subscribes to STARTER or PRO and pays each month through      *)
(* PayDunya.  A nightly job suspends the subscriptions whose month is over *)
(* and, in a later statement, the listings of their owners.  Handlers read,*)
(* check and later write, as in BookingEscrow; the job does the same and   *)
(* runs beside them.                                                       *)
(***************************************************************************)
EXTENDS Naturals, FiniteSets

CONSTANTS
    Agency,          \* PRO_AGENCE accounts, each with at most one subscription
    Listing,         \* rows the agencies may create (bounded pool)
    OwnerOf,         \* listing.ownerId
    Invoice,         \* PayDunya invoices (bounded pool)
    Payer,           \* custom_data.subscription_id: whose subscription an invoice pays
    NoInvoice,       \* paymentRef is null
    NewListing,      \* the listing a create() is about to insert
    MaxListings,     \* STARTER_MAX_LISTINGS
    Proc             \* requests the backend serves at the same time

ASSUME SubscriptionAssumption ==
    /\ OwnerOf \in [Listing -> Agency]
    /\ Payer \in [Invoice -> Agency]
    /\ NoInvoice \notin Invoice
    /\ NewListing \notin Listing
    /\ MaxListings \in Nat

VARIABLES
    status,    \* subscription.status
    plan,      \* subscription.plan
    ends,      \* subscription.endDate: null, in the future, or in the past
    ref,       \* subscription.paymentRef
    listing,   \* listing.status
    invoice,   \* PayDunya's side of each invoice
    request,   \* what each process has still to do
    sweep,     \* the nightly job: its stage and the owners it has read
    granted,   \* history: agencies whose subscription an admin activated or extended
    spent      \* history: invoices that have activated a month

sub == <<status, plan, ends, ref>>

vars == <<sub, listing, invoice, request, sweep, granted, spent>>

SubscriptionPlan == {"STARTER", "PRO"}
SubscriptionStatus == {"ACTIVE", "SUSPENDED", "CANCELLED"}
End == {"null", "running", "over"}
ListingStatus == {"DRAFT", "ACTIVE", "RENTED", "SUSPENDED"}
InvoiceState == {"none", "created", "open", "completed", "failed"}

Absent == "NONE"         \* no such row yet
Deleted == "GONE"        \* the row has been deleted

Idle == [stage |-> "idle"]

\* What a handler still has to do: its stage, the agency, and, where they matter, the
\* plan, the invoice, the end date or the listing and its next status.
Request ==
         [stage : {"upsert", "bill"}, g : Agency, plan : SubscriptionPlan]
    \cup [stage : {"ref"}, g : Agency, inv : Invoice]
    \cup [stage : {"query", "activate"}, g : Agency, inv : Invoice, notified : BOOLEAN]
    \cup [stage : {"cancel"}, g : Agency]
    \cup [stage : {"extend"}, g : Agency, ends : End]
    \cup [stage : {"gate", "count", "publish"}, g : Agency, l : Listing \cup {NewListing}]
    \cup [stage : {"move"}, l : Listing, to : ListingStatus]

TypeOK ==
    /\ status \in [Agency -> SubscriptionStatus \cup {Absent}]
    /\ plan \in [Agency -> SubscriptionPlan]
    /\ ends \in [Agency -> End]
    /\ ref \in [Agency -> Invoice \cup {NoInvoice}]
    /\ listing \in [Listing -> ListingStatus \cup {Absent, Deleted}]
    /\ invoice \in [Invoice -> InvoiceState]
    /\ request \in [Proc -> Request \cup {Idle}]
    /\ sweep \in [stage : {"idle", "suspend", "cascade"}, owners : SUBSET Agency]
    /\ granted \in SUBSET Agency
    /\ spent \in SUBSET Invoice

Resting == [stage |-> "idle", owners |-> {}]

\* plan means nothing while there is no row.
Init ==
    /\ status = [g \in Agency |-> Absent]
    /\ plan = [g \in Agency |-> "STARTER"]
    /\ ends = [g \in Agency |-> "null"]
    /\ ref = [g \in Agency |-> NoInvoice]
    /\ listing = [l \in Listing |-> Absent]
    /\ invoice = [i \in Invoice |-> "none"]
    /\ request = [p \in Proc |-> Idle]
    /\ sweep = Resting
    /\ granted = {}
    /\ spent = {}

Enter(p, r) ==
    /\ request[p] = Idle
    /\ request' = [request EXCEPT ![p] = r]
    /\ UNCHANGED <<sub, listing, invoice, sweep, granted, spent>>

\* The handler p runs goes on with r, or ends when r is Idle.
Continue(p, r) == request' = [request EXCEPT ![p] = r]

-----------------------------------------------------------------------------
(***************************************************************************)
(* Subscribing and paying.                                                 *)
(***************************************************************************)

Initiate(p, g) ==
    /\ status[g] # "ACTIVE"
    /\ \E k \in SubscriptionPlan : Enter(p, [stage |-> "upsert", g |-> g, plan |-> k])

\* The upsert: a suspended subscription of the chosen plan; endDate and paymentRef stay.
Upsert(p) ==
    LET r == request[p] IN
    /\ r.stage = "upsert"
    /\ status' = [status EXCEPT ![r.g] = "SUSPENDED"]
    /\ plan' = [plan EXCEPT ![r.g] = r.plan]
    /\ Continue(p, [r EXCEPT !.stage = "bill"])
    /\ UNCHANGED <<ends, ref, listing, invoice, sweep, granted, spent>>

\* checkout-invoice/create answers with a token.
CreateInvoice(p) ==
    LET r == request[p] IN
    /\ r.stage = "bill"
    /\ \E i \in Invoice :
         /\ Payer[i] = r.g
         /\ invoice[i] = "none"
         /\ invoice' = [invoice EXCEPT ![i] = "created"]
         /\ Continue(p, [stage |-> "ref", g |-> r.g, inv |-> i])
    /\ UNCHANGED <<sub, listing, sweep, granted, spent>>

\* The token is stored and the agency gets the URL of the invoice.
StoreRef(p) ==
    LET r == request[p] IN
    /\ r.stage = "ref"
    /\ ref' = [ref EXCEPT ![r.g] = r.inv]
    /\ invoice' = [invoice EXCEPT ![r.inv] = IF @ = "created" THEN "open" ELSE @]
    /\ Continue(p, Idle)
    /\ UNCHANGED <<status, plan, ends, listing, sweep, granted, spent>>

\* The agency asks whether the invoice of its row is paid.
VerifySubscription(p, g) ==
    /\ status[g] \notin {Absent, "ACTIVE"}
    /\ ref[g] # NoInvoice
    /\ Enter(p, [stage |-> "query", g |-> g, inv |-> ref[g], notified |-> FALSE])

HandleWebhookSuspendedOnly(p, i) ==              \* mutant: a cancelled row is ignored
    /\ invoice[i] # "none"
    /\ status[Payer[i]] = "SUSPENDED"
    /\ Enter(p, [stage |-> "query", g |-> Payer[i], inv |-> i, notified |-> TRUE])

\* PayDunya's notification for invoice i, at any time and any number of times.
HandlePaydunyaWebhook(p, i) ==
    /\ invoice[i] # "none"
    /\ status[Payer[i]] # "ACTIVE"
    /\ Enter(p, [stage |-> "query", g |-> Payer[i], inv |-> i, notified |-> TRUE])

ConfirmAnswerUnchecked(p) ==                     \* mutant: pending counts as paid
    LET r == request[p] IN
    /\ r.stage = "query"
    /\ Continue(p, IF invoice[r.inv] # "failed" THEN [r EXCEPT !.stage = "activate"] ELSE Idle)
    /\ UNCHANGED <<sub, listing, invoice, sweep, granted, spent>>

\* checkout-invoice/confirm answers.
ConfirmAnswer(p) ==
    LET r == request[p] IN
    /\ r.stage = "query"
    /\ Continue(p, IF invoice[r.inv] = "completed" THEN [r EXCEPT !.stage = "activate"]
                   ELSE Idle)
    /\ UNCHANGED <<sub, listing, invoice, sweep, granted, spent>>

\* A month from now; the webhook also writes the token it was notified of.
Activate(p) ==
    LET r == request[p] IN
    /\ r.stage = "activate"
    /\ status' = [status EXCEPT ![r.g] = "ACTIVE"]
    /\ ends' = [ends EXCEPT ![r.g] = "running"]
    /\ ref' = IF r.notified THEN [ref EXCEPT ![r.g] = r.inv] ELSE ref
    /\ spent' = spent \cup {r.inv}
    /\ Continue(p, Idle)
    /\ UNCHANGED <<plan, listing, invoice, sweep, granted>>

Cancel(p, g) ==
    /\ status[g] # Absent
    /\ Enter(p, [stage |-> "cancel", g |-> g])

WriteCancel(p) ==
    LET r == request[p] IN
    /\ r.stage = "cancel"
    /\ status' = [status EXCEPT ![r.g] = "CANCELLED"]
    /\ Continue(p, Idle)
    /\ UNCHANGED <<plan, ends, ref, listing, invoice, sweep, granted, spent>>

-----------------------------------------------------------------------------
(***************************************************************************)
(* What an admin does to a subscription: suspendById and activateById are  *)
(* one UPDATE each, extendById reads the end date first.                   *)
(***************************************************************************)

SuspendById(p, g) ==
    /\ request[p] = Idle
    /\ status[g] # Absent
    /\ status' = [status EXCEPT ![g] = "SUSPENDED"]
    /\ UNCHANGED <<plan, ends, ref, listing, invoice, request, sweep, granted, spent>>

ActivateById(p, g) ==
    /\ request[p] = Idle
    /\ status[g] # Absent
    /\ status' = [status EXCEPT ![g] = "ACTIVE"]
    /\ ends' = [ends EXCEPT ![g] = "running"]
    /\ granted' = granted \cup {g}
    /\ UNCHANGED <<plan, ref, listing, invoice, request, sweep, spent>>

\* Days are added to the end date read, which may leave it in the past.
ExtendById(p, g) ==
    /\ status[g] # Absent
    /\ \E e \in IF ends[g] = "over" THEN {"over", "running"} ELSE {"running"} :
         Enter(p, [stage |-> "extend", g |-> g, ends |-> e])

WriteExtension(p) ==
    LET r == request[p] IN
    /\ r.stage = "extend"
    /\ status' = [status EXCEPT ![r.g] = "ACTIVE"]
    /\ ends' = [ends EXCEPT ![r.g] = r.ends]
    /\ granted' = granted \cup {r.g}
    /\ Continue(p, Idle)
    /\ UNCHANGED <<plan, ref, listing, invoice, sweep, spent>>

-----------------------------------------------------------------------------
(***************************************************************************)
(* The nightly job, three statements one after the other.                  *)
(***************************************************************************)

Expired == {g \in Agency : status[g] = "ACTIVE" /\ ends[g] = "over"}

SweepRead ==
    /\ sweep = Resting
    /\ Expired # {}
    /\ sweep' = [stage |-> "suspend", owners |-> Expired]
    /\ UNCHANGED <<sub, listing, invoice, request, granted, spent>>

SweepSuspendNobody ==                            \* mutant: the UPDATE matches no row
    /\ sweep.stage = "suspend"
    /\ sweep' = [sweep EXCEPT !.stage = "cascade"]
    /\ UNCHANGED <<sub, listing, invoice, request, granted, spent>>

\* By id: a subscription extended since the read is suspended too.
SweepSuspend ==
    /\ sweep.stage = "suspend"
    /\ status' = [g \in Agency |-> IF g \in sweep.owners THEN "SUSPENDED" ELSE status[g]]
    /\ sweep' = [sweep EXCEPT !.stage = "cascade"]
    /\ UNCHANGED <<plan, ends, ref, listing, invoice, request, granted, spent>>

SweepCascade ==
    /\ sweep.stage = "cascade"
    /\ listing' = [l \in Listing |-> IF OwnerOf[l] \in sweep.owners /\ listing[l] = "ACTIVE"
                                     THEN "SUSPENDED" ELSE listing[l]]
    /\ sweep' = Resting
    /\ UNCHANGED <<sub, invoice, request, granted, spent>>

\* A database error or a restart.
SweepAbort ==
    /\ sweep # Resting
    /\ sweep' = Resting
    /\ UNCHANGED <<sub, listing, invoice, request, granted, spent>>

Sweep == SweepRead \/ SweepSuspend \/ SweepCascade

-----------------------------------------------------------------------------
(***************************************************************************)
(* Listings.                                                               *)
(***************************************************************************)

Exists(l) == listing[l] \notin {Absent, Deleted}

Rows(g) == {l \in Listing : OwnerOf[l] = g /\ Exists(l)}

\* create() with status ACTIVE has to pass the gate; without, it makes a DRAFT.
CreateActive(p, g) == Enter(p, [stage |-> "gate", g |-> g, l |-> NewListing])

CreateDraft(p, l) ==
    /\ request[p] = Idle
    /\ listing[l] = Absent
    /\ listing' = [listing EXCEPT ![l] = "DRAFT"]
    /\ UNCHANGED <<sub, invoice, request, sweep, granted, spent>>

PublishListing(p, l) ==
    /\ listing[l] = "DRAFT"
    /\ Enter(p, [stage |-> "gate", g |-> OwnerOf[l], l |-> l])

\* assertCanPublish reads the owner with his subscription...
Gate(p) ==
    LET r == request[p] IN
    /\ r.stage = "gate"
    /\ Continue(p, IF status[r.g] # "ACTIVE" THEN Idle
                   ELSE [r EXCEPT !.stage = IF plan[r.g] = "STARTER" THEN "count" ELSE "publish"])
    /\ UNCHANGED <<sub, listing, invoice, sweep, granted, spent>>

CountOffByOne(p) ==                              \* mutant: > instead of >=
    LET r == request[p] IN
    /\ r.stage = "count"
    /\ Continue(p, IF Cardinality(Rows(r.g)) > MaxListings THEN Idle
                   ELSE [r EXCEPT !.stage = "publish"])
    /\ UNCHANGED <<sub, listing, invoice, sweep, granted, spent>>

\* ... and counts his rows, whatever their status, when the plan is STARTER.
Count(p) ==
    LET r == request[p] IN
    /\ r.stage = "count"
    /\ Continue(p, IF Cardinality(Rows(r.g)) >= MaxListings THEN Idle
                   ELSE [r EXCEPT !.stage = "publish"])
    /\ UNCHANGED <<sub, listing, invoice, sweep, granted, spent>>

\* The INSERT of create() or the UPDATE of publishListing(), which fails when the row
\* has been deleted.
Publish(p) ==
    LET r == request[p]
        row == IF r.l = NewListing THEN {l \in Listing : OwnerOf[l] = r.g /\ listing[l] = Absent}
               ELSE {l \in {r.l} : Exists(l)}
    IN
    /\ r.stage = "publish"
    /\ \E l \in row : listing' = [listing EXCEPT ![l] = "ACTIVE"]
    /\ Continue(p, Idle)
    /\ UNCHANGED <<sub, invoice, sweep, granted, spent>>

\* The owner's other moves: archive, restore, unpublish.
Move(p, l) ==
    \E to \in ListingStatus :
      /\ \/ listing[l] \in {"DRAFT", "ACTIVE"} /\ to = "SUSPENDED"
         \/ listing[l] = "SUSPENDED" /\ to \in {"DRAFT", "ACTIVE"}
         \/ listing[l] = "ACTIVE" /\ to = "DRAFT"
      /\ Enter(p, [stage |-> "move", l |-> l, to |-> to])

WriteMove(p) ==
    LET r == request[p] IN
    /\ r.stage = "move"
    /\ Exists(r.l)
    /\ listing' = [listing EXCEPT ![r.l] = r.to]
    /\ Continue(p, Idle)
    /\ UNCHANGED <<sub, invoice, sweep, granted, spent>>

\* One UPDATE by an admin or a field agent (activateListing), by an admin
\* (suspendListing); a paid lease (markBookingPaid) rents the listing whatever its
\* status, and its end (terminateLease) makes it ACTIVE again.
ManageListing(p, l) ==
    /\ request[p] = Idle
    /\ Exists(l)
    /\ \E to \in {"ACTIVE", "SUSPENDED", "RENTED"} : listing' = [listing EXCEPT ![l] = to]
    /\ UNCHANGED <<sub, invoice, request, sweep, granted, spent>>

Remove(p, l) ==
    /\ request[p] = Idle
    /\ Exists(l)
    /\ listing' = [listing EXCEPT ![l] = Deleted]
    /\ UNCHANGED <<sub, invoice, request, sweep, granted, spent>>

\* A database error, an unreachable PayDunya or a restart of the container.
Abort(p) ==
    /\ request[p] # Idle
    /\ Continue(p, Idle)
    /\ UNCHANGED <<sub, listing, invoice, sweep, granted, spent>>

-----------------------------------------------------------------------------
(***************************************************************************)
(* The environment: the agency's payment, PayDunya, time.                  *)
(***************************************************************************)

PayInvoice(i) ==
    /\ invoice[i] = "open"
    /\ invoice' = [invoice EXCEPT ![i] = "completed"]
    /\ UNCHANGED <<sub, listing, request, sweep, granted, spent>>

FailInvoice(i) ==
    /\ invoice[i] \in {"created", "open"}
    /\ invoice' = [invoice EXCEPT ![i] = "failed"]
    /\ UNCHANGED <<sub, listing, request, sweep, granted, spent>>

PeriodEnds(g) ==
    /\ ends[g] = "running"
    /\ ends' = [ends EXCEPT ![g] = "over"]
    /\ UNCHANGED <<status, plan, ref, listing, invoice, request, sweep, granted, spent>>

-----------------------------------------------------------------------------
Handler(p) ==
    \/ \E g \in Agency :
         \/ Initiate(p, g)
         \/ VerifySubscription(p, g)
         \/ Cancel(p, g)
         \/ SuspendById(p, g)
         \/ ActivateById(p, g)
         \/ ExtendById(p, g)
         \/ CreateActive(p, g)
    \/ \E i \in Invoice : HandlePaydunyaWebhook(p, i)
    \/ \E l \in Listing :
         CreateDraft(p, l) \/ PublishListing(p, l) \/ Move(p, l) \/ ManageListing(p, l)
            \/ Remove(p, l)

Resume(p) ==
    /\ request[p] # Idle
    /\ \/ Upsert(p)
       \/ CreateInvoice(p)
       \/ StoreRef(p)
       \/ ConfirmAnswer(p)
       \/ Activate(p)
       \/ WriteCancel(p)
       \/ WriteExtension(p)
       \/ Gate(p)
       \/ Count(p)
       \/ Publish(p)
       \/ WriteMove(p)

Next ==
    \/ \E p \in Proc : Handler(p) \/ Resume(p) \/ Abort(p)
    \/ \E g \in Agency : PeriodEnds(g)
    \/ \E i \in Invoice : PayInvoice(i) \/ FailInvoice(i)
    \/ Sweep
    \/ SweepAbort

Spec == Init /\ [][Next]_vars

(***************************************************************************)
(* Fairness.  The nightly job runs every night, and does not fail every    *)
(* night.  A request goes on or fails, PayDunya repeats a notification     *)
(* until it gets a 200 answer, and its processing does not fail for ever.  *)
(* Users, admins and time owe nothing.                                     *)
(***************************************************************************)
Concerns(p, i) ==
    /\ request[p].stage \in {"query", "activate"}
    /\ request[p].inv = i

Fairness ==
    /\ SF_vars(SweepRead) /\ SF_vars(SweepSuspend) /\ WF_vars(SweepCascade)
    /\ \A p \in Proc : WF_vars(Resume(p) \/ Abort(p))
    /\ \A i \in Invoice :
         /\ SF_vars(\E p \in Proc : HandlePaydunyaWebhook(p, i))
         /\ SF_vars(\E p \in Proc : Concerns(p, i) /\ ConfirmAnswer(p))
         /\ SF_vars(\E p \in Proc : Concerns(p, i) /\ Activate(p))

FairSpec == Spec /\ Fairness

-----------------------------------------------------------------------------
(***************************************************************************)
(* Safety that holds whatever the interleaving.                            *)
(***************************************************************************)

Covered(g) ==
    \/ g \in granted
    \/ \E i \in Invoice : Payer[i] = g /\ invoice[i] = "completed"

\* A subscription is ACTIVE only if PayDunya reports one of its invoices paid or an
\* admin granted it: no notification, verification, extension or late write of the
\* nightly job makes it so otherwise.
ActiveWasPaidOrGranted == \A g \in Agency : status[g] = "ACTIVE" => Covered(g)

\* create() and publishListing() get past the gate, and stay past it until they write,
\* only for an agency that has paid or was granted a subscription.
GateIsCovered ==
    \A p \in Proc : request[p].stage \in {"count", "publish"} => Covered(request[p].g)

\* The invoices a row or a request refers to are invoices of that subscription...
RefsAreOwn ==
    /\ \A g \in Agency : ref[g] # NoInvoice => Payer[ref[g]] = g
    /\ \A p \in Proc :
         request[p].stage \in {"ref", "query", "activate"} =>
             Payer[request[p].inv] = request[p].g

\* ... and one that is about to activate a month has been paid.
ActivationsArePaid ==
    \A p \in Proc : request[p].stage = "activate" => invoice[request[p].inv] = "completed"

\* The inductive invariant behind the two properties above.
IInv ==
    /\ TypeOK
    /\ RefsAreOwn
    /\ ActivationsArePaid
    /\ ActiveWasPaidOrGranted
    /\ GateIsCovered

-----------------------------------------------------------------------------
(***************************************************************************)
(* Safety when requests do not overlap (a single process in Proc).         *)
(***************************************************************************)

\* Publishing through the gate never takes a STARTER agency over its number of
\* published listings, though the gate counts rows of any status.
PublicationWithinCap ==
    [][\A p \in Proc :
          LET r == request[p] IN
          r.stage = "publish" /\ listing' # listing /\ plan[r.g] = "STARTER" =>
            Cardinality({l \in Listing : OwnerOf[l] = r.g /\ listing'[l] = "ACTIVE"})
              <= MaxListings]_vars

\* Behind it: a request about to write for a STARTER agency has counted rows that are
\* still there.
CountHolds ==
    /\ \A g \in Agency : IsFiniteSet(Rows(g))
    /\ \A p \in Proc :
         request[p].stage = "publish" /\ plan[request[p].g] = "STARTER" =>
             Cardinality(Rows(request[p].g)) < MaxListings

-----------------------------------------------------------------------------
(***************************************************************************)
(* Liveness under FairSpec.                                                *)
(***************************************************************************)

\* A subscription whose month is over does not stay ACTIVE, although the nightly job
\* may fail between its statements.
ExpiredIsSuspended ==
    \A g \in Agency : status[g] = "ACTIVE" /\ ends[g] = "over"
                        ~> ~(status[g] = "ACTIVE" /\ ends[g] = "over")

\* An invoice that was paid activates the subscription, also after the agency
\* cancelled, an admin suspended, or a second invoice replaced it in paymentRef.
PaidInvoiceActivates ==
    \A i \in Invoice : invoice[i] = "completed" ~> status[Payer[i]] = "ACTIVE"
=============================================================================
