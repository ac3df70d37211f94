------------------------------- MODULE Desks -------------------------------
(***************************************************************************)
(* The pages from which tenants, landlords, agents and admins act on one   *)
(* booking or one visit.  A page shows the row it loaded last, offers      *)
(* buttons for it, sends what is pressed and then loads again or changes   *)
(* what it shows by itself; meanwhile everybody else goes on acting on the *)
(* row, time passes, answers get lost and loads overtake each other.       *)
(*                                                                         *)
(* The services are seen from here as one step per request (BookingEscrow  *)
(* and Verifications have their inside): what they refuse, and what they   *)
(* leave in the row.                                                       *)
(***************************************************************************)
EXTENDS Naturals

CONSTANTS
    None,        \* nothing shown, no modal, no request, no load
    Asked,       \* a load whose rows have not been read yet
    Call,        \* requests the page may have under way
    Load,        \* loads the page may have under way
    MaxChanges   \* bound: changes of the row

ASSUME DesksAssumption ==
    /\ None \notin Load \cup {Asked}
    /\ MaxChanges \in Nat

VARIABLES
    page,     \* the page that is open
    row,      \* the booking or the visit in the database
    version,  \* how often the row has changed
    clock,    \* where the present is, from the start of the stay or of the visit
    shown,    \* what the page last put in its state: a row and its version
    seen,     \* the time of the last render
    screen,   \* what the page draws: the row, its skeleton, or an error in place of the row
    modal,    \* the button whose modal is open
    load,     \* [Load -> what the page is loading]
    call,     \* [Call -> what the page has asked the backend]
    acted,    \* history: version after the last change the page knows it made
    missed    \* history of the tenant's page of a booking: its last load found no token

vars == <<page, row, version, clock, shown, seen, screen, modal, load, call, acted, missed>>

(***************************************************************************)
(* Types.                                                                  *)
(***************************************************************************)
BookingPage == {"tenantList", "tenantDetail", "landlord", "admin"}
VisitPage == {"agentList", "agentDetail", "office", "owner"}

\* More than seven days before the start; less; the first day; later; over.
Clock == 0 .. 4
Early(t) == t = 0
Started(t) == t >= 2
FirstDay(t) == t = 2
Over(t) == t = 4

BookingStatus == {"PENDING", "CONFIRMED", "CANCELLED", "COMPLETED",
                  "REQUESTED", "APPROVED", "ACTIVE", "REJECTED", "TERMINATED"}
VisitStatus == {"REQUESTED", "SCHEDULED", "IN_PROGRESS", "DONE", "REJECTED", "DECLINE_PENDING"}
Escrow == {"AWAITING_PAYMENT", "HELD", "RELEASED", "REFUNDED", "DISPUTED"}

\* billed: the booking has a PayDunya invoice.  rated: the stay has its review, the
\* visit the rating of its agent.
Row == [kind : {"stay", "lease"}, status : BookingStatus, escrow : Escrow,
        billed : BOOLEAN, rated : BOOLEAN]
       \cup [kind : {"visit"}, status : VisitStatus, agent : {"me", "other", None},
             rated : BOOLEAN]

Snapshot == [row : Row, version : 0 .. MaxChanges]

TenantOp == {"pay", "cancel", "cancelHeld", "terminate", "dispute", "review"}
LandlordOp == {"confirm", "refuse", "complete", "approve", "reject", "terminate"}
AdminOp == {"adminCancel", "release", "refund", "resolveRelease", "resolveRefund"}
AgentOp == {"start", "certify", "decline"}
OfficeOp == {"assign", "validate", "approveDecline", "refuseDecline", "dismiss"}
Op == TenantOp \cup LandlordOp \cup AdminOp \cup AgentOp \cup OfficeOp \cup {"rate"}

\* flag: the button is disabled.  announced: what the modal of a cancellation said of
\* the money held.
Request == [op : Op, stage : {"token", "sent", "served", "reloading"},
            flag : {"unset", "set", "lost"}, announced : {None, "REFUNDED", "RELEASED"},
            result : {None, "ok", "refused", "REFUNDED", "RELEASED"},
            version : 0 .. MaxChanges, load : Load \cup {None}]

\* Nothing is not something: no request, button, row or outcome stands for its absence.
ASSUME NothingAssumption ==
    /\ None \notin Request \cup Op \cup Snapshot \cup Escrow
    /\ Asked \notin Snapshot

\* What the page shows and sends is always a row of its kind.
TypeOK ==
    /\ page \in BookingPage \cup VisitPage
    /\ row \in Row /\ version \in 0 .. MaxChanges
    /\ (row.kind = "visit") = (page \in VisitPage)
    /\ clock \in Clock /\ seen \in 0 .. clock
    /\ shown \in Snapshot \cup {None}
    /\ screen \in {"row", "skeleton", "error"}
    /\ modal \in Op \cup {None}
    /\ load \in [Load -> Snapshot \cup {Asked, None}]
    /\ call \in [Call -> Request \cup {None}]
    /\ acted \in 0 .. version /\ missed \in BOOLEAN

Booked(kind, status) ==
    [kind |-> kind, status |-> status, escrow |-> "AWAITING_PAYMENT",
     billed |-> FALSE, rated |-> FALSE]

\* Somebody has just booked, asked to rent or asked for a visit, and the page opens.
Init ==
    /\ page \in BookingPage \cup VisitPage
    /\ row \in IF page \in BookingPage
               THEN {Booked("stay", "PENDING"), Booked("lease", "REQUESTED")}
               ELSE {[kind |-> "visit", status |-> "REQUESTED", agent |-> None, rated |-> FALSE]}
    /\ version = 0
    /\ clock \in Clock /\ seen = clock
    /\ shown = None
    /\ screen = "skeleton"
    /\ modal = None
    /\ \E l \in Load : load = [m \in Load |-> IF m = l THEN Asked ELSE None]
    /\ call = [c \in Call |-> None]
    /\ acted = 0 /\ missed = FALSE

(***************************************************************************)
(* The services: the rows a request may leave, none when it is refused.    *)
(***************************************************************************)
Stay == row.kind = "stay"
Lease == row.kind = "lease"

If(accepted, after) == IF accepted THEN {after} ELSE {}
To(status) == [row EXCEPT !.status = status]
Settled(status, escrow) == [row EXCEPT !.status = status, !.escrow = escrow]

Payment == IF Stay THEN Settled("CONFIRMED", "HELD") ELSE Settled("ACTIVE", "HELD")

\* A checkout, or the answer ALREADY_PAID when PayDunya has the money.
InitiatePayment ==
    IF Lease /\ row.status # "APPROVED" THEN {}
    ELSE {[row EXCEPT !.billed = TRUE]}
         \cup If(row.billed /\ row.status \in {"PENDING", "APPROVED"}, Payment)

MayCancel ==
    /\ row.status \notin {"CANCELLED", "COMPLETED"}
    /\ row.status = "CONFIRMED" => ~Started(clock)

\* mutant: the limit of the refund is another one than that of the page
CancelByTenantUntilStart ==
    If(MayCancel, Settled("CANCELLED", IF row.escrow # "HELD" THEN row.escrow
                                       ELSE IF ~Started(clock) THEN "REFUNDED" ELSE "RELEASED"))

\* Money held comes back in full more than seven days before the start, and is the
\* landlord's after that.
CancelByTenant ==
    If(MayCancel, Settled("CANCELLED", IF row.escrow # "HELD" THEN row.escrow
                                       ELSE IF Early(clock) THEN "REFUNDED" ELSE "RELEASED"))

CancelByOwner ==
    If(MayCancel, Settled("CANCELLED", IF row.escrow # "HELD" THEN row.escrow ELSE "REFUNDED"))

\* findOne lets the two parties in, and nobody else.
CancelByAdmin == {}

ReportDispute ==
    If(row.status = "CONFIRMED" /\ row.escrow = "HELD" /\ FirstDay(clock),
       Settled("CONFIRMED", "DISPUTED"))

CompleteStay ==
    If(row.status = "CONFIRMED" /\ row.escrow # "DISPUTED" /\ Over(clock),
       Settled("COMPLETED", "RELEASED"))

LeaveReview == If(row.status = "COMPLETED" /\ ~row.rated, [row EXCEPT !.rated = TRUE])

ServeBooking(op) ==
    CASE op = "pay" -> InitiatePayment
      [] op \in {"cancel", "cancelHeld"} -> CancelByTenant
      [] op = "refuse" -> CancelByOwner
      [] op = "adminCancel" -> CancelByAdmin
      [] op = "confirm" -> If(row.status = "PENDING", To("CONFIRMED"))
      [] op = "approve" -> If(Lease /\ row.status = "REQUESTED", To("APPROVED"))
      [] op = "reject" -> If(Lease /\ row.status = "REQUESTED", To("REJECTED"))
      [] op = "terminate" -> If(Lease /\ row.status = "ACTIVE", To("TERMINATED"))
      [] op = "complete" -> CompleteStay
      [] op = "dispute" -> ReportDispute
      [] op = "resolveRelease" -> If(row.escrow = "DISPUTED", Settled("COMPLETED", "RELEASED"))
      [] op = "resolveRefund" -> If(row.escrow = "DISPUTED", Settled("CANCELLED", "REFUNDED"))
      [] op = "release" -> If(row.escrow = "HELD", Settled(row.status, "RELEASED"))
      [] op = "refund" -> If(row.escrow = "HELD", Settled(row.status, "REFUNDED"))
      [] op = "review" -> LeaveReview
      [] OTHER -> {}

\* The visit may start a quarter of an hour before its time: from 2 on.
ServeVisit(op) ==
    CASE op = "assign" -> {[row EXCEPT !.status = "SCHEDULED", !.agent = a] : a \in {"me", "other"}}
      [] op = "start" -> If(row.agent = "me" /\ Started(clock), To("IN_PROGRESS"))
      [] op = "certify" -> If(row.agent = "me" /\ row.status = "IN_PROGRESS", To("DONE"))
      [] op = "decline" -> If(row.agent = "me" /\ row.status = "SCHEDULED", To("DECLINE_PENDING"))
      [] op = "approveDecline" -> If(row.status = "DECLINE_PENDING",
                                     [To("REQUESTED") EXCEPT !.agent = None])
      [] op = "refuseDecline" -> If(row.status = "DECLINE_PENDING", To("SCHEDULED"))
      [] op = "validate" -> If(row.status = "DONE", row)
      [] op = "dismiss" -> If(row.status \in {"REQUESTED", "SCHEDULED", "IN_PROGRESS"},
                              To("REJECTED"))
      [] op = "rate" -> If(row.status = "DONE" /\ row.agent # None, [row EXCEPT !.rated = TRUE])
      [] OTHER -> {}

Serve(op) == IF row.kind = "visit" THEN ServeVisit(op) ELSE ServeBooking(op)

\* PayDunya, asked or not, says that the invoice is paid, or that it failed.  Only a
\* booking under way counts as paid already.
Notify ==
    IF ~row.billed \/ row.escrow = "DISPUTED" \/ row.status \in {"CONFIRMED", "ACTIVE"} THEN {}
    ELSE {Payment, Settled("CANCELLED", "REFUNDED")}

(***************************************************************************)
(* The buttons of each page, for the row it shows at the time of a render. *)
(***************************************************************************)
\* mutant: the card does not look at the clock
TenantListTimeless(r, t) ==
    CASE r.status = "PENDING" -> {"pay", "cancel"}
      [] r.status = "REQUESTED" -> {"cancel"}
      [] r.status = "APPROVED" -> {"pay", "cancel"}
      [] r.status = "ACTIVE" -> {"terminate"}
      [] r.status = "CONFIRMED" /\ r.escrow = "HELD" -> {"cancelHeld", "dispute"}
      [] r.status = "COMPLETED" /\ ~r.rated -> {"review"}
      [] OTHER -> {}

TenantList(r, t) ==
    CASE r.status = "PENDING" -> {"pay", "cancel"}
      [] r.status = "REQUESTED" -> {"cancel"}
      [] r.status = "APPROVED" -> {"pay", "cancel"}
      [] r.status = "ACTIVE" -> {"terminate"}
      [] r.status = "CONFIRMED" /\ r.escrow = "HELD" ->
           {op \in {"cancelHeld"} : ~Started(t)} \cup {op \in {"dispute"} : FirstDay(t)}
      [] r.status = "COMPLETED" /\ ~r.rated -> {"review"}
      [] OTHER -> {}

\* No modal here, and neither the escrow nor the dates are looked at.
TenantDetail(r) ==
    {op \in {"cancel"} : r.status \in {"PENDING", "CONFIRMED"}}
    \cup {op \in {"review"} : r.status = "COMPLETED" /\ ~r.rated}

BookingActions(r) ==
    CASE r.status = "PENDING" -> {"confirm", "refuse"}
      [] r.status = "CONFIRMED" -> {"complete", "refuse"}
      [] r.status = "REQUESTED" -> {"approve", "reject"}
      [] r.status = "ACTIVE" -> {"terminate"}
      [] OTHER -> {}

AdminBookingCard(r) ==
    {op \in {"adminCancel"} : r.status \in {"PENDING", "CONFIRMED"} /\ r.escrow # "DISPUTED"}
    \cup {op \in {"resolveRelease", "resolveRefund"} : r.escrow = "DISPUTED"}
    \cup {op \in {"release", "refund"} : r.escrow = "HELD"}

\* The missions listed are the agent's own.
MissionCard(r, t) ==
    {op \in {"start"} : r.agent = "me" /\ r.status = "SCHEDULED" /\ Started(t)}
    \cup {op \in {"decline"} : r.agent = "me" /\ r.status = "SCHEDULED"}
    \cup {op \in {"certify"} : r.agent = "me" /\ r.status = "IN_PROGRESS"}

OfficeCard(r) ==
    {op \in {"assign"} : r.status \notin {"DONE", "REJECTED"}}
    \cup {op \in {"validate"} : r.status = "DONE"}
    \cup {op \in {"approveDecline", "refuseDecline"} : r.status = "DECLINE_PENDING"}
    \cup {op \in {"dismiss"} : r.status \notin {"REJECTED", "DONE", "DECLINE_PENDING"}}

\* A rating can be changed at any time.
VerifCard(r) == {op \in {"rate"} : r.status = "DONE" /\ r.agent # None}

Offers(r, t) ==
    CASE page = "tenantList" -> TenantList(r, t)
      [] page = "tenantDetail" -> TenantDetail(r)
      [] page = "landlord" -> BookingActions(r)
      [] page = "admin" -> AdminBookingCard(r)
      [] page \in {"agentList", "agentDetail"} -> MissionCard(r, t)
      [] page = "office" -> OfficeCard(r)
      [] page = "owner" -> VerifCard(r)

(***************************************************************************)
(* How each page is written.                                               *)
(***************************************************************************)
\* A modal, a form or a second press comes between the button and the request.
AsksAgain(op) ==
    \/ op \in {"cancelHeld", "dispute", "review", "terminate", "rate", "certify", "decline",
               "assign", "dismiss"}
    \/ page = "admin"

\* The button is disabled before the token is awaited, or only after.
FlagFirst(op) ==
    \/ page \in {"tenantDetail", "landlord", "admin", "owner"}
    \/ page = "tenantList" /\ op \in {"dispute", "review"}

\* One flag disables every button of the card.
OneFlag == page \in {"landlord", "admin", "agentList", "agentDetail", "office"}

\* The flags belong to the card or the modal and go away with it.
FlagsOfTheCard == page \in {"tenantList", "landlord", "owner"}

\* The skeleton appears before the token of the load is awaited, after, or never.
HidesFirst == page \in {"tenantList", "tenantDetail", "agentList"}
HidesLate == page \in {"landlord", "admin", "office"}

\* After a success the page loads again; of these pages, some keep the buttons
\* disabled until it is done.
Reloads == {"tenantList", "tenantDetail", "landlord", "agentList", "agentDetail", "office"}
AwaitsReload == page \in {"tenantDetail", "agentList", "agentDetail", "office"}

(***************************************************************************)
(* Loads.                                                                  *)
(***************************************************************************)
Loading == {l \in Load : load[l] # None}
Present == [row |-> row, version |-> version]

LoseFlags(calls) ==
    [c \in Call |-> IF calls[c] = None THEN None ELSE [calls[c] EXCEPT !.flag = "lost"]]

\* A skeleton takes the place of the cards, with what belongs to them, or of an error.
Hide(calls) ==
    /\ screen' = "skeleton"
    /\ call' = IF FlagsOfTheCard THEN LoseFlags(calls) ELSE calls

\* load, fetchData: the first half, up to the first await.
StartLoad(l, calls) ==
    /\ load[l] = None
    /\ load' = [load EXCEPT ![l] = Asked]
    /\ IF HidesFirst THEN Hide(calls) ELSE call' = calls /\ UNCHANGED screen

\* The page is opened again after an error, or before it has shown anything.
Reopen(l) ==
    /\ shown = None \/ screen = "error"
    /\ Loading = {}
    /\ shown' = None
    /\ load' = [load EXCEPT ![l] = Asked]
    /\ Hide(call)
    /\ UNCHANGED <<page, row, version, clock, seen, modal, acted, missed>>

\* The button under an error, another filter, or the window that gets the focus back
\* from the payment.
Refresh(l) ==
    /\ \/ page \in {"tenantList", "admin", "office"} /\ screen # "skeleton"
       \/ page = "landlord" /\ screen = "error"
    /\ StartLoad(l, call)
    /\ UNCHANGED <<page, row, version, clock, shown, seen, modal, acted, missed>>

ReadRow(l) ==
    /\ load[l] = Asked
    /\ load' = [load EXCEPT ![l] = Present]
    /\ IF HidesLate THEN Hide(call) ELSE UNCHANGED <<screen, call>>
    /\ UNCHANGED <<page, row, version, clock, shown, seen, modal, acted, missed>>

\* The tenant's list has the payments it still waits for checked, and reads again when
\* one has come.
Recheck(l) ==
    /\ page = "tenantList"
    /\ load[l] \notin {None, Asked}
    /\ load[l].row.billed /\ load[l].row.status \in {"PENDING", "APPROVED"}
    /\ row.status # load[l].row.status
    /\ load' = [load EXCEPT ![l] = Present]
    /\ UNCHANGED <<page, row, version, clock, shown, seen, screen, modal, call, acted, missed>>

\* What waited for this load goes on: the buttons are free again.
Released(l) ==
    [c \in Call |-> IF call[c] # None /\ call[c].load = l THEN None ELSE call[c]]

\* An error left by another load stays in place of the cards.
Arrive(l) ==
    /\ load[l] \notin {None, Asked}
    /\ shown' = load[l]
    /\ seen' = clock
    /\ screen' = IF screen = "error" THEN "error" ELSE "row"
    /\ load' = [load EXCEPT ![l] = None]
    /\ call' = Released(l)
    /\ missed' = FALSE
    /\ UNCHANGED <<page, row, version, clock, modal, acted>>

\* An error takes the place of the cards, or a toast leaves what was shown.
LoadFails(l) ==
    /\ load[l] # None
    /\ screen' = IF page \in {"agentList", "owner"} THEN "row" ELSE "error"
    /\ seen' = clock
    /\ load' = [load EXCEPT ![l] = None]
    /\ call' = Released(l)
    /\ UNCHANGED <<page, row, version, clock, shown, modal, acted, missed>>

\* The session gives no token: the load returns without a word, and the page goes on with
\* what it had, an error left by an earlier load cleared.  (A token refused with an error
\* leaves the skeleton, as does a load that never ends.)
LoadWithoutToken(l) ==
    /\ load[l] = Asked
    /\ screen' = IF HidesFirst /\ screen = "skeleton" THEN "row" ELSE screen
    /\ seen' = clock
    /\ load' = [load EXCEPT ![l] = None]
    /\ call' = Released(l)
    /\ missed' = (page = "tenantDetail")
    /\ UNCHANGED <<page, row, version, clock, shown, modal, acted>>

Rerender ==
    /\ seen # clock
    /\ seen' = clock
    /\ UNCHANGED <<page, row, version, clock, shown, screen, modal, load, call, acted, missed>>

(***************************************************************************)
(* Buttons and requests.                                                   *)
(***************************************************************************)
Disabled(op) ==
    \E c \in Call : /\ call[c] # None
                    /\ call[c].flag = "set"
                    /\ OneFlag \/ call[c].op = op

Offered(op) == screen = "row" /\ shown # None /\ op \in Offers(shown.row, seen)

\* A modal is drawn outside of what the skeleton or the error replaces, except for the
\* tenant.
OnScreen(op) == modal = op /\ (page \in {"tenantList", "tenantDetail"} => screen = "row")

OpenModal(op) ==
    /\ AsksAgain(op) /\ Offered(op) /\ ~Disabled(op)
    /\ modal = None
    /\ modal' = op
    /\ seen' = clock
    /\ UNCHANGED <<page, row, version, clock, shown, screen, load, call, acted, missed>>

\* A modal that is closed takes its own flag away, not the request under way.
CloseModal ==
    /\ modal # None
    /\ modal' = None
    /\ call' = [c \in Call |->
                  IF call[c] # None /\ call[c].op = modal /\ FlagsOfTheCard
                  THEN [call[c] EXCEPT !.flag = "lost"] ELSE call[c]]
    /\ UNCHANGED <<page, row, version, clock, shown, seen, screen, load, acted, missed>>

\* CancellationModal: the refund, computed at the render.
Announced(op) ==
    IF op # "cancelHeld" THEN None ELSE IF Early(seen) THEN "REFUNDED" ELSE "RELEASED"

\* The handler, up to its first await.
Press(c, op) ==
    /\ call[c] = None
    /\ ~Disabled(op)
    /\ IF AsksAgain(op) THEN OnScreen(op) ELSE Offered(op)
    /\ call' = [call EXCEPT ![c] =
                  [op |-> op, stage |-> "token", flag |-> IF FlagFirst(op) THEN "set" ELSE "unset",
                   announced |-> Announced(op), result |-> None, version |-> 0, load |-> None]]
    /\ UNCHANGED <<page, row, version, clock, shown, seen, screen, modal, load, acted, missed>>

At(c, stage) == call[c] # None /\ call[c].stage = stage

Send(c) ==
    /\ At(c, "token")
    /\ call' = [call EXCEPT ![c].stage = "sent",
                            ![c].flag = IF @ = "lost" THEN "lost" ELSE "set"]
    /\ UNCHANGED <<page, row, version, clock, shown, seen, screen, modal, load, acted, missed>>

Becomes(r) ==
    /\ version < MaxChanges
    /\ row' = r
    /\ version' = version + 1

\* What a cancellation did with money held, for the history.
Outcome(op, r) ==
    IF op \in {"cancel", "cancelHeld"} /\ row.escrow = "HELD" THEN r.escrow ELSE "ok"

Answer(c, result, v) ==
    call' = [call EXCEPT ![c].stage = "served", ![c].result = result, ![c].version = v]

Served(c) ==
    /\ At(c, "sent")
    /\ LET op == call[c].op IN
         \/ Serve(op) = {} /\ Answer(c, "refused", 0) /\ UNCHANGED <<row, version>>
         \/ \E r \in Serve(op) :
              IF r = row THEN Answer(c, "ok", version) /\ UNCHANGED <<row, version>>
              ELSE Becomes(r) /\ Answer(c, Outcome(op, r), version + 1)
    /\ UNCHANGED <<page, clock, shown, seen, screen, modal, load, acted, missed>>

Done(calls, c) == [calls EXCEPT ![c] = None]

\* The modals of the admin and of a completed mission close however their act ends.
ClosesAnyway(op) == page = "admin" \/ (page = "agentList" /\ op = "certify")

\* The session gives no token: the act ends there, without a word.
EndsTokenless(c) ==
    /\ At(c, "token")
    /\ call' = Done(call, c)
    /\ modal' = IF ClosesAnyway(call[c].op) THEN None ELSE modal
    /\ UNCHANGED <<page, row, version, clock, shown, seen, screen, load, acted, missed>>

\* The catch: the request was refused, its answer lost, or its token refused with an error.
\* On the page of a booking the error of a cancellation takes its place.
Fails(c) ==
    /\ call[c] # None /\ call[c].stage # "reloading"
    /\ call' = Done(call, c)
    /\ modal' = IF ClosesAnyway(call[c].op) THEN None ELSE modal
    /\ screen' = IF page = "tenantDetail" /\ call[c].op = "cancel" THEN "error" ELSE screen
    /\ UNCHANGED <<page, row, version, clock, shown, seen, load, acted, missed>>

Success(c) == At(c, "served") /\ call[c].result # "refused"

Known(c) == acted' = IF call[c].version > acted THEN call[c].version ELSE acted

\* The page has the tenant's checkout in another tab, and nothing to load yet.
Checkout(c) ==
    /\ Success(c)
    /\ call[c].op = "pay"
    /\ call' = Done(call, c)
    /\ UNCHANGED <<page, row, version, clock, shown, seen, screen, modal, load, acted, missed>>

\* mutant: the tenant's page of a booking frees the buttons without loading again
SucceedWithoutLoad(c, l) ==
    /\ Success(c)
    /\ page \in Reloads
    /\ modal' = None
    /\ IF page = "tenantDetail"
       THEN call' = Done(call, c) /\ load[l] = None /\ UNCHANGED <<load, screen>>
       ELSE StartLoad(l, IF AwaitsReload
                         THEN [call EXCEPT ![c].stage = "reloading", ![c].load = l]
                         ELSE Done(call, c))
    /\ Known(c)
    /\ UNCHANGED <<page, row, version, clock, shown, seen, missed>>

SucceedAndLoad(c, l) ==
    /\ Success(c)
    /\ page \in Reloads
    /\ modal' = None
    /\ StartLoad(l, IF AwaitsReload
                    THEN [call EXCEPT ![c].stage = "reloading", ![c].load = l]
                    ELSE Done(call, c))
    /\ Known(c)
    /\ UNCHANGED <<page, row, version, clock, shown, seen, missed>>

\* The admin's list of bookings and the owner's list of visits change the row shown
\* by themselves.
Patched(r, op) ==
    CASE op = "adminCancel" -> [r EXCEPT !.status = "CANCELLED"]
      [] op = "release" -> [r EXCEPT !.escrow = "RELEASED"]
      [] op = "refund" -> [r EXCEPT !.escrow = "REFUNDED"]
      [] op = "resolveRelease" -> [r EXCEPT !.escrow = "RELEASED", !.status = "COMPLETED"]
      [] op = "resolveRefund" -> [r EXCEPT !.escrow = "REFUNDED", !.status = "CANCELLED"]
      [] op = "rate" -> [r EXCEPT !.rated = TRUE]

SucceedAndPatch(c) ==
    /\ Success(c)
    /\ page \notin Reloads
    /\ modal' = None
    /\ shown' = IF shown = None THEN None ELSE [shown EXCEPT !.row = Patched(@, call[c].op)]
    /\ seen' = clock
    /\ call' = Done(call, c)
    /\ UNCHANGED <<page, row, version, clock, screen, load, acted, missed>>

(***************************************************************************)
(* Everybody else, and time.                                               *)
(***************************************************************************)
SomebodyActs ==
    /\ \E r \in (UNION {Serve(op) : op \in Op}) \cup (IF row.kind = "visit" THEN {} ELSE Notify) :
         r # row /\ Becomes(r)
    /\ UNCHANGED <<page, clock, shown, seen, screen, modal, load, call, acted, missed>>

TimePasses ==
    /\ clock < 4
    /\ clock' = clock + 1
    /\ UNCHANGED <<page, row, version, shown, seen, screen, modal, load, call, acted, missed>>

Next ==
    \/ \E l \in Load : \/ Reopen(l) \/ Refresh(l) \/ ReadRow(l) \/ Recheck(l) \/ Arrive(l)
                      \/ LoadFails(l) \/ LoadWithoutToken(l)
    \/ \E op \in Op : OpenModal(op)
    \/ CloseModal \/ Rerender
    \/ \E c \in Call :
         \/ \E op \in Op : Press(c, op)
         \/ Send(c) \/ EndsTokenless(c) \/ Served(c) \/ Fails(c) \/ Checkout(c) \/ SucceedAndPatch(c)
         \/ \E l \in Load : SucceedAndLoad(c, l)
    \/ SomebodyActs
    \/ TimePasses

Spec == Init /\ [][Next]_vars

(***************************************************************************)
(* Properties.                                                             *)
(***************************************************************************)
UpToDate == screen = "row" /\ shown = Present /\ seen = clock

\* The rules of the pages mirror those of the services: a button of the tenant's list,
\* of the pages of the agents and of the office, and of the owner's list of visits,
\* pressed on a page that is up to date, is not refused, whatever came before.
OfferedIsAccepted ==
    page \in {"tenantList", "agentList", "agentDetail", "office", "owner"} /\ UpToDate =>
        \A op \in Offers(row, clock) : Serve(op) # {}

\* The refund the tenant's modal announces (computed by the page, "identique au
\* backend") is what happens to the money held, unless the limit of seven days passed
\* while the modal was open, in whatever state the booking was when it was drawn.
RefundAsAnnounced ==
    \A c \in Call :
        call[c] # None /\ call[c].announced # None /\ call[c].result \in {"REFUNDED", "RELEASED"} =>
            \/ call[c].result = call[c].announced
            \/ call[c].announced = "REFUNDED" /\ ~Early(clock)

\* The tenant's page of a booking, which waits for its reload and draws an error in
\* place of the booking when it fails, never leaves the tenant before a row older than
\* the act it reported (repeated presses, failed loads, lost answers and acts of the
\* others included), but in one way: the reload found no token, and returned.
OwnActIsShown ==
    page = "tenantDetail" /\ screen = "row" /\ shown # None
        /\ Loading = {} /\ (\A c \in Call : call[c] = None) =>
            shown.version >= acted \/ missed

(***************************************************************************)
(* The invariant behind them.                                              *)
(***************************************************************************)
\* A page only asks for what it has buttons for.
Buttons ==
    CASE page = "admin" -> AdminOp
      [] page = "owner" -> {"rate"}
      [] OTHER -> Op

Fits(snapshot) == (snapshot.row.kind = "visit") = (page \in VisitPage)

OfThisPage ==
    /\ \A c \in Call : call[c] # None => call[c].op \in Buttons
    /\ modal # None => modal \in Buttons
    /\ shown # None => Fits(shown)
    /\ \A l \in Load : load[l] \notin {None, Asked} => Fits(load[l])

\* Nothing is told before it happens.
NothingFromTheFuture == \A c \in Call : call[c] # None => call[c].version <= version

\* A stay is never rented, nor is a lease requested like a stay.
StatusOfKind ==
    /\ row.status = "PENDING" => row.kind = "stay"
    /\ row.status = "ACTIVE" => row.kind = "lease"

\* The clock that announced a refund was not ahead of the one that decided it.
RefundFounded ==
    \A c \in Call :
        LET r == call[c] IN
        r # None =>
            /\ r.announced # None => r.op = "cancelHeld"
            /\ r.announced = "RELEASED" => ~Early(clock) /\ r.result # "REFUNDED"
            /\ r.result = "RELEASED" => ~Early(clock)

\* The tenant's page of a booking does one thing at a time: it waits for an answer with the
\* booking that had the button before its eyes, or for the load that follows, or for a load
\* of its own.
OneThing ==
    page = "tenantDetail" =>
        /\ \A c, d \in Call : call[c] # None /\ call[d] # None => c = d
        /\ \A l, m \in Loading : l = m
        /\ Loading # {} => screen = "skeleton" /\ modal = None
        /\ modal # None => Offered(modal) /\ AsksAgain(modal)
        /\ \A c \in Call : call[c] # None =>
             IF call[c].stage = "reloading" THEN Loading = {call[c].load}
             ELSE Offered(call[c].op) /\ call[c].flag = "set"
        /\ \A l \in Loading : load[l] # Asked => load[l].version >= acted
        /\ shown # None /\ screen = "row" /\ Loading = {} => shown.version >= acted \/ missed

IInv == TypeOK /\ OfThisPage /\ NothingFromTheFuture /\ StatusOfKind /\ RefundFounded /\ OneThing
=============================================================================
