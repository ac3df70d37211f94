------------------------- MODULE VerificationProofs -------------------------
(***************************************************************************)
(* Proofs about Verifications for every set of listings, visits, payments  *)
(* and agents and any number of requests served at the same time.          *)
(***************************************************************************)
EXTENDS SerialVerifications, FiniteSetTheorems, TLAPS

-----------------------------------------------------------------------------
(***************************************************************************)
(* Type correctness.                                                       *)
(***************************************************************************)

\* Only a request being served has a stage other than "idle".
LEMMA BusyIsRequest ==
    ASSUME TypeOK, NEW p \in Proc, request[p].stage # "idle"
    PROVE  request[p] \in Request
BY DEF TypeOK, Idle

\* A visit to be written is a Request.
LEMMA VisitIsRequest ==
    ASSUME NEW v \in Verification
    PROVE  /\ \A a \in Agent, s \in {"decline", "start", "badge", "done", "rate"} :
                Visit(s, v, a) \in Request
           /\ \A s \in {"unassign", "schedule", "validate", "reject"} :
                Visit(s, v, NoAgent) \in Request
BY DEF Visit, Request

\* The first step of a handler keeps the types.
LEMMA EnterType ==
    ASSUME TypeOK, NEW p \in Proc, NEW r \in Request, Enter(p, r)
    PROVE  TypeOK'
BY DEF Enter, TypeOK, table

\* Every handler enters with a Request, or is a single statement that keeps the types.
LEMMA HandlerType ==
    ASSUME TypeOK, NEW p \in Proc, Handler(p)
    PROVE  TypeOK'
<1> USE VerificationAssumption
<1>1. ASSUME NEW l \in Listing, Create(p, l)
      PROVE  TypeOK'
  <2>1. \A s \in {"insert", "askPending"} : [stage |-> s, l |-> l, row |-> NoPayment] \in Request
    BY DEF Request
  <2> QED BY <1>1, <2>1, EnterType DEF Create
<1>2. ASSUME NEW i \in Payment, HandleWebhookPayDunya(p, i)
      PROVE  TypeOK'
  <2>1. PICK k \in DOMAIN rows :
           Enter(p, [stage |-> "query", l |-> ListingPaid[i], row |-> rows[k], inv |-> i])
    BY <1>2 DEF HandleWebhookPayDunya
  <2>2. [stage |-> "query", l |-> ListingPaid[i], row |-> rows[k], inv |-> i] \in Request
    BY <2>1 DEF Request, TypeOK
  <2> QED BY <2>1, <2>2, EnterType
<1>3. ASSUME NEW v \in Verification, NEW a \in Agent, AssignAgent(p, v, a)
      PROVE  TypeOK'
  BY <1>3 DEF AssignAgent, TypeOK, VerifStatus
<1>4. ASSUME NEW v \in Verification, NEW a \in Agent,
             Decline(p, v, a) \/ Start(p, v, a) \/ Complete(p, v, a)
      PROVE  TypeOK'
  BY <1>4, VisitIsRequest, EnterType DEF Decline, Start, Complete
<1>5. ASSUME NEW v \in Verification,
             ApproveDecline(p, v) \/ RefuseDecline(p, v) \/ Validate(p, v) \/ Reject(p, v)
      PROVE  TypeOK'
  BY <1>5, VisitIsRequest, EnterType DEF ApproveDecline, RefuseDecline, Validate, Reject
<1>6. ASSUME NEW v \in Verification, Rate(p, v)
      PROVE  TypeOK'
  <2>1. agent[v] \in Agent
    BY <1>6 DEF Rate, TypeOK
  <2> QED BY <1>6, <2>1, VisitIsRequest, EnterType DEF Rate
<1> QED BY <1>1, <1>2, <1>3, <1>4, <1>5, <1>6 DEF Handler

\* So do the steps after the first await.
LEMMA ResumeType ==
    ASSUME TypeOK, NEW p \in Proc, Resume(p)
    PROVE  TypeOK'
<1>1. request[p] \in Request
  BY DEF Resume, TypeOK
<1>2. CASE AskPending(p)
  <2>1. [request[p] EXCEPT !.stage = "bill"] \in Request
    BY <1>1, <1>2 DEF AskPending, Request
  <2> QED BY <1>2, <2>1 DEF AskPending, Continue, TypeOK, table
<1>3. CASE CreateInvoice(p)
  <2>1. PICK y \in Payment :
           /\ invoice' = [invoice EXCEPT ![y] = "created"]
           /\ Continue(p, [request[p] EXCEPT !.stage = "row", !.row = y])
    BY <1>3 DEF CreateInvoice
  <2>2. [request[p] EXCEPT !.stage = "row", !.row = y] \in Request
    BY <1>1, <1>3 DEF CreateInvoice, Request
  <2> QED BY <1>3, <2>1, <2>2 DEF CreateInvoice, Continue, TypeOK, InvoiceState, table
<1>4. CASE InsertPayment(p)
  <2>1. request[p].row \in Payment
    BY <1>1, <1>4 DEF InsertPayment, Request
  <2> QED BY <1>4, <2>1 DEF InsertPayment, Continue, TypeOK, PaymentStatus, InvoiceState
<1>5. CASE InsertVerification(p)
  <2>1. /\ request[p].l \in Listing
        /\ request[p].row \in Payment \cup {NoPayment}
    BY <1>1, <1>5 DEF InsertVerification, Request
  <2>2. request[p].row # NoPayment =>
            [stage |-> "link", l |-> request[p].l, row |-> request[p].row,
             inv |-> request[p].row] \in Request
    BY <2>1 DEF Request
  <2> QED BY <1>5, <2>1, <2>2 DEF InsertVerification, Continue, TypeOK, VerifStatus
<1>6. CASE ConfirmAnswer(p)
  <2>1. \A s \in {"confirm", "fail"} : [request[p] EXCEPT !.stage = s] \in Request
    BY <1>1, <1>6 DEF ConfirmAnswer, Request
  <2> QED BY <1>6, <2>1 DEF ConfirmAnswer, Continue, TypeOK, table
<1>7. CASE ConfirmPayment(p)
  <2>1. /\ [request[p] EXCEPT !.stage = "load"] \in Request
        /\ request[p].row \in Payment /\ request[p].inv \in Payment
    BY <1>1, <1>7 DEF ConfirmPayment, Request
  <2> QED BY <1>7, <2>1 DEF ConfirmPayment, Continue, TypeOK, PaymentStatus
<1>8. CASE FailPayment(p)
  BY <1>1, <1>8 DEF FailPayment, Continue, TypeOK, PaymentStatus
<1>9. CASE LoadPayment(p)
  <2>1. [stage |-> "insert", l |-> request[p].l, row |-> request[p].row] \in Request
    BY <1>1, <1>9 DEF LoadPayment, Request
  <2> QED BY <1>9, <2>1 DEF LoadPayment, Continue, TypeOK, table
<1>10. CASE LinkPayment(p)
  <2>1. request[p].row \in Payment
    BY <1>1, <1>10 DEF LinkPayment, Request
  <2> QED BY <1>10, <2>1 DEF LinkPayment, Continue, TypeOK
<1>11. CASE WriteStatus(p)
  <2>1. request[p].v \in Verification
    BY <1>1, <1>11 DEF WriteStatus, Written, Request
  <2>2. Written[request[p].stage] \in VerifStatus
    BY <1>11 DEF WriteStatus, Written, VerifStatus
  <2>3. request[p].stage \in {"start", "done"} => request[p].a \in Agent
    BY <1>1 DEF Request
  <2>4. visits' \in [Verification -> [started : SUBSET Agent, completed : SUBSET Agent]]
    BY <1>11, <2>1, <2>3 DEF WriteStatus, TypeOK
  <2> QED BY <1>11, <2>1, <2>2, <2>4 DEF WriteStatus, Continue, TypeOK
<1>12. CASE WriteBadge(p)
  <2>1. request[p].v \in Verification
    BY <1>1, <1>12 DEF WriteBadge, Request
  <2>2. request[p].stage = "badge" => Visit("done", request[p].v, request[p].a) \in Request
    BY <1>1, <2>1, VisitIsRequest DEF Request
  <2> QED BY <1>12, <2>1, <2>2 DEF WriteBadge, Continue, TypeOK, Badge
<1>13. CASE WriteRating(p)
  <2>1. request[p].v \in Verification /\ request[p].a \in Agent
    BY <1>1, <1>13 DEF WriteRating, Request
  <2> QED BY <1>13, <2>1 DEF WriteRating, Continue, TypeOK
<1> QED BY <1>2, <1>3, <1>4, <1>5, <1>6, <1>7, <1>8, <1>9, <1>10, <1>11, <1>12, <1>13 DEF Resume

\* Every step keeps the types.
LEMMA StepType ==
    ASSUME TypeOK, [Next]_vars
    PROVE  TypeOK'
<1>1. ASSUME NEW p \in Proc, Handler(p) \/ Resume(p)
      PROVE  TypeOK'
  BY <1>1, HandlerType, ResumeType
<1>2. ASSUME NEW p \in Proc, Abort(p)
      PROVE  TypeOK'
  BY <1>2 DEF Abort, Continue, TypeOK, table
<1>3. CASE ExpireOldBadges
  BY <1>3 DEF ExpireOldBadges, TypeOK, Badge
<1>4. ASSUME NEW i \in Payment, PayInvoice(i) \/ FailInvoice(i)
      PROVE  TypeOK'
  BY <1>4 DEF PayInvoice, FailInvoice, TypeOK, InvoiceState, table
<1>5. ASSUME NEW l \in Listing, BadgeAges(l)
      PROVE  TypeOK'
  BY <1>5 DEF BadgeAges, TypeOK, Badge
<1>6. CASE UNCHANGED vars
  BY <1>6 DEF vars, TypeOK
<1> QED BY <1>1, <1>2, <1>3, <1>4, <1>5, <1>6 DEF Next

\* Every variable keeps its type: badges, visits, payments and the work of every request.
THEOREM TypeCorrect == Spec => []TypeOK
<1>1. Init => TypeOK
  BY VerificationAssumption DEF Init, TypeOK, Badge, VerifStatus, PaymentStatus, InvoiceState
<1>2. TypeOK /\ [Next]_vars => TypeOK'
  BY StepType
<1> QED BY <1>1, <1>2, PTL DEF Spec

-----------------------------------------------------------------------------
(***************************************************************************)
(* What no step takes back.                                                *)
(***************************************************************************)

\* PayDunya never withdraws a completed payment, and no handler touches one.
LEMMA CompletedStays ==
    ASSUME TypeOK, [Next]_vars, NEW i \in Payment, invoice[i] = "completed"
    PROVE  invoice'[i] = "completed"
<1>1. ASSUME NEW p \in Proc, Handler(p)
      PROVE  invoice' = invoice
  BY <1>1 DEF Handler, Enter, Create, HandleWebhookPayDunya, AssignAgent, Decline, Start,
       Complete, ApproveDecline, RefuseDecline, Validate, Reject, Rate
<1>2. ASSUME NEW p \in Proc, Resume(p)
      PROVE  invoice'[i] = "completed"
  <2>1. CASE CreateInvoice(p)
    BY <2>1 DEF CreateInvoice, TypeOK
  <2>2. CASE InsertPayment(p)
    BY <2>2 DEF InsertPayment, TypeOK
  <2>3. CASE ~CreateInvoice(p) /\ ~InsertPayment(p)
    BY <1>2, <2>3 DEF Resume, AskPending, InsertVerification, ConfirmAnswer, ConfirmPayment,
         FailPayment, LoadPayment, LinkPayment, WriteStatus, WriteBadge, WriteRating
  <2> QED BY <2>1, <2>2, <2>3
<1>3. ASSUME NEW j \in Payment, PayInvoice(j) \/ FailInvoice(j)
      PROVE  invoice'[i] = "completed"
  BY <1>3 DEF PayInvoice, FailInvoice, TypeOK
<1>4. CASE \/ \E p \in Proc : Abort(p)
           \/ ExpireOldBadges
           \/ \E l \in Listing : BadgeAges(l)
           \/ UNCHANGED vars
  BY <1>4 DEF Abort, ExpireOldBadges, BadgeAges, vars
<1> QED BY <1>1, <1>2, <1>3, <1>4 DEF Next

\* The visits agents have started and completed are a fact.
LEMMA VisitsGrow ==
    ASSUME TypeOK, [Next]_vars, NEW v \in Verification
    PROVE  /\ visits[v].started \subseteq visits'[v].started
           /\ visits[v].completed \subseteq visits'[v].completed
<1>1. ASSUME NEW p \in Proc, Handler(p)
      PROVE  visits' = visits
  BY <1>1 DEF Handler, Enter, Create, HandleWebhookPayDunya, AssignAgent, Decline, Start,
       Complete, ApproveDecline, RefuseDecline, Validate, Reject, Rate, table
<1>2. ASSUME NEW p \in Proc, WriteStatus(p)
      PROVE  /\ visits[v].started \subseteq visits'[v].started
             /\ visits[v].completed \subseteq visits'[v].completed
  BY <1>2 DEF WriteStatus, TypeOK
<1>3. ASSUME NEW p \in Proc, Resume(p), ~WriteStatus(p)
      PROVE  visits' = visits
  BY <1>3 DEF Resume, AskPending, CreateInvoice, InsertPayment, InsertVerification,
       ConfirmAnswer, ConfirmPayment, FailPayment, LoadPayment, LinkPayment, WriteBadge,
       WriteRating, table
<1>4. CASE \/ \E p \in Proc : Abort(p)
           \/ ExpireOldBadges
           \/ \E i \in Payment : PayInvoice(i) \/ FailInvoice(i)
           \/ \E l \in Listing : BadgeAges(l)
           \/ UNCHANGED vars
  BY <1>4 DEF Abort, ExpireOldBadges, PayInvoice, FailInvoice, BadgeAges, vars, table
<1> QED BY <1>1, <1>2, <1>3, <1>4 DEF Next

\* Hence what a request rests on stays true until it writes.
LEMMA FoundedStays ==
    ASSUME TypeOK, [Next]_vars, NEW r \in Request \cup {Idle},
           FoundedVisit(r), FoundedPayment(r)
    PROVE  FoundedVisit(r)' /\ FoundedPayment(r)'
<1>1. ASSUME NEW l, ListingWasPaid(l)
      PROVE  ListingWasPaid(l)'
  BY <1>1, CompletedStays DEF ListingWasPaid
<1>2. FoundedPayment(r)'
  BY <1>1 DEF FoundedPayment
<1>3. FoundedVisit(r)'
  <2>1. r.stage \in {"badge", "done", "validate", "rate"} => r.v \in Verification
    BY DEF Request, Idle
  <2> QED BY <2>1, VisitsGrow DEF FoundedVisit
<1> QED BY <1>2, <1>3

\* Nothing is claimed of an idle process.
LEMMA IdleIsFounded == FoundedVisit(Idle) /\ FoundedPayment(Idle)
BY DEF Idle, FoundedVisit, FoundedPayment

-----------------------------------------------------------------------------
(***************************************************************************)
(* The inductive invariant, first about the requests in flight, then about *)
(* the rows they write.                                                    *)
(***************************************************************************)

\* What a handler has just read supports what it is going to write.
LEMMA HandlerFounded ==
    ASSUME IInv, NEW p \in Proc, Handler(p)
    PROVE  FoundedVisit(request'[p]) /\ FoundedPayment(request'[p])
<1> USE VerificationAssumption
<1>1. \A r : Enter(p, r) => request'[p] = r
  BY DEF Enter, IInv, TypeOK
<1>2. ASSUME NEW l \in Listing, Create(p, l)
      PROVE  FoundedVisit(request'[p]) /\ FoundedPayment(request'[p])
  <2>1. PICK s \in {"insert", "askPending"} :
           Enter(p, [stage |-> s, l |-> l, row |-> NoPayment])
    BY <1>2 DEF Create
  <2> QED BY <1>1, <2>1 DEF FoundedVisit, FoundedPayment
<1>3. ASSUME NEW i \in Payment, HandleWebhookPayDunya(p, i)
      PROVE  FoundedVisit(request'[p]) /\ FoundedPayment(request'[p])
  <2>1. PICK k \in DOMAIN rows :
           Enter(p, [stage |-> "query", l |-> ListingPaid[i], row |-> rows[k], inv |-> i])
    BY <1>3 DEF HandleWebhookPayDunya
  <2> QED BY <1>1, <2>1 DEF FoundedVisit, FoundedPayment
<1>4. ASSUME NEW v \in Verification, NEW a \in Agent, AssignAgent(p, v, a)
      PROVE  FoundedVisit(request'[p]) /\ FoundedPayment(request'[p])
  BY <1>4, IdleIsFounded DEF AssignAgent
<1>5. ASSUME NEW v \in Verification, NEW a \in Agent,
             Decline(p, v, a) \/ Start(p, v, a) \/ Complete(p, v, a)
      PROVE  FoundedVisit(request'[p]) /\ FoundedPayment(request'[p])
  <2>1. request'[p] = Visit("badge", v, a) => visits[v].started # {}
    BY <1>1, <1>5 DEF Decline, Start, Complete, Visit, IInv, VisitsHappened
  <2> QED BY <1>1, <1>5, <2>1 DEF Decline, Start, Complete, Visit, FoundedVisit, FoundedPayment
<1>6. ASSUME NEW v \in Verification,
             ApproveDecline(p, v) \/ RefuseDecline(p, v) \/ Validate(p, v) \/ Reject(p, v)
      PROVE  FoundedVisit(request'[p]) /\ FoundedPayment(request'[p])
  <2>1. request'[p] = Visit("validate", v, NoAgent) => visits[v].started # {}
    BY <1>1, <1>6 DEF ApproveDecline, RefuseDecline, Validate, Reject, Visit, IInv,
         VisitsHappened
  <2> QED BY <1>1, <1>6, <2>1 DEF ApproveDecline, RefuseDecline, Validate, Reject, Visit,
            FoundedVisit, FoundedPayment
<1>7. ASSUME NEW v \in Verification, Rate(p, v)
      PROVE  FoundedVisit(request'[p]) /\ FoundedPayment(request'[p])
  <2>1. visits[v].completed # {}
    BY <1>7 DEF Rate, IInv, VisitsHappened
  <2> QED BY <1>1, <1>7, <2>1 DEF Rate, Visit, FoundedVisit, FoundedPayment
<1> QED BY <1>2, <1>3, <1>4, <1>5, <1>6, <1>7 DEF Handler

\* What a later stage of a handler rests on follows from what the earlier one did.
LEMMA ResumeFounded ==
    ASSUME IInv, NEW p \in Proc, Resume(p)
    PROVE  FoundedVisit(request'[p]) /\ FoundedPayment(request'[p])
<1> DEFINE r == request[p]
<1>1. \A n : Continue(p, n) => request'[p] = n
  BY DEF Continue, IInv, TypeOK
<1>2. r \in Request /\ FoundedVisit(r) /\ FoundedPayment(r)
  BY DEF Resume, IInv, TypeOK
<1>3. CASE AskPending(p)
  <2>1. request'[p] = Idle \/ request'[p].stage = "bill"
    BY <1>1, <1>2, <1>3 DEF AskPending, Request
  <2> QED BY <2>1, IdleIsFounded DEF FoundedVisit, FoundedPayment
<1>4. CASE CreateInvoice(p)
  <2>1. request'[p].stage = "row"
    BY <1>1, <1>2, <1>4 DEF CreateInvoice, Request
  <2> QED BY <2>1 DEF FoundedVisit, FoundedPayment
<1>5. CASE InsertVerification(p)
  <2>1. request'[p] = Idle \/ request'[p].stage = "link"
    BY <1>1, <1>5 DEF InsertVerification
  <2> QED BY <2>1, IdleIsFounded DEF FoundedVisit, FoundedPayment
<1>6. CASE ConfirmAnswer(p)
  <2>1. CASE invoice[r.inv] = "completed"
    <3>1. request'[p] = [r EXCEPT !.stage = "confirm"]
      BY <1>1, <1>6, <2>1 DEF ConfirmAnswer
    <3>2. ListingWasPaid(r.l)
      BY <1>2, <1>6, <2>1 DEF ConfirmAnswer, FoundedPayment, ListingWasPaid, Request
    <3>3. request'[p].stage = "confirm" /\ request'[p].l = r.l
      BY <1>2, <1>6, <3>1 DEF ConfirmAnswer, Request
    <3> QED BY <3>2, <3>3 DEF FoundedVisit, FoundedPayment
  <2>2. CASE invoice[r.inv] # "completed"
    <3>1. request'[p] = Idle \/ request'[p].stage = "fail"
      BY <1>1, <1>2, <1>6, <2>2 DEF ConfirmAnswer, Request
    <3> QED BY <3>1, IdleIsFounded DEF FoundedVisit, FoundedPayment
  <2> QED BY <2>1, <2>2
<1>7. CASE ConfirmPayment(p)
  <2>1. request'[p] = Idle \/ (request'[p].stage = "load" /\ request'[p].l = r.l)
    BY <1>1, <1>2, <1>7 DEF ConfirmPayment, Request
  <2>2. ListingWasPaid(r.l)
    BY <1>2, <1>7 DEF ConfirmPayment, FoundedPayment
  <2> QED BY <2>1, <2>2, IdleIsFounded DEF FoundedVisit, FoundedPayment
<1>8. CASE LoadPayment(p)
  <2>1. request'[p] = Idle \/ (request'[p].stage = "insert" /\ request'[p].l = r.l)
    BY <1>1, <1>8 DEF LoadPayment
  <2>2. ListingWasPaid(r.l)
    BY <1>2, <1>8 DEF LoadPayment, FoundedPayment
  <2> QED BY <2>1, <2>2, IdleIsFounded DEF FoundedVisit, FoundedPayment
<1>9. CASE WriteBadge(p)
  <2>1. request'[p] = Idle \/ request'[p] = Visit("done", r.v, r.a)
    BY <1>1, <1>9 DEF WriteBadge
  <2>2. visits[r.v].started # {}
    BY <1>2, <1>9 DEF WriteBadge, FoundedVisit
  <2> QED BY <2>1, <2>2, IdleIsFounded DEF Visit, FoundedVisit, FoundedPayment
<1>10. CASE \/ InsertPayment(p) \/ FailPayment(p) \/ LinkPayment(p)
            \/ WriteStatus(p) \/ WriteRating(p)
  <2>1. request'[p] = Idle
    BY <1>1, <1>10 DEF InsertPayment, FailPayment, LinkPayment, WriteStatus, WriteRating
  <2> QED BY <2>1, IdleIsFounded
<1> QED BY <1>3, <1>4, <1>5, <1>6, <1>7, <1>8, <1>9, <1>10 DEF Resume

\* Every request is founded after a step.
LEMMA StepFounded ==
    ASSUME IInv, [Next]_vars, NEW q \in Proc, TypeOK'
    PROVE  (FoundedVisit(request[q]) /\ FoundedPayment(request[q]))'
<1>1. FoundedVisit(request'[q]) /\ FoundedPayment(request'[q])
  <2>1. CASE request'[q] = request[q]
    BY <2>1 DEF IInv
  <2>2. ASSUME NEW p \in Proc, Handler(p)
        PROVE  FoundedVisit(request'[q]) /\ FoundedPayment(request'[q])
    <3>1. p # q => request'[q] = request[q]
      BY <2>2 DEF Handler, Enter, Create, HandleWebhookPayDunya, AssignAgent, Decline, Start,
           Complete, ApproveDecline, RefuseDecline, Validate, Reject, Rate, IInv, TypeOK
    <3> QED BY <2>1, <2>2, <3>1, HandlerFounded
  <2>3. ASSUME NEW p \in Proc, Resume(p)
        PROVE  FoundedVisit(request'[q]) /\ FoundedPayment(request'[q])
    <3>1. p # q => request'[q] = request[q]
      BY <2>3 DEF Resume, AskPending, CreateInvoice, InsertPayment, InsertVerification,
           ConfirmAnswer, ConfirmPayment, FailPayment, LoadPayment, LinkPayment, WriteStatus,
           WriteBadge, WriteRating, Continue, IInv, TypeOK
    <3> QED BY <2>1, <2>3, <3>1, ResumeFounded
  <2>4. ASSUME NEW p \in Proc, Abort(p)
        PROVE  request'[q] \in {request[q], Idle}
    BY <2>4 DEF Abort, Continue, IInv, TypeOK
  <2>5. CASE \/ ExpireOldBadges
             \/ \E i \in Payment : PayInvoice(i) \/ FailInvoice(i)
             \/ \E l \in Listing : BadgeAges(l)
             \/ UNCHANGED vars
    BY <2>1, <2>5 DEF ExpireOldBadges, PayInvoice, FailInvoice, BadgeAges, vars
  <2> QED BY <2>1, <2>2, <2>3, <2>4, <2>5, IdleIsFounded DEF Next
<1>2. PICK r : r = request'[q]
  OBVIOUS
<1>3. r \in Request \cup {Idle}
  BY <1>2 DEF TypeOK
<1>4. FoundedVisit(r)' /\ FoundedPayment(r)'
  BY <1>1, <1>2, <1>3, FoundedStays DEF IInv
<1> QED BY <1>2, <1>4 DEF FoundedVisit, FoundedPayment, ListingWasPaid

\* Only WriteStatus makes a visit start or be done.
LEMMA StepVisits ==
    ASSUME IInv, [Next]_vars
    PROVE  VisitsHappened'
<1> SUFFICES ASSUME NEW v \in Verification
             PROVE  /\ status'[v] \in {"IN_PROGRESS", "DONE"} => visits'[v].started # {}
                    /\ status'[v] = "DONE" => visits'[v].completed # {}
  BY DEF VisitsHappened
<1>1. CASE status'[v] = status[v]
  BY <1>1, VisitsGrow DEF IInv, VisitsHappened
<1>2. CASE status'[v] \notin {"IN_PROGRESS", "DONE"}
  BY <1>2
<1>3. ASSUME NEW p \in Proc, WriteStatus(p)
      PROVE  /\ status'[v] \in {"IN_PROGRESS", "DONE"} => visits'[v].started # {}
             /\ status'[v] = "DONE" => visits'[v].completed # {}
  <2> DEFINE r == request[p]
  <2>1. r \in Request /\ r.v \in Verification /\ FoundedVisit(r)
    BY <1>3, BusyIsRequest DEF WriteStatus, Written, Request, IInv
  <2>2. CASE v # r.v
    BY <1>1, <1>3, <2>2 DEF WriteStatus, IInv, TypeOK
  <2>3. CASE v = r.v /\ r.stage = "start"
    <3>1. visits'[v].started = visits[v].started \cup {r.a}
      BY <1>3, <2>1, <2>3 DEF WriteStatus, IInv, TypeOK
    <3>2. status'[v] = "IN_PROGRESS"
      BY <1>3, <2>3 DEF WriteStatus, Written, IInv, TypeOK
    <3> QED BY <3>1, <3>2
  <2>4. CASE v = r.v /\ r.stage = "done"
    <3>1. visits'[v].completed = visits[v].completed \cup {r.a}
      BY <1>3, <2>1, <2>4 DEF WriteStatus, IInv, TypeOK
    <3>2. visits[v].started # {}
      BY <2>1, <2>4 DEF FoundedVisit
    <3> QED BY <3>1, <3>2, VisitsGrow DEF IInv
  <2>5. CASE v = r.v /\ r.stage \notin {"start", "done"}
    <3>1. status'[v] \notin {"IN_PROGRESS", "DONE"}
      BY <1>3, <2>5 DEF WriteStatus, Written, IInv, TypeOK
    <3> QED BY <1>2, <3>1
  <2> QED BY <2>2, <2>3, <2>4, <2>5
<1>4. ASSUME NEW p \in Proc, Handler(p)
      PROVE  status'[v] = status[v] \/ status'[v] = "SCHEDULED"
  BY <1>4 DEF Handler, Enter, Create, HandleWebhookPayDunya, AssignAgent, Decline, Start,
       Complete, ApproveDecline, RefuseDecline, Validate, Reject, Rate, table, IInv, TypeOK
<1>5. ASSUME NEW p \in Proc, Resume(p), ~WriteStatus(p)
      PROVE  status'[v] = status[v] \/ status'[v] = "REQUESTED"
  <2>1. CASE InsertVerification(p)
    BY <2>1 DEF InsertVerification, IInv, TypeOK
  <2>2. CASE ~InsertVerification(p)
    BY <1>5, <2>2 DEF Resume, AskPending, CreateInvoice, InsertPayment, ConfirmAnswer,
         ConfirmPayment, FailPayment, LoadPayment, LinkPayment, WriteBadge, WriteRating, table
  <2> QED BY <2>1, <2>2
<1>6. CASE \/ \E p \in Proc : Abort(p)
           \/ ExpireOldBadges
           \/ \E i \in Payment : PayInvoice(i) \/ FailInvoice(i)
           \/ \E l \in Listing : BadgeAges(l)
           \/ UNCHANGED vars
  BY <1>1, <1>6 DEF Abort, ExpireOldBadges, PayInvoice, FailInvoice, BadgeAges, vars, table
<1> QED BY <1>1, <1>2, <1>3, <1>4, <1>5, <1>6 DEF Next

\* A badge is written for a visit that was started, or is withdrawn or ages.
LEMMA StepBadge ==
    ASSUME IInv, [Next]_vars
    PROVE  BadgeNeedsVisit'
<1> SUFFICES ASSUME NEW l \in Listing, badge'[l] # "none"
             PROVE  \E v \in Verification : ListingOf[v] = l /\ visits'[v].started # {}
  BY DEF BadgeNeedsVisit
<1>1. CASE badge[l] # "none"
  BY <1>1, VisitsGrow DEF IInv, BadgeNeedsVisit
<1>2. ASSUME NEW p \in Proc, WriteBadge(p)
      PROVE  \E v \in Verification : ListingOf[v] = l /\ visits'[v].started # {}
  <2> DEFINE v == request[p].v
  <2>1. v \in Verification /\ visits[v].started # {}
    BY <1>2, BusyIsRequest DEF WriteBadge, Request, IInv, FoundedVisit
  <2>2. visits'[v].started # {}
    BY <2>1, VisitsGrow DEF IInv
  <2>3. CASE ListingOf[v] = l
    BY <2>1, <2>2, <2>3
  <2>4. CASE ListingOf[v] # l
    <3>1. badge'[l] = badge[l]
      BY <1>2, <2>4 DEF WriteBadge, IInv, TypeOK
    <3> QED BY <1>1, <3>1
  <2> QED BY <2>3, <2>4
<1>3. ASSUME NEW p \in Proc, Handler(p)
      PROVE  badge' = badge
  BY <1>3 DEF Handler, Enter, Create, HandleWebhookPayDunya, AssignAgent, Decline, Start,
       Complete, ApproveDecline, RefuseDecline, Validate, Reject, Rate, table
<1>4. ASSUME NEW p \in Proc, Resume(p), ~WriteBadge(p)
      PROVE  badge' = badge
  BY <1>4 DEF Resume, AskPending, CreateInvoice, InsertPayment, InsertVerification,
       ConfirmAnswer, ConfirmPayment, FailPayment, LoadPayment, LinkPayment, WriteStatus,
       WriteRating, table
<1>5. CASE ExpireOldBadges
  BY <1>1, <1>5 DEF ExpireOldBadges, IInv, TypeOK
<1>6. ASSUME NEW k \in Listing, BadgeAges(k)
      PROVE  badge[l] # "none"
  BY <1>6 DEF BadgeAges, IInv, TypeOK
<1>7. CASE \/ \E p \in Proc : Abort(p)
           \/ \E i \in Payment : PayInvoice(i) \/ FailInvoice(i)
           \/ UNCHANGED vars
  BY <1>1, <1>7 DEF Abort, PayInvoice, FailInvoice, vars, table
<1> QED BY <1>1, <1>2, <1>3, <1>4, <1>5, <1>6, <1>7 DEF Next

\* A visit gets its origin when it is inserted, from a request that was paid for.
LEMMA StepPaid ==
    ASSUME IInv, [Next]_vars
    PROVE  PaidVisitWasPaid'
<1> SUFFICES ASSUME NEW v \in Verification, origin'[v] # NoPayment
             PROVE  \E i \in Payment :
                       ListingPaid[i] = ListingOf[v] /\ invoice'[i] = "completed"
  BY DEF PaidVisitWasPaid
<1>1. CASE origin'[v] = origin[v]
  BY <1>1, CompletedStays DEF IInv, PaidVisitWasPaid
<1>2. ASSUME NEW p \in Proc, InsertVerification(p)
      PROVE  \E i \in Payment :
                ListingPaid[i] = ListingOf[v] /\ invoice'[i] = "completed"
  <2> DEFINE r == request[p]
  <2>1. PICK w \in Verification :
           ListingOf[w] = r.l /\ origin' = [origin EXCEPT ![w] = r.row]
    BY <1>2 DEF InsertVerification
  <2>2. CASE v # w
    BY <1>1, <2>1, <2>2 DEF IInv, TypeOK
  <2>3. CASE v = w
    <3>1. r.row # NoPayment
      BY <2>1, <2>3 DEF IInv, TypeOK
    <3>2. ListingWasPaid(r.l)
      BY <1>2, <3>1 DEF InsertVerification, IInv, FoundedPayment
    <3> QED BY <2>1, <2>3, <3>2, CompletedStays DEF ListingWasPaid, IInv
  <2> QED BY <2>2, <2>3
<1>3. ASSUME NEW p \in Proc, Handler(p)
      PROVE  origin' = origin
  BY <1>3 DEF Handler, Enter, Create, HandleWebhookPayDunya, AssignAgent, Decline, Start,
       Complete, ApproveDecline, RefuseDecline, Validate, Reject, Rate, table
<1>4. ASSUME NEW p \in Proc, Resume(p), ~InsertVerification(p)
      PROVE  origin' = origin
  BY <1>4 DEF Resume, AskPending, CreateInvoice, InsertPayment, ConfirmAnswer, ConfirmPayment,
       FailPayment, LoadPayment, LinkPayment, WriteStatus, WriteBadge, WriteRating, table
<1>5. CASE \/ \E p \in Proc : Abort(p)
           \/ ExpireOldBadges
           \/ \E i \in Payment : PayInvoice(i) \/ FailInvoice(i)
           \/ \E l \in Listing : BadgeAges(l)
           \/ UNCHANGED vars
  BY <1>1, <1>5 DEF Abort, ExpireOldBadges, PayInvoice, FailInvoice, BadgeAges, vars, table
<1> QED BY <1>1, <1>2, <1>3, <1>4, <1>5 DEF Next

\* A rating is written for a visit that was completed.
LEMMA StepRating ==
    ASSUME IInv, [Next]_vars
    PROVE  RatedVisitWasCompleted'
<1> SUFFICES ASSUME NEW v \in Verification, rated'[v] # NoAgent
             PROVE  visits'[v].completed # {}
  BY DEF RatedVisitWasCompleted
<1>1. CASE rated'[v] = rated[v]
  BY <1>1, VisitsGrow DEF IInv, RatedVisitWasCompleted
<1>2. ASSUME NEW p \in Proc, WriteRating(p)
      PROVE  visits'[v].completed # {}
  <2>1. CASE v = request[p].v
    BY <1>2, <2>1, VisitsGrow DEF WriteRating, IInv, FoundedVisit
  <2>2. CASE v # request[p].v
    BY <1>1, <1>2, <2>2 DEF WriteRating, IInv, TypeOK
  <2> QED BY <2>1, <2>2
<1>3. ASSUME NEW p \in Proc, Handler(p)
      PROVE  rated' = rated
  BY <1>3 DEF Handler, Enter, Create, HandleWebhookPayDunya, AssignAgent, Decline, Start,
       Complete, ApproveDecline, RefuseDecline, Validate, Reject, Rate, table
<1>4. ASSUME NEW p \in Proc, Resume(p), ~WriteRating(p)
      PROVE  rated' = rated
  BY <1>4 DEF Resume, AskPending, CreateInvoice, InsertPayment, InsertVerification,
       ConfirmAnswer, ConfirmPayment, FailPayment, LoadPayment, LinkPayment, WriteStatus,
       WriteBadge, table
<1>5. CASE \/ \E p \in Proc : Abort(p)
           \/ ExpireOldBadges
           \/ \E i \in Payment : PayInvoice(i) \/ FailInvoice(i)
           \/ \E l \in Listing : BadgeAges(l)
           \/ UNCHANGED vars
  BY <1>1, <1>5 DEF Abort, ExpireOldBadges, PayInvoice, FailInvoice, BadgeAges, vars, table
<1> QED BY <1>1, <1>2, <1>3, <1>4, <1>5 DEF Next

\* The inductive invariant: every request in flight is founded, every visit under way
\* was started, and the three properties below hold.
THEOREM Invariance == Spec => []IInv
<1>1. Init => IInv
  <2> HAVE Init
  <2>1. TypeOK
    BY VerificationAssumption DEF Init, TypeOK, Badge, VerifStatus, PaymentStatus, InvoiceState
  <2>2. \A p \in Proc : FoundedVisit(request[p]) /\ FoundedPayment(request[p])
    BY IdleIsFounded DEF Init
  <2> QED BY <2>1, <2>2 DEF Init, IInv, VisitsHappened, BadgeNeedsVisit, PaidVisitWasPaid,
            RatedVisitWasCompleted, Absent
<1>2. IInv /\ [Next]_vars => IInv'
  <2> SUFFICES ASSUME IInv, [Next]_vars
               PROVE  IInv'
    OBVIOUS
  <2>1. TypeOK'
    BY StepType DEF IInv
  <2>2. (\A p \in Proc : FoundedVisit(request[p]) /\ FoundedPayment(request[p]))'
    BY <2>1, StepFounded
  <2> QED BY <2>1, <2>2, StepVisits, StepBadge, StepPaid, StepRating DEF IInv
<1> QED BY <1>1, <1>2, PTL DEF Spec

\* Whatever admins, agents and payments do at the same time, a listing with the badge
\* has had a visit started by an agent assigned to it.
THEOREM BadgesAreEarned == Spec => []BadgeNeedsVisit
BY Invariance, PTL DEF IInv

\* A visit that had to be paid for has been, whatever row its notification was matched
\* with and however often it came.
THEOREM PaidVisitsArePaid == Spec => []PaidVisitWasPaid
BY Invariance, PTL DEF IInv

\* Only a visit that was completed is ever rated.
THEOREM RatingsAreEarned == Spec => []RatedVisitWasCompleted
BY Invariance, PTL DEF IInv

-----------------------------------------------------------------------------
(***************************************************************************)
(* When requests do not overlap: what a request has read stays so until it *)
(* is served, for nobody else writes.                                      *)
(***************************************************************************)
VisitPart(p) == DoneByAgent /\ RatedAgentVisited /\ VisitAsRead(request[p])

RowPart(p) == OneRowPerInvoice /\ OneVisitPerRow /\ RowAsRead(request[p])

LEMMA IdleAsRead == VisitAsRead(Idle) /\ RowAsRead(Idle)
BY DEF VisitAsRead, RowAsRead, Idle

\* Steps that leave the visits, or the rows of the payments, alone.
LEMMA SameVisits ==
    ASSUME SerialInv, NEW p \in Proc, UNCHANGED <<status, agent, rated, visits>>,
           VisitAsRead(request'[p])
    PROVE  VisitPart(p)'
BY DEF SerialInv, VisitPart, DoneByAgent, RatedAgentVisited, VisitAsRead

LEMMA SameRows ==
    ASSUME SerialInv, NEW p \in Proc, UNCHANGED <<payment, token, invoice, origin>>,
           RowAsRead(request'[p])
    PROVE  RowPart(p)'
BY DEF SerialInv, RowPart, OneRowPerInvoice, OneVisitPerRow, RowAsRead, Unvisited

LEMMA StaysAlone ==
    ASSUME TypeOK, NEW p \in Proc, Alone(p), Handler(p) \/ Resume(p) \/ Abort(p)
    PROVE  \A q \in Proc : q # p => request'[q] = Idle
<1> SUFFICES ASSUME NEW q \in Proc, q # p PROVE request'[q] = request[q]
  BY DEF Alone
<1>1. CASE Handler(p)
  BY <1>1 DEF Handler, Enter, Create, HandleWebhookPayDunya, AssignAgent, Decline, Start, Complete,
       ApproveDecline, RefuseDecline, Validate, Reject, Rate, TypeOK
<1>2. CASE Resume(p)
  BY <1>2 DEF Resume, AskPending, CreateInvoice, InsertPayment, InsertVerification, ConfirmAnswer,
       ConfirmPayment, FailPayment, LoadPayment, LinkPayment, WriteStatus, WriteBadge, WriteRating,
       Continue, TypeOK
<1>3. CASE Abort(p)
  BY <1>3 DEF Abort, Continue, TypeOK
<1> QED BY <1>1, <1>2, <1>3

\* A request that enters has just read what it rests on.
LEMMA SerialEnter ==
    ASSUME TypeOK, SerialInv, NEW p \in Proc, NEW r, Enter(p, r), VisitAsRead(r), RowAsRead(r)
    PROVE  VisitPart(p)' /\ RowPart(p)'
<1>1. request'[p] = r /\ UNCHANGED <<table, invoice>>
  BY DEF Enter, TypeOK
<1>2. UNCHANGED <<status, agent, rated, visits>> /\ UNCHANGED <<payment, token, invoice, origin>>
  BY <1>1 DEF table
<1> QED BY <1>1, <1>2, SameVisits, SameRows

LEMMA SerialHandler ==
    ASSUME TypeOK, SerialInv, NEW p \in Proc, Handler(p)
    PROVE  VisitPart(p)' /\ RowPart(p)'
<1>1. ASSUME NEW l \in Listing, Create(p, l)
      PROVE  VisitPart(p)' /\ RowPart(p)'
  <2>1. PICK s \in {"insert", "askPending"} : Enter(p, [stage |-> s, l |-> l, row |-> NoPayment])
    BY <1>1 DEF Create
  <2>2. VisitAsRead([stage |-> s, l |-> l, row |-> NoPayment])
    BY DEF VisitAsRead
  <2>3. RowAsRead([stage |-> s, l |-> l, row |-> NoPayment])
    BY DEF RowAsRead
  <2> QED BY <2>1, <2>2, <2>3, SerialEnter
<1>2. ASSUME NEW i \in Payment, HandleWebhookPayDunya(p, i)
      PROVE  VisitPart(p)' /\ RowPart(p)'
  <2>1. PICK k \in DOMAIN rows :
           /\ LatestPending(k, ListingPaid[i])
           /\ Enter(p, [stage |-> "query", l |-> ListingPaid[i], row |-> rows[k], inv |-> i])
    BY <1>2 DEF HandleWebhookPayDunya
  <2> DEFINE r == [stage |-> "query", l |-> ListingPaid[i], row |-> rows[k], inv |-> i]
  <2>2. VisitAsRead(r)
    BY DEF VisitAsRead
  <2>3. RowAsRead(r)
    BY <2>1 DEF RowAsRead, LatestPending, PendingAt
  <2> QED BY <2>1, <2>2, <2>3, SerialEnter
<1>3. ASSUME NEW v \in Verification, NEW a \in Agent, AssignAgent(p, v, a)
      PROVE  VisitPart(p)' /\ RowPart(p)'
  <2>1. /\ request[p] = Idle /\ request'[p] = Idle
        /\ agent' = [agent EXCEPT ![v] = a] /\ status' = [status EXCEPT ![v] = "SCHEDULED"]
        /\ UNCHANGED <<rated, visits>> /\ UNCHANGED <<payment, token, invoice, origin>>
    BY <1>3 DEF AssignAgent
  <2>2. RowPart(p)'
    BY <2>1, IdleAsRead, SameRows
  <2>3. DoneByAgent' /\ RatedAgentVisited'
    BY <2>1 DEF SerialInv, DoneByAgent, RatedAgentVisited, TypeOK
  <2>4. VisitAsRead(request[p])'
    BY <2>1 DEF VisitAsRead, Idle
  <2> QED BY <2>2, <2>3, <2>4 DEF VisitPart
<1>4. ASSUME NEW v \in Verification, NEW a \in Agent,
             Decline(p, v, a) \/ Start(p, v, a) \/ Complete(p, v, a)
      PROVE  VisitPart(p)' /\ RowPart(p)'
  <2>1. PICK s \in {"decline", "start", "badge"} : Enter(p, Visit(s, v, a)) /\ agent[v] = a
    BY <1>4 DEF Decline, Start, Complete
  <2>2. VisitAsRead(Visit(s, v, a))
    BY <2>1 DEF VisitAsRead, Visit
  <2>3. RowAsRead(Visit(s, v, a))
    BY DEF RowAsRead, Visit
  <2> QED BY <2>1, <2>2, <2>3, SerialEnter
<1>5. ASSUME NEW v \in Verification,
             ApproveDecline(p, v) \/ RefuseDecline(p, v) \/ Validate(p, v) \/ Reject(p, v)
      PROVE  VisitPart(p)' /\ RowPart(p)'
  <2>1. PICK s \in {"unassign", "schedule", "validate", "reject"} : Enter(p, Visit(s, v, NoAgent))
    BY <1>5 DEF ApproveDecline, RefuseDecline, Validate, Reject
  <2>2. VisitAsRead(Visit(s, v, NoAgent))
    BY DEF VisitAsRead, Visit
  <2>3. RowAsRead(Visit(s, v, NoAgent))
    BY DEF RowAsRead, Visit
  <2> QED BY <2>1, <2>2, <2>3, SerialEnter
<1>6. ASSUME NEW v \in Verification, Rate(p, v)
      PROVE  VisitPart(p)' /\ RowPart(p)'
  <2>1. Enter(p, Visit("rate", v, agent[v])) /\ agent[v] \in visits[v].completed
    BY <1>6 DEF Rate, SerialInv, DoneByAgent
  <2>2. VisitAsRead(Visit("rate", v, agent[v]))
    BY <2>1 DEF VisitAsRead, Visit
  <2>3. RowAsRead(Visit("rate", v, agent[v]))
    BY DEF RowAsRead, Visit
  <2> QED BY <2>1, <2>2, <2>3, SerialEnter
<1> QED BY <1>1, <1>2, <1>3, <1>4, <1>5, <1>6 DEF Handler

\* The steps that write the visits.
LEMMA SerialVisitWrites ==
    ASSUME TypeOK, SerialInv, NEW p \in Proc, WriteStatus(p) \/ WriteBadge(p) \/ WriteRating(p)
    PROVE  VisitPart(p)' /\ RowPart(p)'
<1> DEFINE r == request[p]
<1>1. r \in Request /\ r.v \in Verification /\ VisitAsRead(r)
  BY BusyIsRequest DEF WriteStatus, WriteBadge, WriteRating, Written, Request, SerialInv
<1>2. \A n : Continue(p, n) => request'[p] = n
  BY DEF Continue, TypeOK
<1>3. UNCHANGED <<payment, token, invoice, origin>>
  BY DEF WriteStatus, WriteBadge, WriteRating
<1>4. CASE WriteStatus(p)
  <2>1. /\ request'[p] = Idle /\ status' = [status EXCEPT ![r.v] = Written[r.stage]]
        /\ rated' = rated
        /\ agent' = IF r.stage = "unassign" THEN [agent EXCEPT ![r.v] = NoAgent] ELSE agent
    BY <1>2, <1>4 DEF WriteStatus
  <2>2. RowPart(p)'
    BY <1>3, <2>1, IdleAsRead, SameRows
  <2>3. /\ \A v \in Verification : visits[v].completed \subseteq visits'[v].completed
        /\ r.stage = "done" => r.a \in visits'[r.v].completed
    BY <1>1, <1>4 DEF WriteStatus, TypeOK
  <2>4. Written[r.stage] = "DONE" <=> r.stage = "done"
    BY <1>4 DEF WriteStatus, Written
  <2>5. DoneByAgent'
    <3> SUFFICES ASSUME NEW v \in Verification, status'[v] = "DONE"
                 PROVE  agent'[v] \in visits'[v].completed \cup {NoAgent}
      BY DEF DoneByAgent
    <3>1. CASE v = r.v
      <4>1. r.stage = "done"
        BY <2>1, <2>4, <3>1 DEF TypeOK
      <4>2. agent'[v] = r.a
        BY <1>1, <2>1, <3>1, <4>1 DEF VisitAsRead
      <4> QED BY <2>3, <3>1, <4>1, <4>2
    <3>2. CASE v # r.v
      <4>1. status[v] = "DONE" /\ agent'[v] = agent[v]
        BY <2>1, <3>2 DEF TypeOK
      <4> QED BY <2>3, <4>1 DEF SerialInv, DoneByAgent
    <3> QED BY <3>1, <3>2
  <2>6. RatedAgentVisited'
    BY <2>1, <2>3 DEF SerialInv, RatedAgentVisited
  <2>7. VisitAsRead(request[p])'
    BY <2>1 DEF VisitAsRead, Idle
  <2> QED BY <2>2, <2>5, <2>6, <2>7 DEF VisitPart
<1>5. CASE WriteBadge(p)
  <2>1. /\ UNCHANGED <<status, agent, rated, visits>>
        /\ request'[p] = IF r.stage = "badge" THEN Visit("done", r.v, r.a) ELSE Idle
    BY <1>2, <1>5 DEF WriteBadge
  <2>2. VisitAsRead(request'[p])
    BY <1>1, <2>1, IdleAsRead DEF VisitAsRead, Visit
  <2>3. RowAsRead(request'[p])
    BY <2>1, IdleAsRead DEF RowAsRead, Visit
  <2> QED BY <1>3, <2>1, <2>2, <2>3, SameVisits, SameRows
<1>6. CASE WriteRating(p)
  <2>1. /\ request'[p] = Idle /\ UNCHANGED <<status, agent, visits>>
        /\ rated' = [rated EXCEPT ![r.v] = IF @ = NoAgent THEN r.a ELSE @]
    BY <1>2, <1>6 DEF WriteRating
  <2>2. RowPart(p)'
    BY <1>3, <2>1, IdleAsRead, SameRows
  <2>3. r.a \in visits[r.v].completed
    BY <1>1, <1>6 DEF WriteRating, VisitAsRead
  <2>4. DoneByAgent' /\ VisitAsRead(request[p])'
    BY <2>1 DEF SerialInv, DoneByAgent, VisitAsRead, Idle
  <2>5. RatedAgentVisited'
    BY <2>1, <2>3 DEF SerialInv, RatedAgentVisited, TypeOK
  <2> QED BY <2>2, <2>4, <2>5 DEF VisitPart
<1> QED BY <1>4, <1>5, <1>6

\* The steps that write nothing but the request, or the request and the link of a payment.
LEMMA SerialReads ==
    ASSUME TypeOK, SerialInv, NEW p \in Proc,
           \/ request[p] # Idle /\ (AskPending(p) \/ ConfirmAnswer(p) \/ LoadPayment(p) \/ LinkPayment(p))
           \/ Abort(p)
    PROVE  VisitPart(p)' /\ RowPart(p)'
<1> DEFINE r == request[p]
<1>1. r \in Request /\ RowAsRead(r)
  BY DEF Abort, SerialInv, TypeOK
<1>2. \A n : Continue(p, n) => request'[p] = n
  BY DEF Continue, TypeOK
<1>3. /\ UNCHANGED <<status, agent, rated, visits>> /\ UNCHANGED <<payment, token, invoice, origin>>
  BY DEF AskPending, ConfirmAnswer, LoadPayment, LinkPayment, Abort, table
<1>4. VisitAsRead(request'[p]) /\ RowAsRead(request'[p])
  <2>1. CASE AskPending(p) /\ request[p] # Idle
    <3>1. request'[p] = Idle \/ request'[p].stage = "bill"
      BY <1>1, <1>2, <2>1 DEF AskPending, Request
    <3> QED BY <3>1, IdleAsRead DEF VisitAsRead, RowAsRead
  <2>2. CASE ConfirmAnswer(p) /\ request[p] # Idle
    <3>1. \/ request'[p] = Idle
          \/ /\ request'[p].stage \in {"confirm", "fail"}
             /\ request'[p].row = r.row /\ request'[p].inv = r.inv
             /\ request'[p].stage = "confirm" => invoice[r.inv] = "completed"
      <4>1. CASE invoice[r.inv] = "completed"
        BY <1>1, <1>2, <2>2, <4>1 DEF ConfirmAnswer, Request
      <4>2. CASE invoice[r.inv] = "failed"
        BY <1>1, <1>2, <2>2, <4>2 DEF ConfirmAnswer, Request
      <4>3. CASE invoice[r.inv] \notin {"completed", "failed"}
        BY <1>2, <2>2, <4>3 DEF ConfirmAnswer
      <4> QED BY <4>1, <4>2, <4>3
    <3>2. payment[r.row] = "PENDING"
      BY <1>1, <2>2 DEF ConfirmAnswer, RowAsRead
    <3> QED BY <3>1, <3>2, IdleAsRead DEF VisitAsRead, RowAsRead
  <2>3. CASE LoadPayment(p) /\ request[p] # Idle
    <3>1. request'[p] = Idle \/ request'[p] = [stage |-> "insert", l |-> r.l, row |-> r.row]
      BY <1>2, <2>3 DEF LoadPayment
    <3>2. payment[r.row] = "CONFIRMED" /\ Unvisited(r.row)
      BY <1>1, <2>3 DEF LoadPayment, RowAsRead
    <3> QED BY <3>1, <3>2, IdleAsRead DEF VisitAsRead, RowAsRead
  <2>4. CASE LinkPayment(p) \/ Abort(p)
    BY <1>2, <2>4, IdleAsRead DEF LinkPayment, Abort
  <2> QED BY <2>1, <2>2, <2>3, <2>4
<1> QED BY <1>3, <1>4, SameVisits, SameRows

\* The steps that write the rows of the payments and the visits asked for.
LEMMA SerialInvoice ==
    ASSUME TypeOK, SerialInv, NEW p \in Proc, CreateInvoice(p) \/ InsertPayment(p)
    PROVE  VisitPart(p)' /\ RowPart(p)'
<1> DEFINE r == request[p]
<1>1. r \in Request /\ RowAsRead(r)
  BY BusyIsRequest DEF CreateInvoice, InsertPayment, SerialInv
<1>2. \A n : Continue(p, n) => request'[p] = n
  BY DEF Continue, TypeOK
<1>3. UNCHANGED <<status, agent, rated, visits>> /\ UNCHANGED <<token, origin>>
  BY DEF CreateInvoice, InsertPayment, table
<1>4. CASE CreateInvoice(p)
  <2>1. PICK y \in Payment :
          /\ invoice[y] = "none" /\ invoice' = [invoice EXCEPT ![y] = "created"]
          /\ Continue(p, [r EXCEPT !.stage = "row", !.row = y])
    BY <1>4 DEF CreateInvoice
  <2>2. payment' = payment
    BY <1>4 DEF CreateInvoice, table
  <2>3. request'[p].stage = "row" /\ request'[p].row = y
    BY <1>1, <1>2, <1>4, <2>1 DEF CreateInvoice, Request
  <2>4. payment[y] = Absent
    BY <2>1 DEF SerialInv, OneRowPerInvoice
  <2>5. VisitAsRead(request'[p])
    BY <2>3 DEF VisitAsRead
  <2>6. RowAsRead(request[p])'
    BY <2>1, <2>2, <2>3, <2>4 DEF RowAsRead, TypeOK
  <2>7. OneRowPerInvoice'
    BY <1>3, <2>1, <2>2, <2>4 DEF SerialInv, OneRowPerInvoice, TypeOK, Absent
  <2>8. OneVisitPerRow'
    BY <1>3, <2>2 DEF SerialInv, OneVisitPerRow
  <2> QED BY <1>3, <2>5, <2>6, <2>7, <2>8, SameVisits DEF RowPart
<1>5. CASE InsertPayment(p)
  <2> DEFINE y == r.row
  <2>1. /\ y \in Payment /\ payment[y] = Absent /\ invoice[y] # "none"
        /\ payment' = [payment EXCEPT ![y] = "PENDING"]
        /\ invoice' = [invoice EXCEPT ![y] = IF @ = "created" THEN "open" ELSE @]
        /\ request'[p] = Idle
    BY <1>1, <1>2, <1>5 DEF InsertPayment, RowAsRead, Request
  <2>2. token[y] = y
    BY <2>1 DEF SerialInv, OneRowPerInvoice, Absent
  <2>3. \A x \in Payment : invoice'[x] = "completed" <=> invoice[x] = "completed"
    BY <2>1 DEF TypeOK
  <2>4. ASSUME NEW x \in Payment
        PROVE  /\ invoice'[x] \in {"open", "completed"} => payment'[x] # Absent
               /\ invoice'[x] = "none" => payment'[x] = Absent
               /\ token'[x] # x => payment'[x] = "CONFIRMED"
               /\ payment'[x] = "CONFIRMED" => invoice'[token'[x]] = "completed"
    <3>1. CASE x = y
      BY <1>3, <2>1, <2>2, <3>1 DEF TypeOK, Absent
    <3>2. CASE x # y
      <4>1. payment'[x] = payment[x] /\ invoice'[x] = invoice[x] /\ token[x] \in Payment
        BY <2>1, <3>2 DEF TypeOK
      <4> QED BY <1>3, <2>3, <4>1 DEF SerialInv, OneRowPerInvoice
    <3> QED BY <3>1, <3>2
  <2>5. ASSUME NEW x \in Payment, payment[x] # Absent, token[x] = y
        PROVE  FALSE
    BY <2>1, <2>5 DEF SerialInv, OneRowPerInvoice
  <2>6. ASSUME NEW x \in Payment, NEW z \in Payment,
               payment'[x] # Absent, payment'[z] # Absent, token'[x] = token'[z]
        PROVE  x = z
    <3>1. \A w \in Payment : w # y => payment'[w] = payment[w]
      BY <2>1 DEF TypeOK
    <3> QED BY <1>3, <2>2, <2>5, <2>6, <3>1 DEF SerialInv, OneRowPerInvoice
  <2>7. OneRowPerInvoice'
    BY <2>4, <2>6 DEF OneRowPerInvoice
  <2>8. OneVisitPerRow'
    BY <1>3, <2>1 DEF SerialInv, OneVisitPerRow, TypeOK, Absent
  <2>9. VisitAsRead(request'[p]) /\ RowAsRead(request[p])'
    BY <2>1, IdleAsRead DEF RowAsRead, Idle
  <2> QED BY <1>3, <2>7, <2>8, <2>9, SameVisits DEF RowPart
<1> QED BY <1>4, <1>5

LEMMA SerialInsert ==
    ASSUME TypeOK, SerialInv, NEW p \in Proc, InsertVerification(p)
    PROVE  VisitPart(p)' /\ RowPart(p)'
<1> DEFINE r == request[p]
<1>1. r \in Request /\ RowAsRead(r) /\ r.row \in Payment \cup {NoPayment} /\ r.stage = "insert"
  BY BusyIsRequest DEF InsertVerification, SerialInv, Request
<1>2. PICK v \in Verification :
        /\ status[v] = Absent /\ status' = [status EXCEPT ![v] = "REQUESTED"]
        /\ origin' = [origin EXCEPT ![v] = r.row]
  BY DEF InsertVerification
<1>3. UNCHANGED <<agent, rated, visits, payment, token, invoice>>
  BY DEF InsertVerification
<1>4. request'[p] = IF r.row = NoPayment THEN Idle
                    ELSE [stage |-> "link", l |-> r.l, row |-> r.row, inv |-> r.row]
  BY DEF InsertVerification, Continue, TypeOK
<1>5. VisitAsRead(request[p])' /\ RowAsRead(request[p])'
  BY <1>4 DEF VisitAsRead, RowAsRead, Idle
<1>6. DoneByAgent' /\ RatedAgentVisited'
  BY <1>2, <1>3 DEF SerialInv, DoneByAgent, RatedAgentVisited, TypeOK
<1>7. OneRowPerInvoice'
  BY <1>3 DEF SerialInv, OneRowPerInvoice
<1>8. r.row # NoPayment => payment[r.row] = "CONFIRMED" /\ Unvisited(r.row)
  BY <1>1 DEF RowAsRead
<1>9. OneVisitPerRow'
  <2>1. \A w \in Verification : origin'[w] = IF w = v THEN r.row ELSE origin[w]
    BY <1>2 DEF TypeOK
  <2> QED BY <1>3, <1>8, <2>1 DEF SerialInv, OneVisitPerRow, Unvisited
<1> QED BY <1>5, <1>6, <1>7, <1>9 DEF VisitPart, RowPart

LEMMA SerialConfirm ==
    ASSUME TypeOK, SerialInv, NEW p \in Proc, ConfirmPayment(p) \/ FailPayment(p)
    PROVE  VisitPart(p)' /\ RowPart(p)'
<1> DEFINE r == request[p]
           y == r.row
<1>1. r \in Request /\ RowAsRead(r) /\ y \in Payment /\ r.inv \in Payment /\ payment[y] = "PENDING"
  BY BusyIsRequest DEF ConfirmPayment, FailPayment, SerialInv, Request, RowAsRead
<1>2. \A n : Continue(p, n) => request'[p] = n
  BY DEF Continue, TypeOK
<1>3. UNCHANGED <<status, agent, rated, visits>> /\ UNCHANGED <<invoice, origin>>
  BY DEF ConfirmPayment, FailPayment
<1>4. Unvisited(y) /\ token[y] = y /\ y # NoPayment
  BY <1>1, VerificationAssumption DEF SerialInv, OneVisitPerRow, OneRowPerInvoice, Unvisited
<1>5. CASE FailPayment(p)
  <2>1. payment' = [payment EXCEPT ![y] = "FAILED"] /\ token' = token /\ request'[p] = Idle
    BY <1>2, <1>5 DEF FailPayment
  <2>2. OneRowPerInvoice'
    BY <1>1, <1>3, <1>4, <2>1 DEF SerialInv, OneRowPerInvoice, TypeOK, Absent
  <2>3. OneVisitPerRow'
    BY <1>3, <1>4, <2>1 DEF SerialInv, OneVisitPerRow, Unvisited, TypeOK
  <2>4. VisitAsRead(request'[p]) /\ RowAsRead(request[p])'
    BY <2>1, IdleAsRead DEF RowAsRead, Idle
  <2> QED BY <1>3, <2>2, <2>3, <2>4, SameVisits DEF RowPart
<1>6. CASE ConfirmPayment(p)
  <2> DEFINE taken == \E x \in Payment \ {y} : payment[x] # Absent /\ token[x] = r.inv
  <2>1. CASE taken
    <3>1. UNCHANGED <<payment, token>> /\ request'[p] = Idle
      BY <1>2, <1>6, <2>1 DEF ConfirmPayment
    <3> QED BY <1>3, <3>1, IdleAsRead, SameVisits, SameRows
  <2>2. CASE ~taken
    <3>1. /\ payment' = [payment EXCEPT ![y] = "CONFIRMED"] /\ token' = [token EXCEPT ![y] = r.inv]
          /\ request'[p] = [r EXCEPT !.stage = "load"]
      BY <1>2, <1>6, <2>2 DEF ConfirmPayment
    <3>2. invoice[r.inv] = "completed"
      BY <1>1, <1>6 DEF ConfirmPayment, RowAsRead
    <3>3. \A x \in Payment :
             /\ payment'[x] = IF x = y THEN "CONFIRMED" ELSE payment[x]
             /\ token'[x] = IF x = y THEN r.inv ELSE token[x]
      BY <3>1 DEF TypeOK
    <3>4. OneRowPerInvoice'
      BY <1>1, <1>3, <2>2, <3>2, <3>3 DEF SerialInv, OneRowPerInvoice, Absent
    <3>5. OneVisitPerRow'
      BY <1>3, <1>4, <3>3, <3>1 DEF SerialInv, OneVisitPerRow, Unvisited, TypeOK
    <3>6. request'[p].stage = "load" /\ request'[p].row = y
      BY <1>1, <1>6, <3>1 DEF ConfirmPayment, Request
    <3>7. VisitAsRead(request'[p])
      BY <3>6 DEF VisitAsRead
    <3>8. RowAsRead(request[p])'
      BY <1>1, <1>3, <1>4, <3>3, <3>6 DEF RowAsRead, Unvisited
    <3> QED BY <1>3, <3>4, <3>5, <3>7, <3>8, SameVisits DEF RowPart
  <2> QED BY <2>1, <2>2
<1> QED BY <1>5, <1>6

\* A step of the one request being served.
LEMMA SerialRequest ==
    ASSUME TypeOK, SerialInv, NEW p \in Proc, Alone(p), Handler(p) \/ Resume(p) \/ Abort(p)
    PROVE  SerialInv'
<1>1. VisitPart(p)' /\ RowPart(p)'
  BY SerialHandler, SerialVisitWrites, SerialReads, SerialInvoice, SerialInsert, SerialConfirm
     DEF Resume
<1>2. \A q \in Proc : q # p => request'[q] = Idle
  BY StaysAlone
<1>3. OneRequest'
  BY <1>2 DEF OneRequest
<1>4. ASSUME NEW q \in Proc
      PROVE  VisitAsRead(request[q])' /\ RowAsRead(request[q])'
  <2>1. CASE q = p
    BY <1>1, <2>1 DEF VisitPart, RowPart
  <2>2. CASE q # p
    <3>1. request'[q] = Idle
      BY <1>2, <2>2
    <3> QED BY <3>1 DEF VisitAsRead, RowAsRead, Idle
  <2> QED BY <2>1, <2>2
<1> QED BY <1>1, <1>3, <1>4 DEF SerialInv, VisitPart, RowPart

\* The owner, PayDunya and time: what a request has read of an invoice or a row stays.
LEMMA SerialOutside ==
    ASSUME TypeOK, SerialInv,
           \/ ExpireOldBadges
           \/ \E i \in Payment : PayInvoice(i) \/ FailInvoice(i)
           \/ \E l \in Listing : BadgeAges(l)
    PROVE  SerialInv'
<1>1. UNCHANGED <<status, agent, rated, visits, payment, token, origin, request>>
  BY DEF ExpireOldBadges, PayInvoice, FailInvoice, BadgeAges, table
<1>2. ASSUME NEW y \in Payment
      PROVE  /\ invoice[y] = "completed" => invoice'[y] = "completed"
             /\ invoice'[y] = "none" <=> invoice[y] = "none"
             /\ invoice'[y] \in {"open", "completed"} => invoice[y] \in {"open", "completed"}
  BY DEF ExpireOldBadges, PayInvoice, FailInvoice, BadgeAges, TypeOK
<1>3. OneRowPerInvoice'
  BY <1>1, <1>2 DEF SerialInv, OneRowPerInvoice, TypeOK
<1>4. OneRequest' /\ DoneByAgent' /\ RatedAgentVisited' /\ OneVisitPerRow'
  BY <1>1 DEF SerialInv, OneRequest, DoneByAgent, RatedAgentVisited, OneVisitPerRow
<1>5. ASSUME NEW p \in Proc
      PROVE  VisitAsRead(request[p])' /\ RowAsRead(request[p])'
  <2>1. VisitAsRead(request[p])'
    BY <1>1 DEF SerialInv, VisitAsRead
  <2>2. request[p].stage = "row" => request[p].row \in Payment
    BY BusyIsRequest DEF Request
  <2>3. request[p].stage = "confirm" => request[p].inv \in Payment
    BY BusyIsRequest DEF Request
  <2>4. RowAsRead(request[p])'
    BY <1>1, <1>2, <2>2, <2>3 DEF SerialInv, RowAsRead, Unvisited
  <2> QED BY <2>1, <2>4
<1> QED BY <1>3, <1>4, <1>5 DEF SerialInv

\* The invariant behind the two theorems that follow.
THEOREM RegimeInvariant == RegimeSpec => []RegimeInv
<1>1. RegimeInit => RegimeInv
  <2> HAVE RegimeInit
  <2>1. TypeOK
    BY VerificationAssumption
       DEF RegimeInit, Init, TypeOK, Badge, VerifStatus, PaymentStatus, InvoiceState
  <2>2. SerialInv
    BY IdleAsRead, VerificationAssumption
       DEF RegimeInit, Init, SerialInv, OneRequest, DoneByAgent, RatedAgentVisited, OneRowPerInvoice,
           OneVisitPerRow, Absent
  <2> QED BY <2>1, <2>2 DEF RegimeInv
<1>2. RegimeInv /\ [RegimeNext]_<<vars, regime>> => RegimeInv'
  <2> SUFFICES ASSUME RegimeInv, [RegimeNext]_<<vars, regime>>
               PROVE  RegimeInv'
    OBVIOUS
  <2>1. TypeOK'
    <3>1. [Next]_vars
      BY DEF RegimeNext, Next
    <3> QED BY <3>1, StepType DEF RegimeInv
  <2>2. regime' = regime
    BY DEF RegimeNext
  <2>3. ASSUME regime = "serial"
        PROVE  SerialInv'
    <3>1. CASE RegimeNext
      BY <2>3, <3>1, SerialRequest, SerialOutside DEF RegimeNext, RegimeInv
    <3>2. CASE UNCHANGED <<vars, regime>>
      <4>1. UNCHANGED <<status, agent, rated, visits, payment, token, origin, invoice, request>>
        BY <3>2 DEF vars
      <4> QED BY <2>3, <4>1 DEF RegimeInv, SerialInv, OneRequest, DoneByAgent, RatedAgentVisited,
                 OneRowPerInvoice, OneVisitPerRow, VisitAsRead, RowAsRead, Unvisited
    <3> QED BY <3>1, <3>2
  <2> QED BY <2>1, <2>2, <2>3 DEF RegimeInv
<1> QED BY <1>1, <1>2, PTL DEF RegimeSpec

\* When requests do not overlap, a rating is held by an agent who completed that visit,
\* whatever reassignments, declines and repeated visits there were.
THEOREM RatingsAreVisitors == RegimeSpec => []RatedAgentVisitedSerially
<1>1. RegimeInv => RatedAgentVisitedSerially
  BY DEF RegimeInv, SerialInv, RatedAgentVisitedSerially
<1> QED BY <1>1, RegimeInvariant, PTL

\* When requests do not overlap, there are no more paid visits than paid invoices: the
\* token of a visit's row is a paid invoice, and no two visits have the same.
THEOREM VisitsArePaidOnce == RegimeSpec => []OneVisitPerPaymentSerially
<1>1. RegimeInv => OneVisitPerPaymentSerially
  <2> SUFFICES ASSUME TypeOK, SerialInv
               PROVE  OneVisitPerPayment
    BY DEF RegimeInv, OneVisitPerPaymentSerially
  <2> DEFINE paid == {v \in Verification : origin[v] # NoPayment}
             done == {i \in Payment : invoice[i] = "completed"}
             f == [v \in paid |-> token[origin[v]]]
  <2>1. IsFiniteSet(done)
    <3>1. done \in SUBSET Payment
      OBVIOUS
    <3> QED BY <3>1, PaymentsAssumption, FS_Subset
  <2>2. \A v \in paid : origin[v] \in Payment /\ payment[origin[v]] = "CONFIRMED"
    BY DEF TypeOK, SerialInv, OneVisitPerRow
  <2>3. f \in [paid -> done]
    BY <2>2 DEF TypeOK, SerialInv, OneRowPerInvoice
  <2>4. \A v, w \in paid : f[v] = f[w] => v = w
    <3>1. \A v, w \in paid : f[v] = f[w] => origin[v] = origin[w]
      BY <2>2 DEF SerialInv, OneRowPerInvoice, Absent
    <3> QED BY <3>1 DEF SerialInv, OneVisitPerRow
  <2>5. f \in Injection(paid, done)
    BY <2>3, <2>4 DEF Injection, IsInjective
  <2> HIDE DEF f, paid, done
  <2>6. Cardinality(paid) <= Cardinality(done)
    BY <2>1, <2>5, FS_Injection
  <2> QED BY <2>6 DEF OneVisitPerPayment, paid, done
<1> QED BY <1>1, RegimeInvariant, PTL

=============================================================================
