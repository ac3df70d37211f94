---------------------- MODULE AgencySubscriptionProofs ----------------------
(***************************************************************************)
(* Proofs about AgencySubscription for every set of agencies, listings and *)
(* invoices, any STARTER limit and any number of concurrent requests.      *)
(***************************************************************************)
EXTENDS AgencySubscription, FiniteSetTheorems, TLAPS

-----------------------------------------------------------------------------
(***************************************************************************)
(* Type correctness.                                                       *)
(***************************************************************************)

\* Only a request being served has a stage other than "idle".
LEMMA BusyIsRequest ==
    ASSUME TypeOK, NEW p \in Proc, request[p].stage # "idle"
    PROVE  request[p] \in Request
BY DEF TypeOK, Idle

\* The first step of a handler keeps the types.
LEMMA EnterType ==
    ASSUME TypeOK, NEW p \in Proc, NEW r \in Request, Enter(p, r)
    PROVE  TypeOK'
BY DEF Enter, TypeOK, sub

\* Every handler enters with a Request, or is a single statement that keeps the types.
LEMMA HandlerType ==
    ASSUME TypeOK, NEW p \in Proc, Handler(p)
    PROVE  TypeOK'
<1> USE SubscriptionAssumption
<1>1. ASSUME NEW g \in Agency, Initiate(p, g)
      PROVE  TypeOK'
  <2>1. \A k \in SubscriptionPlan : [stage |-> "upsert", g |-> g, plan |-> k] \in Request
    BY DEF Request
  <2> QED BY <1>1, <2>1, EnterType DEF Initiate
<1>2. ASSUME NEW g \in Agency, VerifySubscription(p, g)
      PROVE  TypeOK'
  <2>1. [stage |-> "query", g |-> g, inv |-> ref[g], notified |-> FALSE] \in Request
    BY <1>2 DEF VerifySubscription, Request, TypeOK
  <2> QED BY <1>2, <2>1, EnterType DEF VerifySubscription
<1>3. ASSUME NEW g \in Agency, Cancel(p, g)
      PROVE  TypeOK'
  <2>1. [stage |-> "cancel", g |-> g] \in Request
    BY DEF Request
  <2> QED BY <1>3, <2>1, EnterType DEF Cancel
<1>4. ASSUME NEW g \in Agency, SuspendById(p, g) \/ ActivateById(p, g)
      PROVE  TypeOK'
  BY <1>4 DEF SuspendById, ActivateById, TypeOK, SubscriptionStatus, End
<1>5. ASSUME NEW g \in Agency, ExtendById(p, g)
      PROVE  TypeOK'
  <2>1. \A e \in End : [stage |-> "extend", g |-> g, ends |-> e] \in Request
    BY DEF Request
  <2> QED BY <1>5, <2>1, EnterType DEF ExtendById, End
<1>6. ASSUME NEW g \in Agency, CreateActive(p, g)
      PROVE  TypeOK'
  <2>1. [stage |-> "gate", g |-> g, l |-> NewListing] \in Request
    BY DEF Request
  <2> QED BY <1>6, <2>1, EnterType DEF CreateActive
<1>7. ASSUME NEW i \in Invoice, HandlePaydunyaWebhook(p, i)
      PROVE  TypeOK'
  <2>1. [stage |-> "query", g |-> Payer[i], inv |-> i, notified |-> TRUE] \in Request
    BY DEF Request
  <2> QED BY <1>7, <2>1, EnterType DEF HandlePaydunyaWebhook
<1>8. ASSUME NEW l \in Listing, CreateDraft(p, l) \/ ManageListing(p, l) \/ Remove(p, l)
      PROVE  TypeOK'
  BY <1>8 DEF CreateDraft, ManageListing, Remove, TypeOK, sub, ListingStatus
<1>9. ASSUME NEW l \in Listing, PublishListing(p, l)
      PROVE  TypeOK'
  <2>1. [stage |-> "gate", g |-> OwnerOf[l], l |-> l] \in Request
    BY DEF Request
  <2> QED BY <1>9, <2>1, EnterType DEF PublishListing
<1>10. ASSUME NEW l \in Listing, Move(p, l)
       PROVE  TypeOK'
  <2>1. \A to \in ListingStatus : [stage |-> "move", l |-> l, to |-> to] \in Request
    BY DEF Request
  <2> QED BY <1>10, <2>1, EnterType DEF Move
<1> QED BY <1>1, <1>2, <1>3, <1>4, <1>5, <1>6, <1>7, <1>8, <1>9, <1>10 DEF Handler

\* So do the steps after the first await.
LEMMA ResumeType ==
    ASSUME TypeOK, NEW p \in Proc, Resume(p)
    PROVE  TypeOK'
<1>1. request[p] \in Request
  BY DEF Resume, TypeOK
<1>2. CASE Upsert(p)
  <2>1. [request[p] EXCEPT !.stage = "bill"] \in Request
    BY <1>1, <1>2 DEF Upsert, Request
  <2>2. request[p].g \in Agency /\ request[p].plan \in SubscriptionPlan
    BY <1>1, <1>2 DEF Upsert, Request
  <2> QED BY <1>2, <2>1, <2>2 DEF Upsert, Continue, TypeOK, SubscriptionStatus
<1>3. CASE CreateInvoice(p)
  <2>1. PICK i \in Invoice :
           /\ invoice' = [invoice EXCEPT ![i] = "created"]
           /\ Continue(p, [stage |-> "ref", g |-> request[p].g, inv |-> i])
    BY <1>3 DEF CreateInvoice
  <2>2. [stage |-> "ref", g |-> request[p].g, inv |-> i] \in Request
    BY <1>1, <1>3 DEF CreateInvoice, Request
  <2> QED BY <1>3, <2>1, <2>2 DEF CreateInvoice, Continue, TypeOK, sub, InvoiceState
<1>4. CASE StoreRef(p)
  <2>1. request[p].g \in Agency /\ request[p].inv \in Invoice
    BY <1>1, <1>4 DEF StoreRef, Request
  <2> QED BY <1>4, <2>1 DEF StoreRef, Continue, TypeOK, InvoiceState
<1>5. CASE ConfirmAnswer(p)
  <2>1. [request[p] EXCEPT !.stage = "activate"] \in Request
    BY <1>1, <1>5 DEF ConfirmAnswer, Request
  <2> QED BY <1>5, <2>1 DEF ConfirmAnswer, Continue, TypeOK, sub
<1>6. CASE Activate(p)
  <2>1. request[p].g \in Agency /\ request[p].inv \in Invoice
    BY <1>1, <1>6 DEF Activate, Request
  <2> QED BY <1>6, <2>1 DEF Activate, Continue, TypeOK, SubscriptionStatus, End
<1>7. CASE WriteCancel(p)
  BY <1>1, <1>7 DEF WriteCancel, Continue, TypeOK, SubscriptionStatus
<1>8. CASE WriteExtension(p)
  <2>1. request[p].g \in Agency /\ request[p].ends \in End
    BY <1>1, <1>8 DEF WriteExtension, Request
  <2> QED BY <1>8, <2>1 DEF WriteExtension, Continue, TypeOK, SubscriptionStatus
<1>9. CASE Gate(p)
  <2>1. /\ [request[p] EXCEPT !.stage = "count"] \in Request
        /\ [request[p] EXCEPT !.stage = "publish"] \in Request
    BY <1>1, <1>9 DEF Gate, Request
  <2> QED BY <1>9, <2>1 DEF Gate, Continue, TypeOK, sub
<1>10. CASE Count(p)
  <2>1. [request[p] EXCEPT !.stage = "publish"] \in Request
    BY <1>1, <1>10 DEF Count, Request
  <2> QED BY <1>10, <2>1 DEF Count, Continue, TypeOK, sub
<1>11. CASE Publish(p)
  BY <1>1, <1>11 DEF Publish, Continue, TypeOK, sub, ListingStatus
<1>12. CASE WriteMove(p)
  <2>1. request[p].l \in Listing /\ request[p].to \in ListingStatus
    BY <1>1, <1>12 DEF WriteMove, Request
  <2> QED BY <1>12, <2>1 DEF WriteMove, Continue, TypeOK, sub
<1> QED BY <1>2, <1>3, <1>4, <1>5, <1>6, <1>7, <1>8, <1>9, <1>10, <1>11, <1>12 DEF Resume

\* Every step keeps the types.
LEMMA StepType ==
    ASSUME TypeOK, [Next]_vars
    PROVE  TypeOK'
<1>1. ASSUME NEW p \in Proc, Handler(p) \/ Resume(p)
      PROVE  TypeOK'
  BY <1>1, HandlerType, ResumeType
<1>2. ASSUME NEW p \in Proc, Abort(p)
      PROVE  TypeOK'
  BY <1>2 DEF Abort, Continue, TypeOK, sub
<1>3. ASSUME NEW g \in Agency, PeriodEnds(g)
      PROVE  TypeOK'
  BY <1>3 DEF PeriodEnds, TypeOK, End
<1>4. ASSUME NEW i \in Invoice, PayInvoice(i) \/ FailInvoice(i)
      PROVE  TypeOK'
  BY <1>4 DEF PayInvoice, FailInvoice, TypeOK, InvoiceState, sub
<1>5. CASE SweepRead
  BY <1>5 DEF SweepRead, Expired, TypeOK, sub
<1>6. CASE SweepSuspend
  BY <1>6 DEF SweepSuspend, TypeOK, SubscriptionStatus
<1>7. CASE SweepCascade
  BY <1>7 DEF SweepCascade, Resting, TypeOK, ListingStatus, sub
<1>8. CASE SweepAbort
  BY <1>8 DEF SweepAbort, Resting, TypeOK, sub
<1>9. CASE UNCHANGED vars
  BY <1>9 DEF vars, sub, TypeOK
<1> QED BY <1>1, <1>2, <1>3, <1>4, <1>5, <1>6, <1>7, <1>8, <1>9 DEF Next, Sweep

\* Every variable keeps its type: subscriptions, listings, invoices, the work of every
\* request and of the nightly job.
THEOREM TypeCorrect == Spec => []TypeOK
<1>1. Init => TypeOK
  BY SubscriptionAssumption DEF Init, TypeOK, SubscriptionPlan, End, InvoiceState, Resting
<1>2. TypeOK /\ [Next]_vars => TypeOK'
  BY StepType
<1> QED BY <1>1, <1>2, PTL DEF Spec

-----------------------------------------------------------------------------
(***************************************************************************)
(* What no step takes back.                                                *)
(***************************************************************************)

\* PayDunya never withdraws a completed payment, and no handler touches one.
LEMMA CompletedStays ==
    ASSUME TypeOK, [Next]_vars, NEW i \in Invoice, invoice[i] = "completed"
    PROVE  invoice'[i] = "completed"
<1>1. ASSUME NEW p \in Proc, Handler(p)
      PROVE  invoice' = invoice
  BY <1>1 DEF Handler, Enter, Initiate, VerifySubscription, Cancel, SuspendById, ActivateById,
       ExtendById, CreateActive, HandlePaydunyaWebhook, CreateDraft, PublishListing, Move,
       ManageListing, Remove
<1>2. ASSUME NEW p \in Proc, Resume(p)
      PROVE  invoice'[i] = "completed"
  <2>1. CASE CreateInvoice(p)
    BY <2>1 DEF CreateInvoice, TypeOK
  <2>2. CASE StoreRef(p)
    BY <2>2 DEF StoreRef, TypeOK
  <2>3. CASE ~CreateInvoice(p) /\ ~StoreRef(p)
    BY <1>2, <2>3 DEF Resume, Upsert, ConfirmAnswer, Activate, WriteCancel, WriteExtension, Gate,
         Count, Publish, WriteMove
  <2> QED BY <2>1, <2>2, <2>3
<1>3. ASSUME NEW j \in Invoice, PayInvoice(j) \/ FailInvoice(j)
      PROVE  invoice'[i] = "completed"
  BY <1>3 DEF PayInvoice, FailInvoice, TypeOK
<1>4. CASE \/ \E p \in Proc : Abort(p)
           \/ \E g \in Agency : PeriodEnds(g)
           \/ Sweep \/ SweepAbort \/ UNCHANGED vars
  BY <1>4 DEF Abort, PeriodEnds, Sweep, SweepRead, SweepSuspend, SweepCascade, SweepAbort, vars
<1> QED BY <1>1, <1>2, <1>3, <1>4 DEF Next

\* What an admin granted stays granted.
LEMMA GrantedStays ==
    ASSUME [Next]_vars
    PROVE  granted \subseteq granted'
<1>1. ASSUME NEW p \in Proc, Handler(p)
      PROVE  granted \subseteq granted'
  BY <1>1 DEF Handler, Enter, Initiate, VerifySubscription, Cancel, SuspendById, ActivateById,
       ExtendById, CreateActive, HandlePaydunyaWebhook, CreateDraft, PublishListing, Move,
       ManageListing, Remove
<1>2. ASSUME NEW p \in Proc, Resume(p)
      PROVE  granted \subseteq granted'
  BY <1>2 DEF Resume, Upsert, CreateInvoice, StoreRef, ConfirmAnswer, Activate, WriteCancel,
       WriteExtension, Gate, Count, Publish, WriteMove
<1>3. CASE \/ \E p \in Proc : Abort(p)
           \/ \E g \in Agency : PeriodEnds(g)
           \/ \E i \in Invoice : PayInvoice(i) \/ FailInvoice(i)
           \/ Sweep \/ SweepAbort \/ UNCHANGED vars
  BY <1>3 DEF Abort, PeriodEnds, PayInvoice, FailInvoice, Sweep, SweepRead, SweepSuspend,
       SweepCascade, SweepAbort, vars
<1> QED BY <1>1, <1>2, <1>3 DEF Next

\* An agency that has paid or was granted a subscription remains one.
LEMMA CoveredStays ==
    ASSUME TypeOK, [Next]_vars, NEW g \in Agency, Covered(g)
    PROVE  Covered(g)'
BY CompletedStays, GrantedStays DEF Covered

-----------------------------------------------------------------------------
(***************************************************************************)
(* The inductive invariant.                                                *)
(***************************************************************************)

\* A handler enters with an invoice of its own and no right to publish yet.
LEMMA HandlerInv ==
    ASSUME IInv, NEW p \in Proc, Handler(p), TypeOK', [Next]_vars
    PROVE  IInv'
<1>1. \A g \in Agency : Covered(g) => Covered(g)'
  BY CoveredStays DEF IInv
<1>2. ASSUME NEW r \in Request, Enter(p, r),
             r.stage \notin {"ref", "activate", "count", "publish"},
             r.stage = "query" => Payer[r.inv] = r.g
      PROVE  IInv'
  <2>1. request'[p] = r /\ \A q \in Proc \ {p} : request'[q] = request[q]
    BY <1>2 DEF Enter, IInv, TypeOK
  <2>2. UNCHANGED <<status, ref, invoice, granted>>
    BY <1>2 DEF Enter, sub
  <2> QED BY <1>2, <2>1, <2>2 DEF IInv, RefsAreOwn, ActivationsArePaid,
            ActiveWasPaidOrGranted, GateIsCovered, Covered
<1> USE SubscriptionAssumption
<1>3. ASSUME NEW g \in Agency, Initiate(p, g)
      PROVE  IInv'
  <2>1. \A k \in SubscriptionPlan : [stage |-> "upsert", g |-> g, plan |-> k] \in Request
    BY DEF Request
  <2> QED BY <1>2, <1>3, <2>1 DEF Initiate
<1>4. ASSUME NEW g \in Agency, VerifySubscription(p, g)
      PROVE  IInv'
  <2>1. [stage |-> "query", g |-> g, inv |-> ref[g], notified |-> FALSE] \in Request
    BY <1>4 DEF VerifySubscription, Request, IInv, TypeOK
  <2>2. Payer[ref[g]] = g
    BY <1>4 DEF VerifySubscription, IInv, RefsAreOwn
  <2> QED BY <1>2, <1>4, <2>1, <2>2 DEF VerifySubscription
<1>5. ASSUME NEW g \in Agency, Cancel(p, g)
      PROVE  IInv'
  <2>1. [stage |-> "cancel", g |-> g] \in Request
    BY DEF Request
  <2> QED BY <1>2, <1>5, <2>1 DEF Cancel
<1>6. ASSUME NEW g \in Agency, SuspendById(p, g) \/ ActivateById(p, g)
      PROVE  IInv'
  <2>1. UNCHANGED <<ref, invoice, request>>
    BY <1>6 DEF SuspendById, ActivateById
  <2>2. ASSUME NEW h \in Agency, status'[h] = "ACTIVE"
        PROVE  Covered(h)'
    <3>1. status[h] = "ACTIVE" \/ h \in granted'
      BY <1>6, <2>2 DEF SuspendById, ActivateById, IInv, TypeOK
    <3> QED BY <1>1, <3>1 DEF IInv, ActiveWasPaidOrGranted, Covered
  <2>3. GateIsCovered'
    <3> SUFFICES ASSUME NEW q \in Proc, request[q].stage \in {"count", "publish"}
                 PROVE  Covered(request[q].g)'
      BY <2>1 DEF GateIsCovered, Covered
    <3>1. request[q].g \in Agency
      BY BusyIsRequest DEF IInv, Request
    <3> QED BY <1>1, <2>1, <3>1 DEF IInv, GateIsCovered, Covered
  <2> QED BY <2>1, <2>2, <2>3 DEF IInv, RefsAreOwn, ActivationsArePaid, ActiveWasPaidOrGranted
<1>7. ASSUME NEW g \in Agency, ExtendById(p, g)
      PROVE  IInv'
  <2>1. \A e \in End : [stage |-> "extend", g |-> g, ends |-> e] \in Request
    BY DEF Request
  <2> QED BY <1>2, <1>7, <2>1 DEF ExtendById, End
<1>8. ASSUME NEW g \in Agency, CreateActive(p, g)
      PROVE  IInv'
  <2>1. [stage |-> "gate", g |-> g, l |-> NewListing] \in Request
    BY DEF Request
  <2> QED BY <1>2, <1>8, <2>1 DEF CreateActive
<1>9. ASSUME NEW i \in Invoice, HandlePaydunyaWebhook(p, i)
      PROVE  IInv'
  <2>1. [stage |-> "query", g |-> Payer[i], inv |-> i, notified |-> TRUE] \in Request
    BY DEF Request
  <2> QED BY <1>2, <1>9, <2>1 DEF HandlePaydunyaWebhook
<1>10. ASSUME NEW l \in Listing, CreateDraft(p, l) \/ ManageListing(p, l) \/ Remove(p, l)
       PROVE  IInv'
  <2>1. UNCHANGED <<status, ref, invoice, request, granted>>
    BY <1>10 DEF CreateDraft, ManageListing, Remove, sub
  <2> QED BY <2>1 DEF IInv, RefsAreOwn, ActivationsArePaid, ActiveWasPaidOrGranted,
            GateIsCovered, Covered
<1>11. ASSUME NEW l \in Listing, PublishListing(p, l)
       PROVE  IInv'
  <2>1. [stage |-> "gate", g |-> OwnerOf[l], l |-> l] \in Request
    BY DEF Request
  <2> QED BY <1>2, <1>11, <2>1 DEF PublishListing
<1>12. ASSUME NEW l \in Listing, Move(p, l)
       PROVE  IInv'
  <2>1. \A to \in ListingStatus : [stage |-> "move", l |-> l, to |-> to] \in Request
    BY DEF Request
  <2> QED BY <1>2, <1>12, <2>1 DEF Move
<1> QED BY <1>3, <1>4, <1>5, <1>6, <1>7, <1>8, <1>9, <1>10, <1>11, <1>12 DEF Handler

\* A process that goes on keeps what its request rests on, or ends.
LEMMA ResumeInv ==
    ASSUME IInv, NEW p \in Proc, Resume(p), TypeOK', [Next]_vars
    PROVE  IInv'
<1> DEFINE r == request[p]
<1>1. r \in Request /\ (r.g \in Agency \/ r.stage = "move")
  BY DEF IInv, TypeOK, Resume, Request
<1>2. \A g \in Agency : Covered(g) => Covered(g)'
  BY CoveredStays DEF IInv
<1>3. \A i \in Invoice : invoice[i] = "completed" => invoice'[i] = "completed"
  BY CompletedStays DEF IInv
<1>4. /\ \A q \in Proc \ {p} : request'[q] = request[q]
      /\ request \in [Proc -> Request \cup {Idle}]
      /\ \A n : Continue(p, n) => request'[p] = n
  <2>1. \E n : Continue(p, n)
    BY DEF Resume, Upsert, CreateInvoice, StoreRef, ConfirmAnswer, Activate, WriteCancel,
         WriteExtension, Gate, Count, Publish, WriteMove
  <2> QED BY <2>1 DEF Continue, IInv, TypeOK
\* The other processes: their requests are as before, and rest on facts that stay.
<1>5. ASSUME NEW q \in Proc \ {p}
      PROVE  /\ request'[q].stage \in {"ref", "query", "activate"} =>
                   Payer[request'[q].inv] = request'[q].g
             /\ request'[q].stage = "activate" => invoice'[request'[q].inv] = "completed"
             /\ request'[q].stage \in {"count", "publish"} => Covered(request[q].g)'
  <2>1. request'[q].stage \in {"ref", "query", "activate"} =>
            Payer[request'[q].inv] = request'[q].g
    BY <1>4, <1>5 DEF IInv, RefsAreOwn
  <2>2. request'[q].stage = "activate" => invoice'[request'[q].inv] = "completed"
    <3> HAVE request'[q].stage = "activate"
    <3>1. request[q].inv \in Invoice
      BY <1>4, <1>5, BusyIsRequest DEF IInv, Request
    <3> QED BY <1>3, <1>4, <1>5, <3>1 DEF IInv, ActivationsArePaid
  <2>3. request'[q].stage \in {"count", "publish"} => Covered(request[q].g)'
    <3> HAVE request'[q].stage \in {"count", "publish"}
    <3>1. request[q].g \in Agency /\ Covered(request[q].g)
      BY <1>4, <1>5, BusyIsRequest DEF IInv, Request, GateIsCovered
    <3> QED BY <1>2, <1>4, <1>5, <3>1
  <2> QED BY <2>1, <2>2, <2>3
\* It is enough to look at this process, at the rows and at the subscriptions.
<1>6. ASSUME request'[p].stage \in {"ref", "query", "activate"} =>
                 Payer[request'[p].inv] = request'[p].g,
             request'[p].stage = "activate" => invoice'[request'[p].inv] = "completed",
             request'[p].stage \in {"count", "publish"} => Covered(request[p].g)',
             \A g \in Agency : ref'[g] # NoInvoice => Payer[ref'[g]] = g,
             \A g \in Agency : status'[g] = "ACTIVE" => Covered(g)'
      PROVE  IInv'
  <2>1. RefsAreOwn'
    BY <1>5, <1>6 DEF RefsAreOwn
  <2>2. ActivationsArePaid'
    BY <1>5, <1>6 DEF ActivationsArePaid
  <2>3. ActiveWasPaidOrGranted'
    BY <1>6 DEF ActiveWasPaidOrGranted
  <2>4. GateIsCovered'
    <3>1. \A q \in Proc : request'[q].stage \in {"count", "publish"} =>
                             Covered(request[q].g)'
      BY <1>5, <1>6
    <3> QED BY <3>1 DEF GateIsCovered, Covered
  <2> QED BY <2>1, <2>2, <2>3, <2>4 DEF IInv
<1>7. status' = status => \A g \in Agency : status'[g] = "ACTIVE" => Covered(g)'
  BY <1>2 DEF IInv, ActiveWasPaidOrGranted
<1>8. ref' = ref => \A g \in Agency : ref'[g] # NoInvoice => Payer[ref'[g]] = g
  BY DEF IInv, RefsAreOwn
<1>9. CASE Upsert(p)
  <2>1. request'[p].stage = "bill"
    BY <1>1, <1>4, <1>9 DEF Upsert, Request
  <2>2. \A g \in Agency : status'[g] = "ACTIVE" => Covered(g)'
    BY <1>2, <1>9 DEF Upsert, IInv, TypeOK, ActiveWasPaidOrGranted
  <2> QED BY <1>6, <1>8, <1>9, <2>1, <2>2 DEF Upsert
<1>10. CASE CreateInvoice(p)
  <2>1. PICK i \in Invoice : Payer[i] = r.g /\ Continue(p, [stage |-> "ref", g |-> r.g, inv |-> i])
    BY <1>10 DEF CreateInvoice
  <2> QED BY <1>4, <1>6, <1>7, <1>8, <1>10, <2>1 DEF CreateInvoice, sub
<1>11. CASE StoreRef(p)
  <2>1. request'[p] = Idle
    BY <1>4, <1>11 DEF StoreRef
  <2>2. Payer[r.inv] = r.g
    BY <1>11 DEF StoreRef, IInv, RefsAreOwn
  <2>3. \A g \in Agency : ref'[g] # NoInvoice => Payer[ref'[g]] = g
    BY <1>11, <2>2 DEF StoreRef, IInv, RefsAreOwn, TypeOK
  <2> QED BY <1>6, <1>7, <1>11, <2>1, <2>3 DEF StoreRef, Idle
<1>12. CASE ConfirmAnswer(p)
  <2>1. Payer[r.inv] = r.g /\ r.inv \in Invoice
    BY <1>1, <1>12 DEF ConfirmAnswer, IInv, RefsAreOwn, Request
  <2>2. \/ request'[p] = Idle
        \/ /\ request'[p].stage = "activate"
           /\ request'[p].inv = r.inv /\ request'[p].g = r.g
           /\ invoice[r.inv] = "completed"
    BY <1>1, <1>4, <1>12 DEF ConfirmAnswer, Request
  <2> QED BY <1>6, <1>7, <1>8, <1>12, <2>1, <2>2 DEF ConfirmAnswer, Idle, sub
<1>13. CASE Activate(p)
  <2>1. request'[p] = Idle
    BY <1>4, <1>13 DEF Activate
  <2>2. Payer[r.inv] = r.g /\ r.inv \in Invoice /\ invoice'[r.inv] = "completed"
    BY <1>1, <1>3, <1>13 DEF Activate, IInv, RefsAreOwn, ActivationsArePaid, Request
  <2>3. \A g \in Agency : ref'[g] # NoInvoice => Payer[ref'[g]] = g
    BY <1>13, <2>2 DEF Activate, IInv, RefsAreOwn, TypeOK
  <2>4. \E i \in Invoice : Payer[i] = r.g /\ invoice'[i] = "completed"
    BY <2>2
  <2>5. \A g \in Agency : status'[g] = "ACTIVE" => Covered(g)'
    <3> SUFFICES ASSUME NEW g \in Agency, status'[g] = "ACTIVE"
                 PROVE  Covered(g)'
      OBVIOUS
    <3>1. CASE g = r.g
      BY <2>4, <3>1 DEF Covered
    <3>2. CASE g # r.g
      BY <1>2, <1>13, <3>2 DEF Activate, IInv, TypeOK, ActiveWasPaidOrGranted
    <3> QED BY <3>1, <3>2
  <2> QED BY <1>6, <2>1, <2>3, <2>5 DEF Idle
<1>14. CASE WriteCancel(p) \/ WriteExtension(p)
  <2>1. request'[p] = Idle /\ ref' = ref
    BY <1>4, <1>14 DEF WriteCancel, WriteExtension
  <2>2. ASSUME NEW g \in Agency, status'[g] = "ACTIVE"
        PROVE  Covered(g)'
    <3>1. status[g] = "ACTIVE" \/ g \in granted'
      BY <1>14, <2>2 DEF WriteCancel, WriteExtension, IInv, TypeOK
    <3> QED BY <1>2, <3>1 DEF IInv, ActiveWasPaidOrGranted, Covered
  <2> QED BY <1>6, <1>8, <2>1, <2>2 DEF Idle
<1>15. CASE Gate(p)
  <2>1. request'[p] = Idle \/ /\ request'[p].stage \in {"count", "publish"}
                              /\ request'[p].g = r.g
                              /\ status[r.g] = "ACTIVE" /\ r.g \in Agency
    <3>1. CASE status[r.g] # "ACTIVE"
      BY <1>4, <1>15, <3>1 DEF Gate
    <3>2. CASE status[r.g] = "ACTIVE"
      <4>1. \E s \in {"count", "publish"} : Continue(p, [r EXCEPT !.stage = s])
        BY <1>15, <3>2 DEF Gate
      <4> QED BY <1>1, <1>4, <1>15, <3>2, <4>1 DEF Gate, Request
    <3> QED BY <3>1, <3>2
  <2>2. request'[p].stage \in {"count", "publish"} => Covered(request[p].g)'
    BY <1>2, <2>1 DEF IInv, ActiveWasPaidOrGranted, Idle
  <2> QED BY <1>6, <1>7, <1>8, <1>15, <2>1, <2>2 DEF Gate, Idle, sub
<1>16. CASE Count(p)
  <2>1. request'[p] = Idle \/ /\ request'[p].stage = "publish" /\ request'[p].g = r.g
                              /\ r.g \in Agency
    BY <1>1, <1>4, <1>16 DEF Count, Request
  <2>2. Covered(r.g)
    BY <1>16 DEF Count, IInv, GateIsCovered
  <2>3. request'[p].stage \in {"count", "publish"} => Covered(request[p].g)'
    BY <1>2, <2>1, <2>2 DEF Idle
  <2> QED BY <1>6, <1>7, <1>8, <1>16, <2>1, <2>3 DEF Count, Idle, sub
<1>17. CASE Publish(p) \/ WriteMove(p)
  <2>1. request'[p] = Idle /\ UNCHANGED <<status, ref>>
    BY <1>4, <1>17 DEF Publish, WriteMove, sub
  <2> QED BY <1>6, <1>7, <1>8, <2>1 DEF Idle
<1> QED BY <1>9, <1>10, <1>11, <1>12, <1>13, <1>14, <1>15, <1>16, <1>17 DEF Resume

\* Every step keeps the invariant.
LEMMA StepInv ==
    ASSUME IInv, [Next]_vars
    PROVE  IInv'
<1>1. TypeOK'
  BY StepType DEF IInv
<1>2. \A g \in Agency : Covered(g) => Covered(g)'
  BY CoveredStays DEF IInv
<1>3. \A i \in Invoice : invoice[i] = "completed" => invoice'[i] = "completed"
  BY CompletedStays DEF IInv
<1>4. ASSUME NEW p \in Proc, Handler(p) \/ Resume(p)
      PROVE  IInv'
  BY <1>1, <1>4, HandlerInv, ResumeInv
\* Every other step leaves the rows as they are or suspends them, and may end requests.
<1>5. ASSUME ref' = ref,
             \A q \in Proc : request'[q] \in {request[q], Idle},
             \A g \in Agency : status'[g] \in {status[g], "SUSPENDED"}
      PROVE  IInv'
  <2>1. RefsAreOwn'
    BY <1>5 DEF IInv, RefsAreOwn, Idle
  <2>2. ActivationsArePaid'
    <3> SUFFICES ASSUME NEW q \in Proc, request'[q].stage = "activate"
                 PROVE  invoice'[request'[q].inv] = "completed"
      BY DEF ActivationsArePaid
    <3>1. request'[q] = request[q]
      BY <1>5 DEF Idle
    <3>2. request[q].inv \in Invoice
      BY <3>1, BusyIsRequest DEF IInv, Request
    <3> QED BY <1>3, <3>1, <3>2 DEF IInv, ActivationsArePaid
  <2>3. ActiveWasPaidOrGranted'
    BY <1>2, <1>5 DEF IInv, ActiveWasPaidOrGranted
  <2>4. GateIsCovered'
    <3>1. ASSUME NEW q \in Proc, request'[q].stage \in {"count", "publish"}
          PROVE  Covered(request[q].g)'
      <4>1. request'[q] = request[q]
        BY <1>5, <3>1 DEF Idle
      <4>2. request[q].g \in Agency
        BY <3>1, <4>1, BusyIsRequest DEF IInv, Request
      <4> QED BY <1>2, <3>1, <4>1, <4>2 DEF IInv, GateIsCovered
    <3> QED BY <3>1 DEF GateIsCovered, Covered
  <2> QED BY <1>1, <2>1, <2>2, <2>3, <2>4 DEF IInv
<1>6. ASSUME NEW p \in Proc, Abort(p)
      PROVE  IInv'
  <2>1. UNCHANGED <<status, ref>> /\ \A q \in Proc : request'[q] \in {request[q], Idle}
    BY <1>6 DEF Abort, Continue, sub, IInv, TypeOK
  <2> QED BY <1>5, <2>1
<1>7. CASE \/ \E g \in Agency : PeriodEnds(g)
           \/ \E i \in Invoice : PayInvoice(i) \/ FailInvoice(i)
           \/ SweepRead \/ SweepCascade \/ SweepAbort \/ UNCHANGED vars
  <2>1. UNCHANGED <<status, ref, request>>
    BY <1>7 DEF PeriodEnds, PayInvoice, FailInvoice, SweepRead, SweepCascade, SweepAbort,
         vars, sub
  <2> QED BY <1>5, <2>1
<1>8. CASE SweepSuspend
  BY <1>5, <1>8 DEF SweepSuspend
<1> QED BY <1>4, <1>6, <1>7, <1>8 DEF Next, Sweep

\* The inductive invariant: types, own and paid invoices in every request, and the two
\* properties below.
THEOREM Invariance == Spec => []IInv
<1>1. Init => IInv
  <2> HAVE Init
  <2>1. TypeOK
    BY SubscriptionAssumption DEF Init, TypeOK, SubscriptionPlan, End, InvoiceState, Resting
  <2> QED BY <2>1 DEF Init, IInv, RefsAreOwn, ActivationsArePaid, ActiveWasPaidOrGranted,
            GateIsCovered, Idle, Absent
<1>2. IInv /\ [Next]_vars => IInv'
  BY StepInv
<1> QED BY <1>1, <1>2, PTL DEF Spec

\* No order of notifications, verifications, cancellations, extensions and nightly jobs
\* leaves a subscription ACTIVE that was neither paid nor granted by an admin.
THEOREM SubscriptionsAreEarned == Spec => []ActiveWasPaidOrGranted
BY Invariance, PTL DEF IInv

\* A request past the publication gate, however late it writes, is that of an agency
\* that has paid or was granted a subscription.
THEOREM GateIsEarned == Spec => []GateIsCovered
BY Invariance, PTL DEF IInv

-----------------------------------------------------------------------------
(***************************************************************************)
(* The limit of a STARTER agency, when requests do not overlap.            *)
(***************************************************************************)

\* A step makes at most one row.
LEMMA OneRowAtATime ==
    ASSUME TypeOK, [Next]_vars
    PROVE  \E l : \A x \in Listing : Exists(x)' => Exists(x) \/ x = l
<1> USE DEF Exists
<1>1. ASSUME listing' = listing
      PROVE  \A x \in Listing : Exists(x)' => Exists(x)
  BY <1>1
<1>2. ASSUME NEW l, NEW to, listing' = [listing EXCEPT ![l] = to]
      PROVE  \A x \in Listing : Exists(x)' => Exists(x) \/ x = l
  BY <1>2 DEF TypeOK
<1>3. ASSUME NEW p \in Proc, Handler(p)
      PROVE  \E l : \A x \in Listing : Exists(x)' => Exists(x) \/ x = l
  <2>1. listing' = listing \/ \E l, to : listing' = [listing EXCEPT ![l] = to]
    <3>1. ASSUME NEW r, Enter(p, r)
          PROVE  listing' = listing
      BY <3>1 DEF Enter
    <3>2. ASSUME NEW g \in Agency,
                 \/ Initiate(p, g) \/ VerifySubscription(p, g) \/ Cancel(p, g)
                 \/ ExtendById(p, g) \/ CreateActive(p, g)
          PROVE  listing' = listing
      BY <3>1, <3>2 DEF Initiate, VerifySubscription, Cancel, ExtendById, CreateActive
    <3>3. ASSUME NEW g \in Agency, SuspendById(p, g) \/ ActivateById(p, g)
          PROVE  listing' = listing
      BY <3>3 DEF SuspendById, ActivateById
    <3>4. ASSUME NEW i \in Invoice, HandlePaydunyaWebhook(p, i)
          PROVE  listing' = listing
      BY <3>1, <3>4 DEF HandlePaydunyaWebhook
    <3>5. ASSUME NEW l \in Listing, PublishListing(p, l) \/ Move(p, l)
          PROVE  listing' = listing
      BY <3>1, <3>5 DEF PublishListing, Move
    <3>6. ASSUME NEW l \in Listing, CreateDraft(p, l) \/ ManageListing(p, l) \/ Remove(p, l)
          PROVE  \E to : listing' = [listing EXCEPT ![l] = to]
      BY <3>6 DEF CreateDraft, ManageListing, Remove
    <3> QED BY <1>3, <3>2, <3>3, <3>4, <3>5, <3>6 DEF Handler
  <2> HIDE DEF Exists
  <2> QED BY <1>1, <1>2, <2>1
<1>4. ASSUME NEW p \in Proc, Resume(p)
      PROVE  \E l : \A x \in Listing : Exists(x)' => Exists(x) \/ x = l
  <2>1. listing' = listing \/ \E l, to : listing' = [listing EXCEPT ![l] = to]
    <3>1. CASE \/ Upsert(p) \/ CreateInvoice(p) \/ StoreRef(p) \/ ConfirmAnswer(p) \/ Activate(p)
               \/ WriteCancel(p) \/ WriteExtension(p) \/ Gate(p) \/ Count(p)
      BY <3>1 DEF Upsert, CreateInvoice, StoreRef, ConfirmAnswer, Activate, WriteCancel,
           WriteExtension, Gate, Count
    <3>2. CASE Publish(p)
      BY <3>2 DEF Publish
    <3>3. CASE WriteMove(p)
      BY <3>3 DEF WriteMove
    <3> QED BY <1>4, <3>1, <3>2, <3>3 DEF Resume
  <2> HIDE DEF Exists
  <2> QED BY <1>1, <1>2, <2>1
<1>5. ASSUME SweepCascade
      PROVE  \A x \in Listing : Exists(x)' => Exists(x)
  BY <1>5 DEF SweepCascade, Absent, Deleted, TypeOK
<1>6. CASE \/ \E p \in Proc : Abort(p)
           \/ \E g \in Agency : PeriodEnds(g)
           \/ \E i \in Invoice : PayInvoice(i) \/ FailInvoice(i)
           \/ SweepRead \/ SweepSuspend \/ SweepAbort \/ UNCHANGED vars
  <2>1. listing' = listing
    BY <1>6 DEF Abort, PeriodEnds, PayInvoice, FailInvoice, SweepRead, SweepSuspend, SweepAbort, vars
  <2> HIDE DEF Exists
  <2> QED BY <1>1, <2>1
<1> HIDE DEF Exists
<1> QED BY <1>3, <1>4, <1>5, <1>6 DEF Next, Sweep

LEMMA RowsStayFinite ==
    ASSUME TypeOK, [Next]_vars, NEW g \in Agency, IsFiniteSet(Rows(g))
    PROVE  IsFiniteSet(Rows(g)')
<1>1. PICK l : \A x \in Listing : Exists(x)' => Exists(x) \/ x = l
  BY OneRowAtATime
<1>2. Rows(g)' \subseteq Rows(g) \cup {l}
  BY <1>1 DEF Rows
<1>3. IsFiniteSet(Rows(g) \cup {l})
  BY FS_AddElement
<1> QED BY <1>2, <1>3, FS_Subset

\* A request that starts is not about to publish.
LEMMA HandlerStarts ==
    ASSUME TypeOK, NEW p \in Proc, Handler(p)
    PROVE  request[p] = Idle /\ request'[p].stage # "publish"
<1> DEFINE Goal == request[p] = Idle /\ request'[p].stage # "publish"
<1>0. request \in [Proc -> Request \cup {Idle}]
  BY DEF TypeOK
<1>1. ASSUME NEW r, Enter(p, r), r.stage # "publish"
      PROVE  Goal
  BY <1>0, <1>1 DEF Enter
<1>2. ASSUME request[p] = Idle, request' = request
      PROVE  Goal
  BY <1>2 DEF Idle
<1> HIDE DEF Goal
<1>3. ASSUME NEW g \in Agency,
             \/ Initiate(p, g) \/ VerifySubscription(p, g) \/ Cancel(p, g)
             \/ ExtendById(p, g) \/ CreateActive(p, g)
      PROVE  Goal
  <2>1. CASE Initiate(p, g)
    <3>1. PICK k \in SubscriptionPlan : Enter(p, [stage |-> "upsert", g |-> g, plan |-> k])
      BY <2>1 DEF Initiate
    <3> QED BY <1>1, <3>1
  <2>2. CASE ExtendById(p, g)
    <3>1. PICK e : Enter(p, [stage |-> "extend", g |-> g, ends |-> e])
      BY <2>2 DEF ExtendById
    <3> QED BY <1>1, <3>1
  <2> QED BY <1>1, <1>3, <2>1, <2>2 DEF VerifySubscription, Cancel, CreateActive
<1>4. ASSUME NEW g \in Agency, SuspendById(p, g) \/ ActivateById(p, g)
      PROVE  Goal
  BY <1>2, <1>4 DEF SuspendById, ActivateById
<1>5. ASSUME NEW i \in Invoice, HandlePaydunyaWebhook(p, i)
      PROVE  Goal
  BY <1>1, <1>5 DEF HandlePaydunyaWebhook
<1>6. ASSUME NEW l \in Listing, PublishListing(p, l)
      PROVE  Goal
  BY <1>1, <1>6 DEF PublishListing
<1>7. ASSUME NEW l \in Listing, Move(p, l)
      PROVE  Goal
  <2>1. PICK to \in ListingStatus : Enter(p, [stage |-> "move", l |-> l, to |-> to])
    BY <1>7 DEF Move
  <2> QED BY <1>1, <2>1
<1>8. ASSUME NEW l \in Listing, CreateDraft(p, l) \/ ManageListing(p, l) \/ Remove(p, l)
      PROVE  Goal
  BY <1>2, <1>8 DEF CreateDraft, ManageListing, Remove
<1>9. Goal
  BY <1>3, <1>4, <1>5, <1>6, <1>7, <1>8 DEF Handler
<1> QED BY <1>9 DEF Goal

\* What a request does next: it passes the gate or counts, publishes, or has nothing to
\* do with publishing.
LEMMA RequestGoesOn ==
    ASSUME TypeOK, NEW p \in Proc, Resume(p) \/ Abort(p)
    PROVE  \/ Gate(p) \/ Count(p)
           \/ /\ request'[p].stage \notin {"gate", "count", "publish"}
              /\ request[p].stage = "publish" => Publish(p) \/ listing' = listing
<1>0. request \in [Proc -> Request \cup {Idle}]
  BY DEF TypeOK
<1>1. \A n : Continue(p, n) => request'[p] = n
  BY <1>0 DEF Continue
<1>2. \A s : request[p] \in Request => [request[p] EXCEPT !.stage = s].stage = s
  BY DEF Request
<1>3. Idle.stage = "idle"
  BY DEF Idle
<1>4. ASSUME Resume(p) PROVE request[p] \in Request
  BY <1>0, <1>4 DEF Resume
<1>5. CASE Abort(p)
  BY <1>1, <1>3, <1>5 DEF Abort
<1>6. ASSUME Resume(p), Upsert(p)
      PROVE  request'[p].stage \notin {"gate", "count", "publish"} /\ request[p].stage = "upsert"
  <2>1. Continue(p, [request[p] EXCEPT !.stage = "bill"]) /\ request[p].stage = "upsert"
    BY <1>6 DEF Upsert
  <2> QED BY <1>1, <1>2, <1>4, <1>6, <2>1
<1>7. ASSUME Resume(p), ConfirmAnswer(p)
      PROVE  request'[p].stage \notin {"gate", "count", "publish"} /\ request[p].stage = "query"
  <2>1. /\ request[p].stage = "query"
        /\ \/ Continue(p, [request[p] EXCEPT !.stage = "activate"])
           \/ Continue(p, Idle)
    BY <1>7 DEF ConfirmAnswer
  <2> QED BY <1>1, <1>2, <1>3, <1>4, <1>7, <2>1
<1>8. ASSUME CreateInvoice(p)
      PROVE  request'[p].stage \notin {"gate", "count", "publish"} /\ request[p].stage = "bill"
  <2>1. PICK i \in Invoice : Continue(p, [stage |-> "ref", g |-> request[p].g, inv |-> i])
    BY <1>8 DEF CreateInvoice
  <2> QED BY <1>1, <1>8, <2>1 DEF CreateInvoice
<1>9. CASE StoreRef(p) \/ Activate(p) \/ WriteCancel(p) \/ WriteExtension(p)
  BY <1>1, <1>3, <1>9 DEF StoreRef, Activate, WriteCancel, WriteExtension
<1>10. CASE Publish(p)
  <2>1. Continue(p, Idle)
    BY <1>10 DEF Publish
  <2> QED BY <1>1, <1>3, <1>10, <2>1
<1>11. CASE WriteMove(p)
  BY <1>1, <1>3, <1>11 DEF WriteMove
<1> QED BY <1>5, <1>6, <1>7, <1>8, <1>9, <1>10, <1>11 DEF Resume

\* The other steps publish nothing, and leave requests, plans and the set of rows alone.
LEMMA OthersKeepRows ==
    ASSUME TypeOK,
           \/ \E g \in Agency : PeriodEnds(g)
           \/ \E i \in Invoice : PayInvoice(i) \/ FailInvoice(i)
           \/ Sweep \/ SweepAbort \/ UNCHANGED vars
    PROVE  /\ UNCHANGED <<plan, request>>
           /\ \A l \in Listing : Exists(l)' <=> Exists(l)
           /\ \A l \in Listing : listing'[l] = "ACTIVE" => listing[l] = "ACTIVE"
<1>1. CASE SweepCascade
  <2>1. UNCHANGED <<plan, request>>
    BY <1>1 DEF SweepCascade, sub
  <2>2. \A l \in Listing : listing'[l] = listing[l]
                             \/ (listing'[l] = "SUSPENDED" /\ listing[l] = "ACTIVE")
    BY <1>1 DEF SweepCascade
  <2> QED BY <2>1, <2>2 DEF Exists, Absent, Deleted
<1>2. CASE \/ \E g \in Agency : PeriodEnds(g)
           \/ \E i \in Invoice : PayInvoice(i) \/ FailInvoice(i)
           \/ SweepRead \/ SweepSuspend \/ SweepAbort \/ UNCHANGED vars
  <2>1. UNCHANGED <<plan, listing, request>>
    BY <1>2 DEF PeriodEnds, PayInvoice, FailInvoice, SweepRead, SweepSuspend, SweepAbort, vars, sub
  <2> QED BY <2>1 DEF Exists
<1> QED BY <1>1, <1>2 DEF Sweep

LEMMA CountHoldsInitially ==
    Init => CountHolds
<1> SUFFICES ASSUME Init PROVE CountHolds
  OBVIOUS
<1>1. \A g \in Agency : Rows(g) = {}
  BY DEF Init, Rows, Exists
<1>2. \A p \in Proc : request[p].stage = "idle"
  BY DEF Init, Idle
<1> QED BY <1>1, <1>2, FS_EmptySet DEF CountHolds

LEMMA CountHoldsNext ==
    ASSUME TypeOK, CountHolds, [Next]_vars, NEW p, Proc = {p}
    PROVE  CountHolds'
<1> DEFINE Fresh == request[p].stage = "publish" /\ plan[request[p].g] = "STARTER" =>
                      Cardinality(Rows(request[p].g)) < MaxListings
<1> p \in Proc
  OBVIOUS
<1>0. request \in [Proc -> Request \cup {Idle}]
  BY DEF TypeOK
<1>1. \A g \in Agency : IsFiniteSet(Rows(g)')
  BY RowsStayFinite DEF CountHolds
<1>2. Fresh
  BY DEF CountHolds
<1>3. ASSUME Handler(p) PROVE Fresh'
  BY <1>3, HandlerStarts
<1>4. ASSUME Gate(p) PROVE Fresh'
  <2>1. request[p] \in Request
    BY <1>0, <1>4 DEF Gate, Idle
  <2>2. UNCHANGED <<plan, listing>>
    BY <1>4 DEF Gate, sub
  <2>3. \A s : /\ [request[p] EXCEPT !.stage = s].stage = s
               /\ [request[p] EXCEPT !.stage = s].g = request[p].g
    BY <1>4, <2>1 DEF Request, Gate
  <2>4. \/ request'[p] = Idle
        \/ request'[p] = [request[p] EXCEPT !.stage = "count"]
        \/ /\ request'[p] = [request[p] EXCEPT !.stage = "publish"]
           /\ plan[request[p].g] # "STARTER"
    BY <1>0, <1>4 DEF Gate, Continue
  <2>5. request'[p].stage # "publish" \/ plan'[request'[p].g] # "STARTER"
    <3>1. [request[p] EXCEPT !.stage = "count"].stage = "count"
      BY <2>3
    <3>2. [request[p] EXCEPT !.stage = "publish"].g = request[p].g
      BY <2>3
    <3>3. CASE request'[p] = Idle
      BY <3>3 DEF Idle
    <3>4. CASE request'[p] = [request[p] EXCEPT !.stage = "count"]
      BY <3>1, <3>4
    <3>5. CASE /\ request'[p] = [request[p] EXCEPT !.stage = "publish"]
               /\ plan[request[p].g] # "STARTER"
      <4>1. request'[p].g = request[p].g
        BY <3>2, <3>5
      <4>2. plan' = plan
        BY <2>2
      <4> QED BY <3>5, <4>1, <4>2
    <3> QED BY <2>4, <3>3, <3>4, <3>5
  <2> QED BY <2>5
<1>5. ASSUME Count(p) PROVE Fresh'
  <2>1. request[p] \in Request
    BY <1>0, <1>5 DEF Count, Idle
  <2>2. UNCHANGED <<plan, listing>>
    BY <1>5 DEF Count, sub
  <2>3. \A s : /\ [request[p] EXCEPT !.stage = s].stage = s
               /\ [request[p] EXCEPT !.stage = s].g = request[p].g
    BY <1>5, <2>1 DEF Request, Count
  <2>4. request[p].g \in Agency
    BY <1>5, <2>1 DEF Request, Count
  <2>5. Cardinality(Rows(request[p].g)) \in Nat
    BY <2>4, FS_CardinalityType DEF CountHolds
  <2>6. \/ request'[p] = Idle
        \/ /\ request'[p] = [request[p] EXCEPT !.stage = "publish"]
           /\ ~(Cardinality(Rows(request[p].g)) >= MaxListings)
    BY <1>0, <1>5 DEF Count, Continue
  <2>7. CASE request'[p] = Idle
    BY <2>7 DEF Idle
  <2>8. CASE request'[p].g = request[p].g /\ ~(Cardinality(Rows(request[p].g)) >= MaxListings)
    <3>1. Cardinality(Rows(request[p].g)) < MaxListings
      BY <2>5, <2>8, SubscriptionAssumption
    <3>2. Rows(request[p].g)' = Rows(request[p].g)
      BY <2>2, <2>8 DEF Rows, Exists
    <3> QED BY <3>1, <3>2
  <2> QED BY <2>3, <2>6, <2>7, <2>8
<1>6. ASSUME Resume(p) \/ Abort(p) PROVE Fresh'
  BY <1>4, <1>5, <1>6, RequestGoesOn
<1>7. ASSUME \/ \E g \in Agency : PeriodEnds(g)
             \/ \E i \in Invoice : PayInvoice(i) \/ FailInvoice(i)
             \/ Sweep \/ SweepAbort \/ UNCHANGED vars
      PROVE  Fresh'
  <2>1. /\ UNCHANGED <<plan, request>>
        /\ \A l \in Listing : Exists(l)' <=> Exists(l)
    BY <1>7, OthersKeepRows
  <2>2. Rows(request[p].g)' = Rows(request[p].g)
    BY <2>1 DEF Rows
  <2> QED BY <1>2, <2>1, <2>2
<1> HIDE DEF Fresh
<1>8. Fresh'
  BY <1>3, <1>6, <1>7 DEF Next
<1> QED BY <1>1, <1>8 DEF CountHolds, Fresh

\* What a single step of PublicationWithinCap may not do.
LEMMA StepWithinCap ==
    ASSUME TypeOK, CountHolds, [Next]_vars, NEW p, Proc = {p},
           request[p].stage = "publish", listing' # listing, plan[request[p].g] = "STARTER"
    PROVE  Cardinality({l \in Listing : OwnerOf[l] = request[p].g /\ listing'[l] = "ACTIVE"})
             <= MaxListings
<1> DEFINE g == request[p].g
           New == {l \in Listing : OwnerOf[l] = g /\ listing'[l] = "ACTIVE"}
<1> p \in Proc
  OBVIOUS
<1>0. request[p] \in Request \cup {Idle} /\ listing \in [Listing -> ListingStatus \cup {Absent, Deleted}]
  BY DEF TypeOK
<1>1. g \in Agency
  BY <1>0 DEF Request, Idle
<1>2. IsFiniteSet(Rows(g)) /\ Cardinality(Rows(g)) < MaxListings
  BY <1>1 DEF CountHolds
<1>3. ~Handler(p)
  BY HandlerStarts DEF Idle
<1>4. \E l : New \subseteq Rows(g) \cup {l}
  <2>1. CASE Resume(p) \/ Abort(p)
    <3>1. Publish(p)
      BY <2>1, RequestGoesOn DEF Gate, Count
    <3>2. PICK l : listing' = [listing EXCEPT ![l] = "ACTIVE"]
      BY <3>1 DEF Publish
    <3>3. \A x \in New : x \in Rows(g) \cup {l}
      BY <1>0, <3>2 DEF Rows, Exists, Absent, Deleted
    <3> QED BY <3>3
  <2>2. CASE \/ \E h \in Agency : PeriodEnds(h)
             \/ \E i \in Invoice : PayInvoice(i) \/ FailInvoice(i)
             \/ Sweep \/ SweepAbort \/ UNCHANGED vars
    <3>1. \A l \in Listing : listing'[l] = "ACTIVE" => listing[l] = "ACTIVE"
      BY <2>2, OthersKeepRows
    <3> QED BY <3>1 DEF Rows, Exists, Absent, Deleted
  <2> QED BY <1>3, <2>1, <2>2 DEF Next
<1>5. PICK l : New \subseteq Rows(g) \cup {l}
  BY <1>4
<1>6. /\ IsFiniteSet(Rows(g) \cup {l})
      /\ \/ Cardinality(Rows(g) \cup {l}) = Cardinality(Rows(g))
         \/ Cardinality(Rows(g) \cup {l}) = Cardinality(Rows(g)) + 1
  BY <1>2, FS_AddElement
<1>7. Cardinality(New) <= Cardinality(Rows(g) \cup {l}) /\ Cardinality(New) \in Nat
  BY <1>5, <1>6, FS_Subset, FS_CardinalityType
<1>8. Cardinality(Rows(g)) \in Nat
  BY <1>2, FS_CardinalityType
<1> HIDE DEF New, g
<1>9. Cardinality(New) <= MaxListings
  BY <1>2, <1>6, <1>7, <1>8, SubscriptionAssumption
<1> QED BY <1>9 DEF New, g

\* When requests do not overlap, publishing never takes a STARTER agency over its number
\* of published listings, whatever the nightly job does meanwhile.
THEOREM StarterStaysWithinCap ==
    ASSUME NEW p0, Proc = {p0}
    PROVE  Spec => PublicationWithinCap
<1>1. Init => TypeOK /\ CountHolds
  BY CountHoldsInitially, SubscriptionAssumption
     DEF Init, TypeOK, SubscriptionPlan, End, InvoiceState, Resting
<1>2. TypeOK /\ CountHolds /\ [Next]_vars => CountHolds'
  BY CountHoldsNext
<1>3. TypeOK /\ CountHolds /\ [Next]_vars =>
        [\A p \in Proc :
          LET r == request[p] IN
          r.stage = "publish" /\ listing' # listing /\ plan[r.g] = "STARTER" =>
            Cardinality({l \in Listing : OwnerOf[l] = r.g /\ listing'[l] = "ACTIVE"})
              <= MaxListings]_vars
  BY StepWithinCap
<1> QED BY <1>1, <1>2, <1>3, TypeCorrect, PTL DEF Spec, PublicationWithinCap

=============================================================================
