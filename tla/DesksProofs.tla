----------------------------- MODULE DesksProofs -----------------------------
(***************************************************************************)
(* Proofs about Desks, for any number of requests and loads a page has     *)
(* under way and any number of changes of the row; and about Alerts, for   *)
(* any scripts, any people without an address and any number of mounts and *)
(* faults; and about Navigation, for any accounts and any number of        *)
(* failures.                                                               *)
(***************************************************************************)
EXTENDS Desks, Alerts, Navigation, FiniteSetTheorems, TLAPS

-----------------------------------------------------------------------------
(***************************************************************************)
(* Rows.                                                                   *)
(***************************************************************************)
BookingRow == [kind : {"stay", "lease"}, status : BookingStatus, escrow : Escrow,
               billed : BOOLEAN, rated : BOOLEAN]
VisitRow == [kind : {"visit"}, status : VisitStatus, agent : {"me", "other", None}, rated : BOOLEAN]

LEMMA Rows ==
    /\ Row = BookingRow \cup VisitRow
    /\ \A r \in BookingRow : r.kind \in {"stay", "lease"} /\ r.status \in BookingStatus /\ r.escrow \in Escrow
    /\ \A r \in VisitRow : r.kind = "visit" /\ r.status \in VisitStatus /\ r.agent \in {"me", "other", None}
BY DEF Row, BookingRow, VisitRow

\* The columns a service writes.
LEMMA BookingForms ==
    ASSUME NEW r \in BookingRow
    PROVE  /\ \A s \in BookingStatus :
                LET n == [r EXCEPT !.status = s] IN n \in BookingRow /\ n.kind = r.kind /\ n.status = s
           /\ \A s \in BookingStatus, e \in Escrow :
                LET n == [r EXCEPT !.status = s, !.escrow = e]
                IN  n \in BookingRow /\ n.kind = r.kind /\ n.status = s
           /\ \A e \in Escrow :
                LET n == [r EXCEPT !.escrow = e] IN n \in BookingRow /\ n.kind = r.kind /\ n.status = r.status
           /\ LET n == [r EXCEPT !.billed = TRUE]
              IN  n \in BookingRow /\ n.kind = r.kind /\ n.status = r.status
           /\ LET n == [r EXCEPT !.rated = TRUE]
              IN  n \in BookingRow /\ n.kind = r.kind /\ n.status = r.status
BY DEF BookingRow

LEMMA VisitForms ==
    ASSUME NEW r \in VisitRow
    PROVE  /\ \A s \in VisitStatus : [r EXCEPT !.status = s] \in VisitRow
           /\ \A s \in VisitStatus, a \in {"me", "other", None} :
                [r EXCEPT !.status = s, !.agent = a] \in VisitRow
           /\ \A a \in {"me", "other", None} : [r EXCEPT !.agent = a] \in VisitRow
           /\ [r EXCEPT !.rated = TRUE] \in VisitRow
BY DEF VisitRow

\* A row that a stay or a lease may become.
Follows(r) ==
    /\ r \in BookingRow /\ r.kind = row.kind
    /\ r.status = "PENDING" => row.status = "PENDING"
    /\ r.status = "ACTIVE" => row.status = "ACTIVE" \/ row.kind = "lease"

LEMMA BookingFollows ==
    ASSUME row \in BookingRow
    PROVE  /\ \A op \in Op : \A r \in ServeBooking(op) : Follows(r)
           /\ \A r \in Notify : Follows(r)
<1>1. /\ \A s \in BookingStatus \ {"PENDING", "ACTIVE"} : Follows(To(s))
      /\ \A s \in BookingStatus \ {"PENDING", "ACTIVE"}, e \in Escrow : Follows(Settled(s, e))
      /\ \A e \in Escrow : Follows(Settled(row.status, e))
      /\ Lease => \A e \in Escrow : Follows(Settled("ACTIVE", e))
      /\ Follows([row EXCEPT !.billed = TRUE])
      /\ Follows([row EXCEPT !.rated = TRUE])
  <2>1. \A s \in BookingStatus : To(s) \in BookingRow /\ To(s).kind = row.kind /\ To(s).status = s
    BY BookingForms DEF To
  <2>2. \A s \in BookingStatus, e \in Escrow :
          /\ Settled(s, e) \in BookingRow /\ Settled(s, e).kind = row.kind
          /\ Settled(s, e).status = s
    BY BookingForms DEF Settled
  <2>3. row.status \in BookingStatus /\ "ACTIVE" \in BookingStatus
    BY Rows DEF BookingStatus
  <2>4. Follows([row EXCEPT !.billed = TRUE]) /\ Follows([row EXCEPT !.rated = TRUE])
    BY BookingForms DEF Follows
  <2> QED BY <2>1, <2>2, <2>3, <2>4 DEF Follows, Lease
<1>2. row.kind \in {"stay", "lease"} /\ row.escrow \in Escrow
  BY Rows
<1>3. Follows(Payment)
  BY <1>1, <1>2 DEF Payment, Stay, Lease, Escrow, BookingStatus
<1>4. ASSUME NEW op \in Op, NEW r \in ServeBooking(op)
      PROVE  Follows(r)
  <2>1. CASE op = "pay"
    BY <1>1, <1>3, <1>4, <2>1 DEF If, ServeBooking, InitiatePayment
  <2>2. CASE op \in {"cancel", "cancelHeld"}
    BY <1>1, <1>2, <1>4, <2>2 DEF If, ServeBooking, CancelByTenant, BookingStatus, Escrow
  <2>3. CASE op \in {"refuse", "adminCancel"}
    BY <1>1, <1>2, <1>4, <2>3 DEF If, ServeBooking, CancelByOwner, CancelByAdmin, BookingStatus, Escrow
  <2>4. CASE op \in {"confirm", "approve", "reject", "terminate"}
    BY <1>1, <1>4, <2>4 DEF If, ServeBooking, BookingStatus
  <2>5. CASE op \in {"complete", "dispute", "review"}
    BY <1>1, <1>4, <2>5
    DEF If, ServeBooking, CompleteStay, ReportDispute, LeaveReview, BookingStatus, Escrow
  <2>6. CASE op \in {"resolveRelease", "resolveRefund", "release", "refund"}
    BY <1>1, <1>4, <2>6 DEF If, ServeBooking, BookingStatus, Escrow
  <2>7. CASE op \notin TenantOp \cup LandlordOp \cup AdminOp
    BY <1>4, <2>7 DEF ServeBooking, TenantOp, LandlordOp, AdminOp
  <2> QED BY <2>1, <2>2, <2>3, <2>4, <2>5, <2>6, <2>7 DEF TenantOp, LandlordOp, AdminOp
<1>5. \A r \in Notify : Follows(r)
  BY <1>1, <1>3 DEF Notify, BookingStatus, Escrow
<1> QED BY <1>4, <1>5

LEMMA VisitFollows ==
    ASSUME row \in VisitRow
    PROVE  \A op \in Op : \A r \in ServeVisit(op) : r \in VisitRow
<1>1. /\ \A s \in VisitStatus : To(s) \in VisitRow
      /\ \A s \in VisitStatus, a \in {"me", "other"} : [row EXCEPT !.status = s, !.agent = a] \in VisitRow
      /\ [To("REQUESTED") EXCEPT !.agent = None] \in VisitRow
      /\ [row EXCEPT !.rated = TRUE] \in VisitRow
  BY VisitForms DEF To, VisitStatus
<1> QED
  <2> SUFFICES ASSUME NEW op \in Op, NEW r \in ServeVisit(op)
               PROVE  r \in VisitRow
    OBVIOUS
  <2>1. CASE op \in {"assign", "validate"}
    BY <1>1, <2>1 DEF If, ServeVisit, VisitStatus
  <2>2. CASE op \in {"start", "certify", "decline"}
    BY <1>1, <2>2 DEF If, ServeVisit, VisitStatus
  <2>3. CASE op \in {"approveDecline", "refuseDecline", "dismiss", "rate"}
    BY <1>1, <2>3 DEF If, ServeVisit, VisitStatus
  <2>4. CASE op \notin AgentOp \cup OfficeOp \cup {"rate"}
    BY <2>4 DEF ServeVisit, AgentOp, OfficeOp
  <2> QED BY <2>1, <2>2, <2>3, <2>4 DEF AgentOp, OfficeOp

\* Whatever is served or notified, the row stays of its kind, and its status one of it.
LEMMA ServedRows ==
    ASSUME row \in Row, StatusOfKind, NEW r,
           \/ \E op \in Op : r \in Serve(op)
           \/ row.kind # "visit" /\ r \in Notify
    PROVE  /\ r \in Row /\ r.kind = row.kind
           /\ r.status = "PENDING" => r.kind = "stay"
           /\ r.status = "ACTIVE" => r.kind = "lease"
<1>1. CASE row \in BookingRow
  <2>1. Follows(r)
    BY <1>1, BookingFollows, Rows DEF Serve
  <2> QED BY <1>1, <2>1, Rows DEF Follows, StatusOfKind
<1>2. CASE row \in VisitRow
  <2>1. r \in VisitRow
    BY <1>2, VisitFollows, Rows DEF Serve
  <2> QED BY <1>2, <2>1, Rows DEF VisitStatus
<1> QED BY <1>1, <1>2, Rows

-----------------------------------------------------------------------------
(***************************************************************************)
(* Types.  A request that is not new or being answered keeps everything    *)
(* but its stage, its flag and the load it waits for.                      *)
(***************************************************************************)
Types == TypeOK /\ OfThisPage /\ NothingFromTheFuture /\ StatusOfKind

Kept(n, r) ==
    /\ n \in Request
    /\ n.op = r.op /\ n.announced = r.announced /\ n.result = r.result /\ n.version = r.version

AllKept(calls) ==
    /\ calls \in [Call -> Request \cup {None}]
    /\ \A c \in Call : calls[c] # None => call[c] # None /\ Kept(calls[c], call[c])

LEMMA RequestForms ==
    ASSUME NEW r \in Request
    PROVE  /\ Kept(r, r)
           /\ r.op \in Op /\ r.announced \in {None, "REFUNDED", "RELEASED"} /\ r.version \in 0 .. MaxChanges
           /\ Kept([r EXCEPT !.flag = "lost"], r)
           /\ \A s \in {"token", "sent"}, f \in {"unset", "set", "lost"} :
                Kept([r EXCEPT !.stage = s, !.flag = f], r)
           /\ \A l \in Load : Kept([r EXCEPT !.stage = "reloading", !.load = l], r)
BY DEF Request, Kept

LEMMA SameKept == TypeOK => AllKept(call)
BY RequestForms DEF TypeOK, AllKept

LEMMA LostKept ==
    ASSUME TypeOK, NEW calls, AllKept(calls)
    PROVE  AllKept(LoseFlags(calls))
<1>1. \A c \in Call : calls[c] # None => calls[c] \in Request
  BY DEF AllKept
<1>2. \A c \in Call : calls[c] # None => Kept([calls[c] EXCEPT !.flag = "lost"], calls[c])
  BY <1>1, RequestForms
<1>3. \A c \in Call : calls[c] # None => [calls[c] EXCEPT !.flag = "lost"] \in Request
  BY <1>2 DEF Kept
<1> QED BY <1>2, <1>3 DEF AllKept, LoseFlags, Kept

LEMMA DoneKept ==
    ASSUME TypeOK, NEW c \in Call
    PROVE  AllKept(Done(call, c))
BY SameKept DEF Done, AllKept

LEMMA ReleasedKept ==
    ASSUME TypeOK, NEW l \in Load
    PROVE  AllKept(Released(l))
BY SameKept DEF Released, AllKept

LEMMA ReloadKept ==
    ASSUME TypeOK, NEW c \in Call, call[c] # None, NEW l \in Load
    PROVE  AllKept([call EXCEPT ![c].stage = "reloading", ![c].load = l])
<1> DEFINE n == [call[c] EXCEPT !.stage = "reloading", !.load = l]
<1>1. call[c] \in Request /\ Kept(n, call[c])
  BY RequestForms DEF TypeOK
<1>2. [call EXCEPT ![c].stage = "reloading", ![c].load = l] = [call EXCEPT ![c] = n]
  BY DEF TypeOK
<1>3. n \in Request
  BY <1>1 DEF Kept
<1> HIDE DEF n
<1> QED BY <1>1, <1>2, <1>3, SameKept DEF AllKept

\* What a page may draw.
Screen == {"row", "skeleton", "error"}

\* The first half of a load.
LEMMA StartLoadKeeps ==
    ASSUME TypeOK, NEW calls, AllKept(calls), NEW l \in Load, StartLoad(l, calls)
    PROVE  /\ AllKept(call') /\ screen' \in Screen
           /\ load' = [load EXCEPT ![l] = Asked]
           /\ load' \in [Load -> Snapshot \cup {Asked, None}]
<1>1. CASE HidesFirst
  BY <1>1, LostKept DEF StartLoad, Hide, TypeOK, Screen
<1>2. CASE ~HidesFirst
  BY <1>2 DEF StartLoad, TypeOK, Screen
<1> QED BY <1>1, <1>2

\* A step after which the row is the same, and the page one of its own.
LEMMA SteadyTypes ==
    ASSUME Types, AllKept(call'), missed' \in BOOLEAN, UNCHANGED <<page, row, version, clock>>,
           seen' \in 0 .. clock, screen' \in Screen, acted' \in 0 .. version,
           modal' \in {None, modal} \cup Buttons,
           shown' = None \/ (shown' \in Snapshot /\ Fits(shown')),
           load' \in [Load -> Snapshot \cup {Asked, None}],
           \A l \in Load : load'[l] \notin {None, Asked} => Fits(load'[l])
    PROVE  Types'
<1>1. Buttons \subseteq Op
  BY DEF Buttons, Op
<1>2. TypeOK'
  BY <1>1 DEF Types, TypeOK, AllKept, Screen
<1>3. OfThisPage'
  BY DEF Types, OfThisPage, AllKept, Kept, Fits, Buttons
<1>4. NothingFromTheFuture'
  BY DEF Types, NothingFromTheFuture, AllKept, Kept
<1>5. StatusOfKind'
  BY DEF Types, StatusOfKind
<1> QED BY <1>2, <1>3, <1>4, <1>5 DEF Types

LEMMA PresentFits == TypeOK => Present \in Snapshot /\ Fits(Present)
BY DEF TypeOK, Present, Snapshot, Fits

LEMMA OffersFit ==
    ASSUME TypeOK, NEW r, NEW t, NEW op \in Offers(r, t)
    PROVE  op \in Buttons /\ op \in Op
<1>1. CASE page = "tenantList"
  BY <1>1 DEF Offers, TenantList, Buttons, Op, TenantOp
<1>2. CASE page \in {"tenantDetail", "landlord"}
  BY <1>2 DEF Offers, TenantDetail, BookingActions, Buttons, Op, TenantOp, LandlordOp
<1>3. CASE page = "admin"
  BY <1>3 DEF Offers, AdminBookingCard, Buttons, Op, AdminOp
<1>4. CASE page \in {"agentList", "agentDetail"}
  BY <1>4 DEF Offers, MissionCard, Buttons, Op, AgentOp
<1>5. CASE page = "office"
  BY <1>5 DEF Offers, OfficeCard, Buttons, Op, OfficeOp
<1>6. CASE page = "owner"
  BY <1>6 DEF Offers, VerifCard, Buttons, Op
<1> QED BY <1>1, <1>2, <1>3, <1>4, <1>5, <1>6 DEF TypeOK, BookingPage, VisitPage

LEMMA Now == TypeOK => clock \in 0 .. clock
BY DEF TypeOK, Clock

\* Loads.
LEMMA LoadTypes ==
    ASSUME Types, NEW l \in Load,
           \/ Reopen(l) \/ Refresh(l) \/ ReadRow(l) \/ Recheck(l) \/ Arrive(l)
           \/ LoadFails(l) \/ LoadWithoutToken(l)
    PROVE  Types' /\ AllKept(call') /\ UNCHANGED <<version, clock>>
<1> USE DEF Types
<1>1. CASE Refresh(l)
  BY <1>1, SameKept, StartLoadKeeps, SteadyTypes DEF Refresh, TypeOK, OfThisPage, Screen
<1>2. CASE ReadRow(l)
  <2>1. AllKept(call') /\ screen' \in Screen
    BY <1>2, SameKept, LostKept DEF ReadRow, Hide, TypeOK, Screen
  <2>2. /\ load' = [load EXCEPT ![l] = Present]
        /\ UNCHANGED <<page, row, version, clock, shown, seen, modal, acted, missed>>
    BY <1>2 DEF ReadRow
  <2> QED BY <2>1, <2>2, PresentFits, SteadyTypes DEF TypeOK, OfThisPage, Screen
<1>3. CASE Recheck(l)
  BY <1>3, SameKept, PresentFits, SteadyTypes DEF Recheck, TypeOK, OfThisPage, Screen
<1>4. CASE Arrive(l)
  BY <1>4, Now, ReleasedKept, SteadyTypes DEF Arrive, TypeOK, OfThisPage, Screen
<1>5. CASE LoadFails(l)
  BY <1>5, Now, ReleasedKept, SteadyTypes DEF LoadFails, TypeOK, OfThisPage, Screen
<1>6. CASE LoadWithoutToken(l)
  BY <1>6, Now, ReleasedKept, SteadyTypes DEF LoadWithoutToken, TypeOK, OfThisPage, Screen
<1>7. CASE Reopen(l)
  <2>1. AllKept(call') /\ screen' \in Screen
    BY <1>7, SameKept, LostKept DEF Reopen, Hide, TypeOK, Screen
  <2>2. /\ load' = [load EXCEPT ![l] = Asked] /\ shown' = None
        /\ UNCHANGED <<page, row, version, clock, seen, modal, acted, missed>>
    BY <1>7 DEF Reopen
  <2> QED BY <2>1, <2>2, SteadyTypes DEF TypeOK, OfThisPage, Screen
<1> QED BY <1>1, <1>2, <1>3, <1>4, <1>5, <1>6, <1>7

\* Buttons.
LEMMA ButtonTypes ==
    ASSUME Types, CloseModal \/ Rerender \/ \E op \in Op : OpenModal(op)
    PROVE  Types' /\ AllKept(call') /\ UNCHANGED <<version, clock>>
<1> USE DEF Types
<1>1. ASSUME NEW op \in Op, OpenModal(op)
      PROVE  Types' /\ AllKept(call') /\ UNCHANGED <<version, clock>>
  <2>1. op \in Buttons
    BY <1>1, OffersFit DEF OpenModal, Offered
  <2> QED BY <1>1, <2>1, Now, SameKept, SteadyTypes DEF OpenModal, TypeOK, OfThisPage, Screen
<1>2. CASE CloseModal
  <2>1. \A c \in Call : call[c] # None =>
          /\ call[c] \in Request
          /\ Kept(call[c], call[c]) /\ Kept([call[c] EXCEPT !.flag = "lost"], call[c])
    BY RequestForms DEF TypeOK
  <2>2. \A c \in Call : call[c] # None => [call[c] EXCEPT !.flag = "lost"] \in Request
    BY <2>1 DEF Kept
  <2>3. AllKept(call')
    BY <1>2, <2>1, <2>2 DEF CloseModal, AllKept, TypeOK
  <2> QED BY <1>2, <2>3, SteadyTypes DEF CloseModal, TypeOK, OfThisPage, Screen
<1>3. CASE Rerender
  BY <1>3, Now, SameKept, SteadyTypes DEF Rerender, TypeOK, OfThisPage, Screen
<1> QED BY <1>1, <1>2, <1>3

\* The handler up to its first await: the only new request.
Pressed(op) ==
    [op |-> op, stage |-> "token", flag |-> IF FlagFirst(op) THEN "set" ELSE "unset",
     announced |-> Announced(op), result |-> None, version |-> 0, load |-> None]

LEMMA PressTypes ==
    ASSUME Types, NEW c \in Call, NEW op \in Op, Press(c, op)
    PROVE  /\ Types' /\ UNCHANGED <<version, clock, seen>>
           /\ Pressed(op) \in Request /\ call' = [call EXCEPT ![c] = Pressed(op)]
<1> USE DEF Types
<1>1. Pressed(op) \in Request /\ Pressed(op).op = op /\ Pressed(op).version = 0
  BY DesksAssumption DEF Pressed, Request, Announced
<1>2. op \in Buttons
  BY OffersFit, NothingAssumption DEF Press, Offered, OnScreen, OfThisPage
<1>3. /\ call' = [call EXCEPT ![c] = Pressed(op)]
      /\ UNCHANGED <<page, row, version, clock, shown, seen, screen, modal, load, acted, missed>>
  BY DEF Press, Pressed
<1> HIDE DEF Pressed
<1>4. TypeOK'
  BY <1>1, <1>3 DEF TypeOK
<1>5. OfThisPage'
  BY <1>1, <1>2, <1>3 DEF TypeOK, OfThisPage, Buttons, Fits
<1>6. NothingFromTheFuture'
  BY <1>1, <1>3 DEF TypeOK, NothingFromTheFuture
<1>7. StatusOfKind'
  BY <1>3 DEF StatusOfKind
<1> QED BY <1>1, <1>3, <1>4, <1>5, <1>6, <1>7

\* A row that becomes another one of its kind.
LEMMA BecomesTypes ==
    ASSUME Types, NEW r \in Row, r.kind = row.kind,
           r.status = "PENDING" => r.kind = "stay", r.status = "ACTIVE" => r.kind = "lease",
           Becomes(r), UNCHANGED <<page, clock, shown, seen, screen, modal, load, acted, missed>>,
           call' \in [Call -> Request \cup {None}],
           \A c \in Call : call'[c] # None =>
               call'[c].op \in Buttons /\ call'[c].version <= version'
    PROVE  Types'
<1> USE DEF Types
<1>1. row' = r /\ version' = version + 1 /\ version' \in 0 .. MaxChanges
  BY DesksAssumption DEF Becomes, TypeOK
<1>2. TypeOK'
  BY <1>1 DEF TypeOK
<1>3. OfThisPage'
  BY DEF OfThisPage, Buttons, Fits
<1>4. NothingFromTheFuture' /\ StatusOfKind'
  BY <1>1 DEF NothingFromTheFuture, StatusOfKind
<1> QED BY <1>2, <1>3, <1>4

\* What an answer writes into its request.
Answered(r, result, v) == [r EXCEPT !.stage = "served", !.result = result, !.version = v]

LEMMA AnswerForms ==
    ASSUME NEW r \in Request, NEW result \in {None, "ok", "refused", "REFUNDED", "RELEASED"},
           NEW v \in 0 .. MaxChanges
    PROVE  LET n == Answered(r, result, v)
           IN  /\ n \in Request /\ n.op = r.op /\ n.announced = r.announced
               /\ n.result = result /\ n.version = v
BY DEF Answered, Request

\* Only the tenant's cancellation of a booking whose money is held decides on it.
LEMMA OutcomeType ==
    ASSUME row \in Row, NEW op \in Op, NEW r \in Serve(op)
    PROVE  \/ Outcome(op, r) = "ok"
           \/ /\ op \in {"cancel", "cancelHeld"}
              /\ Outcome(op, r) = IF Early(clock) THEN "REFUNDED" ELSE "RELEASED"
<1>1. CASE op \in {"cancel", "cancelHeld"} /\ row.escrow = "HELD"
  <2>1. row.kind # "visit"
    BY <1>1 DEF Serve, ServeVisit
  <2>2. r \in CancelByTenant /\ row \in BookingRow
    BY <1>1, <2>1, Rows DEF Serve, ServeBooking
  <2>3. r = [row EXCEPT !.status = "CANCELLED",
                        !.escrow = IF Early(clock) THEN "REFUNDED" ELSE "RELEASED"]
    BY <1>1, <2>2 DEF CancelByTenant, If, Settled
  <2>4. r.escrow = IF Early(clock) THEN "REFUNDED" ELSE "RELEASED"
    BY <2>2, <2>3 DEF BookingRow
  <2> QED BY <1>1, <2>4 DEF Outcome
<1>2. CASE ~(op \in {"cancel", "cancelHeld"} /\ row.escrow = "HELD")
  BY <1>2 DEF Outcome
<1> QED BY <1>1, <1>2

LEMMA AnswerTypes ==
    ASSUME TypeOK, OfThisPage, NothingFromTheFuture, NEW c \in Call, call[c] # None,
           NEW result \in {"ok", "refused", "REFUNDED", "RELEASED"}, NEW v \in 0 .. MaxChanges,
           Answer(c, result, v), version' \in Nat, v <= version', version <= version'
    PROVE  /\ call' = [call EXCEPT ![c] = Answered(call[c], result, v)]
           /\ call' \in [Call -> Request \cup {None}]
           /\ \A d \in Call : call'[d] # None =>
                call'[d].op \in Buttons /\ call'[d].version <= version'
<1> DEFINE n == Answered(call[c], result, v)
<1>1. call[c] \in Request
  BY DEF TypeOK
<1>2. n \in Request /\ n.op = call[c].op /\ n.version = v
  BY <1>1 DEF Answered, Request
<1>3. call' = [call EXCEPT ![c] = n]
  BY DEF Answer, Answered, TypeOK
<1>4. \A d \in Call : call[d] # None => call[d].version \in 0 .. MaxChanges
  BY RequestForms DEF TypeOK
<1> HIDE DEF n
<1> QED BY <1>2, <1>3, <1>4, DesksAssumption DEF TypeOK, OfThisPage, NothingFromTheFuture, n

LEMMA ServedTypes ==
    ASSUME Types, NEW c \in Call, Served(c)
    PROVE  /\ Types' /\ UNCHANGED clock /\ version <= version'
           /\ call[c] \in Request
           /\ \E result \in {"ok", "refused", "REFUNDED", "RELEASED"}, v \in 0 .. MaxChanges :
                /\ call' = [call EXCEPT ![c] = Answered(call[c], result, v)]
                /\ result \in {"REFUNDED", "RELEASED"} =>
                     result = IF Early(clock) THEN "REFUNDED" ELSE "RELEASED"
<1> USE DEF Types
<1> DEFINE op == call[c].op
<1>1. /\ call[c] # None /\ call[c] \in Request /\ op \in Op /\ version \in 0 .. MaxChanges
      /\ UNCHANGED <<page, clock, shown, seen, screen, modal, load, acted, missed>>
  BY RequestForms DEF Served, At, TypeOK
<1>2. ASSUME NEW result \in {"ok", "refused"}, NEW v \in 0 .. version,
             Answer(c, result, v), UNCHANGED <<row, version>>
      PROVE  /\ Types' /\ version <= version'
             /\ call' = [call EXCEPT ![c] = Answered(call[c], result, v)] /\ v \in 0 .. MaxChanges
  <2>1. v \in 0 .. MaxChanges /\ v <= version /\ version \in Nat /\ version' = version
    BY <1>1, <1>2, DesksAssumption
  <2>2. /\ call' = [call EXCEPT ![c] = Answered(call[c], result, v)]
        /\ call' \in [Call -> Request \cup {None}]
        /\ \A d \in Call : call'[d] # None =>
             call'[d].op \in Buttons /\ call'[d].version <= version'
    BY <1>1, <1>2, <2>1, AnswerTypes
  <2>3. Types'
    BY <1>1, <1>2, <2>2 DEF TypeOK, OfThisPage, Buttons, Fits, NothingFromTheFuture, StatusOfKind
  <2> QED BY <2>1, <2>2, <2>3
<1>3. ASSUME NEW r \in Serve(op), Becomes(r), Answer(c, Outcome(op, r), version + 1)
      PROVE  /\ Types' /\ version <= version'
             /\ \E result \in {"ok", "refused", "REFUNDED", "RELEASED"}, v \in 0 .. MaxChanges :
                  /\ call' = [call EXCEPT ![c] = Answered(call[c], result, v)]
                  /\ result \in {"REFUNDED", "RELEASED"} =>
                       result = IF Early(clock) THEN "REFUNDED" ELSE "RELEASED"
  <2> DEFINE result == Outcome(op, r)
  <2>1. /\ r \in Row /\ r.kind = row.kind
        /\ r.status = "PENDING" => r.kind = "stay"
        /\ r.status = "ACTIVE" => r.kind = "lease"
    BY <1>1, ServedRows DEF TypeOK
  <2>2. /\ result \in {"ok", "REFUNDED", "RELEASED"}
        /\ result \in {"REFUNDED", "RELEASED"} =>
             result = IF Early(clock) THEN "REFUNDED" ELSE "RELEASED"
    BY <1>1, <1>3, OutcomeType DEF TypeOK
  <2>3. version + 1 \in 0 .. MaxChanges /\ version' = version + 1
    BY <1>1, <1>3, DesksAssumption DEF Becomes
  <2>4. Answer(c, result, version + 1) /\ version' \in Nat /\ version <= version'
    BY <1>1, <1>3, <2>3
  <2> HIDE DEF result
  <2>5. /\ call' = [call EXCEPT ![c] = Answered(call[c], result, version + 1)]
        /\ call' \in [Call -> Request \cup {None}]
        /\ \A d \in Call : call'[d] # None =>
             call'[d].op \in Buttons /\ call'[d].version <= version'
    BY <1>1, <2>2, <2>3, <2>4, AnswerTypes
  <2>6. Types'
    BY <1>1, <1>3, <2>1, <2>5, BecomesTypes
  <2> QED BY <2>2, <2>3, <2>4, <2>5, <2>6
<1>4. \/ Answer(c, "refused", 0) /\ UNCHANGED <<row, version>>
      \/ Answer(c, "ok", version) /\ UNCHANGED <<row, version>>
      \/ \E r \in Serve(op) : Becomes(r) /\ Answer(c, Outcome(op, r), version + 1)
  BY DEF Served
<1>5. 0 \in 0 .. version /\ version \in 0 .. version
  BY <1>1
<1> QED BY <1>1, <1>2, <1>3, <1>4, <1>5

\* The admin's list of bookings and the owner's list of visits keep rows of their kind.
LEMMA PatchedFits ==
    ASSUME Types, NEW c \in Call, call[c] # None, page \notin Reloads, shown # None
    PROVE  LET s == [shown EXCEPT !.row = Patched(@, call[c].op)] IN s \in Snapshot /\ Fits(s)
<1> USE DEF Types
<1> DEFINE op == call[c].op
           r == shown.row
           p == Patched(r, op)
<1>1. /\ page \in {"admin", "owner"} /\ shown \in Snapshot /\ Fits(shown)
      /\ op \in Buttons /\ r \in Row
  BY DEF TypeOK, OfThisPage, Reloads, BookingPage, VisitPage, Snapshot
<1>2. p \in Row /\ (p.kind = "visit") = (page \in VisitPage)
  <2>1. CASE page = "admin"
    <3>1. r \in BookingRow /\ op \in AdminOp
      BY <1>1, <2>1, Rows DEF Fits, VisitPage, Buttons
    <3>2. /\ [r EXCEPT !.status = "CANCELLED"] \in BookingRow
          /\ [r EXCEPT !.escrow = "RELEASED"] \in BookingRow
          /\ [r EXCEPT !.escrow = "REFUNDED"] \in BookingRow
          /\ [r EXCEPT !.status = "COMPLETED", !.escrow = "RELEASED"] \in BookingRow
          /\ [r EXCEPT !.status = "CANCELLED", !.escrow = "REFUNDED"] \in BookingRow
      BY <3>1 DEF BookingRow, BookingStatus, Escrow
    <3>3. /\ [r EXCEPT !.escrow = "RELEASED", !.status = "COMPLETED"]
               = [r EXCEPT !.status = "COMPLETED", !.escrow = "RELEASED"]
          /\ [r EXCEPT !.escrow = "REFUNDED", !.status = "CANCELLED"]
               = [r EXCEPT !.status = "CANCELLED", !.escrow = "REFUNDED"]
      BY <3>1 DEF BookingRow
    <3>4. p \in BookingRow
      BY <3>1, <3>2, <3>3 DEF Patched, AdminOp
    <3> QED BY <2>1, <3>4, Rows DEF VisitPage
  <2>2. CASE page = "owner"
    <3>1. r \in VisitRow /\ op = "rate"
      BY <1>1, <2>2, Rows DEF Fits, VisitPage, Buttons
    <3>2. p \in VisitRow
      BY <3>1, VisitForms DEF Patched
    <3> QED BY <2>2, <3>2, Rows DEF VisitPage
  <2> QED BY <1>1, <2>1, <2>2
<1> HIDE DEF p, op
<1>3. [shown EXCEPT !.row = p] \in Snapshot /\ [shown EXCEPT !.row = p].row = p
  BY <1>1, <1>2 DEF Snapshot
<1>4. [shown EXCEPT !.row = Patched(@, op)] = [shown EXCEPT !.row = p]
  BY DEF p
<1> QED BY <1>2, <1>3, <1>4 DEF Fits, op

\* The rest of a request: it is sent, fails, or succeeds and closes the modal.
LEMMA RequestTypes ==
    ASSUME Types, NEW c \in Call,
           \/ Send(c) \/ EndsTokenless(c) \/ Fails(c) \/ Checkout(c) \/ SucceedAndPatch(c)
           \/ \E l \in Load : SucceedAndLoad(c, l)
    PROVE  Types' /\ AllKept(call') /\ UNCHANGED <<version, clock>>
<1> USE DEF Types
<1>1. CASE Send(c)
  <2> DEFINE f == IF call[c].flag = "lost" THEN "lost" ELSE "set"
             n == [call[c] EXCEPT !.stage = "sent", !.flag = f]
  <2>1. call[c] \in Request /\ call[c] # None
    BY <1>1 DEF Send, At, TypeOK
  <2>2. Kept(n, call[c])
    BY <2>1, RequestForms
  <2>3. call' = [call EXCEPT ![c] = n]
    BY <1>1 DEF Send, TypeOK
  <2>4. n \in Request
    BY <2>2 DEF Kept
  <2> HIDE DEF n
  <2>5. AllKept(call')
    BY <2>1, <2>2, <2>3, <2>4, SameKept DEF AllKept, TypeOK
  <2> QED BY <1>1, <2>5, SteadyTypes DEF Send, TypeOK, OfThisPage, Screen
<1>2. CASE Fails(c)
  BY <1>2, DoneKept, SteadyTypes DEF Fails, TypeOK, OfThisPage, Screen
<1>3. CASE Checkout(c)
  BY <1>3, DoneKept, SteadyTypes DEF Checkout, TypeOK, OfThisPage, Screen
<1>4. CASE SucceedAndPatch(c)
  <2>1. /\ AllKept(call') /\ seen' \in 0 .. clock
        /\ modal' = None /\ page \notin Reloads
        /\ UNCHANGED <<page, row, version, clock, screen, load, acted, missed>>
    BY <1>4, DoneKept, Now DEF SucceedAndPatch
  <2>2. shown' = None \/ (shown' \in Snapshot /\ Fits(shown'))
    BY <1>4, PatchedFits DEF SucceedAndPatch, Success, At
  <2> QED BY <2>1, <2>2, SteadyTypes DEF TypeOK, OfThisPage, Screen
<1>5. ASSUME NEW l \in Load, SucceedAndLoad(c, l)
      PROVE  Types' /\ AllKept(call') /\ UNCHANGED <<version, clock>>
  <2>1. call[c] # None
    BY <1>5 DEF SucceedAndLoad, Success, At
  <2>2. /\ AllKept(call') /\ screen' \in Screen
        /\ load' = [load EXCEPT ![l] = Asked]
        /\ load' \in [Load -> Snapshot \cup {Asked, None}]
    BY <1>5, <2>1, ReloadKept, DoneKept, StartLoadKeeps DEF SucceedAndLoad
  <2>3. acted' \in 0 .. version
    <3>1. call[c].version \in 0 .. MaxChanges /\ call[c].version <= version
      BY <2>1, RequestForms DEF NothingFromTheFuture, TypeOK
    <3>2. acted \in 0 .. version /\ version \in 0 .. MaxChanges
      BY DEF TypeOK
    <3> QED BY <1>5, <3>1, <3>2, DesksAssumption DEF SucceedAndLoad, Known
  <2> QED BY <1>5, <2>2, <2>3, SteadyTypes DEF SucceedAndLoad, TypeOK, OfThisPage, Screen
<1>6. CASE EndsTokenless(c)
  BY <1>6, DoneKept, SteadyTypes DEF EndsTokenless, TypeOK, OfThisPage, Screen
<1> QED BY <1>1, <1>2, <1>3, <1>4, <1>5, <1>6

\* Everybody else, and time.
LEMMA WorldTypes ==
    ASSUME Types, SomebodyActs \/ TimePasses
    PROVE  Types' /\ AllKept(call') /\ version <= version' /\ clock <= clock' /\ UNCHANGED call
<1> USE DEF Types
<1>1. version \in 0 .. MaxChanges /\ clock \in 0 .. 4
  BY DEF TypeOK, Clock
<1>2. CASE SomebodyActs
  <2>1. PICK r :
          /\ \/ \E op \in Op : r \in Serve(op)
             \/ row.kind # "visit" /\ r \in Notify
          /\ Becomes(r)
    BY <1>2 DEF SomebodyActs
  <2>2. /\ r \in Row /\ r.kind = row.kind
        /\ r.status = "PENDING" => r.kind = "stay"
        /\ r.status = "ACTIVE" => r.kind = "lease"
    BY <2>1, ServedRows DEF TypeOK
  <2>3. version' = version + 1 /\ version <= version'
    BY <1>1, <2>1, DesksAssumption DEF Becomes
  <2>4. ASSUME NEW c \in Call, call[c] # None
        PROVE  call[c].op \in Buttons /\ call[c].version <= version'
    <3>1. call[c].version \in 0 .. MaxChanges /\ call[c].version <= version /\ call[c].op \in Buttons
      BY <2>4, RequestForms DEF TypeOK, OfThisPage, NothingFromTheFuture
    <3> QED BY <1>1, <2>3, <3>1, DesksAssumption
  <2>5. UNCHANGED <<page, clock, shown, seen, screen, modal, load, call, acted, missed>>
    BY <1>2 DEF SomebodyActs
  <2>6. Types'
    BY <2>1, <2>2, <2>4, <2>5, BecomesTypes DEF TypeOK
  <2> QED BY <1>1, <2>3, <2>5, <2>6, SameKept
<1>3. CASE TimePasses
  <2>1. /\ clock' = clock + 1 /\ clock' \in Clock /\ clock <= clock'
        /\ UNCHANGED <<page, row, version, shown, seen, screen, modal, load, call, acted, missed>>
        /\ seen \in 0 .. clock'
    BY <1>1, <1>3 DEF TimePasses, Clock, TypeOK
  <2>2. TypeOK'
    BY <2>1 DEF TypeOK
  <2>3. OfThisPage' /\ NothingFromTheFuture' /\ StatusOfKind'
    BY <2>1 DEF OfThisPage, Buttons, Fits, NothingFromTheFuture, StatusOfKind
  <2> QED BY <1>1, <2>1, <2>2, <2>3, SameKept, DesksAssumption
<1> QED BY <1>2, <1>3

LEMMA TypesInit == Init => Types
<1> SUFFICES ASSUME Init PROVE Types
  OBVIOUS
<1>1. /\ Booked("stay", "PENDING") \in BookingRow /\ Booked("lease", "REQUESTED") \in BookingRow
      /\ Booked("stay", "PENDING").kind = "stay" /\ Booked("stay", "PENDING").status = "PENDING"
      /\ Booked("lease", "REQUESTED").kind = "lease" /\ Booked("lease", "REQUESTED").status = "REQUESTED"
  BY DEF Booked, BookingRow, BookingStatus, Escrow
<1>2. row \in Row /\ (row.kind = "visit") = (page \in VisitPage) /\ StatusOfKind
  <2>1. CASE page \in BookingPage
    <3>1. row \in {Booked("stay", "PENDING"), Booked("lease", "REQUESTED")}
      BY <2>1 DEF Init
    <3>2. row \in BookingRow /\ row.kind # "visit" /\ StatusOfKind
      BY <1>1, <3>1 DEF StatusOfKind
    <3>3. page \notin VisitPage
      BY <2>1 DEF BookingPage, VisitPage
    <3> QED BY <3>2, <3>3, Rows
  <2>2. CASE page \notin BookingPage
    <3>1. row = [kind |-> "visit", status |-> "REQUESTED", agent |-> None, rated |-> FALSE]
      BY <2>2 DEF Init
    <3> QED BY <2>2, <3>1 DEF Init, Row, VisitStatus, StatusOfKind
  <2> QED BY <2>1, <2>2
<1>3. /\ version = 0 /\ acted = 0 /\ clock \in Clock /\ seen \in 0 .. clock
      /\ missed = FALSE /\ shown = None /\ screen = "skeleton" /\ modal = None /\ call = [c \in Call |-> None]
      /\ load \in [Load -> {Asked, None}] /\ page \in BookingPage \cup VisitPage
  BY DEF Init, Clock
<1>4. TypeOK
  <2>1. screen \in {"row", "skeleton", "error"} /\ missed \in BOOLEAN
    BY <1>3
  <2>2. load \in [Load -> Snapshot \cup {Asked, None}] /\ call \in [Call -> Request \cup {None}]
    BY <1>3
  <2> QED BY <1>2, <1>3, <2>1, <2>2, DesksAssumption DEF TypeOK
<1>5. OfThisPage /\ NothingFromTheFuture
  BY <1>3 DEF OfThisPage, NothingFromTheFuture
<1> QED BY <1>2, <1>4, <1>5 DEF Types

\* A step presses, is served, or keeps what is asked.
LEMMA TypesStep ==
    ASSUME Types, [Next]_vars
    PROVE  /\ Types' /\ clock <= clock'
           /\ \/ AllKept(call')
              \/ \E c \in Call, op \in Op : Press(c, op)
              \/ \E c \in Call : Served(c)
<1>1. clock <= clock
  BY DEF Types, TypeOK, Clock
<1>2. CASE UNCHANGED vars
  <2>1. TypeOK' /\ OfThisPage' /\ NothingFromTheFuture' /\ StatusOfKind'
    BY <1>2 DEF vars, Types, TypeOK, OfThisPage, NothingFromTheFuture, StatusOfKind, Buttons, Fits
  <2> QED BY <1>1, <1>2, <2>1, SameKept DEF vars, Types
<1>3. CASE \E l \in Load :
           \/ Reopen(l) \/ Refresh(l) \/ ReadRow(l) \/ Recheck(l) \/ Arrive(l)
           \/ LoadFails(l) \/ LoadWithoutToken(l)
  BY <1>1, <1>3, LoadTypes
<1>4. CASE CloseModal \/ Rerender \/ \E op \in Op : OpenModal(op)
  BY <1>1, <1>4, ButtonTypes
<1>5. CASE \E c \in Call, op \in Op : Press(c, op)
  BY <1>1, <1>5, PressTypes
<1>6. CASE \E c \in Call : Served(c)
  BY <1>1, <1>6, ServedTypes
<1>7. CASE \E c \in Call : \/ Send(c) \/ EndsTokenless(c) \/ Fails(c) \/ Checkout(c) \/ SucceedAndPatch(c)
                           \/ \E l \in Load : SucceedAndLoad(c, l)
  BY <1>1, <1>7, RequestTypes
<1>8. CASE SomebodyActs \/ TimePasses
  BY <1>8, WorldTypes
<1> QED BY <1>2, <1>3, <1>4, <1>5, <1>6, <1>7, <1>8 DEF Next

-----------------------------------------------------------------------------
(***************************************************************************)
(* The refund.  A request keeps what it announced and what was decided; the *)
(* clock of the render that announced is behind, and the clock goes forward. *)
(***************************************************************************)
LEMMA RefundStep ==
    ASSUME Types, RefundFounded, [Next]_vars
    PROVE  RefundFounded'
<1>1. Types' /\ clock <= clock' /\ clock \in Clock /\ clock' \in Clock /\ seen \in 0 .. clock
  BY TypesStep DEF Types, TypeOK
<1>2. ~Early(clock) => ~Early(clock')
  BY <1>1 DEF Early, Clock
<1>3. CASE AllKept(call')
  BY <1>2, <1>3 DEF RefundFounded, AllKept, Kept
<1>4. ASSUME NEW c \in Call, NEW op \in Op, Press(c, op)
      PROVE  RefundFounded'
  <2>1. call' = [call EXCEPT ![c] = Pressed(op)]
    BY <1>4, PressTypes
  <2>2. /\ Pressed(op).op = op /\ Pressed(op).announced = Announced(op) /\ Pressed(op).result = None
    BY DEF Pressed
  <2>3. None \notin {"REFUNDED", "RELEASED"}
    BY NothingAssumption DEF Escrow
  <2>4. /\ Announced(op) # None => op = "cancelHeld"
        /\ Announced(op) = "RELEASED" => ~Early(clock)
    BY <1>1, <2>3 DEF Announced, Early, Clock
  <2> HIDE DEF Pressed
  <2> QED BY <1>2, <2>1, <2>2, <2>3, <2>4 DEF RefundFounded, Types, TypeOK
<1>5. ASSUME NEW c \in Call, Served(c)
      PROVE  RefundFounded'
  <2>1. PICK result \in {"ok", "refused", "REFUNDED", "RELEASED"}, v \in 0 .. MaxChanges :
          /\ call' = [call EXCEPT ![c] = Answered(call[c], result, v)]
          /\ result \in {"REFUNDED", "RELEASED"} =>
               result = IF Early(clock) THEN "REFUNDED" ELSE "RELEASED"
    BY <1>5, ServedTypes
  <2> DEFINE n == Answered(call[c], result, v)
  <2>2. call[c] \in Request /\ call[c] # None
    BY <1>5, ServedTypes DEF Served, At
  <2>3. n.op = call[c].op /\ n.announced = call[c].announced /\ n.result = result
    BY <2>2 DEF Answered, Request
  <2>4. call' = [call EXCEPT ![c] = n]
    BY <2>1
  <2> HIDE DEF n
  <2> QED BY <1>2, <2>1, <2>2, <2>3, <2>4 DEF RefundFounded, Types, TypeOK
<1> QED BY <1>3, <1>4, <1>5, TypesStep

-----------------------------------------------------------------------------
(***************************************************************************)
(* One thing at a time.  The tenant's page of a booking either reads, and   *)
(* then nothing can be pressed, or acts, and then nothing is being read.    *)
(***************************************************************************)
Offer == IF screen # "row" \/ shown = None THEN {} ELSE TenantDetail(shown.row)

Acting ==
    /\ Loading = {}
    /\ modal # None => modal \in Offer \cap {"review"}
    /\ \A c, d \in Call : call[c] # None /\ call[d] # None => c = d
    /\ \A c \in Call : call[c] # None =>
         call[c].stage # "reloading" /\ call[c].op \in Offer /\ call[c].flag = "set"
    /\ screen = "row" /\ shown # None => shown.version >= acted \/ missed

Reading(l) ==
    /\ Loading = {l} /\ screen = "skeleton" /\ modal = None
    /\ \A c, d \in Call : call[c] # None /\ call[d] # None => c = d
    /\ \A c \in Call : call[c] # None => call[c].stage = "reloading" /\ call[c].load = l
    /\ load[l] # Asked => load[l].version >= acted

LEMMA OfferDef ==
    /\ page = "tenantDetail" =>
         /\ \A op : Offered(op) <=> op \in Offer
         /\ \A op : Offered(op) /\ AsksAgain(op) <=> op \in Offer \cap {"review"}
    /\ \A op, other \in Offer : op = other /\ op \in {"cancel", "review"}
<1>1. page = "tenantDetail" => \A op : Offered(op) <=> op \in Offer
  BY DEF Offered, Offers, Offer
<1>2. \A op \in Offer : op \in {"cancel", "review"}
  BY DEF Offer, TenantDetail
<1>3. \A op, other \in Offer : op = other
  BY DEF Offer, TenantDetail
<1>4. page = "tenantDetail" => \A op \in {"cancel", "review"} : AsksAgain(op) <=> op = "review"
  BY DEF AsksAgain
<1> QED BY <1>1, <1>2, <1>3, <1>4

LEMMA Modes ==
    ASSUME page = "tenantDetail", OneThing
    PROVE  Acting \/ \E l \in Load : Reading(l)
<1>1. CASE Loading = {}
  BY <1>1, OfferDef DEF OneThing, Acting
<1>2. CASE Loading # {}
  <2>1. PICK l \in Loading : Loading = {l}
    BY <1>2 DEF OneThing
  <2>2. screen = "skeleton" /\ modal = None /\ \A op : ~Offered(op)
    BY <1>2 DEF OneThing, Offered
  <2>3. \A c \in Call : call[c] # None => call[c].stage = "reloading" /\ call[c].load = l
    BY <2>1, <2>2 DEF OneThing
  <2> QED BY <2>1, <2>2, <2>3 DEF OneThing, Reading, Loading
<1> QED BY <1>1, <1>2

LEMMA ActingThing ==
    ASSUME Acting', page' = "tenantDetail"
    PROVE  OneThing'
<1>1. \A op : (op \in Offer') =>
        screen' = "row" /\ shown' # None /\ op \in TenantDetail(shown'.row)
  BY DEF Offer
<1>2. modal' # None => Offered(modal)' /\ AsksAgain(modal)'
  BY <1>1 DEF Acting, Offered, Offers, AsksAgain
<1>3. \A c \in Call : (call[c] # None => Offered(call[c].op))'
  BY <1>1 DEF Acting, Offered, Offers
<1> QED BY <1>2, <1>3 DEF Acting, OneThing

LEMMA ReadingThing == ASSUME NEW l \in Load, Reading(l)' PROVE OneThing'
BY DEF Reading, OneThing

\* How this page is written.
LEMMA DetailPage ==
    ASSUME page = "tenantDetail"
    PROVE  /\ HidesFirst /\ ~HidesLate /\ ~OneFlag /\ ~FlagsOfTheCard /\ AwaitsReload
           /\ page \in Reloads /\ \A op : FlagFirst(op)
BY DEF HidesFirst, HidesLate, OneFlag, FlagsOfTheCard, AwaitsReload, Reloads, FlagFirst

\* A load begins when nothing is asked any more but what waits for it.
LEMMA BeginsReading ==
    ASSUME TypeOK, NEW l \in Load, Loading = {}, load' = [load EXCEPT ![l] = Asked],
           screen' = "skeleton", modal' = None,
           \A c, d \in Call : call'[c] # None /\ call'[d] # None => c = d,
           \A c \in Call : call'[c] # None => call'[c].stage = "reloading" /\ call'[c].load = l
    PROVE  Reading(l)'
<1>1. Loading' = {l} /\ load'[l] = Asked
  BY DesksAssumption DEF Loading, TypeOK
<1> QED BY <1>1 DEF Reading

\* Loads.
LEMMA LoadThing ==
    ASSUME TypeOK, page = "tenantDetail", OneThing, NEW l \in Load,
           \/ Reopen(l) \/ Refresh(l) \/ ReadRow(l) \/ Recheck(l) \/ Arrive(l)
           \/ LoadFails(l) \/ LoadWithoutToken(l)
    PROVE  OneThing'
<1>1. CASE Reopen(l)
  <2>1. (shown = None \/ screen = "error") /\ Loading = {}
    BY <1>1 DEF Reopen
  <2>2. modal = None /\ \A c \in Call : call[c] = None
    BY <2>1, Modes DEF Acting, Reading, Offer
  <2>3. /\ load' = [load EXCEPT ![l] = Asked] /\ screen' = "skeleton"
        /\ call' = call /\ modal' = modal
    BY <1>1, DetailPage DEF Reopen, Hide
  <2> QED BY <2>1, <2>2, <2>3, BeginsReading, ReadingThing
<1>5. CASE Refresh(l)
  BY <1>5 DEF Refresh
<1>2. CASE ReadRow(l)
  <2>1. /\ load[l] = Asked /\ load' = [load EXCEPT ![l] = Present]
        /\ UNCHANGED <<page, version, shown, seen, screen, modal, call, acted, missed>>
    BY <1>2, DetailPage DEF ReadRow
  <2>2. Reading(l)
    BY <2>1, Modes, DesksAssumption DEF Acting, Reading, Loading
  <2>3. Present # None /\ Present.version = version /\ acted <= version
    BY PresentFits, NothingAssumption DEF Present, TypeOK
  <2>4. Loading' = Loading /\ load'[l] = Present
    BY <2>1, <2>3, DesksAssumption DEF Loading, TypeOK
  <2>5. version \in Nat /\ acted \in Nat
    BY DesksAssumption DEF TypeOK
  <2>6. Reading(l)'
    BY <2>1, <2>2, <2>3, <2>4, <2>5 DEF Reading
  <2> QED BY <2>6, ReadingThing
<1>3. CASE Recheck(l)
  BY <1>3 DEF Recheck
<1>4. CASE Arrive(l) \/ LoadFails(l) \/ LoadWithoutToken(l)
  <2>1. /\ load[l] # None /\ load' = [load EXCEPT ![l] = None]
        /\ call' = Released(l) /\ UNCHANGED <<page, modal, acted>>
        /\ \/ load[l] # Asked /\ shown' = load[l]
           \/ screen' # "row"
           \/ missed'
    <3>1. CASE Arrive(l) \/ LoadFails(l)
      BY <3>1 DEF Arrive, LoadFails
    <3>2. CASE LoadWithoutToken(l)
      <4>1. missed'
        BY <3>2 DEF LoadWithoutToken
      <4> QED BY <3>2, <4>1, NothingAssumption, DesksAssumption DEF LoadWithoutToken
    <3> QED BY <1>4, <3>1, <3>2
  <2>2. Reading(l)
    BY <2>1, Modes DEF Acting, Reading, Loading
  <2>3. Loading' = {}
    BY <2>1, <2>2 DEF Reading, Loading, TypeOK
  <2>4. \A c \in Call : call'[c] = None
    BY <2>1, <2>2 DEF Reading, Released
  <2>5. modal' = None /\ (screen' = "row" /\ shown' # None => shown'.version >= acted' \/ missed')
    BY <2>1, <2>2 DEF Reading
  <2>6. Acting'
    BY <2>3, <2>4, <2>5 DEF Acting
  <2> QED BY <2>1, <2>6, ActingThing
<1> QED BY <1>1, <1>2, <1>3, <1>4, <1>5

\* Nothing to read: it stays so, and what is shown stays as recent as what was reported.
LEMMA StaysActing ==
    ASSUME page = "tenantDetail", Acting, UNCHANGED <<page, load, acted, missed>>,
           UNCHANGED shown, screen' = "error" \/ UNCHANGED screen,
           modal' # None => modal' \in Offer' \cap {"review"},
           \A c, d \in Call : call'[c] # None /\ call'[d] # None => c = d,
           \A c \in Call : call'[c] # None =>
               call'[c].stage # "reloading" /\ call'[c].op \in Offer' /\ call'[c].flag = "set"
    PROVE  OneThing'
<1>1. Acting'
  BY DEF Acting, Loading
<1> QED BY <1>1, ActingThing

LEMMA SameOffer == UNCHANGED <<shown, screen>> => Offer' = Offer
BY DEF Offer

\* Nothing happens to what the page shows and asks.
LEMMA SameThing ==
    ASSUME page = "tenantDetail", OneThing,
           UNCHANGED <<page, shown, screen, modal, load, call, acted, missed>>
    PROVE  OneThing'
<1>1. CASE Acting
  BY <1>1, SameOffer, StaysActing DEF Acting
<1>2. ASSUME NEW l \in Load, Reading(l)
      PROVE  OneThing'
  <2>1. Reading(l)'
    BY <1>2 DEF Reading, Loading
  <2> QED BY <2>1, ReadingThing
<1> QED BY <1>1, <1>2, Modes

\* Buttons.
LEMMA ButtonThing ==
    ASSUME TypeOK, page = "tenantDetail", OneThing,
           CloseModal \/ Rerender \/ \E op \in Op : OpenModal(op)
    PROVE  OneThing'
<1>1. CASE CloseModal
  <2>1. modal # None /\ modal' = None /\ UNCHANGED <<page, shown, screen, load, acted, missed>>
    BY <1>1 DEF CloseModal
  <2>2. call' = call
    BY <1>1, DetailPage DEF CloseModal, TypeOK
  <2>3. Acting
    BY <2>1, Modes DEF Reading
  <2> QED BY <2>1, <2>2, <2>3, SameOffer, StaysActing DEF Acting
<1>2. CASE Rerender
  BY <1>2, SameThing DEF Rerender
<1>3. ASSUME NEW op \in Op, OpenModal(op)
      PROVE  OneThing'
  <2>1. /\ AsksAgain(op) /\ Offered(op) /\ modal' = op
        /\ UNCHANGED <<page, shown, screen, load, call, acted, missed>>
    BY <1>3 DEF OpenModal
  <2>2. op \in Offer \cap {"review"}
    BY <2>1, OfferDef
  <2>3. Acting
    BY <2>2, Modes DEF Reading, Offer
  <2> QED BY <2>1, <2>2, <2>3, SameOffer, StaysActing DEF Acting
<1> QED BY <1>1, <1>2, <1>3

LEMMA PressThing ==
    ASSUME Types, page = "tenantDetail", OneThing, NEW c \in Call, NEW op \in Op, Press(c, op)
    PROVE  OneThing'
<1> USE DEF Types
<1>1. /\ call[c] = None /\ ~Disabled(op)
      /\ UNCHANGED <<page, row, version, clock, shown, seen, screen, modal, load, acted, missed>>
  BY DEF Press
<1>2. call' = [call EXCEPT ![c] = Pressed(op)] /\ Pressed(op) # None
  BY PressTypes, NothingAssumption
<1>3. op # None
  BY NothingAssumption
<1>4. op \in Offer /\ Acting
  <2>1. CASE AsksAgain(op)
    <3>1. modal = op
      BY <2>1 DEF Press, OnScreen
    <3> QED BY <1>3, <3>1, Modes DEF Acting, Reading
  <2>2. CASE ~AsksAgain(op)
    <3>1. op \in Offer
      BY <2>2, OfferDef DEF Press
    <3> QED BY <3>1, Modes DEF Reading, Offer
  <2> QED BY <2>1, <2>2
<1>5. \A d \in Call : call[d] = None
  BY <1>1, <1>4, OfferDef DEF Acting, Disabled
<1>6. Pressed(op).op = op /\ Pressed(op).stage = "token" /\ Pressed(op).flag = "set"
  BY DetailPage DEF Pressed
<1> HIDE DEF Pressed
<1>7. \A d \in Call : call'[d] # None => d = c /\ call'[d] = Pressed(op)
  BY <1>2, <1>5 DEF TypeOK
<1> QED BY <1>1, <1>4, <1>6, <1>7, SameOffer, StaysActing DEF Acting

\* Requests.
LEMMA RequestThing ==
    ASSUME Types, page = "tenantDetail", OneThing, NEW c \in Call,
           \/ Send(c) \/ EndsTokenless(c) \/ Served(c) \/ Fails(c) \/ Checkout(c) \/ SucceedAndPatch(c)
           \/ \E l \in Load : SucceedAndLoad(c, l)
    PROVE  OneThing'
<1> USE DEF Types
<1>1. call[c] # None /\ call[c].stage # "reloading" /\ call[c] \in Request
  BY DEF Send, EndsTokenless, Served, Fails, Checkout, SucceedAndPatch, SucceedAndLoad, Success, At, TypeOK
<1>2. Acting
  BY <1>1, Modes DEF Reading
<1>3. /\ call[c].op \in Offer /\ call[c].flag = "set" /\ Loading = {}
      /\ \A d \in Call : call[d] # None => d = c
  BY <1>1, <1>2 DEF Acting
<1>4. CASE Send(c)
  <2> DEFINE n == [call[c] EXCEPT !.stage = "sent", !.flag = "set"]
  <2>1. call' = [call EXCEPT ![c] = n]
    BY <1>3, <1>4 DEF Send, TypeOK
  <2>2. n.op = call[c].op /\ n.stage = "sent" /\ n.flag = "set"
    BY <1>1 DEF Request
  <2>3. UNCHANGED <<page, shown, screen, modal, load, acted, missed>>
    BY <1>4 DEF Send
  <2> HIDE DEF n
  <2>4. \A d \in Call : call'[d] # None => d = c /\ call'[d] = n
    BY <1>3, <2>1 DEF TypeOK
  <2> QED BY <1>2, <1>3, <2>2, <2>3, <2>4, SameOffer, StaysActing DEF Acting
<1>5. CASE Served(c)
  <2>1. PICK result \in {"ok", "refused", "REFUNDED", "RELEASED"}, v \in 0 .. MaxChanges :
          call' = [call EXCEPT ![c] = Answered(call[c], result, v)]
    BY <1>5, ServedTypes
  <2> DEFINE n == Answered(call[c], result, v)
  <2>2. n.op = call[c].op /\ n.stage = "served" /\ n.flag = "set"
    BY <1>1, <1>3 DEF Answered, Request
  <2>3. UNCHANGED <<page, shown, screen, modal, load, acted, missed>>
    BY <1>5 DEF Served
  <2>4. call' = [call EXCEPT ![c] = n]
    BY <2>1
  <2> HIDE DEF n
  <2>5. \A d \in Call : call'[d] # None => d = c /\ call'[d] = n
    BY <1>3, <2>4 DEF TypeOK
  <2> QED BY <1>2, <1>3, <2>2, <2>3, <2>5, SameOffer, StaysActing DEF Acting
<1>6. CASE Fails(c)
  <2>1. /\ \A d \in Call : call'[d] = None
        /\ UNCHANGED <<page, shown, load, acted, missed>>
    BY <1>3, <1>6 DEF Fails, Done, TypeOK
  <2>2. modal' = modal /\ screen' = IF call[c].op = "cancel" THEN "error" ELSE screen
    BY <1>6 DEF Fails, ClosesAnyway
  <2>3. modal' # None => call[c].op # "cancel" /\ modal \in Offer \cap {"review"}
    BY <1>2, <1>3, <2>2, OfferDef DEF Acting
  <2>4. modal' # None => modal' \in Offer' \cap {"review"}
    BY <2>1, <2>2, <2>3, SameOffer
  <2> QED BY <1>2, <2>1, <2>2, <2>4, StaysActing
<1>7. CASE Checkout(c)
  BY <1>3, <1>7, OfferDef DEF Checkout
<1>8. CASE SucceedAndPatch(c)
  BY <1>8, DetailPage DEF SucceedAndPatch
<1>9. ASSUME NEW l \in Load, SucceedAndLoad(c, l)
      PROVE  OneThing'
  <2> DEFINE n == [call[c] EXCEPT !.stage = "reloading", !.load = l]
  <2>1. [call EXCEPT ![c].stage = "reloading", ![c].load = l] = [call EXCEPT ![c] = n]
    BY DEF TypeOK
  <2>2. n.stage = "reloading" /\ n.load = l
    BY <1>1 DEF Request
  <2>3. /\ load' = [load EXCEPT ![l] = Asked] /\ screen' = "skeleton" /\ modal' = None
        /\ call' = [call EXCEPT ![c].stage = "reloading", ![c].load = l]
    BY <1>9, DetailPage DEF SucceedAndLoad, StartLoad, Hide
  <2> HIDE DEF n
  <2>4. \A d \in Call : call'[d] # None => d = c /\ call'[d] = n
    BY <1>3, <2>1, <2>3 DEF TypeOK
  <2> QED BY <1>3, <2>2, <2>3, <2>4, BeginsReading, ReadingThing
<1>10. CASE EndsTokenless(c)
  <2>1. /\ \A d \in Call : call'[d] = None
        /\ UNCHANGED <<page, shown, screen, modal, load, acted, missed>>
    BY <1>3, <1>10 DEF EndsTokenless, Done, ClosesAnyway, TypeOK
  <2> QED BY <1>2, <2>1, SameOffer, StaysActing DEF Acting
<1> QED BY <1>4, <1>5, <1>6, <1>7, <1>8, <1>9, <1>10

LEMMA OneThingStep ==
    ASSUME Types, OneThing, [Next]_vars
    PROVE  OneThing'
<1>1. page' = page
  BY DEF Next, vars, Reopen, Refresh, ReadRow, Recheck, Arrive, LoadFails, LoadWithoutToken, OpenModal, CloseModal, Rerender,
         Press, Send, EndsTokenless, Served, Fails, Checkout, SucceedAndPatch, SucceedAndLoad, SomebodyActs, TimePasses
<1>2. CASE page # "tenantDetail"
  BY <1>1, <1>2 DEF OneThing
<1>3. CASE page = "tenantDetail"
  <2> USE <1>3 DEF Types
  <2>1. CASE \E l \in Load :
           \/ Reopen(l) \/ Refresh(l) \/ ReadRow(l) \/ Recheck(l) \/ Arrive(l)
           \/ LoadFails(l) \/ LoadWithoutToken(l)
    BY <2>1, LoadThing
  <2>2. CASE CloseModal \/ Rerender \/ \E op \in Op : OpenModal(op)
    BY <2>2, ButtonThing
  <2>3. CASE \E c \in Call, op \in Op : Press(c, op)
    BY <2>3, PressThing
  <2>4. CASE \E c \in Call : \/ Send(c) \/ EndsTokenless(c) \/ Served(c) \/ Fails(c) \/ Checkout(c) \/ SucceedAndPatch(c)
                             \/ \E l \in Load : SucceedAndLoad(c, l)
    BY <2>4, RequestThing
  <2>5. CASE SomebodyActs \/ TimePasses \/ UNCHANGED vars
    BY <2>5, SameThing DEF SomebodyActs, TimePasses, vars
  <2> QED BY <2>1, <2>2, <2>3, <2>4, <2>5 DEF Next
<1> QED BY <1>2, <1>3

-----------------------------------------------------------------------------
(***************************************************************************)
(* The invariant and what follows from it.                                 *)
(***************************************************************************)
LEMMA StartInv == Init => IInv
<1> SUFFICES ASSUME Init PROVE IInv
  OBVIOUS
<1>1. Types
  BY TypesInit
<1>2. RefundFounded
  BY DEF Init, RefundFounded
<1>3. OneThing
  <2>1. PICK l \in Load : load = [m \in Load |-> IF m = l THEN Asked ELSE None]
    BY DEF Init
  <2>2. Loading = {l}
    BY <2>1, DesksAssumption DEF Loading
  <2>3. screen = "skeleton" /\ modal = None /\ load[l] = Asked /\ \A c \in Call : call[c] = None
    BY <2>1 DEF Init
  <2> QED BY <2>2, <2>3 DEF OneThing
<1> QED BY <1>1, <1>2, <1>3 DEF IInv, Types

LEMMA StepInv ==
    ASSUME IInv, [Next]_vars
    PROVE  IInv'
<1>1. Types /\ RefundFounded /\ OneThing
  BY DEF IInv, Types
<1>2. Types' /\ RefundFounded' /\ OneThing'
  BY <1>1, TypesStep, RefundStep, OneThingStep
<1> QED BY <1>2 DEF IInv, Types

\* Whatever is pressed, whoever else acts on the row and however the loads overtake each
\* other, what a page shows and asks stays of its kind, a refund announced is founded on the
\* clock, and the tenant's page of a booking does one thing at a time.
THEOREM DesksInvariant == Spec => []IInv
<1>1. Init => IInv
  BY StartInv
<1>2. IInv /\ [Next]_vars => IInv'
  BY StepInv
<1> QED BY <1>1, <1>2, PTL DEF Spec

\* The services accept what the tenant's list offers for a row of the right kind.
LEMMA TenantListAccepted ==
    ASSUME row \in BookingRow, StatusOfKind, NEW op \in TenantList(row, clock)
    PROVE  ServeBooking(op) # {}
<1>1. row.kind \in {"stay", "lease"}
  BY Rows
<1>2. CASE op = "pay"
  <2>1. row.status \in {"PENDING", "APPROVED"}
    BY <1>2 DEF TenantList
  <2>2. InitiatePayment # {}
    BY <1>1, <2>1 DEF InitiatePayment, Lease, StatusOfKind
  <2> QED BY <1>2, <2>2 DEF ServeBooking
<1>3. CASE op \in {"cancel", "cancelHeld"}
  <2>1. MayCancel
    BY <1>3 DEF TenantList, MayCancel
  <2> QED BY <1>3, <2>1 DEF ServeBooking, CancelByTenant, If
<1>4. CASE op = "terminate"
  <2>1. row.status = "ACTIVE"
    BY <1>4 DEF TenantList
  <2> QED BY <1>4, <2>1 DEF ServeBooking, If, Lease, StatusOfKind
<1>5. CASE op = "dispute"
  <2>1. row.status = "CONFIRMED" /\ row.escrow = "HELD" /\ FirstDay(clock)
    BY <1>5 DEF TenantList
  <2> QED BY <1>5, <2>1 DEF ServeBooking, ReportDispute, If
<1>6. CASE op = "review"
  <2>1. row.status = "COMPLETED" /\ ~row.rated
    BY <1>6 DEF TenantList
  <2> QED BY <1>6, <2>1 DEF ServeBooking, LeaveReview, If
<1> QED BY <1>2, <1>3, <1>4, <1>5, <1>6 DEF TenantList

LEMMA MissionAccepted ==
    ASSUME NEW op \in MissionCard(row, clock)
    PROVE  ServeVisit(op) # {}
<1>1. op \in {"start", "decline", "certify"} /\ row.agent = "me"
  BY DEF MissionCard
<1>2. CASE op = "start"
  BY <1>1, <1>2 DEF MissionCard, ServeVisit, If
<1>3. CASE op = "decline"
  BY <1>1, <1>3 DEF MissionCard, ServeVisit, If
<1>4. CASE op = "certify"
  BY <1>1, <1>4 DEF MissionCard, ServeVisit, If
<1> QED BY <1>1, <1>2, <1>3, <1>4

LEMMA OfficeAccepted ==
    ASSUME row \in VisitRow, NEW op \in OfficeCard(row)
    PROVE  ServeVisit(op) # {}
<1>1. op \in OfficeOp /\ row.status \in VisitStatus
  BY Rows DEF OfficeCard, OfficeOp
<1>2. CASE op = "assign"
  <2>1. [row EXCEPT !.status = "SCHEDULED", !.agent = "me"] \in ServeVisit(op)
    BY <1>2 DEF ServeVisit
  <2> QED BY <2>1
<1>3. CASE op = "validate"
  BY <1>3 DEF OfficeCard, ServeVisit, If
<1>4. CASE op \in {"approveDecline", "refuseDecline"}
  BY <1>4 DEF OfficeCard, ServeVisit, If
<1>5. CASE op = "dismiss"
  <2>1. row.status \in {"REQUESTED", "SCHEDULED", "IN_PROGRESS"}
    BY <1>1, <1>5 DEF OfficeCard, VisitStatus
  <2> QED BY <1>5, <2>1 DEF ServeVisit, If
<1> QED BY <1>1, <1>2, <1>3, <1>4, <1>5 DEF OfficeOp

\* A button of the tenant's list, of the pages of the agents and of the office, or of the
\* owner's list of visits, pressed on a page that is up to date, is not refused by
\* bookings.service, payments.service, reviews.service or verifications.service.
THEOREM OffersAccepted == Spec => []OfferedIsAccepted
<1>1. IInv => OfferedIsAccepted
  <2> SUFFICES ASSUME IInv, NEW op \in Offers(row, clock),
                      page \in {"tenantList", "agentList", "agentDetail", "office", "owner"}
               PROVE  Serve(op) # {}
    BY DEF OfferedIsAccepted
  <2>1. TypeOK /\ StatusOfKind
    BY DEF IInv
  <2>2. CASE page = "tenantList"
    <3>1. row \in BookingRow /\ row.kind # "visit"
      BY <2>1, <2>2, Rows DEF TypeOK, VisitPage
    <3>2. op \in TenantList(row, clock)
      BY <2>2 DEF Offers
    <3> QED BY <2>1, <3>1, <3>2, TenantListAccepted DEF Serve
  <2>3. CASE page # "tenantList"
    <3>1. row \in VisitRow /\ row.kind = "visit"
      BY <2>1, <2>3, Rows DEF TypeOK, VisitPage
    <3>2. CASE page \in {"agentList", "agentDetail"}
      BY <3>1, <3>2, MissionAccepted DEF Offers, Serve
    <3>3. CASE page = "office"
      BY <3>1, <3>3, OfficeAccepted DEF Offers, Serve
    <3>4. CASE page = "owner"
      BY <3>1, <3>4 DEF Offers, Serve, VerifCard, ServeVisit, If
    <3> QED BY <2>3, <3>2, <3>3, <3>4
  <2> QED BY <2>2, <2>3
<1> QED BY <1>1, DesksInvariant, PTL

\* The refund that the tenant's modal computes is the one that cancel decides, whenever both
\* look at the same side of the limit of seven days.
THEOREM RefundIsAnnounced == Spec => []RefundAsAnnounced
<1>1. IInv => RefundAsAnnounced
  <2> SUFFICES ASSUME IInv, NEW c \in Call, call[c] # None, call[c].announced # None,
                      call[c].result \in {"REFUNDED", "RELEASED"}
               PROVE  \/ call[c].result = call[c].announced
                      \/ call[c].announced = "REFUNDED" /\ ~Early(clock)
    BY DEF RefundAsAnnounced
  <2>1. call[c].announced \in {"REFUNDED", "RELEASED"}
    BY RequestForms DEF IInv, TypeOK
  <2> QED BY <2>1 DEF IInv, RefundFounded
<1> QED BY <1>1, DesksInvariant, PTL

\* The tenant's page of a booking, once it has nothing to read and nothing under way, shows
\* a row at least as recent as the last act it reported, an error, or nothing, unless the
\* load that followed found no token.
THEOREM OwnActShown == Spec => []OwnActIsShown
<1>1. IInv => OwnActIsShown
  BY DEF IInv, OneThing, OwnActIsShown
<1> QED BY <1>1, DesksInvariant, PTL

-----------------------------------------------------------------------------
(***************************************************************************)
(* Alerts.  What an act starts: notices with typed, finite rows, that no   *)
(* person finds twice, and that leave out nobody the act concerns.         *)
(***************************************************************************)
Reaches(a, p) ==
  \/ \E n \in Notices(a) : \E r \in n.rows : r[1] = p
  \/ a = "create" /\ \E n \in Notices(a) : \E i \in DOMAIN n.mails : n.mails[i] = p

WellStarted(a) ==
  /\ \A n \in Notices(a) : n \in Todo /\ IsFiniteSet(n.rows) /\ (n.awaited => a # "create")
  /\ \A n, m \in Notices(a) : n # m => n.rows \cap m.rows = {}
  /\ \A n \in Notices(a) : \A r \in n.rows : r[1] \in Admins => WaitsAs(a) \subseteq Recounted(r[2])
  /\ \A p \in Notified(a) : Reaches(a, p)

LEMMA Lists ==
    /\ <<>> \in Seq(People)
    /\ \A p \in People : <<p>> \in Seq(People) /\ DOMAIN <<p>> = {1} /\ <<p>>[1] = p
    /\ \A p, q \in People : <<p, q>> \in Seq(People) /\ DOMAIN <<p, q>> = 1..2
<1>1. <<>> \in Seq(People)
    OBVIOUS
<1>2. ASSUME NEW p \in People PROVE <<p>> \in Seq(People) /\ DOMAIN <<p>> = {1} /\ <<p>>[1] = p
    <2>1. <<p>> \in Seq(People)
        OBVIOUS
    <2>2. DOMAIN <<p>> = 1..1
        OBVIOUS
    <2>3. 1..1 = {1}
        OBVIOUS
    <2> QED
        BY <2>1, <2>2, <2>3
<1>3. ASSUME NEW p \in People, NEW q \in People PROVE <<p, q>> \in Seq(People) /\ DOMAIN <<p, q>> = 1..2
    <2>1. <<p, q>> \in Seq(People)
        OBVIOUS
    <2> QED
        BY <2>1
<1> QED
    BY <1>1, <1>2, <1>3

LEMMA RowsAreFinite ==
    ASSUME NEW people \in SUBSET People, NEW type \in RowTypes
    PROVE  /\ RowsFor(people, type) \in SUBSET (People \X RowTypes)
           /\ IsFiniteSet(RowsFor(people, type))
           /\ \A r \in RowsFor(people, type) : r[1] \in people /\ r[2] = type
           /\ \A p \in people : \E r \in RowsFor(people, type) : r[1] = p
<1>1. IsFiniteSet(People)
    <2>1. IsFiniteSet({"tenant"})
        BY FS_Singleton
    <2>2. IsFiniteSet({"tenant"} \cup {"landlord"})
        BY <2>1, FS_AddElement
    <2>3. IsFiniteSet(({"tenant"} \cup {"landlord"}) \cup {"agency"})
        BY <2>2, FS_AddElement
    <2>4. IsFiniteSet((({"tenant"} \cup {"landlord"}) \cup {"agency"}) \cup {"agent"})
        BY <2>3, FS_AddElement
    <2>5. IsFiniteSet(((({"tenant"} \cup {"landlord"}) \cup {"agency"}) \cup {"agent"}) \cup {"admin"})
        BY <2>4, FS_AddElement
    <2>6. IsFiniteSet((((({"tenant"} \cup {"landlord"}) \cup {"agency"}) \cup {"agent"}) \cup {"admin"}) \cup {"deputy"})
        BY <2>5, FS_AddElement
    <2>7. People = (((({"tenant"} \cup {"landlord"}) \cup {"agency"}) \cup {"agent"}) \cup {"admin"}) \cup {"deputy"}
        BY DEF People
    <2> QED
        BY <2>6, <2>7
<1>2. IsFiniteSet(people)
    BY <1>1, FS_Subset
<1>3. IsFiniteSet({type})
    BY FS_Singleton
<1>4. IsFiniteSet(people \X {type})
    BY <1>2, <1>3, FS_Product
<1>5. ASSUME NEW p \in people PROVE \E r \in RowsFor(people, type) : r[1] = p
    <2>1. <<p, type>> \in RowsFor(people, type) /\ <<p, type>>[1] = p
        BY DEF RowsFor
    <2> QED
        BY <2>1
<1> QED
    BY <1>4, <1>5 DEF RowsFor

LEMMA NoticeFields ==
    ASSUME NEW mails \in Seq(People), NEW rows \in SUBSET (People \X RowTypes)
    PROVE  /\ Notice(mails, rows) \in Todo /\ Notice(mails, rows).rows = rows
           /\ Notice(mails, rows).mails = mails /\ ~Notice(mails, rows).awaited
           /\ Awaited(Notice(mails, rows)) \in Todo /\ Awaited(Notice(mails, rows)).rows = rows
           /\ [Awaited(Notice(mails, rows)) EXCEPT !.bulk = TRUE] \in Todo
           /\ [Awaited(Notice(mails, rows)) EXCEPT !.bulk = TRUE].rows = rows
           /\ [Awaited(Notice(mails, rows)) EXCEPT !.rowsFirst = TRUE] \in Todo
           /\ [Awaited(Notice(mails, rows)) EXCEPT !.rowsFirst = TRUE].rows = rows
BY DEF Notice, Awaited, Todo

\* An act with one notice, the same for all whom it reaches.
LEMMA OneNotice ==
    ASSUME NEW a \in Acts, NEW people \in SUBSET People, NEW type \in RowTypes, NEW n \in Todo,
           Notices(a) = {n}, n.rows = RowsFor(people, type), n.awaited => a # "create",
           Notified(a) \subseteq people,
           people \cap Admins # {} => WaitsAs(a) \subseteq Recounted(type)
    PROVE  WellStarted(a)
<1>1. /\ IsFiniteSet(n.rows) /\ \A r \in n.rows : r[1] \in people /\ r[2] = type
      /\ \A p \in people : \E r \in n.rows : r[1] = p
    BY RowsAreFinite
<1>2. ASSUME NEW r \in n.rows, r[1] \in Admins PROVE WaitsAs(a) \subseteq Recounted(r[2])
    BY <1>1, <1>2
<1>3. ASSUME NEW p \in Notified(a) PROVE Reaches(a, p)
    BY <1>1, <1>3 DEF Reaches
<1> QED
    BY <1>1, <1>2, <1>3 DEF WellStarted

LEMMA PlainNotice ==
    ASSUME NEW a \in Acts, NEW mails \in Seq(People), NEW people \in SUBSET People, NEW type \in RowTypes,
           Notices(a) = {Notice(mails, RowsFor(people, type))}, Notified(a) \subseteq people,
           people \cap Admins # {} => WaitsAs(a) \subseteq Recounted(type)
    PROVE  WellStarted(a)
<1> DEFINE n == Notice(mails, RowsFor(people, type))
<1> DEFINE rows == RowsFor(people, type)
<1>0. rows \in SUBSET (People \X RowTypes)
    BY RowsAreFinite
<1> HIDE DEF n, rows
<1>1. n \in Todo /\ n.rows = rows /\ ~n.awaited
    <2>1. n = Notice(mails, rows)
        BY DEF n, rows
    <2> QED
        BY <1>0, <2>1, NoticeFields
<1>2. Notices(a) = {n}
    BY DEF n
<1> USE DEF rows
<1> QED
    BY <1>1, <1>2, OneNotice

LEMMA Strings ==
    /\ Pair = {"tenant", "landlord"} /\ Pair \subseteq People /\ Admins \subseteq People
    /\ {"tenant"} \subseteq People /\ {"landlord"} \subseteq People /\ {"agent"} \subseteq People
    /\ {"agency"} \subseteq People
    /\ {"tenant"} \cap Admins = {} /\ {"landlord"} \cap Admins = {} /\ {"agent"} \cap Admins = {}
    /\ {"agency"} \cap Admins = {} /\ Pair \cap Admins = {}
BY DEF Pair, People, Admins

\* The notices of bookings and leases with a row for the tenant.
LEMMA TenantNotices ==
    \A a \in {"confirm", "cancel", "refuse", "approve", "reject", "contract"} : WellStarted(a)
<1>1. WellStarted("confirm")
    <2> DEFINE mails == <<"tenant">>  people == {"tenant"}  type == "BOOKING_CONFIRMED"
    <2>1. Notices("confirm") = {Notice(mails, RowsFor(people, type))}
        <3>1. Given({"tenant"}, RowsFor(people, type)) = RowsFor(people, type)
            BY DEF Given, RowsFor, Pair
        <3>2. Notices("confirm") = {BookingConfirmed({"tenant"})}
            BY DEF Notices, BookingNotices, VisitNotices, AdminNotices
        <3> QED
            BY <3>1, <3>2 DEF BookingConfirmed, Pair
    <2>2. mails \in Seq(People) /\ people \in SUBSET People /\ type \in RowTypes /\ "confirm" \in Acts
        BY Lists DEF RowTypes, People, Pair, Admins, Acts
    <2>3. Notified("confirm") \subseteq people
        BY DEF Notified, Concerned, LeftOut, Pair, Admins
    <2>4. people \cap Admins # {} => WaitsAs("confirm") \subseteq Recounted(type)
        BY DEF Admins, WaitsAs, Recounted, Pair
    <2> HIDE DEF mails, people, type
    <2> QED
        BY <2>1, <2>2, <2>3, <2>4, PlainNotice
<1>2. WellStarted("cancel")
    <2> DEFINE mails == <<"tenant">>  people == {"tenant"}  type == "BOOKING_CANCELLED"
    <2>1. Notices("cancel") = {Notice(mails, RowsFor(people, type))}
        <3>1. Given({"tenant"}, RowsFor({"tenant", "landlord"}, type)) = RowsFor(people, type)
            BY DEF Given, RowsFor
        <3>2. Notices("cancel") = {BookingCancelled({"tenant"})}
            BY DEF Notices, BookingNotices, VisitNotices, AdminNotices
        <3> QED
            BY <3>1, <3>2 DEF BookingCancelled, Pair
    <2>2. mails \in Seq(People) /\ people \in SUBSET People /\ type \in RowTypes /\ "cancel" \in Acts
        BY Lists DEF RowTypes, People, Pair, Admins, Acts
    <2>3. Notified("cancel") \subseteq people
        BY DEF Notified, Concerned, LeftOut, Pair, Admins
    <2>4. people \cap Admins # {} => WaitsAs("cancel") \subseteq Recounted(type)
        BY DEF Admins, WaitsAs, Recounted, Pair
    <2> HIDE DEF mails, people, type
    <2> QED
        BY <2>1, <2>2, <2>3, <2>4, PlainNotice
<1>3. WellStarted("approve")
    <2> DEFINE mails == <<"tenant">>  people == {"tenant"}  type == "MONTHLY_REQUEST_APPROVED"
    <2>1. Notices("approve") = {Notice(mails, RowsFor(people, type))}
        <3>1. Given(Pair, RowsFor(people, type)) = RowsFor(people, type)
            BY DEF Given, RowsFor, Pair
        <3>2. Notices("approve") = {MonthlyRequestApproved(Pair)}
            BY DEF Notices, BookingNotices, VisitNotices, AdminNotices
        <3> QED
            BY <3>1, <3>2 DEF MonthlyRequestApproved, Pair
    <2>2. mails \in Seq(People) /\ people \in SUBSET People /\ type \in RowTypes /\ "approve" \in Acts
        BY Lists DEF RowTypes, People, Pair, Admins, Acts
    <2>3. Notified("approve") \subseteq people
        BY DEF Notified, Concerned, LeftOut, Pair, Admins
    <2>4. people \cap Admins # {} => WaitsAs("approve") \subseteq Recounted(type)
        BY DEF Admins, WaitsAs, Recounted, Pair
    <2> HIDE DEF mails, people, type
    <2> QED
        BY <2>1, <2>2, <2>3, <2>4, PlainNotice
<1>4. WellStarted("reject")
    <2> DEFINE mails == <<"tenant">>  people == {"tenant"}  type == "MONTHLY_REQUEST_REJECTED"
    <2>1. Notices("reject") = {Notice(mails, RowsFor(people, type))}
        <3>1. Given(Pair, RowsFor(people, type)) = RowsFor(people, type)
            BY DEF Given, RowsFor, Pair
        <3>2. Notices("reject") = {MonthlyRequestRejected(Pair)}
            BY DEF Notices, BookingNotices, VisitNotices, AdminNotices
        <3> QED
            BY <3>1, <3>2 DEF MonthlyRequestRejected, Pair
    <2>2. mails \in Seq(People) /\ people \in SUBSET People /\ type \in RowTypes /\ "reject" \in Acts
        BY Lists DEF RowTypes, People, Pair, Admins, Acts
    <2>3. Notified("reject") \subseteq people
        BY DEF Notified, Concerned, LeftOut, Pair, Admins
    <2>4. people \cap Admins # {} => WaitsAs("reject") \subseteq Recounted(type)
        BY DEF Admins, WaitsAs, Recounted, Pair
    <2> HIDE DEF mails, people, type
    <2> QED
        BY <2>1, <2>2, <2>3, <2>4, PlainNotice
<1>5. WellStarted("contract")
    <2> DEFINE mails == <<"tenant">>  people == {"tenant"}  type == "CONTRACT_READY"
    <2>1. Notices("contract") = {Notice(mails, RowsFor(people, type))}
        <3>1. Given(Pair, RowsFor(people, type)) = RowsFor(people, type)
            BY DEF Given, RowsFor, Pair
        <3>2. Notices("contract") = {ContractReady(Pair)}
            BY DEF Notices, BookingNotices, VisitNotices, AdminNotices
        <3> QED
            BY <3>1, <3>2 DEF ContractReady, Pair
    <2>2. mails \in Seq(People) /\ people \in SUBSET People /\ type \in RowTypes /\ "contract" \in Acts
        BY Lists DEF RowTypes, People, Pair, Admins, Acts
    <2>3. Notified("contract") \subseteq people
        BY DEF Notified, Concerned, LeftOut, Pair, Admins
    <2>4. people \cap Admins # {} => WaitsAs("contract") \subseteq Recounted(type)
        BY DEF Admins, WaitsAs, Recounted, Pair
    <2> HIDE DEF mails, people, type
    <2> QED
        BY <2>1, <2>2, <2>3, <2>4, PlainNotice
<1>6. WellStarted("refuse")
    <2> DEFINE mails == <<"tenant">>  people == {"tenant"}  type == "BOOKING_CANCELLED"
    <2>1. Notices("refuse") = {Notice(mails, RowsFor(people, type))}
        <3>1. Given({"tenant"}, RowsFor({"tenant", "landlord"}, type)) = RowsFor(people, type)
            BY DEF Given, RowsFor
        <3>2. Notices("refuse") = {BookingCancelled({"tenant"})}
            BY DEF Notices, BookingNotices, VisitNotices, AdminNotices
        <3> QED
            BY <3>1, <3>2 DEF BookingCancelled, Pair
    <2>2. mails \in Seq(People) /\ people \in SUBSET People /\ type \in RowTypes /\ "refuse" \in Acts
        BY Lists DEF RowTypes, People, Pair, Admins, Acts
    <2>3. Notified("refuse") \subseteq people
        BY DEF Notified, Concerned, LeftOut, Pair, Admins
    <2>4. people \cap Admins # {} => WaitsAs("refuse") \subseteq Recounted(type)
        BY DEF Admins, WaitsAs, Recounted, Pair
    <2> HIDE DEF mails, people, type
    <2> QED
        BY <2>1, <2>2, <2>3, <2>4, PlainNotice
<1> QED
    BY <1>1, <1>2, <1>3, <1>4, <1>5, <1>6

\* Those with a row for the landlord, or for both.
LEMMA LandlordNotices ==
    \A a \in {"request", "terminate", "review"} : WellStarted(a)
<1>1. WellStarted("request")
    <2> DEFINE mails == <<"landlord">>  people == {"landlord"}  type == "MONTHLY_REQUEST_CREATED"
    <2>1. Notices("request") = {Notice(mails, RowsFor(people, type))}
        <3>1. Given(Pair, RowsFor(people, type)) = RowsFor(people, type)
            BY DEF Given, RowsFor, Pair
        <3>2. Notices("request") = {MonthlyRequestCreated(Pair)}
            BY DEF Notices, BookingNotices, VisitNotices, AdminNotices
        <3> QED
            BY <3>1, <3>2 DEF MonthlyRequestCreated, Pair
    <2>2. mails \in Seq(People) /\ people \in SUBSET People /\ type \in RowTypes /\ "request" \in Acts
        BY Lists DEF RowTypes, People, Pair, Admins, Acts
    <2>3. Notified("request") \subseteq people
        BY DEF Notified, Concerned, LeftOut, Pair, Admins
    <2>4. people \cap Admins # {} => WaitsAs("request") \subseteq Recounted(type)
        BY DEF Admins, WaitsAs, Recounted, Pair
    <2> HIDE DEF mails, people, type
    <2> QED
        BY <2>1, <2>2, <2>3, <2>4, PlainNotice
<1>2. WellStarted("terminate")
    <2> DEFINE mails == <<"tenant", "landlord">>  people == Pair  type == "LEASE_TERMINATED"
    <2>1. Notices("terminate") = {Notice(mails, RowsFor(people, type))}
        <3>1. Given(Pair, RowsFor(people, type)) = RowsFor(people, type)
            BY DEF Given, RowsFor, Pair
        <3>2. Notices("terminate") = {LeaseTerminated(Pair)}
            BY DEF Notices, BookingNotices, VisitNotices, AdminNotices
        <3> QED
            BY <3>1, <3>2 DEF LeaseTerminated, Pair
    <2>2. mails \in Seq(People) /\ people \in SUBSET People /\ type \in RowTypes /\ "terminate" \in Acts
        BY Lists DEF RowTypes, People, Pair, Admins, Acts
    <2>3. Notified("terminate") \subseteq people
        BY DEF Notified, Concerned, LeftOut, Pair, Admins
    <2>4. people \cap Admins # {} => WaitsAs("terminate") \subseteq Recounted(type)
        BY DEF Admins, WaitsAs, Recounted, Pair
    <2> HIDE DEF mails, people, type
    <2> QED
        BY <2>1, <2>2, <2>3, <2>4, PlainNotice
<1>3. WellStarted("review")
    <2> DEFINE mails == <<>>  people == {"landlord"}  type == "REVIEW_RECEIVED"
    <2>1. Notices("review") = {Notice(mails, RowsFor(people, type))}
        BY DEF Notices, BookingNotices, VisitNotices, AdminNotices, ReviewReceived
    <2>2. mails \in Seq(People) /\ people \in SUBSET People /\ type \in RowTypes /\ "review" \in Acts
        BY Lists DEF RowTypes, People, Pair, Admins, Acts
    <2>3. Notified("review") \subseteq people
        BY DEF Notified, Concerned, LeftOut, Pair, Admins
    <2>4. people \cap Admins # {} => WaitsAs("review") \subseteq Recounted(type)
        BY DEF Admins, WaitsAs, Recounted, Pair
    <2> HIDE DEF mails, people, type
    <2> QED
        BY <2>1, <2>2, <2>3, <2>4, PlainNotice
<1> QED
    BY <1>1, <1>2, <1>3

\* Those of a visit, with a row for the landlord.
LEMMA VisitsNotices ==
    \A a \in {"start", "complete", "validate", "approveDecline"} : WellStarted(a)
<1>1. WellStarted("start")
    <2> DEFINE mails == <<>>  people == {"landlord"}  type == "VERIF_IN_PROGRESS"
    <2>1. Notices("start") = {Notice(mails, RowsFor(people, type))}
        BY DEF Notices, BookingNotices, VisitNotices, AdminNotices, VerifInProgress
    <2>2. mails \in Seq(People) /\ people \in SUBSET People /\ type \in RowTypes /\ "start" \in Acts
        BY Lists DEF RowTypes, People, Pair, Admins, Acts
    <2>3. Notified("start") \subseteq people
        BY DEF Notified, Concerned, LeftOut, Pair, Admins
    <2>4. people \cap Admins # {} => WaitsAs("start") \subseteq Recounted(type)
        BY DEF Admins, WaitsAs, Recounted, Pair
    <2> HIDE DEF mails, people, type
    <2> QED
        BY <2>1, <2>2, <2>3, <2>4, PlainNotice
<1>2. WellStarted("complete")
    <2> DEFINE mails == <<>>  people == {"landlord"}  type == "VERIF_DONE"
    <2>1. Notices("complete") = {Notice(mails, RowsFor(people, type))}
        BY DEF Notices, BookingNotices, VisitNotices, AdminNotices, VerifDone
    <2>2. mails \in Seq(People) /\ people \in SUBSET People /\ type \in RowTypes /\ "complete" \in Acts
        BY Lists DEF RowTypes, People, Pair, Admins, Acts
    <2>3. Notified("complete") \subseteq people
        BY DEF Notified, Concerned, LeftOut, Pair, Admins
    <2>4. people \cap Admins # {} => WaitsAs("complete") \subseteq Recounted(type)
        BY DEF Admins, WaitsAs, Recounted, Pair
    <2> HIDE DEF mails, people, type
    <2> QED
        BY <2>1, <2>2, <2>3, <2>4, PlainNotice
<1>3. WellStarted("validate")
    <2> DEFINE mails == <<>>  people == {"landlord"}  type == "VERIF_VALIDATED"
    <2>1. Notices("validate") = {Notice(mails, RowsFor(people, type))}
        BY DEF Notices, BookingNotices, VisitNotices, AdminNotices, VerifValidated
    <2>2. mails \in Seq(People) /\ people \in SUBSET People /\ type \in RowTypes /\ "validate" \in Acts
        BY Lists DEF RowTypes, People, Pair, Admins, Acts
    <2>3. Notified("validate") \subseteq people
        BY DEF Notified, Concerned, LeftOut, Pair, Admins
    <2>4. people \cap Admins # {} => WaitsAs("validate") \subseteq Recounted(type)
        BY DEF Admins, WaitsAs, Recounted, Pair
    <2> HIDE DEF mails, people, type
    <2> QED
        BY <2>1, <2>2, <2>3, <2>4, PlainNotice
<1>4. WellStarted("approveDecline")
    <2> DEFINE mails == <<>>  people == {"landlord"}  type == "VERIF_DECLINED"
    <2>1. Notices("approveDecline") = {Notice(mails, RowsFor(people, type))}
        BY DEF Notices, BookingNotices, VisitNotices, AdminNotices, VerifDeclined
    <2>2. mails \in Seq(People) /\ people \in SUBSET People /\ type \in RowTypes /\ "approveDecline" \in Acts
        BY Lists DEF RowTypes, People, Pair, Admins, Acts
    <2>3. Notified("approveDecline") \subseteq people
        BY DEF Notified, Concerned, LeftOut, Pair, Admins
    <2>4. people \cap Admins # {} => WaitsAs("approveDecline") \subseteq Recounted(type)
        BY DEF Admins, WaitsAs, Recounted, Pair
    <2> HIDE DEF mails, people, type
    <2> QED
        BY <2>1, <2>2, <2>3, <2>4, PlainNotice
<1> QED
    BY <1>1, <1>2, <1>3, <1>4

\* Those of the administrators, whose counters they make the tab ask for again.
LEMMA AdminsNotices ==
    \A a \in {"askVisit", "decline", "report", "filtered"} : WellStarted(a)
<1>1. WellStarted("askVisit")
    <2> DEFINE mails == <<>>  people == Admins  type == "VERIF_REQUESTED"
    <2>1. Notices("askVisit") = {Notice(mails, RowsFor(people, type))}
        BY DEF Notices, BookingNotices, VisitNotices, AdminNotices, AdminNewVerification
    <2>2. mails \in Seq(People) /\ people \in SUBSET People /\ type \in RowTypes /\ "askVisit" \in Acts
        BY Lists DEF RowTypes, People, Pair, Admins, Acts
    <2>3. Notified("askVisit") \subseteq people
        BY DEF Notified, Concerned, LeftOut, Pair, Admins
    <2>4. people \cap Admins # {} => WaitsAs("askVisit") \subseteq Recounted(type)
        BY DEF Admins, WaitsAs, Recounted, Pair
    <2> HIDE DEF mails, people, type
    <2> QED
        BY <2>1, <2>2, <2>3, <2>4, PlainNotice
<1>2. WellStarted("decline")
    <2> DEFINE mails == <<>>  people == Admins  type == "VERIF_DECLINE_REQUEST"
    <2>1. Notices("decline") = {Notice(mails, RowsFor(people, type))}
        BY DEF Notices, BookingNotices, VisitNotices, AdminNotices, AdminDeclineRequest
    <2>2. mails \in Seq(People) /\ people \in SUBSET People /\ type \in RowTypes /\ "decline" \in Acts
        BY Lists DEF RowTypes, People, Pair, Admins, Acts
    <2>3. Notified("decline") \subseteq people
        BY DEF Notified, Concerned, LeftOut, Pair, Admins
    <2>4. people \cap Admins # {} => WaitsAs("decline") \subseteq Recounted(type)
        BY DEF Admins, WaitsAs, Recounted, Pair
    <2> HIDE DEF mails, people, type
    <2> QED
        BY <2>1, <2>2, <2>3, <2>4, PlainNotice
<1>3. WellStarted("report")
    <2> DEFINE mails == <<>>  people == Admins  type == "LISTING_REPORTED"
    <2>1. Notices("report") = {Notice(mails, RowsFor(people, type))}
        BY DEF Notices, BookingNotices, VisitNotices, AdminNotices, AdminReport
    <2>2. mails \in Seq(People) /\ people \in SUBSET People /\ type \in RowTypes /\ "report" \in Acts
        BY Lists DEF RowTypes, People, Pair, Admins, Acts
    <2>3. Notified("report") \subseteq people
        BY DEF Notified, Concerned, LeftOut, Pair, Admins
    <2>4. people \cap Admins # {} => WaitsAs("report") \subseteq Recounted(type)
        BY DEF Admins, WaitsAs, Recounted, Pair
    <2> HIDE DEF mails, people, type
    <2> QED
        BY <2>1, <2>2, <2>3, <2>4, PlainNotice
<1>4. WellStarted("filtered")
    <2> DEFINE mails == <<>>  people == Admins  type == "CONTACT_FILTER_ALERT"
    <2>1. Notices("filtered") = {Notice(mails, RowsFor(people, type))}
        BY DEF Notices, BookingNotices, VisitNotices, AdminNotices, ContactFilterAlert
    <2>2. mails \in Seq(People) /\ people \in SUBSET People /\ type \in RowTypes /\ "filtered" \in Acts
        BY Lists DEF RowTypes, People, Pair, Admins, Acts
    <2>3. Notified("filtered") \subseteq people
        BY DEF Notified, Concerned, LeftOut, Pair, Admins
    <2>4. people \cap Admins # {} => WaitsAs("filtered") \subseteq Recounted(type)
        BY DEF Admins, WaitsAs, Recounted, Pair
    <2> HIDE DEF mails, people, type
    <2> QED
        BY <2>1, <2>2, <2>3, <2>4, PlainNotice
<1> QED
    BY <1>1, <1>2, <1>3, <1>4

\* Those whose rows are awaited.
LEMMA AwaitedNotices == \A a \in {"dispute", "resolve", "broadcast"} : WellStarted(a)
<1>1. WellStarted("dispute")
    <2> DEFINE mails == <<>>  people == {"landlord"} \cup Admins  type == "BOOKING_DISPUTED"  n == Awaited(Notice(mails, RowsFor(people, type)))
    <2>1. Notices("dispute") = {n}
        BY DEF Notices, BookingNotices, VisitNotices, AdminNotices, DisputeReported
    <2>2. mails \in Seq(People) /\ people \in SUBSET People /\ type \in RowTypes /\ "dispute" \in Acts /\ "dispute" # "create"
        BY Lists DEF RowTypes, People, Pair, Admins, Acts
    <2>3. Notified("dispute") \subseteq people
        BY DEF Notified, Concerned, LeftOut, Pair, Admins
    <2>4. people \cap Admins # {} => WaitsAs("dispute") \subseteq Recounted(type)
        BY DEF Admins, WaitsAs, Recounted, Pair
    <2> HIDE DEF mails, people, type
    <2>5. RowsFor(people, type) \in SUBSET (People \X RowTypes)
        BY <2>2, RowsAreFinite
    <2>6. n \in Todo /\ n.rows = RowsFor(people, type)
        BY <2>2, <2>5, NoticeFields
    <2> HIDE DEF n
    <2> QED
        BY <2>1, <2>2, <2>3, <2>4, <2>6, OneNotice
<1>2. WellStarted("resolve")
    <2> DEFINE mails == <<>>  people == {"tenant", "landlord"}  type == "DISPUTE_RESOLVED"  n == Awaited(Notice(mails, RowsFor(people, type)))
    <2>1. Notices("resolve") = {n}
        BY DEF Notices, BookingNotices, VisitNotices, AdminNotices, DisputeResolved
    <2>2. mails \in Seq(People) /\ people \in SUBSET People /\ type \in RowTypes /\ "resolve" \in Acts /\ "resolve" # "create"
        BY Lists DEF RowTypes, People, Pair, Admins, Acts
    <2>3. Notified("resolve") \subseteq people
        BY DEF Notified, Concerned, LeftOut, Pair, Admins
    <2>4. people \cap Admins # {} => WaitsAs("resolve") \subseteq Recounted(type)
        BY DEF Admins, WaitsAs, Recounted, Pair
    <2> HIDE DEF mails, people, type
    <2>5. RowsFor(people, type) \in SUBSET (People \X RowTypes)
        BY <2>2, RowsAreFinite
    <2>6. n \in Todo /\ n.rows = RowsFor(people, type)
        BY <2>2, <2>5, NoticeFields
    <2> HIDE DEF n
    <2> QED
        BY <2>1, <2>2, <2>3, <2>4, <2>6, OneNotice
<1>3. WellStarted("broadcast")
    <2> DEFINE mails == <<>>  people == People  type == "ADMIN_BROADCAST"  n == [Awaited(Notice(mails, RowsFor(people, type))) EXCEPT !.bulk = TRUE]
    <2>1. Notices("broadcast") = {n}
        BY DEF Notices, BookingNotices, VisitNotices, AdminNotices, Broadcast
    <2>2. mails \in Seq(People) /\ people \in SUBSET People /\ type \in RowTypes /\ "broadcast" \in Acts /\ "broadcast" # "create"
        BY Lists DEF RowTypes, People, Pair, Admins, Acts
    <2>3. Notified("broadcast") \subseteq people
        BY DEF Notified, Concerned, LeftOut, Pair, Admins
    <2>4. people \cap Admins # {} => WaitsAs("broadcast") \subseteq Recounted(type)
        BY DEF Admins, WaitsAs, Recounted, Pair
    <2> HIDE DEF mails, people, type
    <2>5. RowsFor(people, type) \in SUBSET (People \X RowTypes)
        BY <2>2, RowsAreFinite
    <2>6. n \in Todo /\ n.rows = RowsFor(people, type)
        BY <2>2, <2>5, NoticeFields
    <2> HIDE DEF n
    <2> QED
        BY <2>1, <2>2, <2>3, <2>4, <2>6, OneNotice
<1> QED
    BY <1>1, <1>2, <1>3

\* A new stay: letters only, the landlord's id is not passed.
LEMMA CreateNotices == WellStarted("create")
<1> DEFINE mails == <<"tenant", "landlord">>  n == Notice(mails, {})
<1>1. Notices("create") = {n}
    <2>1. Given({"tenant"}, RowsFor({"landlord"}, "NEW_BOOKING")) = {}
        BY DEF Given, RowsFor
    <2> QED
        BY <2>1 DEF Notices, BookingNotices, VisitNotices, AdminNotices, BookingCreated
<1>2. mails \in Seq(People) /\ DOMAIN mails = 1..2 /\ mails[2] = "landlord" /\ {} \in SUBSET (People \X RowTypes)
    BY Lists DEF People
<1>3. n \in Todo /\ n.rows = {} /\ n.mails = mails /\ ~n.awaited
    <2> HIDE DEF mails
    <2> QED
        BY <1>2, NoticeFields
<1>4. IsFiniteSet({})
    BY FS_EmptySet
<1>5. Notified("create") = {"landlord"}
    BY DEF Notified, Concerned, LeftOut
<1> HIDE DEF mails, n
<1>6. Reaches("create", "landlord")
    <2>1. 2 \in DOMAIN n.mails /\ n.mails[2] = "landlord"
        BY <1>2, <1>3
    <2> QED
        BY <1>1, <2>1 DEF Reaches
<1> QED
    BY <1>1, <1>3, <1>4, <1>5, <1>6 DEF WellStarted

\* A payment: a row for each side, of a type of its own.
LEMMA PayNotices == WellStarted("pay")
<1> DEFINE mails == <<"tenant", "landlord">>  rows == {<<"tenant", "PAYMENT_CONFIRMED">>, <<"landlord", "PAYMENT_RECEIVED">>}
           n == Notice(mails, rows)
<1>1. Notices("pay") = {n}
    BY DEF Notices, BookingNotices, VisitNotices, AdminNotices, PaymentConfirmed
<1>2. mails \in Seq(People) /\ rows \in SUBSET (People \X RowTypes)
    BY Lists DEF People, RowTypes
<1>3. n \in Todo /\ n.rows = rows /\ ~n.awaited
    <2> HIDE DEF mails, rows
    <2> QED
        BY <1>2, NoticeFields
<1>4. IsFiniteSet(rows)
    <2>1. IsFiniteSet({<<"tenant", "PAYMENT_CONFIRMED">>})
        BY FS_Singleton
    <2>2. IsFiniteSet({<<"tenant", "PAYMENT_CONFIRMED">>} \cup {<<"landlord", "PAYMENT_RECEIVED">>})
        BY <2>1, FS_AddElement
    <2>3. rows = {<<"tenant", "PAYMENT_CONFIRMED">>} \cup {<<"landlord", "PAYMENT_RECEIVED">>}
        OBVIOUS
    <2> QED
        BY <2>2, <2>3
<1>5. /\ \A r \in rows : r[1] \notin Admins
      /\ \A p \in Notified("pay") : \E r \in rows : r[1] = p
    BY DEF Notified, Concerned, LeftOut, Pair, Admins
<1> HIDE DEF mails, rows, n
<1>6. \A p \in Notified("pay") : Reaches("pay", p)
    BY <1>1, <1>3, <1>5 DEF Reaches
<1> QED
    BY <1>1, <1>3, <1>4, <1>5, <1>6 DEF WellStarted

\* Two notices, each with rows for people the other one does not write to.
LEMMA TwoNotices ==
    ASSUME NEW a \in Acts, NEW p \in People, NEW q \in People, p # q, p \notin Admins, q \notin Admins,
           NEW n \in Todo, NEW m \in Todo, NEW s \in RowTypes, NEW t \in RowTypes,
           n.rows = RowsFor({p}, s), m.rows = RowsFor({q}, t),
           Notices(a) = {n, m}, a # "create", Notified(a) \subseteq {p, q}
    PROVE  WellStarted(a)
<1> DEFINE sp == {p}  sq == {q}
<1>0. sp \in SUBSET People /\ sq \in SUBSET People /\ n.rows = RowsFor(sp, s) /\ m.rows = RowsFor(sq, t)
    OBVIOUS
<1>a. \A x : (x \in sp <=> x = p) /\ (x \in sq <=> x = q)
    OBVIOUS
<1> HIDE DEF sp, sq
<1>1. /\ IsFiniteSet(n.rows) /\ \A r \in n.rows : r[1] = p
      /\ \E r \in n.rows : r[1] = p
    <2>1. /\ IsFiniteSet(RowsFor(sp, s)) /\ \A r \in RowsFor(sp, s) : r[1] \in sp
          /\ \A i \in sp : \E r \in RowsFor(sp, s) : r[1] = i
        BY <1>0, RowsAreFinite
    <2> QED
        BY <1>0, <1>a, <2>1
<1>2. /\ IsFiniteSet(m.rows) /\ \A r \in m.rows : r[1] = q
      /\ \E r \in m.rows : r[1] = q
    <2>1. /\ IsFiniteSet(RowsFor(sq, t)) /\ \A r \in RowsFor(sq, t) : r[1] \in sq
          /\ \A i \in sq : \E r \in RowsFor(sq, t) : r[1] = i
        BY <1>0, RowsAreFinite
    <2> QED
        BY <1>0, <1>a, <2>1
<1>3. n.rows \cap m.rows = {}
    BY <1>1, <1>2
<1>4. \A x \in Notified(a) : Reaches(a, x)
    BY <1>1, <1>2 DEF Reaches
<1> QED
    BY <1>1, <1>2, <1>3, <1>4 DEF WellStarted

LEMMA PairedNotices == \A a \in {"assign", "price", "cancelPrice"} : WellStarted(a)
<1>1. WellStarted("assign")
    <2> DEFINE v == <<>>  w == <<>>  s == "VERIF_ASSIGNED"  t == "VERIF_SCHEDULED"  p == "agent"  q == "landlord"  sp == {p}  sq == {q}
               n == Notice(v, RowsFor(sp, s))
               m == Notice(w, RowsFor(sq, t))
    <2>1. Notices("assign") = {n, m}
        BY DEF Notices, BookingNotices, VisitNotices, AdminNotices, VerifAssigned, VerifScheduled
    <2>2. /\ v \in Seq(People) /\ w \in Seq(People) /\ s \in RowTypes /\ t \in RowTypes /\ "assign" \in Acts /\ "assign" # "create"
          /\ p \in People /\ q \in People /\ p # q /\ p \notin Admins /\ q \notin Admins
          /\ sp \in SUBSET People /\ sq \in SUBSET People /\ sp = {p} /\ sq = {q}
        BY Lists DEF RowTypes, People, Admins, Acts
    <2>3. Notified("assign") \subseteq {p, q}
        BY DEF Notified, Concerned, LeftOut
    <2> HIDE DEF v, w, s, t, p, q, sp, sq
    <2>4. RowsFor(sp, s) \in SUBSET (People \X RowTypes) /\ RowsFor(sq, t) \in SUBSET (People \X RowTypes)
        BY <2>2, RowsAreFinite
    <2>5. n \in Todo /\ n.rows = RowsFor(sp, s)
        <3> DEFINE rows == RowsFor(sp, s)
        <3>1. n = Notice(v, rows) /\ v \in Seq(People) /\ rows \in SUBSET (People \X RowTypes)
            BY <2>2, <2>4
        <3> HIDE DEF rows, n, m
        <3>2. n \in Todo /\ n.rows = rows
            BY <3>1, NoticeFields
        <3> QED
            BY <3>2 DEF rows
    <2>6. m \in Todo /\ m.rows = RowsFor(sq, t)
        <3> DEFINE rows == RowsFor(sq, t)
        <3>1. m = Notice(w, rows) /\ w \in Seq(People) /\ rows \in SUBSET (People \X RowTypes)
            BY <2>2, <2>4
        <3> HIDE DEF rows, n, m
        <3>2. m \in Todo /\ m.rows = rows
            BY <3>1, NoticeFields
        <3> QED
            BY <3>2 DEF rows
    <2> HIDE DEF n, m
    <2> QED
        BY <2>1, <2>2, <2>3, <2>5, <2>6, TwoNotices
<1>2. WellStarted("price")
    <2> DEFINE v == <<"landlord">>  w == <<"agency">>  s == "PLATFORM_CONFIG_CHANGED"  t == "PLATFORM_CONFIG_CHANGED"  p == "landlord"  q == "agency"  sp == {p}  sq == {q}
               n == [Awaited(Notice(v, RowsFor(sp, s))) EXCEPT !.rowsFirst = TRUE]
               m == [Awaited(Notice(w, RowsFor(sq, t))) EXCEPT !.rowsFirst = TRUE]
    <2>1. Notices("price") = {n, m}
        BY DEF Notices, BookingNotices, VisitNotices, AdminNotices, PlatformConfigChanged, ByLanguage, ConfigNotice
    <2>2. /\ v \in Seq(People) /\ w \in Seq(People) /\ s \in RowTypes /\ t \in RowTypes /\ "price" \in Acts /\ "price" # "create"
          /\ p \in People /\ q \in People /\ p # q /\ p \notin Admins /\ q \notin Admins
          /\ sp \in SUBSET People /\ sq \in SUBSET People /\ sp = {p} /\ sq = {q}
        BY Lists DEF RowTypes, People, Admins, Acts
    <2>3. Notified("price") \subseteq {p, q}
        BY DEF Notified, Concerned, LeftOut
    <2> HIDE DEF v, w, s, t, p, q, sp, sq
    <2>4. RowsFor(sp, s) \in SUBSET (People \X RowTypes) /\ RowsFor(sq, t) \in SUBSET (People \X RowTypes)
        BY <2>2, RowsAreFinite
    <2>5. n \in Todo /\ n.rows = RowsFor(sp, s)
        <3> DEFINE rows == RowsFor(sp, s)
        <3>1. n = [Awaited(Notice(v, rows)) EXCEPT !.rowsFirst = TRUE] /\ v \in Seq(People) /\ rows \in SUBSET (People \X RowTypes)
            BY <2>2, <2>4
        <3> HIDE DEF rows, n, m
        <3>2. n \in Todo /\ n.rows = rows
            BY <3>1, NoticeFields
        <3> QED
            BY <3>2 DEF rows
    <2>6. m \in Todo /\ m.rows = RowsFor(sq, t)
        <3> DEFINE rows == RowsFor(sq, t)
        <3>1. m = [Awaited(Notice(w, rows)) EXCEPT !.rowsFirst = TRUE] /\ w \in Seq(People) /\ rows \in SUBSET (People \X RowTypes)
            BY <2>2, <2>4
        <3> HIDE DEF rows, n, m
        <3>2. m \in Todo /\ m.rows = rows
            BY <3>1, NoticeFields
        <3> QED
            BY <3>2 DEF rows
    <2> HIDE DEF n, m
    <2> QED
        BY <2>1, <2>2, <2>3, <2>5, <2>6, TwoNotices
<1>3. WellStarted("cancelPrice")
    <2> DEFINE v == <<"landlord">>  w == <<"agency">>  s == "PLATFORM_CONFIG_CHANGE_CANCELLED"  t == "PLATFORM_CONFIG_CHANGE_CANCELLED"  p == "landlord"  q == "agency"  sp == {p}  sq == {q}
               n == [Awaited(Notice(v, RowsFor(sp, s))) EXCEPT !.rowsFirst = TRUE]
               m == [Awaited(Notice(w, RowsFor(sq, t))) EXCEPT !.rowsFirst = TRUE]
    <2>1. Notices("cancelPrice") = {n, m}
        BY DEF Notices, BookingNotices, VisitNotices, AdminNotices, PlatformConfigCancelled, ByLanguage, ConfigNotice
    <2>2. /\ v \in Seq(People) /\ w \in Seq(People) /\ s \in RowTypes /\ t \in RowTypes /\ "cancelPrice" \in Acts /\ "cancelPrice" # "create"
          /\ p \in People /\ q \in People /\ p # q /\ p \notin Admins /\ q \notin Admins
          /\ sp \in SUBSET People /\ sq \in SUBSET People /\ sp = {p} /\ sq = {q}
        BY Lists DEF RowTypes, People, Admins, Acts
    <2>3. Notified("cancelPrice") \subseteq {p, q}
        BY DEF Notified, Concerned, LeftOut
    <2> HIDE DEF v, w, s, t, p, q, sp, sq
    <2>4. RowsFor(sp, s) \in SUBSET (People \X RowTypes) /\ RowsFor(sq, t) \in SUBSET (People \X RowTypes)
        BY <2>2, RowsAreFinite
    <2>5. n \in Todo /\ n.rows = RowsFor(sp, s)
        <3> DEFINE rows == RowsFor(sp, s)
        <3>1. n = [Awaited(Notice(v, rows)) EXCEPT !.rowsFirst = TRUE] /\ v \in Seq(People) /\ rows \in SUBSET (People \X RowTypes)
            BY <2>2, <2>4
        <3> HIDE DEF rows, n, m
        <3>2. n \in Todo /\ n.rows = rows
            BY <3>1, NoticeFields
        <3> QED
            BY <3>2 DEF rows
    <2>6. m \in Todo /\ m.rows = RowsFor(sq, t)
        <3> DEFINE rows == RowsFor(sq, t)
        <3>1. m = [Awaited(Notice(w, rows)) EXCEPT !.rowsFirst = TRUE] /\ w \in Seq(People) /\ rows \in SUBSET (People \X RowTypes)
            BY <2>2, <2>4
        <3> HIDE DEF rows, n, m
        <3>2. m \in Todo /\ m.rows = rows
            BY <3>1, NoticeFields
        <3> QED
            BY <3>2 DEF rows
    <2> HIDE DEF n, m
    <2> QED
        BY <2>1, <2>2, <2>3, <2>5, <2>6, TwoNotices
<1> QED
    BY <1>1, <1>2, <1>3

LEMMA NoticesAreWellStarted == \A a \in Acts : WellStarted(a)
BY TenantNotices, LandlordNotices, VisitsNotices, AdminsNotices, AwaitedNotices, CreateNotices, PayNotices,
   PairedNotices DEF Acts

\* What waits for the administrators concerns them.
LEMMA WaitingConcernsAdmins ==
    \A a \in Acts : WaitsAs(a) # {} => Admins \subseteq Notified(a) /\ a # "create"
BY DEF Acts, WaitsAs, Notified, Concerned, LeftOut, Admins

-----------------------------------------------------------------------------
\* A notice that goes on is what it was, less what it has done.
LEMMA GoingOn ==
    ASSUME AlertTypes, RowsOnce, NEW w \in work, NEW rest \in Todo, GoesOn(w, rest),
           rest.rows \subseteq w.todo.rows, rest.awaited = w.todo.awaited
    PROVE  /\ work' \subseteq [act : past, todo : Todo] /\ \A x \in work' : IsFiniteSet(x.todo.rows)
           /\ \A x \in work' : x \in work \ {w} \/ (x.act = w.act /\ x.todo = rest)
           /\ \A x \in work \ {w} : x \in work'
           /\ rest.mails # <<>> \/ rest.rows # {} => \E x \in work' : x.act = w.act /\ x.todo = rest
           /\ \A v, x \in work' : v.act = x.act /\ v # x => v.todo.rows \cap x.todo.rows = {}
<1> DEFINE new == [w EXCEPT !.todo = rest]
<1>1. w \in [act : past, todo : Todo] /\ w.act \in past /\ w.todo \in Todo /\ IsFiniteSet(w.todo.rows)
    BY DEF AlertTypes
<1>2. new \in [act : past, todo : Todo] /\ new.act = w.act /\ new.todo = rest
    BY <1>1
<1>3. /\ work' \subseteq (work \ {w}) \cup {new} /\ work \ {w} \subseteq work'
      /\ rest.mails # <<>> \/ rest.rows # {} => new \in work'
    BY DEF GoesOn
<1>4. IsFiniteSet(rest.rows)
    BY <1>1, FS_Subset
<1> HIDE DEF new
<1>5. \A x \in work' : x \in work \ {w} \/ x = new
    BY <1>3
<1>6. work' \subseteq [act : past, todo : Todo] /\ \A x \in work' : IsFiniteSet(x.todo.rows)
    BY <1>2, <1>4, <1>5 DEF AlertTypes
<1>7. ASSUME NEW v \in work', NEW x \in work', v.act = x.act, v # x
      PROVE  v.todo.rows \cap x.todo.rows = {}
    <2>1. \A y \in work \ {w} : y.act = w.act => y.todo.rows \cap rest.rows = {}
        BY DEF RowsOnce
    <2> QED
        BY <1>2, <1>5, <1>7, <2>1 DEF RowsOnce
<1> QED
    BY <1>2, <1>3, <1>5, <1>6, <1>7

LEMMA LetterStep ==
    ASSUME AlertTypes, RowsOnce, ToldOrOwed, NEW w \in work, SendLetter(w)
    PROVE  AlertTypes' /\ RowsOnce' /\ ToldOrOwed' /\ (\A k \in Kinds : Seen(k)' \subseteq Seen(k))
<1> DEFINE rest == [w.todo EXCEPT !.mails = Tail(@)]
<1>1. w.act \in past /\ w.todo \in Todo /\ w.todo.mails \in Seq(People)
    BY DEF AlertTypes, Todo
<1>2. w.todo.mails # <<>> /\ GoesOn(w, rest)
    BY DEF SendLetter
<1>3. Tail(w.todo.mails) \in Seq(People)
    BY <1>1, <1>2
<1>4. rest \in Todo /\ rest.rows = w.todo.rows /\ rest.awaited = w.todo.awaited /\ rest.mails = Tail(w.todo.mails)
    BY <1>1, <1>3 DEF Todo
<1> HIDE DEF rest
<1>5. /\ work' \subseteq [act : past, todo : Todo] /\ \A x \in work' : IsFiniteSet(x.todo.rows)
      /\ \A x \in work' : x \in work \ {w} \/ (x.act = w.act /\ x.todo = rest)
      /\ \A x \in work \ {w} : x \in work'
      /\ rest.mails # <<>> \/ rest.rows # {} => \E x \in work' : x.act = w.act /\ x.todo = rest
      /\ \A v, x \in work' : v.act = x.act /\ v # x => v.todo.rows \cap x.todo.rows = {}
    BY <1>2, <1>4, GoingOn
<1>6. UNCHANGED <<due, past, inbox, pending, wire, live, fetch, unread, marking, counter, asks, crossed, who>>
    BY DEF SendLetter, bell, board
<1>7. AlertTypes'
    BY <1>5, <1>6 DEF AlertTypes
<1>8. RowsOnce'
    BY <1>4, <1>5, <1>6 DEF RowsOnce
<1>9. \A v \in work : v.todo.rows # {} => \E x \in work' : x.act = v.act /\ x.todo.rows = v.todo.rows
    <2>1. ASSUME NEW v \in work, v.todo.rows # {} PROVE \E x \in work' : x.act = v.act /\ x.todo.rows = v.todo.rows
        <3>1. CASE v = w
            BY <1>4, <1>5, <2>1, <3>1
        <3>2. CASE v # w
            BY <1>5, <3>2
        <3> QED
            BY <3>1, <3>2
    <2> QED
        BY <2>1
<1>10. told \subseteq told' /\ cut \subseteq cut'
    BY DEF SendLetter
<1>11. ASSUME NEW a, NEW p, Lettered(a, p)
       PROVE  Lettered(a, p)' \/ p \in Unmailable \/ <<a, p>> \in told' \cup cut'
    <2>1. PICK v \in work : v.act = a /\ \E i \in DOMAIN v.todo.mails : v.todo.mails[i] = p
        BY <1>11 DEF Lettered
    <2>2. PICK i \in DOMAIN v.todo.mails : v.todo.mails[i] = p
        BY <2>1
    <2>3. CASE v # w
        BY <1>5, <2>1, <2>3 DEF Lettered
    <2>4. CASE v = w /\ i = 1
        <3>1. Head(w.todo.mails) = p
            BY <1>1, <1>2, <2>2, <2>4
        <3> QED
            BY <2>1, <2>4, <3>1 DEF SendLetter
    <2>5. CASE v = w /\ i # 1
        <3>1. i \in 1..Len(w.todo.mails) /\ Len(w.todo.mails) \in Nat /\ i - 1 \in 1..(Len(w.todo.mails) - 1)
            BY <1>1, <2>2, <2>5
        <3>2. i - 1 \in DOMAIN rest.mails /\ rest.mails[i - 1] = p
            BY <1>1, <1>2, <1>4, <2>2, <2>5, <3>1
        <3>3. rest.mails # <<>>
            BY <3>2
        <3>4. PICK x \in work' : x.act = w.act /\ x.todo = rest
            BY <1>5, <3>3
        <3> QED
            BY <2>1, <2>5, <3>2, <3>4 DEF Lettered
    <2> QED
        BY <2>3, <2>4, <2>5
<1>12. ToldOrOwed'
    <2>1. \A x \in work' : x.todo.awaited => x.act # "create"
        BY <1>4, <1>5 DEF ToldOrOwed
    <2>2. ASSUME NEW a \in past, NEW p \in Notified(a)
          PROVE  <<a, p>> \in told' \cup cut' \/ Owed(a, p)' \/ (a = "create" /\ (p \in Unmailable \/ Lettered(a, p)'))
        <3>1. CASE <<a, p>> \in told \cup cut
            BY <1>10, <3>1
        <3>2. CASE Owed(a, p)
            BY <1>9, <3>2 DEF Owed
        <3>3. CASE a = "create" /\ p \in Unmailable
            BY <3>3
        <3>4. CASE a = "create" /\ Lettered(a, p)
            BY <1>11, <3>4
        <3> QED
            BY <3>1, <3>2, <3>3, <3>4 DEF ToldOrOwed
    <2> QED
        BY <1>6, <2>1, <2>2 DEF ToldOrOwed
<1>13. \A k \in Kinds : Seen(k)' \subseteq Seen(k)
    <2>1. ASSUME NEW k \in Kinds, NEW a \in Seen(k)' PROVE a \in Seen(k)
        BY <1>6, <1>9, <1>10, <2>1 DEF Seen, Owed
    <2> QED
        BY <2>1
<1> QED
    BY <1>7, <1>8, <1>12, <1>13

\* The rows that are still unread.
LEMMA UnreadCount ==
    ASSUME NEW s \in Seq(InboxRow)
    PROVE  /\ IsFiniteSet({i \in DOMAIN s : ~s[i].read}) /\ UnreadRows(s) \in Nat
           /\ \A t \in Seq(InboxRow) :
                Len(t) = Len(s) /\ (\A i \in DOMAIN s : s[i].read => t[i].read) => UnreadRows(t) <= UnreadRows(s)
           /\ AllRead(s) \in Seq(InboxRow) /\ UnreadRows(AllRead(s)) = 0
<1> DEFINE StillNew(t) == {i \in DOMAIN t : ~t[i].read}
<1>1. Len(s) \in Nat /\ DOMAIN s = 1..Len(s) /\ IsFiniteSet(1..Len(s))
    BY FS_Interval
<1>2. IsFiniteSet(StillNew(s))
    BY <1>1, FS_Subset
<1>3. UnreadRows(s) \in Nat
    BY <1>2, FS_CardinalityType DEF UnreadRows
<1>4. ASSUME NEW t \in Seq(InboxRow), Len(t) = Len(s), \A i \in DOMAIN s : s[i].read => t[i].read
      PROVE  UnreadRows(t) <= UnreadRows(s)
    <2>1. StillNew(t) \subseteq StillNew(s)
        BY <1>1, <1>4
    <2> QED
        BY <1>2, <2>1, FS_Subset DEF UnreadRows
<1>5. AllRead(s) \in Seq(InboxRow) /\ StillNew(AllRead(s)) = {}
    <2>1. ASSUME NEW i \in 1..Len(s)
          PROVE  [s[i] EXCEPT !.read = TRUE] \in InboxRow /\ [s[i] EXCEPT !.read = TRUE].read
        <3>1. s[i] \in InboxRow
            BY <1>1
        <3> QED
            BY <3>1 DEF InboxRow
    <2>2. AllRead(s) = [i \in 1..Len(s) |-> [s[i] EXCEPT !.read = TRUE]]
        BY <1>1 DEF AllRead
    <2>3. AllRead(s) \in Seq(InboxRow)
        BY <1>1, <2>1, <2>2
    <2>4. DOMAIN AllRead(s) = 1..Len(s) /\ \A i \in 1..Len(s) : AllRead(s)[i].read
        BY <2>1, <2>2
    <2> QED
        BY <2>3, <2>4
<1>6. UnreadRows(AllRead(s)) = 0
    BY <1>5, FS_EmptySet DEF UnreadRows
<1> QED
    BY <1>2, <1>3, <1>4, <1>5, <1>6

LEMMA UnreadGrows ==
    ASSUME NEW s \in Seq(InboxRow), NEW entry \in InboxRow, ~entry.read
    PROVE  Append(s, entry) \in Seq(InboxRow) /\ UnreadRows(Append(s, entry)) = UnreadRows(s) + 1
<1> DEFINE StillNew(t) == {i \in DOMAIN t : ~t[i].read}  n == Len(s)
<1>1. n \in Nat /\ DOMAIN s = 1..n
    OBVIOUS
<1>2. /\ Append(s, entry) \in Seq(InboxRow) /\ DOMAIN Append(s, entry) = 1..(n + 1)
      /\ \A i \in 1..n : Append(s, entry)[i] = s[i]
      /\ Append(s, entry)[n + 1] = entry
    OBVIOUS
<1>3. StillNew(Append(s, entry)) = StillNew(s) \cup {n + 1} /\ n + 1 \notin StillNew(s)
    <2> HIDE DEF n
    <2>1. 1..(n + 1) = (1..n) \cup {n + 1} /\ n + 1 \notin 1..n
        BY <1>1
    <2> QED
        BY <1>1, <1>2, <2>1
<1>4. IsFiniteSet(StillNew(s))
    BY UnreadCount
<1>5. Cardinality(StillNew(s) \cup {n + 1}) = Cardinality(StillNew(s)) + 1
    BY <1>3, <1>4, FS_AddElement
<1> QED
    BY <1>2, <1>3, <1>5 DEF UnreadRows

\* A row that somebody has read elsewhere.
LEMMA RowIsRead ==
    ASSUME inbox \in Seq(InboxRow), NEW a, RowRead(a)
    PROVE  inbox' \in Seq(InboxRow) /\ UnreadRows(inbox') <= UnreadRows(inbox)
<1>1. Len(inbox) \in Nat /\ DOMAIN inbox = 1..Len(inbox) /\ \A i \in 1..Len(inbox) : inbox[i] \in InboxRow
    OBVIOUS
<1>2. \A i \in 1..Len(inbox) : LET entry == IF inbox[i].act = a THEN [inbox[i] EXCEPT !.read = TRUE] ELSE inbox[i]
                               IN  entry \in InboxRow /\ (inbox[i].read => entry.read)
    BY <1>1 DEF InboxRow
<1>3. /\ inbox' \in Seq(InboxRow) /\ Len(inbox') = Len(inbox)
      /\ \A i \in DOMAIN inbox : inbox[i].read => inbox'[i].read
    BY <1>1, <1>2 DEF RowRead
<1> QED
    BY <1>3, UnreadCount

\* The messages on their way to the bell.
ToBell == {m \in wire : m[3] = "bell"}

LEMMA Unheards ==
    ASSUME IsFiniteSet(wire)
    PROVE  /\ Unheard \in Nat /\ IsFiniteSet(ToBell) /\ Unheard = Cardinality(ToBell)
           /\ \A m \in wire : IsFiniteSet(wire \ {m})
           /\ \A m \in wire : m[3] = "bell" /\ wire' = wire \ {m} => Unheard' = Unheard - 1
           /\ \A m \in wire : m[3] # "bell" /\ wire' = wire \ {m} => Unheard' = Unheard
<1>1. IsFiniteSet(ToBell) /\ Unheard = Cardinality(ToBell)
    BY FS_Subset DEF ToBell, Unheard
<1>2. Unheard \in Nat
    BY <1>1, FS_CardinalityType
<1>3. \A m \in wire : IsFiniteSet(wire \ {m})
    BY FS_RemoveElement
<1>4. ASSUME NEW m \in wire, m[3] = "bell", wire' = wire \ {m} PROVE Unheard' = Unheard - 1
    <2>1. ToBell' = ToBell \ {m} /\ m \in ToBell
        BY <1>4 DEF ToBell
    <2>2. Unheard' = Cardinality(ToBell')
        BY DEF Unheard, ToBell
    <2> QED
        BY <1>1, <2>1, <2>2, FS_RemoveElement
<1>5. ASSUME NEW m \in wire, m[3] # "bell", wire' = wire \ {m} PROVE Unheard' = Unheard
    BY <1>5 DEF Unheard
<1> QED
    BY <1>1, <1>2, <1>3, <1>4, <1>5

\* What a counter follows is not disturbed by what hides something, or is announced.
LEMMA CountersKept ==
    ASSUME AlertTypes, CountersFollow, UNCHANGED <<who, asks, counter>>, crossed \subseteq crossed',
           who \in Admins => \A k \in Kinds \ crossed' :
             Seen(k)' \subseteq Seen(k) \/ \E m \in wire' : m[3] = "shell" /\ k \in Recounted(m[2]),
           \A m \in wire : m[3] = "shell" => m \in wire' \/ Recounted(m[2]) \subseteq crossed'
    PROVE  CountersFollow'
<1> SUFFICES ASSUME who \in Admins, NEW k \in Kinds, k \notin crossed'
             PROVE  /\ Len(asks[k]) <= 1
                    /\ \/ \E m \in wire' : m[3] = "shell" /\ k \in Recounted(m[2])
                       \/ Latest(k) = NotRead
                       \/ Latest(k) >= Cardinality(Seen(k)')
    BY DEF CountersFollow, Latest
<1>1. /\ Len(asks[k]) <= 1
      /\ \/ \E m \in wire : m[3] = "shell" /\ k \in Recounted(m[2])
         \/ Latest(k) = NotRead
         \/ Latest(k) >= Cardinality(Seen(k))
    BY DEF CountersFollow
<1>2. CASE \E m \in wire : m[3] = "shell" /\ k \in Recounted(m[2])
    BY <1>1, <1>2
<1>3. CASE Latest(k) >= Cardinality(Seen(k)) /\ Seen(k)' \subseteq Seen(k)
    <2>1. IsFiniteSet(Seen(k))
        BY FS_Subset DEF Seen, AlertTypes
    <2>2. Cardinality(Seen(k)') <= Cardinality(Seen(k)) /\ Cardinality(Seen(k)') \in Nat /\ Cardinality(Seen(k)) \in Nat
        BY <1>3, <2>1, FS_Subset, FS_CardinalityType
    <2>3. Latest(k) \in Int
        BY DEF Latest, AlertTypes, Readings, NotRead
    <2> QED
        BY <1>1, <1>3, <2>2, <2>3
<1>4. CASE Latest(k) = NotRead \/ \E m \in wire' : m[3] = "shell" /\ k \in Recounted(m[2])
    BY <1>1, <1>4
<1> QED
    BY <1>1, <1>2, <1>3, <1>4

LEMMA RecountsAreKinds == \A t : Recounted(t) \subseteq Kinds
BY DEF Recounted, Kinds

\* The rows of a notice that are written, and the messages that announce those of the watched tab.
LEMMA RowsStep ==
    ASSUME AlertTypes, RowsOnce, ToldOrOwed, BellFollows, CountersFollow, NEW w \in work, WriteRows(w)
    PROVE  AlertTypes' /\ RowsOnce' /\ ToldOrOwed' /\ BellFollows' /\ CountersFollow'
<1> PICK rows \in SUBSET w.todo.rows :
      rows # {} /\ GoesOn(w, [w.todo EXCEPT !.rows = @ \ rows]) /\ Written(w, rows)
    BY DEF WriteRows
<1> DEFINE rest == [w.todo EXCEPT !.rows = @ \ rows]
           mine == {r[2] : r \in {r \in rows : r[1] = who}}
           said == {<<w.act, t, part>> : t \in mine, part \in live}
<1>1. w.act \in past /\ w.todo \in Todo /\ w.todo.mails \in Seq(People) /\ w.todo.rows \in SUBSET (People \X RowTypes)
      /\ IsFiniteSet(w.todo.rows)
    BY DEF AlertTypes, Todo
<1>2. /\ rest \in Todo /\ rest.rows = w.todo.rows \ rows /\ rest.awaited = w.todo.awaited
      /\ rest.mails = w.todo.mails /\ GoesOn(w, rest)
    BY <1>1 DEF Todo
<1>3. /\ inbox' = IF mine = {} THEN inbox ELSE Append(inbox, [act |-> w.act, read |-> FALSE])
      /\ wire' = wire \cup said
      /\ astray' = (astray \/ (mine # {} /\ "bell" \notin live /\ "count" \notin fetch.left))
      /\ crossed' = IF "shell" \in live THEN crossed ELSE crossed \cup UNION {Recounted(t) : t \in mine}
      /\ told' = told \cup {<<w.act, r[1]>> : r \in rows}
    BY DEF Written
<1>4. \A t : t \in mine <=> <<who, t>> \in rows
    <2>1. \A r \in rows : r = <<r[1], r[2]>>
        BY <1>1
    <2>2. ASSUME NEW t, <<who, t>> \in rows PROVE t \in mine
        <3>1. <<who, t>>[1] = who /\ <<who, t>>[2] = t
            OBVIOUS
        <3>2. <<who, t>> \in {r \in rows : r[1] = who}
            BY <2>2, <3>1
        <3> QED
            BY <3>1, <3>2
    <2>3. ASSUME NEW t \in mine PROVE <<who, t>> \in rows
        BY <2>1, <2>3
    <2> QED
        BY <2>2, <2>3
<1>5. \A m : m \in said <=> \E t \in mine, part \in live : m = <<w.act, t, part>>
    OBVIOUS
<1>6. IsFiniteSet(said)
    <2> DEFINE f == [x \in rows \X live |-> <<w.act, x[1][2], x[2]>>]
               all == {f[x] : x \in rows \X live}
    <2>1. live \subseteq {"bell"} \cup {"shell"}
        BY DEF AlertTypes, Parts
    <2>2. IsFiniteSet({"bell"} \cup {"shell"})
        BY FS_Singleton, FS_AddElement
    <2>3. IsFiniteSet(rows) /\ IsFiniteSet(live)
        BY <1>1, <2>1, <2>2, FS_Subset
    <2>4. IsFiniteSet(rows \X live)
        BY <2>3, FS_Product
    <2>5. f \in Surjection(rows \X live, all)
        BY DEF Surjection
    <2>6. IsFiniteSet(all)
        BY <2>4, <2>5, FS_Surjection
    <2>7. \A t \in mine, part \in live : f[<<<<who, t>>, part>>] = <<w.act, t, part>> /\ <<<<who, t>>, part>> \in rows \X live
        BY <1>4
    <2>8. said \subseteq all
        <3>1. ASSUME NEW m \in said PROVE m \in all
            <4>1. PICK t \in mine, part \in live : m = <<w.act, t, part>>
                <5> HIDE DEF said, all, f, mine
                <5> QED
                    BY <1>5, <3>1
            <4>2. m = f[<<<<who, t>>, part>>] /\ <<<<who, t>>, part>> \in rows \X live
                <5> HIDE DEF f, mine
                <5> QED
                    BY <2>7, <4>1
            <4> HIDE DEF f
            <4> QED
                BY <4>2
        <3> QED
            BY <3>1
    <2> QED
        BY <2>6, <2>8, FS_Subset
<1> HIDE DEF rest, mine, said
<1>7. /\ work' \subseteq [act : past, todo : Todo] /\ \A x \in work' : IsFiniteSet(x.todo.rows)
      /\ \A x \in work' : x \in work \ {w} \/ (x.act = w.act /\ x.todo = rest)
      /\ \A x \in work \ {w} : x \in work'
      /\ rest.mails # <<>> \/ rest.rows # {} => \E x \in work' : x.act = w.act /\ x.todo = rest
      /\ \A v, x \in work' : v.act = x.act /\ v # x => v.todo.rows \cap x.todo.rows = {}
    BY <1>2, GoingOn
<1>8. UNCHANGED <<due, past, cut, pending, live, fetch, unread, list, marking, counter, asks, who>>
    BY DEF WriteRows
<1>9. AlertTypes'
    <2>1. inbox' \in Seq(InboxRow)
        <3> DEFINE entry == [act |-> w.act, read |-> FALSE]
        <3>1. inbox \in Seq(InboxRow) /\ entry \in InboxRow /\ ~entry.read
            BY <1>1 DEF AlertTypes, InboxRow
        <3>2. inbox' = IF mine = {} THEN inbox ELSE Append(inbox, entry)
            BY <1>3
        <3> HIDE DEF entry
        <3>3. Append(inbox, entry) \in Seq(InboxRow)
            BY <3>1, UnreadGrows
        <3>4. CASE mine = {}
            BY <3>1, <3>2, <3>4
        <3>5. CASE mine # {}
            BY <3>2, <3>3, <3>5
        <3> QED
            BY <3>4, <3>5
    <2>2. wire' \subseteq past \X RowTypes \X Parts /\ IsFiniteSet(wire')
        <3>1. mine \subseteq RowTypes /\ live \subseteq Parts
            <4>1. \A t \in mine : <<who, t>> \in People \X RowTypes
                BY <1>1, <1>4
            <4>2. \A t \in mine : t \in RowTypes
                BY <4>1
            <4> QED
                BY <4>2 DEF AlertTypes
        <3>2. said \subseteq past \X RowTypes \X Parts
            BY <1>1, <1>5, <3>1
        <3>3. wire \subseteq past \X RowTypes \X Parts /\ IsFiniteSet(wire)
            BY DEF AlertTypes
        <3> QED
            BY <1>3, <1>6, <3>2, <3>3, FS_Union
    <2>3. crossed' \subseteq Kinds
        BY <1>3, RecountsAreKinds DEF AlertTypes
    <2> QED
        BY <1>7, <1>8, <2>1, <2>2, <2>3 DEF AlertTypes
<1>10. \A x \in work' : \E y \in work : y.act = x.act /\ x.todo.rows \subseteq y.todo.rows
                                       /\ (x.act = w.act => x.todo.rows \cap rows = {})
    <2>1. ASSUME NEW x \in work', x \in work \ {w} PROVE x.act = w.act => x.todo.rows \cap rows = {}
        BY <2>1 DEF RowsOnce
    <2> QED
        BY <1>2, <1>7, <2>1
<1>11. RowsOnce'
    <2>1. ASSUME NEW x \in work', NEW r \in x.todo.rows
          PROVE  /\ r[1] = who => \A part \in Parts : <<x.act, r[2], part>> \notin wire'
                 /\ r[1] \in Admins => WaitsAs(x.act) \subseteq Recounted(r[2])
        <3>1. PICK y \in work : y.act = x.act /\ x.todo.rows \subseteq y.todo.rows
                                /\ (x.act = w.act => x.todo.rows \cap rows = {})
            BY <1>10
        <3>2. r \in y.todo.rows /\ r = <<r[1], r[2]>>
            BY <3>1 DEF AlertTypes, Todo
        <3>3. ASSUME r[1] = who, NEW part \in Parts PROVE <<x.act, r[2], part>> \notin wire'
            <4>1. <<x.act, r[2], part>> \notin wire
                BY <3>1, <3>2, <3>3 DEF RowsOnce
            <4>2. ASSUME <<x.act, r[2], part>> \in said PROVE FALSE
                <5>1. x.act = w.act /\ r[2] \in mine
                    BY <1>5, <4>2
                <5>2. r \in rows
                    BY <1>4, <3>2, <3>3, <5>1
                <5> QED
                    BY <3>1, <5>1, <5>2
            <4> QED
                BY <1>3, <4>1, <4>2
        <3>4. r[1] \in Admins => WaitsAs(x.act) \subseteq Recounted(r[2])
            BY <3>1, <3>2 DEF RowsOnce
        <3> QED
            BY <3>3, <3>4
    <2> QED
        BY <1>7, <1>8, <2>1 DEF RowsOnce
\* Whoever has lost a row to come has found it in the inbox.
<1>12. \A v \in work : \A r \in v.todo.rows :
         \/ \E x \in work' : x.act = v.act /\ r \in x.todo.rows
         \/ v.act = w.act /\ r \in rows
    <2>1. ASSUME NEW v \in work, NEW r \in v.todo.rows, ~(v.act = w.act /\ r \in rows)
          PROVE  \E x \in work' : x.act = v.act /\ r \in x.todo.rows
        <3>1. CASE v = w
            BY <1>2, <1>7, <2>1, <3>1
        <3>2. CASE v # w
            BY <1>7, <3>2
        <3> QED
            BY <3>1, <3>2
    <2> QED
        BY <2>1
<1>13. ToldOrOwed'
    <2>1. \A x \in work' : x.todo.awaited => x.act # "create"
        BY <1>2, <1>7 DEF ToldOrOwed
    <2>2. ASSUME NEW a \in past, NEW p \in Notified(a)
          PROVE  <<a, p>> \in told' \cup cut' \/ Owed(a, p)' \/ (a = "create" /\ (p \in Unmailable \/ Lettered(a, p)'))
        <3>1. CASE <<a, p>> \in told \cup cut
            BY <1>3, <1>8, <3>1
        <3>2. CASE Owed(a, p)
            BY <1>3, <1>12, <3>2 DEF Owed
        <3>3. CASE a = "create" /\ p \in Unmailable
            BY <3>3
        <3>4. CASE a = "create" /\ Lettered(a, p)
            <4>1. PICK v \in work : v.act = a /\ \E i \in DOMAIN v.todo.mails : v.todo.mails[i] = p
                BY <3>4 DEF Lettered
            <4>2. \E x \in work' : x.act = a /\ x.todo.mails = v.todo.mails
                <5>1. CASE v # w
                    BY <1>7, <4>1, <5>1
                <5>2. CASE v = w
                    <6>1. rest.mails # <<>>
                        BY <1>1, <1>2, <4>1, <5>2
                    <6> QED
                        BY <1>2, <1>7, <4>1, <5>2, <6>1
                <5> QED
                    BY <5>1, <5>2
            <4> QED
                BY <3>4, <4>1, <4>2 DEF Lettered
        <3> QED
            BY <3>1, <3>2, <3>3, <3>4 DEF ToldOrOwed
    <2> QED
        BY <1>8, <2>1, <2>2 DEF ToldOrOwed
<1>14. CountersFollow'
    <2>1. crossed \subseteq crossed' /\ wire \subseteq wire'
        BY <1>3
    <2>2. ASSUME who \in Admins, NEW k \in Kinds, k \notin crossed', NEW a \in Seen(k)', a \notin Seen(k)
          PROVE  \E m \in wire' : m[3] = "shell" /\ k \in Recounted(m[2])
        <3>1. a \in pending[k] /\ <<a, who>> \notin cut /\ ~Owed(a, who)' /\ Owed(a, who)
            BY <1>8, <2>2 DEF Seen
        <3>2. PICK v \in work : v.act = a /\ \E r \in v.todo.rows : r[1] = who
            BY <3>1 DEF Owed
        <3>3. PICK r \in v.todo.rows : r[1] = who
            BY <3>2
        <3>4. a = w.act /\ r \in rows
            BY <1>8, <1>12, <3>1, <3>2, <3>3 DEF Owed
        <3>5. r[2] \in mine
            BY <1>1, <1>4, <3>3, <3>4
        <3>6. k \in Recounted(r[2])
            BY <2>2, <3>1, <3>3, <3>4 DEF AlertTypes, RowsOnce
        <3>7. "shell" \in live
            BY <1>3, <2>2, <3>5, <3>6
        <3>8. <<w.act, r[2], "shell">> \in wire'
            BY <1>3, <1>5, <3>5, <3>7
        <3>9. <<w.act, r[2], "shell">>[3] = "shell" /\ <<w.act, r[2], "shell">>[2] = r[2]
            OBVIOUS
        <3> QED
            BY <3>6, <3>8, <3>9
    <2>3. \A m \in wire : m[3] = "shell" => m \in wire' \/ Recounted(m[2]) \subseteq crossed'
        BY <2>1
    <2>4. who \in Admins => \A k \in Kinds \ crossed' :
            Seen(k)' \subseteq Seen(k) \/ \E m \in wire' : m[3] = "shell" /\ k \in Recounted(m[2])
        BY <2>2
    <2> QED
        BY <1>8, <2>1, <2>3, <2>4, CountersKept
<1>15. BellFollows'
    <2>1. /\ Unheard \in Nat /\ IsFiniteSet(ToBell) /\ Unheard = Cardinality(ToBell)
          /\ Unheard' \in Nat /\ IsFiniteSet(ToBell') /\ Unheard' = Cardinality(ToBell')
        <3>1. IsFiniteSet(wire) /\ IsFiniteSet(wire')
            BY <1>9 DEF AlertTypes
        <3>2. IsFiniteSet(ToBell') /\ Unheard' = Cardinality(ToBell')
            BY <3>1, FS_Subset DEF ToBell, Unheard
        <3> QED
            BY <3>1, <3>2, Unheards, FS_CardinalityType
    <2>2. ToBell \subseteq ToBell'
        BY <1>3 DEF ToBell
    <2>3. Unheard <= Unheard'
        BY <2>1, <2>2, FS_Subset
    <2>4. ASSUME mine # {}, "bell" \in live PROVE Unheard' >= Unheard + 1
        <3>1. PICK t \in mine : TRUE
            BY <2>4
        <3> DEFINE m == <<w.act, t, "bell">>
        <3>2. m \in wire' /\ m[3] = "bell"
            BY <1>3, <1>5, <2>4, <3>1
        <3>3. <<who, t>> \in w.todo.rows /\ <<who, t>>[1] = who /\ <<who, t>>[2] = t
            BY <1>4, <3>1
        <3>4. m \notin wire
            BY <3>3 DEF RowsOnce, Parts
        <3> HIDE DEF m
        <3>5. ToBell \cup {m} \subseteq ToBell' /\ m \notin ToBell
            BY <2>2, <3>2, <3>4 DEF ToBell
        <3>6. Cardinality(ToBell \cup {m}) = Unheard + 1
            BY <2>1, <3>5, FS_AddElement
        <3>7. Cardinality(ToBell \cup {m}) <= Cardinality(ToBell')
            BY <2>1, <3>5, FS_Subset
        <3> QED
            BY <2>1, <3>6, <3>7
    <2>5. /\ UnreadRows(inbox) \in Nat
          /\ mine = {} => UnreadRows(inbox') = UnreadRows(inbox)
          /\ mine # {} => UnreadRows(inbox') = UnreadRows(inbox) + 1
        <3> DEFINE entry == [act |-> w.act, read |-> FALSE]
        <3>1. inbox \in Seq(InboxRow) /\ entry \in InboxRow /\ ~entry.read
            BY <1>1 DEF AlertTypes, InboxRow
        <3>2. inbox' = IF mine = {} THEN inbox ELSE Append(inbox, entry)
            BY <1>3
        <3> HIDE DEF entry
        <3> QED
            BY <3>1, <3>2, UnreadGrows, UnreadCount
    <2>6. SUFFICES ASSUME ~astray'
                   PROVE  /\ fetch.left # {} => fetch.on
                          /\ IF fetch.on
                               THEN /\ marking = Idle /\ unread = 0 /\ list = <<>>
                                    /\ "count" \in fetch.left \/ fetch.count + Unheard' >= UnreadRows(inbox')
                               ELSE /\ unread + Unheard' >= UnreadRows(inbox')
                                    /\ SomeServed => Unheard' >= UnreadRows(inbox')
        BY <1>8 DEF BellFollows, SomeServed
    <2>7. ~astray /\ (mine = {} \/ "bell" \in live \/ "count" \in fetch.left)
        BY <1>3, <2>6
    <2>8. fetch.count \in Nat /\ unread \in Nat
        BY DEF AlertTypes, Fetch
    <2>9. "count" \in fetch.left \/ (Unheard' >= Unheard + (IF mine = {} THEN 0 ELSE 1))
        BY <2>1, <2>3, <2>4, <2>7
    <2> QED
        BY <2>1, <2>5, <2>7, <2>8, <2>9 DEF BellFollows
<1> QED
    BY <1>9, <1>11, <1>13, <1>14, <1>15

\* A row that cannot be written takes along what was to come after it, or all that was to come.
LEMMA LossStep ==
    ASSUME AlertTypes, RowsOnce, ToldOrOwed, NEW w \in work, LoseRow(w)
    PROVE  AlertTypes' /\ RowsOnce' /\ ToldOrOwed' /\ (\A k \in Kinds : Seen(k)' \subseteq Seen(k))
<1>0. UNCHANGED <<due, past, told, inbox, pending, wire, live, fetch, unread, marking, counter, asks, crossed, who>>
    BY DEF LoseRow, bell, board
<1>1. /\ w.act \in past /\ w.todo \in Todo /\ w.todo.rows \in SUBSET (People \X RowTypes)
      /\ \A v \in work : v.todo \in Todo
    BY DEF AlertTypes, Todo
\* It is enough to know what is still to come, and that the rest has been cut.
<1>2. SUFFICES /\ work' \subseteq [act : past, todo : Todo] /\ \A x \in work' : IsFiniteSet(x.todo.rows)
               /\ \A x \in work' : \E y \in work : y.act = x.act /\ x.todo.rows \subseteq y.todo.rows
                                                  /\ x.todo.awaited = y.todo.awaited
               /\ \A v, x \in work' : v.act = x.act /\ v # x => v.todo.rows \cap x.todo.rows = {}
               /\ cut \subseteq cut'
               /\ \A v \in work : \A r \in v.todo.rows :
                    <<v.act, r[1]>> \in cut' \/ \E x \in work' : x.act = v.act /\ r \in x.todo.rows
               /\ \A v \in work : \A i \in DOMAIN v.todo.mails : v.act = "create" =>
                    \/ <<v.act, v.todo.mails[i]>> \in cut'
                    \/ \E x \in work' : x.act = v.act /\ x.todo.mails = v.todo.mails
    <2>1. AlertTypes'
        BY <1>0, <1>2 DEF AlertTypes
    <2>2. RowsOnce'
        <3>1. ASSUME NEW x \in work', NEW r \in x.todo.rows
              PROVE  /\ r[1] = who => \A part \in Parts : <<x.act, r[2], part>> \notin wire
                     /\ r[1] \in Admins => WaitsAs(x.act) \subseteq Recounted(r[2])
            <4>1. PICK y \in work : y.act = x.act /\ x.todo.rows \subseteq y.todo.rows
                BY <1>2
            <4>2. r \in y.todo.rows
                BY <4>1
            <4> QED
                BY <4>1, <4>2 DEF RowsOnce
        <3> QED
            BY <1>0, <1>2, <3>1 DEF RowsOnce
    <2>3. ToldOrOwed'
        <3>1. \A x \in work' : x.todo.awaited => x.act # "create"
            BY <1>2 DEF ToldOrOwed
        <3>2. ASSUME NEW a \in past, NEW p \in Notified(a)
              PROVE  <<a, p>> \in told' \cup cut' \/ Owed(a, p)' \/ (a = "create" /\ (p \in Unmailable \/ Lettered(a, p)'))
            <4>1. CASE <<a, p>> \in told \cup cut
                BY <1>0, <1>2, <4>1
            <4>2. CASE Owed(a, p)
                BY <1>2, <4>2 DEF Owed
            <4>3. CASE a = "create" /\ p \in Unmailable
                BY <4>3
            <4>4. CASE a = "create" /\ Lettered(a, p)
                <5>1. PICK v \in work : v.act = a /\ \E i \in DOMAIN v.todo.mails : v.todo.mails[i] = p
                    BY <4>4 DEF Lettered
                <5>2. PICK i \in DOMAIN v.todo.mails : v.todo.mails[i] = p
                    BY <5>1
                <5>3. v.act = "create"
                    BY <4>4, <5>1
                <5>4. CASE <<a, p>> \in cut'
                    BY <5>4
                <5>5. CASE \E x \in work' : x.act = v.act /\ x.todo.mails = v.todo.mails
                    BY <4>4, <5>1, <5>2, <5>5 DEF Lettered
                <5>6. <<v.act, v.todo.mails[i]>> \in cut' \/ \E x \in work' : x.act = v.act /\ x.todo.mails = v.todo.mails
                    BY <1>2, <5>3
                <5> QED
                    BY <5>1, <5>2, <5>4, <5>5, <5>6
            <4> QED
                BY <4>1, <4>2, <4>3, <4>4 DEF ToldOrOwed
        <3> QED
            BY <1>0, <3>1, <3>2 DEF ToldOrOwed
    <2>4. ASSUME NEW k \in Kinds, NEW a \in Seen(k)', a \notin Seen(k) PROVE FALSE
        <3>1. a \in pending[k] /\ <<a, who>> \notin cut /\ <<a, who>> \notin cut' /\ ~Owed(a, who)' /\ Owed(a, who)
            BY <1>0, <1>2, <2>4 DEF Seen
        <3>2. PICK v \in work : v.act = a /\ \E r \in v.todo.rows : r[1] = who
            BY <3>1 DEF Owed
        <3> QED
            BY <1>0, <1>2, <3>1, <3>2 DEF Owed
    <2>5. \A k \in Kinds : Seen(k)' \subseteq Seen(k)
        BY <2>4
    <2> QED
        BY <2>1, <2>2, <2>3, <2>5
<1>3. PICK r \in w.todo.rows :
        IF w.todo.awaited
         THEN /\ GoesOn(w, [w.todo EXCEPT !.mails = <<>>, !.rows = IF w.todo.bulk THEN {} ELSE @ \ {r}])
              /\ cut' = cut \cup (IF w.todo.bulk THEN Left(w) ELSE {<<w.act, r[1]>>})
         ELSE work' = {} /\ cut' = cut \cup UNION {Left(v) : v \in work}
    BY DEF LoseRow
<1>4. CASE w.todo.awaited
    <2> DEFINE rest == [w.todo EXCEPT !.mails = <<>>, !.rows = IF w.todo.bulk THEN {} ELSE @ \ {r}]
    <2>1. <<>> \in Seq(People)
        OBVIOUS
    <2>2. /\ rest \in Todo /\ rest.awaited = w.todo.awaited
          /\ rest.rows = IF w.todo.bulk THEN {} ELSE w.todo.rows \ {r}
        BY <1>1, <2>1 DEF Todo
    <2>3. GoesOn(w, rest) /\ cut' = cut \cup (IF w.todo.bulk THEN Left(w) ELSE {<<w.act, r[1]>>})
        BY <1>3, <1>4
    <2> HIDE DEF rest
    <2>4. rest.rows \subseteq w.todo.rows
        BY <2>2
    <2>5. /\ work' \subseteq [act : past, todo : Todo] /\ \A x \in work' : IsFiniteSet(x.todo.rows)
          /\ \A x \in work' : x \in work \ {w} \/ (x.act = w.act /\ x.todo = rest)
          /\ \A x \in work \ {w} : x \in work'
          /\ rest.mails # <<>> \/ rest.rows # {} => \E x \in work' : x.act = w.act /\ x.todo = rest
          /\ \A v, x \in work' : v.act = x.act /\ v # x => v.todo.rows \cap x.todo.rows = {}
        BY <2>2, <2>3, <2>4, GoingOn
    <2>6. \A x \in work' : \E y \in work : y.act = x.act /\ x.todo.rows \subseteq y.todo.rows
                                          /\ x.todo.awaited = y.todo.awaited
        BY <2>2, <2>4, <2>5
    <2>7. ASSUME NEW v \in work, NEW q \in v.todo.rows
          PROVE  <<v.act, q[1]>> \in cut' \/ \E x \in work' : x.act = v.act /\ q \in x.todo.rows
        <3>1. CASE v # w
            BY <2>5, <3>1
        <3>2. CASE v = w /\ w.todo.bulk
            BY <2>3, <3>2 DEF Left
        <3>3. CASE v = w /\ ~w.todo.bulk /\ q = r
            BY <2>3, <3>3
        <3>4. CASE v = w /\ ~w.todo.bulk /\ q # r
            <4>1. q \in rest.rows
                BY <2>2, <3>4
            <4> QED
                BY <2>5, <3>4, <4>1
        <3> QED
            BY <3>1, <3>2, <3>3, <3>4
    <2>8. w.act # "create"
        BY <1>4 DEF ToldOrOwed
    <2>9. ASSUME NEW v \in work, v.act = "create" PROVE v \in work'
        BY <2>5, <2>8, <2>9
    <2> QED
        BY <2>3, <2>5, <2>6, <2>7, <2>9
<1>5. CASE ~w.todo.awaited
    <2>1. work' = {} /\ cut' = cut \cup UNION {Left(v) : v \in work}
        BY <1>3, <1>5
    <2>2. \A v \in work : Left(v) \subseteq cut'
        BY <2>1
    <2>3. \A v \in work : \A q \in v.todo.rows : <<v.act, q[1]>> \in Left(v)
        BY DEF Left
    <2>4. \A v \in work : \A i \in DOMAIN v.todo.mails : <<v.act, v.todo.mails[i]>> \in Left(v)
        BY DEF Left
    <2> QED
        BY <2>1, <2>2, <2>3, <2>4
<1> QED
    BY <1>4, <1>5

\* An act is new: nothing of it has been announced, and its notices leave nobody out.
LEMMA ActStep ==
    ASSUME AlertTypes, RowsOnce, ToldOrOwed, NEW a \in due, Perform(a)
    PROVE  AlertTypes' /\ RowsOnce' /\ ToldOrOwed' /\ (who \in Admins => \A k \in Kinds : Seen(k)' \subseteq Seen(k))
<1> DEFINE fresh == {[act |-> a, todo |-> n] : n \in Notices(a)}
<1>1. /\ UNCHANGED <<told, cut, who, inbox, live, wire, fetch, unread, marking, counter, asks, crossed>>
      /\ due' = due \ {a} /\ past' = past \cup {a} /\ work' = work \cup fresh
      /\ pending' = [k \in Kinds |-> IF k \in WaitsAs(a) THEN pending[k] \cup {a} ELSE pending[k]]
    BY DEF Perform, bell, board
<1>2. a \in Acts /\ a \notin past /\ WellStarted(a)
    BY NoticesAreWellStarted DEF AlertTypes
<1>3. /\ \A x \in fresh : x \in [act : past', todo : Todo] /\ x.act = a /\ x.todo \in Notices(a)
      /\ \A v, x \in fresh : v # x => v.todo # x.todo
      /\ \A n \in Notices(a) : \E x \in fresh : x.act = a /\ x.todo = n
    <2>1. ASSUME NEW x \in fresh
          PROVE  x \in [act : past', todo : Todo] /\ x.act = a /\ x.todo \in Notices(a) /\ x = [act |-> a, todo |-> x.todo]
        <3>1. PICK n \in Notices(a) : x = [act |-> a, todo |-> n]
            OBVIOUS
        <3>2. n \in Todo /\ a \in past'
            BY <1>1, <1>2 DEF WellStarted
        <3> QED
            BY <3>1, <3>2
    <2>2. ASSUME NEW n \in Notices(a) PROVE \E x \in fresh : x.act = a /\ x.todo = n
        <3>1. [act |-> a, todo |-> n] \in fresh /\ [act |-> a, todo |-> n].act = a /\ [act |-> a, todo |-> n].todo = n
            OBVIOUS
        <3> QED
            BY <3>1
    <2> HIDE DEF fresh
    <2> QED
        BY <2>1, <2>2
<1>4. /\ \A x \in fresh : x.todo \in Todo /\ IsFiniteSet(x.todo.rows) /\ (x.todo.awaited => x.act # "create")
      /\ \A v, x \in fresh : v # x => v.todo.rows \cap x.todo.rows = {}
      /\ \A x \in fresh : \A r \in x.todo.rows : r[1] \in Admins => WaitsAs(x.act) \subseteq Recounted(r[2])
    BY <1>2, <1>3 DEF WellStarted
<1> HIDE DEF fresh
<1>5. \A w \in work : w.act \in past /\ w.act # a
    BY <1>2 DEF AlertTypes
<1>6. AlertTypes'
    <2>1. work' \subseteq [act : past', todo : Todo] /\ \A w \in work' : IsFiniteSet(w.todo.rows)
        BY <1>1, <1>3, <1>4 DEF AlertTypes
    <2>2. ASSUME NEW k \in Kinds PROVE IsFiniteSet(pending'[k]) /\ \A b \in pending'[k] : b \in past' /\ k \in WaitsAs(b)
        <3>1. CASE k \in WaitsAs(a)
            <4>1. pending'[k] = pending[k] \cup {a}
                BY <1>1, <3>1
            <4> QED
                BY <1>1, <3>1, <4>1, FS_AddElement DEF AlertTypes
        <3>2. CASE k \notin WaitsAs(a)
            <4>1. pending'[k] = pending[k]
                BY <1>1, <3>2
            <4> QED
                BY <1>1, <4>1 DEF AlertTypes
        <3> QED
            BY <3>1, <3>2
    <2>3. wire \subseteq past' \X RowTypes \X Parts
        BY <1>1 DEF AlertTypes
    <2> QED
        BY <1>1, <1>2, <2>1, <2>2, <2>3 DEF AlertTypes
<1>7. RowsOnce'
    <2>1. ASSUME NEW x \in work', NEW r \in x.todo.rows
          PROVE  /\ r[1] = who => \A part \in Parts : <<x.act, r[2], part>> \notin wire
                 /\ r[1] \in Admins => WaitsAs(x.act) \subseteq Recounted(r[2])
        <3>1. CASE x \in work
            BY <3>1 DEF RowsOnce
        <3>2. CASE x \in fresh
            <4>1. \A t, part : <<a, t, part>> \notin wire
                BY <1>2 DEF AlertTypes
            <4> QED
                BY <1>3, <1>4, <3>2, <4>1
        <3> QED
            BY <1>1, <3>1, <3>2
    <2>2. ASSUME NEW v \in work', NEW x \in work', v.act = x.act, v # x
          PROVE  v.todo.rows \cap x.todo.rows = {}
        <3>1. CASE v \in work /\ x \in work
            BY <2>2, <3>1 DEF RowsOnce
        <3>2. CASE v \in fresh /\ x \in fresh
            BY <1>4, <2>2, <3>2
        <3> QED
            BY <1>1, <1>3, <1>5, <2>2, <3>1, <3>2
    <2> QED
        BY <1>1, <2>1, <2>2 DEF RowsOnce
<1>8. \A p \in Notified(a) : Owed(a, p)' \/ (a = "create" /\ Lettered(a, p)')
    <2>1. ASSUME NEW p \in Notified(a) PROVE Owed(a, p)' \/ (a = "create" /\ Lettered(a, p)')
        <3>1. CASE \E n \in Notices(a) : \E r \in n.rows : r[1] = p
            <4>1. PICK n \in Notices(a) : \E r \in n.rows : r[1] = p
                BY <3>1
            <4>2. PICK x \in fresh : x.act = a /\ x.todo = n
                BY <1>3
            <4> QED
                BY <1>1, <4>1, <4>2 DEF Owed
        <3>2. CASE a = "create" /\ \E n \in Notices(a) : \E i \in DOMAIN n.mails : n.mails[i] = p
            <4>1. PICK n \in Notices(a) : \E i \in DOMAIN n.mails : n.mails[i] = p
                BY <3>2
            <4>2. PICK x \in fresh : x.act = a /\ x.todo = n
                BY <1>3
            <4> QED
                BY <1>1, <3>2, <4>1, <4>2 DEF Lettered
        <3> QED
            BY <1>2, <3>1, <3>2 DEF WellStarted, Reaches
    <2> QED
        BY <2>1
<1>9. ToldOrOwed'
    <2>1. \A x \in work' : x.todo.awaited => x.act # "create"
        BY <1>1, <1>4 DEF ToldOrOwed
    <2>2. ASSUME NEW b \in past', NEW p \in Notified(b)
          PROVE  <<b, p>> \in told' \cup cut' \/ Owed(b, p)' \/ (b = "create" /\ (p \in Unmailable \/ Lettered(b, p)'))
        <3>1. CASE b = a
            BY <1>8, <3>1
        <3>2. CASE b \in past
            BY <1>1, <3>2 DEF ToldOrOwed, Owed, Lettered
        <3> QED
            BY <1>1, <3>1, <3>2
    <2> QED
        BY <2>1, <2>2 DEF ToldOrOwed
<1>10. ASSUME who \in Admins, NEW k \in Kinds, NEW b \in Seen(k)' PROVE b \in Seen(k)
    <2>1. b \in pending'[k] /\ <<b, who>> \notin cut /\ ~Owed(b, who)'
        BY <1>1, <1>10 DEF Seen
    <2>2. CASE b \in pending[k]
        BY <1>1, <2>1, <2>2 DEF Seen, Owed
    <2>3. CASE b \notin pending[k]
        <3>1. b = a /\ k \in WaitsAs(a)
            BY <1>1, <2>1, <2>3
        <3>2. who \in Notified(a) /\ a # "create"
            BY <1>2, <1>10, <3>1, WaitingConcernsAdmins
        <3>3. Reaches(a, who)
            BY <1>2, <3>2 DEF WellStarted
        <3>4. PICK n \in Notices(a) : \E r \in n.rows : r[1] = who
            BY <3>2, <3>3 DEF Reaches
        <3>5. PICK x \in fresh : x.act = a /\ x.todo = n
            BY <1>3
        <3> QED
            BY <1>1, <2>1, <3>1, <3>4, <3>5 DEF Owed
    <2> QED
        BY <2>2, <2>3
<1> QED
    BY <1>6, <1>7, <1>9, <1>10

-----------------------------------------------------------------------------
Heard == AlertTypes /\ RowsOnce /\ ToldOrOwed /\ BellFollows /\ CountersFollow

\* What the tab does leaves the notices alone.
LEMMA NoticesKept ==
    ASSUME RowsOnce, ToldOrOwed, UNCHANGED <<past, work, told, cut, who>>, wire' \subseteq wire
    PROVE  RowsOnce' /\ ToldOrOwed' /\ \A k \in Kinds : pending' = pending => Seen(k)' = Seen(k)
<1>1. RowsOnce'
    BY DEF RowsOnce
<1>2. ToldOrOwed'
    BY DEF ToldOrOwed, Owed, Lettered
<1>3. \A k \in Kinds : pending' = pending => Seen(k)' = Seen(k)
    BY DEF Seen, Owed
<1> QED
    BY <1>1, <1>2, <1>3

LEMMA BellKept ==
    ASSUME BellFollows, UNCHANGED <<inbox, fetch, unread, list, marking>>, Unheard' = Unheard, astray => astray'
    PROVE  BellFollows'
BY DEF BellFollows, SomeServed

\* The bell: its requests, its messages, its clicks.
LEMMA NewestAreRows == ASSUME inbox \in Seq(InboxRow) PROVE Newest(inbox) \in Seq(InboxRow)
<1> DEFINE n == IF Len(inbox) < Listed THEN Len(inbox) ELSE Listed
<1>1. Len(inbox) \in Nat /\ n \in Nat /\ n <= Len(inbox)
    BY AlertsAssumption
<1>2. \A i \in 1..n : inbox[Len(inbox) + 1 - i] \in InboxRow
    <2>1. \A i \in 1..n : Len(inbox) + 1 - i \in 1..Len(inbox)
        <3> HIDE DEF n
        <3> QED
            BY <1>1
    <2> QED
        BY <2>1
<1>3. Newest(inbox) = [i \in 1..n |-> inbox[Len(inbox) + 1 - i]]
    BY DEF Newest
<1> HIDE DEF n
<1> QED
    BY <1>1, <1>2, <1>3

LEMMA FetchReadsStep ==
    ASSUME Heard, NEW part \in fetch.left, FetchReads(part)
    PROVE  Heard'
<1>1. /\ UNCHANGED <<due, past, work, told, cut, who, inbox, pending, live, wire, list, unread, marking, astray>>
      /\ UNCHANGED <<counter, asks, crossed>>
      /\ fetch' = [fetch EXCEPT !.left = @ \ {part}, !.list = IF part = "list" THEN Newest(inbox) ELSE @,
                                !.count = IF part = "count" THEN UnreadRows(inbox) ELSE @]
    BY DEF FetchReads, notices, board
<1>2. inbox \in Seq(InboxRow) /\ fetch \in Fetch /\ IsFiniteSet(wire)
    BY DEF Heard, AlertTypes
<1>3. Newest(inbox) \in Seq(InboxRow) /\ UnreadRows(inbox) \in Nat /\ Unheard \in Nat
    BY <1>2, NewestAreRows, UnreadCount, Unheards
<1>4. /\ fetch' \in Fetch /\ fetch'.on = fetch.on /\ fetch'.left = fetch.left \ {part}
      /\ fetch'.count = IF part = "count" THEN UnreadRows(inbox) ELSE fetch.count
    BY <1>1, <1>2, <1>3 DEF Fetch
<1>5. AlertTypes'
    BY <1>1, <1>4 DEF Heard, AlertTypes
<1>6. Unheard' = Unheard
    BY <1>1 DEF Unheard
<1>7. BellFollows'
    BY <1>1, <1>3, <1>4, <1>6 DEF Heard, BellFollows, SomeServed
<1>8. RowsOnce' /\ ToldOrOwed' /\ \A k \in Kinds : Seen(k)' = Seen(k)
    BY <1>1, NoticesKept DEF Heard
<1>9. CountersFollow'
    BY <1>1, <1>8, CountersKept DEF Heard
<1> QED
    BY <1>5, <1>7, <1>8, <1>9 DEF Heard

LEMMA FetchSettlesStep == ASSUME Heard, FetchSettles PROVE Heard'
<1>1. /\ UNCHANGED <<due, past, work, told, cut, who, inbox, pending, live, wire, marking, counter, asks, crossed>>
      /\ fetch' = [on |-> FALSE, left |-> {}, list |-> <<>>, count |-> 0] /\ fetch.on
      /\ \/ fetch.left = {} /\ unread' = fetch.count /\ UNCHANGED astray
         \/ astray' /\ UNCHANGED unread
    BY DEF FetchSettles, notices, board
<1>2. fetch \in Fetch /\ fetch' \in Fetch /\ fetch'.left = {} /\ ~fetch'.on
    <2>1. <<>> \in Seq(InboxRow)
        OBVIOUS
    <2> QED
        BY <1>1, <2>1 DEF Heard, AlertTypes, Fetch
<1>3. fetch.count \in Nat
    BY <1>2 DEF Fetch
<1>4. AlertTypes'
    BY <1>1, <1>2, <1>3 DEF Heard, AlertTypes
<1>5. Unheard' = Unheard
    BY <1>1 DEF Unheard
<1>6. BellFollows'
    BY <1>1, <1>2, <1>5 DEF Heard, BellFollows, SomeServed, Idle
<1>7. RowsOnce' /\ ToldOrOwed' /\ \A k \in Kinds : Seen(k)' = Seen(k)
    BY <1>1, NoticesKept DEF Heard
<1>8. CountersFollow'
    BY <1>1, <1>7, CountersKept DEF Heard
<1> QED
    BY <1>4, <1>6, <1>7, <1>8 DEF Heard

LEMMA BellHearsStep == ASSUME Heard, NEW m \in wire, BellHears(m) PROVE Heard'
<1>1. /\ UNCHANGED <<due, past, work, told, cut, who, inbox, pending, live, fetch, marking, counter, asks, crossed>>
      /\ m[3] = "bell" /\ wire' = wire \ {m} /\ unread' = unread + 1
      /\ astray' = (astray \/ fetch.on \/ marking # Idle)
    BY DEF BellHears, notices, board
<1>2. IsFiniteSet(wire) /\ unread \in Nat /\ inbox \in Seq(InboxRow)
    BY DEF Heard, AlertTypes
<1>3. Unheard \in Nat /\ Unheard' = Unheard - 1 /\ IsFiniteSet(wire') /\ UnreadRows(inbox) \in Nat
    BY <1>1, <1>2, Unheards, UnreadCount
<1>4. AlertTypes'
    BY <1>1, <1>2, <1>3 DEF Heard, AlertTypes
<1>5. BellFollows'
    <2>1. fetch'.left # {} => fetch'.on
        BY <1>1 DEF Heard, BellFollows
    <2>2. ASSUME ~astray' PROVE ~fetch'.on /\ ~SomeServed' /\ unread' + Unheard' >= UnreadRows(inbox')
        <3>1. ~astray /\ ~fetch.on /\ marking = Idle
            BY <1>1, <2>2
        <3>2. unread + Unheard >= UnreadRows(inbox)
            BY <3>1 DEF Heard, BellFollows
        <3>3. ~SomeServed'
            BY <1>1, <3>1 DEF SomeServed, Idle
        <3> QED
            BY <1>1, <1>2, <1>3, <3>1, <3>2, <3>3
    <2> QED
        BY <2>1, <2>2 DEF BellFollows
<1>6. RowsOnce' /\ ToldOrOwed' /\ \A k \in Kinds : Seen(k)' = Seen(k)
    BY <1>1, NoticesKept DEF Heard
<1>7. \A n \in wire : n[3] = "shell" => n \in wire'
    BY <1>1
<1>8. CountersFollow'
    BY <1>1, <1>6, <1>7, CountersKept DEF Heard
<1> QED
    BY <1>4, <1>5, <1>6, <1>8 DEF Heard

LEMMA LoseMessageStep == ASSUME Heard, NEW m \in wire, LoseMessage(m) PROVE Heard'
<1>1. /\ UNCHANGED <<due, past, work, told, cut, who, inbox, pending, live, fetch, list, unread, marking, counter, asks>>
      /\ wire' = wire \ {m} /\ Missed(m[3], m[2])
    BY DEF LoseMessage, notices
<1>2. IsFiniteSet(wire) /\ inbox \in Seq(InboxRow) /\ m[3] \in {"bell", "shell"}
    BY DEF Heard, AlertTypes, Parts
<1>3. /\ Unheard \in Nat /\ IsFiniteSet(wire') /\ UnreadRows(inbox) \in Nat
      /\ Unheard' = IF m[3] = "bell" THEN Unheard - 1 ELSE Unheard
    BY <1>1, <1>2, Unheards, UnreadCount
<1>4. /\ crossed' = IF m[3] = "shell" THEN crossed \cup Recounted(m[2]) ELSE crossed
      /\ astray' = (astray \/ (m[3] = "bell" /\ "count" \notin fetch.left))
    BY <1>1 DEF Missed
<1>5. AlertTypes'
    BY <1>1, <1>3, <1>4, RecountsAreKinds DEF Heard, AlertTypes
<1>6. BellFollows'
    BY <1>1, <1>2, <1>3, <1>4 DEF Heard, BellFollows, SomeServed
<1>7. RowsOnce' /\ ToldOrOwed' /\ \A k \in Kinds : Seen(k)' = Seen(k)
    BY <1>1, NoticesKept DEF Heard
<1>8. \A n \in wire : n[3] = "shell" => n \in wire' \/ Recounted(n[2]) \subseteq crossed'
    BY <1>1, <1>4
<1>9. CountersFollow'
    BY <1>1, <1>4, <1>7, <1>8, CountersKept DEF Heard
<1> QED
    BY <1>5, <1>6, <1>7, <1>9 DEF Heard

\* Rows that somebody reads, here or elsewhere, and the bell's own read-all.
LEMMA InboxReadStep ==
    ASSUME Heard, UNCHANGED <<due, past, work, told, cut, who, pending, live, wire, unread, fetch, astray>>,
           UNCHANGED <<counter, asks, crossed>>, fetch.on /\ ~astray => marking' = Idle /\ list' = <<>>,
           marking' \in [Click -> {"no", "opened", "pressed", "served"}], inbox' \in Seq(InboxRow),
           UnreadRows(inbox') <= UnreadRows(inbox),
           SomeServed' => SomeServed \/ UnreadRows(inbox') = 0
    PROVE  Heard'
<1>1. AlertTypes'
    BY DEF Heard, AlertTypes
<1>2. IsFiniteSet(wire) /\ inbox \in Seq(InboxRow) /\ unread \in Nat /\ fetch \in Fetch
    BY DEF Heard, AlertTypes
<1>3. Unheard' = Unheard /\ Unheard \in Nat /\ UnreadRows(inbox) \in Nat /\ UnreadRows(inbox') \in Nat
    BY <1>2, Unheards, UnreadCount DEF Unheard
<1>4. fetch.count \in Nat
    BY <1>2 DEF Fetch
<1>5. BellFollows'
    BY <1>2, <1>3, <1>4 DEF Heard, BellFollows
<1>6. RowsOnce' /\ ToldOrOwed' /\ \A k \in Kinds : Seen(k)' = Seen(k)
    BY NoticesKept DEF Heard
<1>7. CountersFollow'
    BY <1>6, CountersKept DEF Heard
<1> QED
    BY <1>1, <1>5, <1>6, <1>7 DEF Heard

\* A read-all that is asked for: of a bell that still asks for its list, only astray.
LEMMA AskingStep ==
    ASSUME Heard, NEW c \in Click, NEW by \in {"opened", "pressed"}, Asks(c, by), unread > 0 \/ list # <<>>
    PROVE  /\ marking' \in [Click -> {"no", "opened", "pressed", "served"}] /\ (SomeServed' => SomeServed)
           /\ fetch.on => astray
<1>1. marking \in [Click -> {"no", "opened", "pressed", "served"}] /\ unread \in Nat
    BY DEF Heard, AlertTypes
<1>2. marking' \in [Click -> {"no", "opened", "pressed", "served"}] /\ (SomeServed' => SomeServed)
    BY <1>1 DEF Asks, SomeServed
<1>3. fetch.on => astray
    BY <1>1 DEF Heard, BellFollows
<1> QED
    BY <1>2, <1>3

LEMMA BellClickSteps ==
    ASSUME Heard, ToggleBell \/ (\E i \in DOMAIN list : MarkOne(i)) \/ ReadOnPage
                  \/ \E c \in Click : MarkAllRead(c) \/ ReadAllServed(c)
    PROVE  Heard'
<1>1. /\ inbox \in Seq(InboxRow) /\ UnreadRows(inbox) \in Nat /\ UnreadRows(inbox) <= UnreadRows(inbox)
      /\ AllRead(inbox) \in Seq(InboxRow) /\ UnreadRows(AllRead(inbox)) = 0 /\ UnreadRows(AllRead(inbox)) <= UnreadRows(inbox)
      /\ marking \in [Click -> {"no", "opened", "pressed", "served"}]
      /\ fetch.on /\ ~astray => marking = Idle /\ unread = 0 /\ list = <<>>
    <2>1. inbox \in Seq(InboxRow) /\ marking \in [Click -> {"no", "opened", "pressed", "served"}]
        BY DEF Heard, AlertTypes
    <2>2. UnreadRows(inbox) \in Nat /\ AllRead(inbox) \in Seq(InboxRow) /\ UnreadRows(AllRead(inbox)) = 0
        BY <2>1, UnreadCount
    <2>3. UnreadRows(inbox) <= UnreadRows(inbox) /\ 0 <= UnreadRows(inbox)
        BY <2>2
    <2> QED
        BY <2>1, <2>2, <2>3 DEF Heard, BellFollows
<1>2. CASE ToggleBell
    <2>1. CASE \E c \in Click : Asks(c, "opened") /\ unread > 0
        BY <1>1, <1>2, <2>1, AskingStep, InboxReadStep DEF ToggleBell, notices, board
    <2>2. CASE marking' = marking
        BY <1>1, <1>2, <2>2, InboxReadStep DEF ToggleBell, SomeServed, notices, board
    <2> QED
        BY <1>2, <2>1, <2>2 DEF ToggleBell
<1>3. CASE \E c \in Click : MarkAllRead(c)
    BY <1>1, <1>3, AskingStep, InboxReadStep DEF MarkAllRead, notices, board
<1>4. CASE \E c \in Click : ReadAllServed(c)
    <2>1. PICK c \in Click : ReadAllServed(c)
        BY <1>4
    <2>2. marking # Idle /\ marking' \in [Click -> {"no", "opened", "pressed", "served"}] /\ inbox' = AllRead(inbox)
        BY <1>1, <2>1 DEF ReadAllServed, Idle
    <2> QED
        BY <1>1, <2>1, <2>2, InboxReadStep DEF ReadAllServed, board
<1>5. CASE \E i \in DOMAIN list : MarkOne(i)
    <2>1. PICK i \in DOMAIN list : MarkOne(i)
        BY <1>5
    <2>2. inbox' \in Seq(InboxRow) /\ UnreadRows(inbox') <= UnreadRows(inbox)
        BY <1>1, <2>1, RowIsRead DEF MarkOne
    <2>3. list # <<>>
        BY <2>1
    <2> QED
        BY <1>1, <2>1, <2>2, <2>3, InboxReadStep DEF MarkOne, SomeServed, board
<1>6. CASE ReadOnPage
    <2>1. inbox' \in Seq(InboxRow) /\ UnreadRows(inbox') <= UnreadRows(inbox)
        <3>1. CASE inbox' = AllRead(inbox)
            BY <1>1, <3>1
        <3>2. CASE \E i \in DOMAIN Newest(inbox) : RowRead(Newest(inbox)[i].act)
            BY <1>1, <3>2, RowIsRead
        <3> QED
            BY <1>6, <3>1, <3>2 DEF ReadOnPage
    <2> QED
        BY <1>1, <1>6, <2>1, InboxReadStep DEF ReadOnPage, SomeServed, bell, board
<1> QED
    BY <1>2, <1>3, <1>4, <1>5, <1>6

LEMMA ReadAllSettlesStep == ASSUME Heard, NEW c \in Click, ReadAllSettles(c) PROVE Heard'
<1>1. /\ UNCHANGED <<due, past, work, told, cut, who, inbox, pending, live, wire, fetch, counter, asks, crossed>>
      /\ marking' = [marking EXCEPT ![c] = "no"] /\ marking[c] # "no"
      /\ \/ marking[c] = "served" /\ unread' = 0 /\ UNCHANGED astray
         \/ unread' = 0 /\ astray'
         \/ UNCHANGED <<unread, list, astray>>
    BY DEF ReadAllSettles, notices, board
<1>2. marking \in [Click -> {"no", "opened", "pressed", "served"}] /\ marking # Idle
    BY <1>1 DEF Heard, AlertTypes, Idle
<1>3. marking' \in [Click -> {"no", "opened", "pressed", "served"}] /\ (SomeServed' => SomeServed)
      /\ (marking[c] = "served" => SomeServed)
    BY <1>1, <1>2 DEF SomeServed
<1>4. AlertTypes'
    BY <1>1, <1>3 DEF Heard, AlertTypes
<1>5. Unheard' = Unheard /\ UnreadRows(inbox)' = UnreadRows(inbox) /\ Unheard \in Nat
    BY <1>1, Unheards DEF Unheard, UnreadRows, Heard, AlertTypes
<1>6. BellFollows'
    BY <1>1, <1>2, <1>3, <1>5 DEF Heard, BellFollows
<1>7. RowsOnce' /\ ToldOrOwed' /\ \A k \in Kinds : Seen(k)' = Seen(k)
    BY <1>1, NoticesKept DEF Heard
<1>8. CountersFollow'
    BY <1>1, <1>7, CountersKept DEF Heard
<1> QED
    BY <1>4, <1>6, <1>7, <1>8 DEF Heard

LEMMA SubscribeStep == ASSUME Heard, NEW part \in Parts, Subscribe(part) PROVE Heard'
<1>1. /\ UNCHANGED <<due, past, work, told, cut, who, inbox, pending, wire, fetch, list, unread, marking, astray>>
      /\ UNCHANGED <<counter, asks, crossed>> /\ live' = live \cup {part}
    BY DEF Subscribe, notices, bell, board
<1>2. AlertTypes'
    BY <1>1 DEF Heard, AlertTypes
<1>3. BellFollows'
    BY <1>1, BellKept DEF Heard, Unheard
<1>4. RowsOnce' /\ ToldOrOwed' /\ \A k \in Kinds : Seen(k)' = Seen(k)
    BY <1>1, NoticesKept DEF Heard
<1>5. CountersFollow'
    BY <1>1, <1>4, CountersKept DEF Heard
<1> QED
    BY <1>2, <1>3, <1>4, <1>5 DEF Heard

LEMMA MountStep == ASSUME Heard, Mount PROVE Heard'
<1>1. /\ UNCHANGED <<due, past, work, told, cut, who, inbox, pending>>
      /\ asks' = [k \in Kinds |-> <<>>] /\ live' = {} /\ wire' = {} /\ unread' = 0 /\ list' = <<>>
      /\ marking' = Idle /\ fetch' = [on |-> TRUE, left |-> {"list", "count"}, list |-> <<>>, count |-> 0]
    BY DEF Mount, notices
<1>2. \A k \in Kinds : IsFiniteSet(pending[k]) /\ Cardinality(pending[k]) \in Nat
    BY FS_CardinalityType DEF Heard, AlertTypes
<1>3. Waiting \in [Kinds -> Nat] /\ (who \in Admins => \A k \in Kinds : Waiting[k] = Cardinality(pending[k]))
    BY <1>2 DEF Waiting
<1>4. /\ counter' \in [Kinds -> Nat] /\ crossed' \subseteq Kinds
      /\ \A k \in Kinds \ crossed' : counter'[k] = Waiting[k]
    <2>1. CASE counter' = Waiting /\ crossed' = {}
        BY <1>3, <2>1
    <2>2. CASE \E k \in Kinds : counter' = [Waiting EXCEPT ![k] = 0] /\ crossed' = {k}
        BY <1>3, <2>2
    <2> QED
        BY <2>1, <2>2 DEF Mount
<1>5. fetch' \in Fetch /\ fetch'.on /\ fetch'.left = {"list", "count"}
    <2>1. <<>> \in Seq(InboxRow)
        OBVIOUS
    <2> QED
        BY <1>1, <2>1 DEF Fetch
<1>6. asks' \in Readings
    <2>1. <<>> \in Seq(Nat \cup {NotRead})
        OBVIOUS
    <2> QED
        BY <1>1, <2>1 DEF Readings
<1>7. AlertTypes'
    BY <1>1, <1>4, <1>5, <1>6, FS_EmptySet DEF Heard, AlertTypes, Idle
<1>8. BellFollows'
    BY <1>1, <1>5 DEF BellFollows
<1>9. RowsOnce' /\ ToldOrOwed' /\ \A k \in Kinds : Seen(k)' = Seen(k)
    BY <1>1, NoticesKept DEF Heard
<1>10. CountersFollow'
    <2>1. ASSUME who \in Admins, NEW k \in Kinds, k \notin crossed'
          PROVE  Len(asks'[k]) <= 1 /\ asks'[k] = <<>> /\ counter'[k] >= Cardinality(Seen(k))
        <3>1. Cardinality(Seen(k)) <= Cardinality(pending[k]) /\ Cardinality(Seen(k)) \in Nat
            BY <1>2, FS_Subset, FS_CardinalityType DEF Seen
        <3> QED
            BY <1>1, <1>2, <1>3, <1>4, <2>1, <3>1
    <2> QED
        BY <1>1, <1>9, <2>1 DEF CountersFollow, Latest
<1> QED
    BY <1>7, <1>8, <1>9, <1>10 DEF Heard

\* The counters: what is asked for again has not been read yet, or crosses a request.
LEMMA AskedAgain ==
    ASSUME asks \in Readings, NEW kinds, Ask(kinds)
    PROVE  /\ asks' \in Readings
           /\ \A k \in Kinds \cap kinds : asks[k] # <<>> => k \in crossed'
           /\ \A k \in Kinds \cap kinds : asks[k] = <<>> => asks'[k] # <<>> /\ asks'[k][1] = NotRead /\ Len(asks'[k]) = 1
           /\ \A k \in Kinds \ kinds : asks'[k] = asks[k]
           /\ crossed \subseteq crossed' /\ crossed' \subseteq crossed \cup kinds
<1>1. \A k \in Kinds : asks[k] \in Seq(Nat \cup {NotRead}) /\ Append(asks[k], NotRead) \in Seq(Nat \cup {NotRead})
    BY DEF Readings
<1>2. \A k \in Kinds : asks'[k] = IF k \in kinds THEN Append(asks[k], NotRead) ELSE asks[k]
    BY DEF Ask
<1>3. asks' \in Readings
    BY <1>1 DEF Ask, Readings
<1>4. ASSUME NEW k \in Kinds \cap kinds, asks[k] = <<>>
      PROVE  asks'[k] # <<>> /\ asks'[k][1] = NotRead /\ Len(asks'[k]) = 1
    <2>1. asks'[k] = Append(<<>>, NotRead)
        BY <1>2, <1>4
    <2>2. Append(<<>>, NotRead) = <<NotRead>>
        OBVIOUS
    <2>3. Len(<<NotRead>>) = 1 /\ <<NotRead>>[1] = NotRead /\ <<NotRead>> # <<>>
        OBVIOUS
    <2> QED
        BY <2>1, <2>2, <2>3
<1> QED
    BY <1>2, <1>3, <1>4 DEF Ask

LEMMA ShellHearsStep == ASSUME Heard, NEW m \in wire, ShellHears(m) PROVE Heard'
<1> DEFINE kinds == IF who \in Admins THEN Recounted(m[2]) ELSE {}
<1>1. /\ UNCHANGED <<due, past, work, told, cut, who, inbox, pending, live, fetch, list, unread, marking, astray, counter>>
      /\ m[3] = "shell" /\ wire' = wire \ {m} /\ Ask(kinds)
    BY DEF ShellHears, notices, bell
<1>2. kinds \subseteq Kinds /\ (who \in Admins => kinds = Recounted(m[2]))
    BY RecountsAreKinds
<1>3. IsFiniteSet(wire) /\ asks \in Readings /\ crossed \subseteq Kinds
    BY DEF Heard, AlertTypes
<1> HIDE DEF kinds
<1>4. /\ asks' \in Readings
      /\ \A k \in Kinds \cap kinds : asks[k] # <<>> => k \in crossed'
      /\ \A k \in Kinds \cap kinds : asks[k] = <<>> => asks'[k] # <<>> /\ asks'[k][1] = NotRead /\ Len(asks'[k]) = 1
      /\ \A k \in Kinds \ kinds : asks'[k] = asks[k]
      /\ crossed \subseteq crossed' /\ crossed' \subseteq crossed \cup kinds
    BY <1>1, <1>3, AskedAgain
<1>5. IsFiniteSet(wire') /\ Unheard' = Unheard
    BY <1>1, <1>3, Unheards
<1>6. AlertTypes'
    BY <1>1, <1>2, <1>3, <1>4, <1>5 DEF Heard, AlertTypes
<1>7. BellFollows'
    BY <1>1, <1>5, BellKept DEF Heard
<1>8. RowsOnce' /\ ToldOrOwed' /\ \A k \in Kinds : Seen(k)' = Seen(k)
    BY <1>1, NoticesKept DEF Heard
<1>9. CountersFollow'
    <2>1. ASSUME who \in Admins, NEW k \in Kinds, k \notin crossed'
          PROVE  /\ Len(asks'[k]) <= 1
                 /\ \/ \E n \in wire' : n[3] = "shell" /\ k \in Recounted(n[2])
                    \/ Latest(k)' = NotRead
                    \/ Latest(k)' >= Cardinality(Seen(k))
        <3>1. CASE k \in kinds
            <4>1. asks'[k] # <<>> /\ asks'[k][1] = NotRead /\ Len(asks'[k]) = 1
                BY <1>4, <2>1, <3>1
            <4>2. Latest(k)' = NotRead
                BY <4>1 DEF Latest
            <4> QED
                BY <4>1, <4>2
        <3>2. CASE k \notin kinds
            <4>1. Latest(k)' = Latest(k) /\ asks'[k] = asks[k] /\ k \notin crossed
                BY <1>1, <1>4, <2>1, <3>2 DEF Latest
            <4>2. k \notin Recounted(m[2])
                BY <1>2, <2>1, <3>2
            <4>3. CASE \E n \in wire : n[3] = "shell" /\ k \in Recounted(n[2])
                BY <1>1, <2>1, <4>1, <4>2, <4>3 DEF Heard, CountersFollow
            <4>4. CASE ~\E n \in wire : n[3] = "shell" /\ k \in Recounted(n[2])
                BY <2>1, <4>1, <4>4 DEF Heard, CountersFollow
            <4> QED
                BY <4>3, <4>4
        <3> QED
            BY <3>1, <3>2
    <2> QED
        BY <1>1, <1>8, <2>1 DEF CountersFollow
<1> QED
    BY <1>6, <1>7, <1>8, <1>9 DEF Heard

LEMMA AskReadsStep ==
    ASSUME Heard, NEW k \in Kinds, NEW i \in DOMAIN asks[k], AskReads(k, i)
    PROVE  Heard'
<1>1. /\ UNCHANGED <<due, past, work, told, cut, who, inbox, pending, live, wire, fetch, list, unread, marking, astray>>
      /\ UNCHANGED <<counter, crossed>> /\ asks' = [asks EXCEPT ![k][i] = Cardinality(pending[k])]
    BY DEF AskReads, notices, bell
<1>2. asks \in Readings /\ asks[k] \in Seq(Nat \cup {NotRead}) /\ Cardinality(pending[k]) \in Nat /\ IsFiniteSet(pending[k])
    BY FS_CardinalityType DEF Heard, AlertTypes, Readings
<1>3. [asks[k] EXCEPT ![i] = Cardinality(pending[k])] \in Seq(Nat \cup {NotRead})
    BY <1>2
<1>4. /\ asks' \in Readings /\ \A j \in Kinds : j # k => asks'[j] = asks[j]
      /\ asks'[k] = [asks[k] EXCEPT ![i] = Cardinality(pending[k])]
    BY <1>1, <1>2, <1>3 DEF Readings
<1>5. AlertTypes'
    BY <1>1, <1>4 DEF Heard, AlertTypes
<1>6. BellFollows'
    BY <1>1, BellKept DEF Heard, Unheard
<1>7. RowsOnce' /\ ToldOrOwed' /\ \A j \in Kinds : Seen(j)' = Seen(j)
    BY <1>1, NoticesKept DEF Heard
<1>8. ASSUME who \in Admins, k \notin crossed
      PROVE  Len(asks'[k]) <= 1 /\ Latest(k)' >= Cardinality(Seen(k))
    <2>1. Len(asks[k]) <= 1 /\ Len(asks[k]) \in Nat /\ DOMAIN asks[k] = 1..Len(asks[k])
        BY <1>2, <1>8 DEF Heard, CountersFollow
    <2>2. i = 1 /\ Len(asks[k]) = 1
        <3> DEFINE n == Len(asks[k])
        <3>1. i \in 1..n /\ n \in Nat /\ n <= 1
            BY <2>1
        <3> HIDE DEF n
        <3>2. i = 1 /\ n = 1
            BY <3>1
        <3> QED
            BY <3>2 DEF n
    <2>3. Len(asks'[k]) = 1 /\ asks'[k][1] = Cardinality(pending[k]) /\ asks'[k] # <<>>
        BY <1>2, <1>4, <2>1, <2>2
    <2>4. Cardinality(Seen(k)) <= Cardinality(pending[k]) /\ Cardinality(Seen(k)) \in Nat
        BY <1>2, FS_Subset, FS_CardinalityType DEF Seen
    <2>5. Latest(k)' = Cardinality(pending[k])
        BY <2>3 DEF Latest
    <2> QED
        BY <1>2, <2>3, <2>4, <2>5
<1>9. \A j \in Kinds : j # k => Latest(j)' = Latest(j)
    BY <1>1, <1>4 DEF Latest
<1>10. CountersFollow'
    <2>1. ASSUME who \in Admins, NEW j \in Kinds, j \notin crossed
          PROVE  /\ Len(asks'[j]) <= 1
                 /\ \/ \E n \in wire : n[3] = "shell" /\ j \in Recounted(n[2])
                    \/ Latest(j)' = NotRead
                    \/ Latest(j)' >= Cardinality(Seen(j))
        <3>1. CASE j = k
            BY <1>8, <2>1, <3>1
        <3>2. CASE j # k
            BY <1>4, <1>9, <2>1, <3>2 DEF Heard, CountersFollow
        <3> QED
            BY <3>1, <3>2
    <2> QED
        BY <1>1, <1>7, <2>1 DEF CountersFollow
<1> QED
    BY <1>5, <1>6, <1>7, <1>10 DEF Heard

LEMMA AskSettlesStep ==
    ASSUME Heard, NEW k \in Kinds, NEW i \in DOMAIN asks[k], AskSettles(k, i)
    PROVE  Heard'
<1>1. /\ UNCHANGED <<due, past, work, told, cut, who, inbox, pending, live, wire, fetch, list, unread, marking, astray>>
      /\ asks' = [asks EXCEPT ![k] = Without(@, i)]
      /\ \/ asks[k][i] # NotRead /\ counter' = [counter EXCEPT ![k] = asks[k][i]] /\ UNCHANGED crossed
         \/ crossed' = crossed \cup {k} /\ UNCHANGED counter
    BY DEF AskSettles, notices, bell
<1>2. asks \in Readings /\ asks[k] \in Seq(Nat \cup {NotRead}) /\ counter \in [Kinds -> Nat]
    BY DEF Heard, AlertTypes, Readings
<1>3. asks[k][i] \in Nat \cup {NotRead} /\ i \in 1..Len(asks[k]) /\ Len(asks[k]) \in Nat
    BY <1>2
<1>4. Without(asks[k], i) \in Seq(Nat \cup {NotRead}) /\ (Len(asks[k]) = 1 => Without(asks[k], i) = <<>>)
    <2> DEFINE before == SubSeq(asks[k], 1, i - 1)  after == SubSeq(asks[k], i + 1, Len(asks[k]))
    <2>1. before \in Seq(Nat \cup {NotRead}) /\ after \in Seq(Nat \cup {NotRead})
        BY <1>2, <1>3
    <2>2. Len(asks[k]) = 1 => before = <<>> /\ after = <<>>
        BY <1>2, <1>3
    <2>3. Without(asks[k], i) = before \o after
        BY DEF Without
    <2>4. <<>> \o <<>> = <<>>
        OBVIOUS
    <2> HIDE DEF before, after
    <2>5. before \o after \in Seq(Nat \cup {NotRead})
        BY <2>1
    <2> QED
        BY <2>2, <2>3, <2>4, <2>5
<1>5. asks' \in Readings /\ asks'[k] = Without(asks[k], i) /\ \A j \in Kinds : j # k => asks'[j] = asks[j]
    BY <1>1, <1>2, <1>4 DEF Readings
<1>6. counter' \in [Kinds -> Nat] /\ crossed' \subseteq Kinds /\ crossed \subseteq crossed'
      /\ \A j \in Kinds : j # k => counter'[j] = counter[j]
    BY <1>1, <1>2, <1>3 DEF Heard, AlertTypes
<1>7. AlertTypes'
    BY <1>1, <1>5, <1>6 DEF Heard, AlertTypes
<1>8. BellFollows'
    BY <1>1, BellKept DEF Heard, Unheard
<1>9. RowsOnce' /\ ToldOrOwed' /\ \A j \in Kinds : Seen(j)' = Seen(j)
    BY <1>1, NoticesKept DEF Heard
<1>10. ASSUME who \in Admins, k \notin crossed' PROVE Len(asks'[k]) <= 1 /\ Latest(k)' = Latest(k)
    <2>1. asks[k][i] # NotRead /\ counter'[k] = asks[k][i] /\ k \notin crossed
        <3>1. asks[k][i] # NotRead /\ counter' = [counter EXCEPT ![k] = asks[k][i]] /\ crossed' = crossed
            BY <1>1, <1>10
        <3> QED
            BY <1>2, <1>10, <3>1
    <2>2. Len(asks[k]) <= 1
        BY <1>10, <2>1 DEF Heard, CountersFollow
    <2>3. i = 1 /\ Len(asks[k]) = 1 /\ asks[k] # <<>>
        <3> DEFINE n == Len(asks[k])
        <3>1. i \in 1..n /\ n \in Nat /\ n <= 1
            BY <1>3, <2>2
        <3> HIDE DEF n
        <3>2. i = 1 /\ n = 1
            BY <3>1
        <3>3. Len(asks[k]) = 1
            BY <3>2 DEF n
        <3> QED
            BY <1>2, <3>2, <3>3
    <2>4. asks'[k] = <<>>
        BY <1>4, <1>5, <2>3
    <2>5. Latest(k)' = counter'[k]
        BY <2>4 DEF Latest
    <2>6. Latest(k) = asks[k][1]
        BY <2>3 DEF Latest
    <2>7. Len(<<>>) = 0
        OBVIOUS
    <2> QED
        BY <2>1, <2>3, <2>4, <2>5, <2>6, <2>7
<1>11. \A j \in Kinds : j # k => Latest(j)' = Latest(j)
    BY <1>5, <1>6 DEF Latest
<1>12. CountersFollow'
    <2>1. ASSUME who \in Admins, NEW j \in Kinds, j \notin crossed'
          PROVE  /\ Len(asks'[j]) <= 1
                 /\ \/ \E n \in wire : n[3] = "shell" /\ j \in Recounted(n[2])
                    \/ Latest(j)' = NotRead
                    \/ Latest(j)' >= Cardinality(Seen(j))
        <3>1. Len(asks'[j]) <= 1 /\ Latest(j)' = Latest(j)
            <4>1. CASE j = k
                BY <1>10, <2>1, <4>1
            <4>2. CASE j # k
                BY <1>5, <1>6, <1>11, <2>1, <4>2 DEF Heard, CountersFollow
            <4> QED
                BY <4>1, <4>2
        <3>2. j \notin crossed
            BY <1>6, <2>1
        <3> QED
            BY <2>1, <3>1, <3>2 DEF Heard, CountersFollow
    <2> QED
        BY <1>1, <1>9, <2>1 DEF CountersFollow
<1> QED
    BY <1>7, <1>8, <1>9, <1>12 DEF Heard

\* What is dealt with is no longer seen, by whomever it is dealt with.
LEMMA DealStep == ASSUME Heard, NEW a \in past, Deal(a) PROVE Heard'
<1> DEFINE kinds == WaitsAs(a)
<1>1. /\ UNCHANGED <<due, past, work, told, cut, who, inbox, live, wire, fetch, list, unread, marking, astray, counter>>
      /\ pending' = [k \in Kinds |-> pending[k] \ {a}]
      /\ Ask(kinds) \/ UNCHANGED <<asks, crossed>>
    BY DEF Deal, bell
<1>2. \A k \in Kinds : pending'[k] = pending[k] \ {a} /\ IsFiniteSet(pending[k]) /\ IsFiniteSet(pending'[k])
    BY <1>1, FS_Subset DEF Heard, AlertTypes
<1>3. asks \in Readings /\ crossed \subseteq Kinds /\ kinds \subseteq Kinds
    BY DEF Heard, AlertTypes, WaitsAs, Kinds
<1> HIDE DEF kinds
<1>4. /\ asks' \in Readings /\ crossed \subseteq crossed' /\ crossed' \subseteq Kinds
      /\ \A k \in Kinds \ crossed' :
           asks'[k] = asks[k] \/ (asks'[k] # <<>> /\ asks'[k][1] = NotRead /\ Len(asks'[k]) = 1)
    <2>1. CASE UNCHANGED <<asks, crossed>>
        BY <1>3, <2>1
    <2>2. CASE Ask(kinds)
        <3>1. /\ asks' \in Readings
              /\ \A k \in Kinds \cap kinds : asks[k] # <<>> => k \in crossed'
              /\ \A k \in Kinds \cap kinds : asks[k] = <<>> => asks'[k] # <<>> /\ asks'[k][1] = NotRead /\ Len(asks'[k]) = 1
              /\ \A k \in Kinds \ kinds : asks'[k] = asks[k]
              /\ crossed \subseteq crossed' /\ crossed' \subseteq crossed \cup kinds
            BY <1>3, <2>2, AskedAgain
        <3> QED
            BY <1>3, <3>1
    <2> QED
        BY <1>1, <2>1, <2>2
<1>5. AlertTypes'
    <2>1. \A k \in Kinds : \A b \in pending'[k] : b \in past /\ k \in WaitsAs(b)
        BY <1>2 DEF Heard, AlertTypes
    <2> QED
        BY <1>1, <1>2, <1>4, <2>1 DEF Heard, AlertTypes
<1>6. BellFollows'
    BY <1>1, BellKept DEF Heard, Unheard
<1>7. RowsOnce' /\ ToldOrOwed'
    BY <1>1, NoticesKept DEF Heard
<1>8. \A k \in Kinds : Seen(k)' \subseteq Seen(k)
    BY <1>1, <1>2 DEF Seen, Owed
<1>9. CountersFollow'
    <2>1. ASSUME who \in Admins, NEW k \in Kinds, k \notin crossed'
          PROVE  /\ Len(asks'[k]) <= 1
                 /\ \/ \E n \in wire : n[3] = "shell" /\ k \in Recounted(n[2])
                    \/ Latest(k)' = NotRead
                    \/ Latest(k)' >= Cardinality(Seen(k)')
        <3>1. CASE asks'[k] # <<>> /\ asks'[k][1] = NotRead /\ Len(asks'[k]) = 1
            <4>1. Latest(k)' = NotRead
                BY <3>1 DEF Latest
            <4> QED
                BY <3>1, <4>1
        <3>2. CASE asks'[k] = asks[k]
            <4>1. Latest(k)' = Latest(k) /\ k \notin crossed
                BY <1>1, <1>4, <2>1, <3>2 DEF Latest
            <4>2. /\ Len(asks[k]) <= 1
                  /\ \/ \E n \in wire : n[3] = "shell" /\ k \in Recounted(n[2])
                     \/ Latest(k) = NotRead
                     \/ Latest(k) >= Cardinality(Seen(k))
                BY <2>1, <4>1 DEF Heard, CountersFollow
            <4>3. Cardinality(Seen(k)') <= Cardinality(Seen(k)) /\ Cardinality(Seen(k)') \in Nat /\ Cardinality(Seen(k)) \in Nat
                <5>1. IsFiniteSet(Seen(k))
                    BY <1>2, FS_Subset DEF Seen
                <5> QED
                    BY <1>8, <5>1, FS_Subset, FS_CardinalityType
            <4>4. Latest(k) \in Int
                BY DEF Latest, Heard, AlertTypes, Readings, NotRead
            <4>5. CASE Latest(k) >= Cardinality(Seen(k))
                BY <3>2, <4>1, <4>2, <4>3, <4>4, <4>5
            <4> QED
                BY <3>2, <4>1, <4>2, <4>5
        <3> QED
            BY <1>4, <2>1, <3>1, <3>2
    <2> QED
        BY <1>1, <2>1 DEF CountersFollow
<1> QED
    BY <1>5, <1>6, <1>7, <1>9 DEF Heard

\* The notices: an act, a letter, rows, a loss.
LEMMA NoticeSteps ==
    ASSUME Heard, (\E a \in due : Perform(a)) \/ (\E w \in work : SendLetter(w) \/ WriteRows(w) \/ LoseRow(w))
    PROVE  Heard'
<1>1. CASE \E w \in work : WriteRows(w)
    BY <1>1, RowsStep DEF Heard
<1>2. CASE (\E a \in due : Perform(a)) \/ \E w \in work : SendLetter(w) \/ LoseRow(w)
    <2>1. UNCHANGED <<who, asks, counter, crossed, wire, inbox, fetch, list, unread, marking, astray>>
        BY <1>2 DEF Perform, SendLetter, LoseRow, bell, board
    <2>2. AlertTypes' /\ RowsOnce' /\ ToldOrOwed' /\ (who \in Admins => \A k \in Kinds : Seen(k)' \subseteq Seen(k))
        BY <1>2, ActStep, LetterStep, LossStep DEF Heard
    <2>3. BellFollows'
        BY <2>1, BellKept DEF Heard, Unheard
    <2>4. CountersFollow'
        BY <2>1, <2>2, CountersKept DEF Heard
    <2> QED
        BY <2>2, <2>3, <2>4 DEF Heard
<1> QED
    BY <1>1, <1>2

LEMMA StandStill == ASSUME Heard, UNCHANGED alertVars PROVE Heard'
<1>1. /\ UNCHANGED <<due, past, work, told, cut, who, inbox, pending, live, wire, fetch, list, unread, marking, astray>>
      /\ UNCHANGED <<counter, asks, crossed>>
    BY DEF alertVars, notices, bell, board
<1>2. AlertTypes'
    BY <1>1 DEF Heard, AlertTypes
<1>3. RowsOnce' /\ ToldOrOwed' /\ \A k \in Kinds : Seen(k)' = Seen(k)
    BY <1>1, NoticesKept DEF Heard
<1>4. BellFollows'
    BY <1>1, BellKept DEF Heard, Unheard
<1>5. CountersFollow'
    BY <1>1, <1>3, CountersKept DEF Heard
<1> QED
    BY <1>2, <1>3, <1>4, <1>5 DEF Heard

LEMMA HeardStays == Heard /\ [AlertNext]_alertVars => Heard'
<1> SUFFICES ASSUME Heard, [AlertNext]_alertVars PROVE Heard'
    OBVIOUS
<1>1. CASE (\E a \in due : Perform(a)) \/ (\E w \in work : SendLetter(w) \/ WriteRows(w) \/ LoseRow(w))
    BY <1>1, NoticeSteps
<1>2. CASE Mount
    BY <1>2, MountStep
<1>3. CASE FetchSettles \/ \E part \in fetch.left : FetchReads(part)
    BY <1>3, FetchSettlesStep, FetchReadsStep
<1>4. CASE \E part \in Parts : Subscribe(part)
    BY <1>4, SubscribeStep
<1>5. CASE \E m \in wire : BellHears(m) \/ ShellHears(m) \/ LoseMessage(m)
    BY <1>5, BellHearsStep, ShellHearsStep, LoseMessageStep
<1>6. CASE \E k \in Kinds : \E i \in DOMAIN asks[k] : AskReads(k, i) \/ AskSettles(k, i)
    BY <1>6, AskReadsStep, AskSettlesStep
<1>7. CASE \E a \in past : Deal(a)
    BY <1>7, DealStep
<1>8. CASE \/ ToggleBell \/ (\E i \in DOMAIN list : MarkOne(i)) \/ ReadOnPage
            \/ \E c \in Click : MarkAllRead(c) \/ ReadAllServed(c)
    BY <1>8, BellClickSteps
<1>9. CASE \E c \in Click : ReadAllSettles(c)
    BY <1>9, ReadAllSettlesStep
<1>10. CASE UNCHANGED alertVars
    BY <1>10, StandStill
<1> QED
    BY <1>1, <1>2, <1>3, <1>4, <1>5, <1>6, <1>7, <1>8, <1>9, <1>10 DEF AlertNext

LEMMA HeardAtFirst == AlertInit => Heard
<1> SUFFICES ASSUME AlertInit PROVE Heard
    OBVIOUS
<1>1. due \subseteq Acts
    BY AlertsAssumption DEF AlertInit
<1>2. <<>> \in Seq(InboxRow) /\ <<>> \in Seq(Nat \cup {NotRead})
    OBVIOUS
<1>3. AlertTypes
    BY <1>1, <1>2, FS_EmptySet DEF AlertInit, AlertRest, AlertTypes, Fetch, Readings, NoCount, Idle
<1>4. UnreadRows(inbox) = 0 /\ Unheard \in Nat
    <2>1. {i \in DOMAIN inbox : ~inbox[i].read} = {} /\ IsFiniteSet(wire)
        BY FS_EmptySet DEF AlertInit, AlertRest
    <2> QED
        BY <2>1, FS_EmptySet, Unheards DEF UnreadRows
<1>5. RowsOnce /\ ToldOrOwed
    BY DEF AlertInit, AlertRest, RowsOnce, ToldOrOwed
<1>6. BellFollows
    BY <1>4 DEF AlertInit, AlertRest, BellFollows, SomeServed, Idle
<1>7. CountersFollow
    <2>1. ASSUME NEW k \in Kinds PROVE Len(asks[k]) <= 1 /\ Latest(k) = 0 /\ Cardinality(Seen(k)) = 0
        <3>1. asks[k] = <<>> /\ counter[k] = 0 /\ pending[k] = {}
            BY DEF AlertInit, AlertRest, NoCount
        <3>2. Seen(k) = {}
            BY <3>1 DEF Seen
        <3>3. Len(<<>>) <= 1
            OBVIOUS
        <3> QED
            BY <3>1, <3>2, <3>3, FS_EmptySet DEF Latest
    <2> QED
        BY <2>1 DEF CountersFollow
<1> QED
    BY <1>3, <1>5, <1>6, <1>7 DEF Heard

\* What the properties promise, and what the invariant adds to them.
LEMMA HeardTells == Heard => OtherIsTold /\ BadgeNeverHides /\ CounterNeverHides
<1> SUFFICES ASSUME Heard PROVE OtherIsTold /\ BadgeNeverHides /\ CounterNeverHides
    OBVIOUS
<1>1. OtherIsTold
    BY DEF Heard, ToldOrOwed, OtherIsTold, Owed, Lettered, Notified, Ended
<1>2. BadgeNeverHides
    <2>1. ASSUME \A m \in wire : m[3] # "bell" PROVE Unheard = 0
        <3>1. {m \in wire : m[3] = "bell"} = {}
            BY <2>1
        <3> QED
            BY <3>1, FS_EmptySet DEF Unheard
    <2>2. unread \in Nat /\ UnreadRows(inbox) \in Nat
        BY UnreadCount DEF Heard, AlertTypes
    <2> QED
        BY <2>1, <2>2 DEF Heard, BellFollows, BadgeNeverHides
<1>3. CounterNeverHides
    <2> SUFFICES ASSUME who \in Admins, NEW k \in Kinds \ crossed, asks[k] = <<>>,
                        ~\E m \in wire : m[3] = "shell" /\ k \in Recounted(m[2]),
                        ~\E a \in pending[k] : <<a, who>> \in cut \/ \E w \in work : w.act = a
                 PROVE  counter[k] >= Cardinality(pending[k])
        BY DEF CounterNeverHides
    <2>1. Seen(k) = pending[k]
        BY DEF Seen, Owed
    <2>2. Latest(k) = counter[k] /\ counter[k] \in Nat
        BY DEF Latest, Heard, AlertTypes
    <2> QED
        BY <2>1, <2>2 DEF Heard, CountersFollow, NotRead
<1> QED
    BY <1>1, <1>2, <1>3

-----------------------------------------------------------------------------
\* The invariant of the alerts, for any scripts, people, and number of mounts and faults.
THEOREM AlertsInvariant == AlertSpec => []AlertsInv
<1>1. AlertInit => Heard
    BY HeardAtFirst
<1>2. Heard /\ [AlertNext]_alertVars => Heard'
    BY HeardStays
<1>3. Heard => AlertsInv
    BY HeardTells DEF Heard, AlertsInv
<1> QED
    BY <1>1, <1>2, <1>3, PTL DEF AlertSpec

\* Once an act's notices have come to an end, everybody it concerns has a letter or a row, unless a
\* failure has cut just that off, or they are one of two owners: that of a stay its tenant cancels,
\* and one without an address, of a new stay.
THEOREM EverybodyIsTold == AlertSpec => []OtherIsTold
<1>1. AlertsInv => OtherIsTold
    BY DEF AlertsInv
<1> QED
    BY <1>1, AlertsInvariant, PTL

\* The badge of a bell that nothing has crossed or failed never shows fewer than the inbox has unread.
THEOREM BadgeTellsAll == AlertSpec => []BadgeNeverHides
<1>1. AlertsInv => BadgeNeverHides
    BY DEF AlertsInv
<1> QED
    BY <1>1, AlertsInvariant, PTL

\* An administrator's counter that nothing has crossed or failed hides nothing that waits.
THEOREM CountersTellAll == AlertSpec => []CounterNeverHides
<1>1. AlertsInv => CounterNeverHides
    BY DEF AlertsInv
<1> QED
    BY <1>1, AlertsInvariant, PTL


-----------------------------------------------------------------------------
(***************************************************************************)
(* The pages, their routes and the tab.  For each role: the routes it may  *)
(* call, then the pages its menu leads to, which call no other.            *)
(***************************************************************************)

\* The addresses a step names are addresses.
LEMMA NamedAddresses ==
    /\ {"home", "sign_in", "redirect", "change_password", "accept_terms", "locataire", "espace",
        "bailleur", "bailleur_listings", "bailleur_abonnement", "agent_verifications", "agent_messages",
        "bailleur_messages", "locataire_messages", "locataire_room"} \subseteq Addresses
    /\ Gates \cap (Dashboard \cup AuthPages) = {} /\ AuthPages \cap Dashboard = {} /\ "redirect" \notin Dashboard
BY DEF Addresses, Dashboard, PublicAt, Espace, AuthPages, Gates, TenantPages, OwnerPages, AgentPages,
   AdminPages, PublicPages

\* Where the pages of a role lead is somewhere.
LEMMA TargetsAreAddresses ==
    /\ Gate \in Addresses
    /\ \A p \in Addresses : \A roles, subscribed : Detour(p, roles, subscribed) \in Addresses
    /\ \A p, roles : ContactLeadsTo(p, roles) \in Addresses
    /\ \A roles : MessagesHref(roles) \subseteq Addresses
<1>1. Gate \in Addresses
  BY NamedAddresses DEF Gate, Home
<1>2. ASSUME NEW p \in Addresses, NEW roles, NEW subscribed
      PROVE  Detour(p, roles, subscribed) \in Addresses
  BY NamedAddresses DEF Detour
<1>3. ASSUME NEW p, NEW roles
      PROVE  ContactLeadsTo(p, roles) \in Addresses
  BY NamedAddresses DEF ContactLeadsTo
<1>4. ASSUME NEW roles
      PROVE  MessagesHref(roles) \subseteq Addresses
  BY NamedAddresses DEF MessagesHref
<1> QED BY <1>1, <1>2, <1>3, <1>4

\* What any account may call, and what one of a role may.
Everyone == UNION {r.handlers : r \in {s \in Api : s.guard \in {Public, Signed}}}
May(role) == Everyone \cup UNION {r.handlers : r \in {s \in Api : role \in s.guard}}

LEMMA RouteIsOpen ==
    ASSUME NEW r \in Api, r.guard \in {Public, Signed}
    PROVE  r.handlers \subseteq Everyone
BY DEF Everyone

LEMMA RouteIsServed ==
    ASSUME NEW r \in Api, NEW role, role \in r.guard
    PROVE  r.handlers \subseteq May(role)
BY DEF May

LEMMA EveryoneIsServed ==
    ASSUME NEW acc, NEW ses, ses, ~acc.suspended, NEW h \in Everyone
    PROVE  IsServed(h, acc, ses)
<1>1. PICK r \in Api : h \in r.handlers /\ r.guard \in {Public, Signed}
  BY DEF Everyone
<1> QED BY <1>1 DEF IsServed, HasRole

LEMMA MayIsServed ==
    ASSUME NEW acc, NEW ses, ses, ~acc.suspended, NEW role \in acc.roles, NEW h \in May(role)
    PROVE  IsServed(h, acc, ses)
<1>1. CASE h \in Everyone
  BY <1>1, EveryoneIsServed
<1>2. CASE \E r \in Api : h \in r.handlers /\ role \in r.guard
  BY <1>2 DEF IsServed, HasRole
<1> QED BY <1>1, <1>2 DEF May

\* What any account may call, among what pages ask for.
LEMMA EveryoneMay ==
    {"auth.getMe", "auth.updateMe", "auth.findAgentById", "auth.findUserProfile",
     "listings.findAll", "listings.findOne", "listings.findSimilar", "listings.findMine",
     "listings.findFavorites", "listings.checkFavorite", "listings.addFavorite",
     "listings.removeFavorite", "listings.reportListing", "bookings.getAvailability",
     "bookings.verifyPublic", "bookings.terminateLease", "bookings.findMine",
     "bookings.getVerificationQr", "bookings.getReceipt", "bookings.findOne", "bookings.cancel",
     "messages.findRooms", "messages.findMessages", "messages.createRoom", "messages.send",
     "messages.markRead", "messages.editMessage", "messages.deleteMessage", "notifications.mine",
     "notifications.unreadCount", "notifications.markRead", "notifications.markAllRead",
     "contracts.findByBooking", "contracts.download", "reviews.findByListing",
     "reviews.findMine", "reviews.findByOwner", "search.search", "agences.findAll",
     "agences.findBySlug", "agences.trackView", "agences.getPhone", "upload.upload"} \subseteq Everyone
<1>1. PICK r1 \in AuthRoutes :
        /\ r1.guard = Signed
        /\ {"auth.getMe", "auth.updateMe", "auth.findAgentById", "auth.findUserProfile"} \subseteq r1.handlers
  BY DEF AuthRoutes, On
<1>2. PICK r2 \in ListingRoutes :
        /\ r2.guard = Public
        /\ {"listings.findAll", "listings.findOne", "listings.findSimilar"} \subseteq r2.handlers
  BY DEF ListingRoutes, On
<1>3. PICK r3 \in ListingRoutes :
        /\ r3.guard = Signed
        /\ {"listings.findMine", "listings.findFavorites", "listings.checkFavorite",
            "listings.addFavorite", "listings.removeFavorite", "listings.reportListing"} \subseteq r3.handlers
  BY DEF ListingRoutes, On
<1>4. PICK r4 \in BookingRoutes :
        /\ r4.guard = Public
        /\ {"bookings.getAvailability", "bookings.verifyPublic"} \subseteq r4.handlers
  BY DEF BookingRoutes, On
<1>5. PICK r5 \in BookingRoutes :
        /\ r5.guard = Signed
        /\ {"bookings.terminateLease", "bookings.findMine", "bookings.getVerificationQr",
            "bookings.getReceipt", "bookings.findOne", "bookings.cancel"} \subseteq r5.handlers
  BY DEF BookingRoutes, On
<1>6. PICK r6 \in MessageRoutes :
        /\ r6.guard = Signed
        /\ {"messages.findRooms", "messages.findMessages", "messages.createRoom",
            "messages.send", "messages.markRead", "messages.editMessage",
            "messages.deleteMessage"} \subseteq r6.handlers
  BY DEF MessageRoutes, On
<1>7. PICK r7 \in NotificationRoutes :
        /\ r7.guard = Signed
        /\ {"notifications.mine", "notifications.unreadCount", "notifications.markRead",
            "notifications.markAllRead"} \subseteq r7.handlers
  BY DEF NotificationRoutes, On
<1>8. PICK r8 \in ContractRoutes :
        /\ r8.guard = Signed
        /\ {"contracts.findByBooking", "contracts.download"} \subseteq r8.handlers
  BY DEF ContractRoutes, On
<1>9. PICK r9 \in ReviewRoutes :
        /\ r9.guard = Public
        /\ {"reviews.findByListing"} \subseteq r9.handlers
  BY DEF ReviewRoutes, On
<1>10. PICK r10 \in ReviewRoutes :
        /\ r10.guard = Signed
        /\ {"reviews.findMine", "reviews.findByOwner"} \subseteq r10.handlers
  BY DEF ReviewRoutes, On
<1>11. PICK r11 \in SearchRoutes :
        /\ r11.guard = Public
        /\ {"search.search"} \subseteq r11.handlers
  BY DEF SearchRoutes, On
<1>12. PICK r12 \in AgencyRoutes :
        /\ r12.guard = Public
        /\ {"agences.findAll", "agences.findBySlug", "agences.trackView"} \subseteq r12.handlers
  BY DEF AgencyRoutes, On
<1>13. PICK r13 \in AgencyRoutes :
        /\ r13.guard = Signed
        /\ {"agences.getPhone"} \subseteq r13.handlers
  BY DEF AgencyRoutes, On
<1>14. PICK r14 \in UploadRoutes :
        /\ r14.guard = Signed
        /\ {"upload.upload"} \subseteq r14.handlers
  BY DEF UploadRoutes, On
<1> QED BY <1>1, <1>2, <1>3, <1>4, <1>5, <1>6, <1>7, <1>8, <1>9, <1>10, <1>11, <1>12, <1>13,
        <1>14, RouteIsOpen DEF Api, Public, Signed

\* What a tenant may call besides.
LEMMA TenantMay ==
    ASSUME NEW role, role = "LOCATAIRE"
    PROVE  {"bookings.create", "bookings.createMonthly", "bookings.reportDispute",
            "payments.initiate", "payments.verify", "analytics.getLocataireStats",
            "reviews.create"} \subseteq May(role)
<1>1. PICK r1 \in BookingRoutes :
        /\ r1.guard = Tenant
        /\ {"bookings.create", "bookings.createMonthly", "bookings.reportDispute"} \subseteq r1.handlers
  BY DEF BookingRoutes, On
<1>2. PICK r2 \in PaymentRoutes :
        /\ r2.guard = Tenant
        /\ {"payments.initiate", "payments.verify"} \subseteq r2.handlers
  BY DEF PaymentRoutes, On
<1>3. PICK r3 \in AnalyticsRoutes :
        /\ r3.guard = Tenant
        /\ {"analytics.getLocataireStats"} \subseteq r3.handlers
  BY DEF AnalyticsRoutes, On
<1>4. PICK r4 \in ReviewRoutes :
        /\ r4.guard = Tenant
        /\ {"reviews.create"} \subseteq r4.handlers
  BY DEF ReviewRoutes, On
<1> QED BY <1>1, <1>2, <1>3, <1>4, RouteIsServed DEF Api, Tenant

\* An owner of either kind.
LEMMA OwnerMay ==
    ASSUME NEW role \in Owner
    PROVE  {"auth.findAgents", "listings.unpublish", "listings.publish", "listings.archive",
            "listings.restore", "listings.create", "listings.update", "listings.remove",
            "listings.boost", "bookings.approveMonthly", "bookings.rejectMonthly",
            "bookings.complete", "bookings.confirm", "bookings.findReceived",
            "verifications.rate", "verifications.create", "verifications.findMine",
            "analytics.getOwnerReport", "analytics.getOwnerMonthlyStats",
            "analytics.getOwnerStats"} \subseteq May(role)
<1>1. PICK r1 \in AuthRoutes :
        /\ r1.guard = Owner \cup Admin
        /\ {"auth.findAgents"} \subseteq r1.handlers
  BY DEF AuthRoutes, On
<1>2. PICK r2 \in ListingRoutes :
        /\ r2.guard = Owner
        /\ {"listings.unpublish", "listings.publish", "listings.archive", "listings.restore"} \subseteq r2.handlers
  BY DEF ListingRoutes, On
<1>3. PICK r3 \in ListingRoutes :
        /\ r3.guard = Owner \cup Admin
        /\ {"listings.create", "listings.update", "listings.remove", "listings.boost"} \subseteq r3.handlers
  BY DEF ListingRoutes, On
<1>4. PICK r4 \in BookingRoutes :
        /\ r4.guard = Owner
        /\ {"bookings.approveMonthly", "bookings.rejectMonthly", "bookings.complete",
            "bookings.confirm"} \subseteq r4.handlers
  BY DEF BookingRoutes, On
<1>5. PICK r5 \in BookingRoutes :
        /\ r5.guard = Owner \cup Admin
        /\ {"bookings.findReceived"} \subseteq r5.handlers
  BY DEF BookingRoutes, On
<1>6. PICK r6 \in VerificationRoutes :
        /\ r6.guard = Owner
        /\ {"verifications.rate"} \subseteq r6.handlers
  BY DEF VerificationRoutes, On
<1>7. PICK r7 \in VerificationRoutes :
        /\ r7.guard = Owner \cup Admin
        /\ {"verifications.create", "verifications.findMine"} \subseteq r7.handlers
  BY DEF VerificationRoutes, On
<1>8. PICK r8 \in AnalyticsRoutes :
        /\ r8.guard = Owner
        /\ {"analytics.getOwnerReport", "analytics.getOwnerMonthlyStats",
            "analytics.getOwnerStats"} \subseteq r8.handlers
  BY DEF AnalyticsRoutes, On
<1> QED BY <1>1, <1>2, <1>3, <1>4, <1>5, <1>6, <1>7, <1>8, RouteIsServed DEF Api

\* An agency.
LEMMA AgencyMay ==
    ASSUME NEW role, role = "PRO_AGENCE"
    PROVE  {"subscriptions.initiate", "subscriptions.findMine", "subscriptions.getAlert",
            "analytics.getVitrineStats"} \subseteq May(role)
<1>1. PICK r1 \in SubscriptionRoutes :
        /\ r1.guard = Agency
        /\ {"subscriptions.initiate"} \subseteq r1.handlers
  BY DEF SubscriptionRoutes, On
<1>2. PICK r2 \in SubscriptionRoutes :
        /\ r2.guard = Agency \cup Admin
        /\ {"subscriptions.findMine", "subscriptions.getAlert"} \subseteq r2.handlers
  BY DEF SubscriptionRoutes, On
<1>3. PICK r3 \in AnalyticsRoutes :
        /\ r3.guard = Agency
        /\ {"analytics.getVitrineStats"} \subseteq r3.handlers
  BY DEF AnalyticsRoutes, On
<1> QED BY <1>1, <1>2, <1>3, RouteIsServed DEF Api, Agency

\* A field agent.
LEMMA AgentMay ==
    ASSUME NEW role, role = "AGENT_TERRAIN"
    PROVE  {"verifications.findAssigned", "verifications.findAllForAgent",
            "verifications.findOne", "verifications.findHistory", "verifications.getStats",
            "verifications.start", "verifications.complete", "verifications.decline",
            "verifications.findPending", "verifications.reject"} \subseteq May(role)
<1>1. PICK r1 \in VerificationRoutes :
        /\ r1.guard = Agent
        /\ {"verifications.findAssigned", "verifications.findAllForAgent",
            "verifications.findOne", "verifications.findHistory", "verifications.getStats",
            "verifications.start", "verifications.complete", "verifications.decline"} \subseteq r1.handlers
  BY DEF VerificationRoutes, On
<1>2. PICK r2 \in VerificationRoutes :
        /\ r2.guard = Agent \cup Admin
        /\ {"verifications.findPending", "verifications.reject"} \subseteq r2.handlers
  BY DEF VerificationRoutes, On
<1> QED BY <1>1, <1>2, RouteIsServed DEF Api, Agent

\* An administrator.
LEMMA AdminMay ==
    ASSUME NEW role, role = "ADMIN"
    PROVE  {"auth.findAgents", "auth.createAgentTerrain", "auth.createProAgence",
            "auth.getUsers", "auth.updateUser", "auth.suspendUser", "auth.deleteUser",
            "auth.deactivateBailleur", "listings.create", "listings.update", "listings.remove",
            "listings.boost", "listings.activate", "listings.findAllAdmin",
            "listings.findAllReports", "listings.pendingReportsCount", "listings.suspend",
            "bookings.findReceived", "bookings.pendingDisputesCount", "bookings.findAll",
            "bookings.resolveDispute", "verifications.create", "verifications.findMine",
            "verifications.findPending", "verifications.reject", "verifications.pendingCount",
            "verifications.findAll", "verifications.validate", "verifications.assignAgent",
            "verifications.approveDecline", "verifications.refuseDecline",
            "subscriptions.findMine", "subscriptions.getAlert", "subscriptions.findAll",
            "subscriptions.suspendById", "subscriptions.activateById",
            "subscriptions.extendById", "payments.release", "payments.refund",
            "analytics.getAdminStats", "analytics.getAdminExtended", "analytics.getAdminAlerts",
            "analytics.getAdminMonthlyTrend", "notifications.broadcast", "reviews.findAll",
            "reviews.remove", "config.getConfig", "config.requestOtp", "config.updateConfig",
            "config.changePin", "config.cancelPendingChange", "search.reindex"} \subseteq May(role)
<1>1. PICK r1 \in AuthRoutes :
        /\ r1.guard = Owner \cup Admin
        /\ {"auth.findAgents"} \subseteq r1.handlers
  BY DEF AuthRoutes, On
<1>2. PICK r2 \in AuthRoutes :
        /\ r2.guard = Admin
        /\ {"auth.createAgentTerrain", "auth.createProAgence", "auth.getUsers",
            "auth.updateUser", "auth.suspendUser", "auth.deleteUser", "auth.deactivateBailleur"} \subseteq r2.handlers
  BY DEF AuthRoutes, On
<1>3. PICK r3 \in ListingRoutes :
        /\ r3.guard = Owner \cup Admin
        /\ {"listings.create", "listings.update", "listings.remove", "listings.boost"} \subseteq r3.handlers
  BY DEF ListingRoutes, On
<1>4. PICK r4 \in ListingRoutes :
        /\ r4.guard = Admin \cup Agent
        /\ {"listings.activate"} \subseteq r4.handlers
  BY DEF ListingRoutes, On
<1>5. PICK r5 \in ListingRoutes :
        /\ r5.guard = Admin
        /\ {"listings.findAllAdmin", "listings.findAllReports", "listings.pendingReportsCount",
            "listings.suspend"} \subseteq r5.handlers
  BY DEF ListingRoutes, On
<1>6. PICK r6 \in BookingRoutes :
        /\ r6.guard = Owner \cup Admin
        /\ {"bookings.findReceived"} \subseteq r6.handlers
  BY DEF BookingRoutes, On
<1>7. PICK r7 \in BookingRoutes :
        /\ r7.guard = Admin
        /\ {"bookings.pendingDisputesCount", "bookings.findAll", "bookings.resolveDispute"} \subseteq r7.handlers
  BY DEF BookingRoutes, On
<1>8. PICK r8 \in VerificationRoutes :
        /\ r8.guard = Owner \cup Admin
        /\ {"verifications.create", "verifications.findMine"} \subseteq r8.handlers
  BY DEF VerificationRoutes, On
<1>9. PICK r9 \in VerificationRoutes :
        /\ r9.guard = Agent \cup Admin
        /\ {"verifications.findPending", "verifications.reject"} \subseteq r9.handlers
  BY DEF VerificationRoutes, On
<1>10. PICK r10 \in VerificationRoutes :
        /\ r10.guard = Admin
        /\ {"verifications.pendingCount", "verifications.findAll", "verifications.validate",
            "verifications.assignAgent", "verifications.approveDecline",
            "verifications.refuseDecline"} \subseteq r10.handlers
  BY DEF VerificationRoutes, On
<1>11. PICK r11 \in SubscriptionRoutes :
        /\ r11.guard = Agency \cup Admin
        /\ {"subscriptions.findMine", "subscriptions.getAlert"} \subseteq r11.handlers
  BY DEF SubscriptionRoutes, On
<1>12. PICK r12 \in SubscriptionRoutes :
        /\ r12.guard = Admin
        /\ {"subscriptions.findAll", "subscriptions.suspendById", "subscriptions.activateById",
            "subscriptions.extendById"} \subseteq r12.handlers
  BY DEF SubscriptionRoutes, On
<1>13. PICK r13 \in PaymentRoutes :
        /\ r13.guard = Admin
        /\ {"payments.release", "payments.refund"} \subseteq r13.handlers
  BY DEF PaymentRoutes, On
<1>14. PICK r14 \in AnalyticsRoutes :
        /\ r14.guard = Admin
        /\ {"analytics.getAdminStats", "analytics.getAdminExtended", "analytics.getAdminAlerts",
            "analytics.getAdminMonthlyTrend"} \subseteq r14.handlers
  BY DEF AnalyticsRoutes, On
<1>15. PICK r15 \in NotificationRoutes :
        /\ r15.guard = Admin
        /\ {"notifications.broadcast"} \subseteq r15.handlers
  BY DEF NotificationRoutes, On
<1>16. PICK r16 \in ReviewRoutes :
        /\ r16.guard = Admin
        /\ {"reviews.findAll", "reviews.remove"} \subseteq r16.handlers
  BY DEF ReviewRoutes, On
<1>17. PICK r17 \in ConfigRoutes :
        /\ r17.guard = Admin
        /\ {"config.getConfig", "config.requestOtp", "config.updateConfig", "config.changePin",
            "config.cancelPendingChange"} \subseteq r17.handlers
  BY DEF ConfigRoutes, On
<1>18. PICK r18 \in SearchRoutes :
        /\ r18.guard = Admin
        /\ {"search.reindex"} \subseteq r18.handlers
  BY DEF SearchRoutes, On
<1> QED BY <1>1, <1>2, <1>3, <1>4, <1>5, <1>6, <1>7, <1>8, <1>9, <1>10, <1>11, <1>12, <1>13,
        <1>14, <1>15, <1>16, <1>17, <1>18, RouteIsServed DEF Api, Admin

\* What an account of some role may call among the requests of page p, but for those made in vain.
PageFits(p, sheet, allowed) == \A h \in sheet.loads \cup sheet.presses : h \in allowed \/ <<p, h>> \in Unserved

LEMMA TenantPagesFit ==
    ASSUME NEW p \in DOMAIN TenantPages
    PROVE  PageFits(p, TenantPages[p], May("LOCATAIRE"))
<1> DEFINE M == May("LOCATAIRE")
<1>1. Everyone \subseteq M
  BY DEF May
<1> HIDE DEF M
<1> QED BY <1>1, EveryoneMay, TenantMay DEF PageFits, M, TenantPages, Page, With, TenantHome, TenantBookings, TenantDispute, TenantReview,
        ContractCard, QrModal, TenantBooking, TenantFavorites, TenantPayments, MessagesPage, ChatRoom

\* Among the owner's pages, those of the agency's menu; and one that no menu leads to, which asks
\* every owner for an agency's subscription.
Unlinked == {"bailleur_listings_new"}
AgencyPages == {"bailleur_ma_vitrine", "bailleur_analytics", "bailleur_abonnement"}

LEMMA OwnerPagesFit ==
    ASSUME NEW p \in DOMAIN OwnerPages \ (AgencyPages \cup Unlinked \cup {"bailleur"}), NEW role \in Owner
    PROVE  PageFits(p, OwnerPages[p], May(role))
<1> DEFINE M == May(role)
<1>1. Everyone \subseteq M
  BY DEF May
<1> HIDE DEF M
<1>2. CASE p = "bailleur_listings_edit"
  BY <1>1, <1>2, EveryoneMay, OwnerMay DEF PageFits, M, OwnerPages, Page, With, OwnerEdit, PhotoZone
<1>6. CASE p = "bailleur_bookings"
  BY <1>1, <1>6, EveryoneMay, OwnerMay
     DEF PageFits, M, OwnerPages, Page, With, OwnerBookings, OwnerContact, RowActions, ContractCard
<1>5. CASE p = "bailleur_listings"
  BY <1>1, <1>5, EveryoneMay, OwnerMay
     DEF PageFits, M, OwnerPages, Page, With, OwnerListings, OwnerBoostCard, Unserved
<1>3. CASE p \in {"bailleur_messages", "bailleur_room", "bailleur_boost", "bailleur_agents", "bailleur_agent",
                  "bailleur_profil"}
  BY <1>1, <1>3, EveryoneMay, OwnerMay
     DEF PageFits, M, OwnerPages, Page, MessagesPage, ChatRoom, OwnerBoost, OwnerAgents, OwnerAgent, OwnerProfile
<1>4. CASE p = "bailleur_verifications"
  BY <1>1, <1>4, EveryoneMay, OwnerMay
     DEF PageFits, M, OwnerPages, Page, With, OwnerVerifications, RequestCard, RatingForm, VerificationForm,
         AgentsTab
<1> QED BY <1>2, <1>3, <1>4, <1>5, <1>6 DEF OwnerPages, AgencyPages, Unlinked

LEMMA AgencyPagesFit ==
    ASSUME NEW p \in AgencyPages
    PROVE  PageFits(p, OwnerPages[p], May("PRO_AGENCE"))
<1> DEFINE M == May("PRO_AGENCE")
<1>1. Everyone \subseteq M
  BY DEF May
<1>2. "PRO_AGENCE" \in Owner
  BY DEF Owner
<1> HIDE DEF M
<1> QED BY <1>1, <1>2, EveryoneMay, OwnerMay, AgencyMay
        DEF PageFits, M, OwnerPages, AgencyPages, Page, AgencyShowcase, AgencyAnalytics, AgencyPlan

LEMMA AgentPagesFit ==
    ASSUME NEW p \in DOMAIN AgentPages
    PROVE  PageFits(p, AgentPages[p], May("AGENT_TERRAIN"))
<1> DEFINE M == May("AGENT_TERRAIN")
<1>1. Everyone \subseteq M
  BY DEF May
<1> HIDE DEF M
<1> QED BY <1>1, EveryoneMay, AgentMay
        DEF PageFits, M, AgentPages, Page, With, AgentHome, AgentMissions, AgentMission, MissionReport,
            MissionDecline, AgentCalendar, MessagesPage, ChatRoom, AgentProfile

LEMMA AdminPagesFit ==
    ASSUME NEW p \in Espace
    PROVE  PageFits(p, AdminPages[p], May("ADMIN"))
<1> DEFINE M == May("ADMIN")
<1>1. Everyone \subseteq M
  BY DEF May
<1> HIDE DEF M
<1> QED BY <1>1, EveryoneMay, AdminMay
        DEF PageFits, M, Espace, AdminPages, Page, AdminHome, AdminUsers, AdminListings, AdminVerifications,
            AdminSubscriptions, AdminBookings, AdminReviews, AdminReports, AdminBroadcast, AdminConfig,
            Unserved

LEMMA OpenPagesFit ==
    ASSUME NEW p \in (Open \cup {"booking"}) \ {"publier"}
    PROVE  PageFits(p, PublicPages[p], Everyone)
<1> QED BY EveryoneMay
        DEF PageFits, Open, PublicPages, Page, With, Both, HomePage, FavoriteButton, ListingsPage, RegionPage,
            ListingDetail, BookingCard, ContactCard, ReviewForm, MonthlyForm, ReportModal, AgencyPage,
            ProfilePage, BookingReturn, Unserved

\* Where an account is led, and by which of its roles.
LEMMA ProposedPages ==
    ASSUME NEW roles, NEW p \in ProposedTo(roles)
    PROVE  \/ p \in {"notifications", "booking"} \cup Open
           \/ "LOCATAIRE" \in roles /\ p \in DOMAIN TenantPages
           \/ (\E role \in Owner : role \in roles) /\ p \in DOMAIN OwnerPages \ (AgencyPages \cup Unlinked)
           \/ "PRO_AGENCE" \in roles /\ p \in AgencyPages
           \/ "AGENT_TERRAIN" \in roles /\ p \in DOMAIN AgentPages
           \/ "ADMIN" \in roles /\ p \in Espace
<1> DEFINE Goal(q) == \/ q \in {"notifications", "booking"} \cup Open
                      \/ "LOCATAIRE" \in roles /\ q \in DOMAIN TenantPages
                      \/ (\E role \in Owner : role \in roles) /\ q \in DOMAIN OwnerPages \ (AgencyPages \cup Unlinked)
                      \/ "PRO_AGENCE" \in roles /\ q \in AgencyPages
                      \/ "AGENT_TERRAIN" \in roles /\ q \in DOMAIN AgentPages
                      \/ "ADMIN" \in roles /\ q \in Espace
           Menu(q) == \/ "LOCATAIRE" \in roles /\ q \in TenantItems \cup {"become_bailleur"}
                      \/ (\E role \in Owner : role \in roles) /\ q \in OwnerItems({})
                      \/ "PRO_AGENCE" \in roles /\ q \in AgencyPages
                      \/ "AGENT_TERRAIN" \in roles /\ q \in DOMAIN AgentPages \ {"agent_verification", "agent_room"}
                      \/ "ADMIN" \in roles /\ q \in Espace
<1>1. ASSUME NEW q \in NavItems(roles)
      PROVE  Menu(q)
  BY <1>1 DEF NavItems, When, OwnerItems, AgencyPages
<1>2. ASSUME NEW q, Menu(q)
      PROVE  Goal(q)
  BY <1>2 DEF TenantItems, TenantPages, OwnerItems, When, OwnerPages, AgencyPages, Unlinked
<1>3. ASSUME NEW q, Menu(q), NEW t \in Links(q)
      PROVE  Goal(t)
  BY <1>3 DEF TenantItems, TenantPages, OwnerItems, When, OwnerPages, AgencyPages, Unlinked, AgentPages, Espace, AdminPages,
        Links, Open
<1> HIDE DEF Menu
<1>4. CASE p \in NavItems(roles)
  BY <1>1, <1>2, <1>4
<1>5. CASE \E q \in NavItems(roles) : p \in Links(q)
  BY <1>1, <1>3, <1>5
<1>6. CASE p = "notifications"
  BY <1>6
<1>7. p \in NavItems(roles) \/ (\E q \in NavItems(roles) : p \in Links(q)) \/ p = "notifications"
  <2> DEFINE Reached == UNION {Links(q) : q \in NavItems(roles)}
  <2>0. p \in NavItems(roles) \cup {"notifications"} \cup Reached
    BY DEF ProposedTo
  <2>1. p \in NavItems(roles) \/ p \in Reached \/ p = "notifications"
    <3> HIDE DEF Reached
    <3> QED BY <2>0
  <2>2. ASSUME p \in Reached
        PROVE  \E q \in NavItems(roles) : p \in Links(q)
    <3>1. PICK S \in {Links(q) : q \in NavItems(roles)} : p \in S
      BY <2>2
    <3> QED BY <3>1
  <2> QED BY <2>1, <2>2
<1> QED BY <1>4, <1>5, <1>6, <1>7

\* The page at an address, by the tree of layouts it lives in.
LEMMA TreesApart ==
    /\ \A p \in DOMAIN TenantPages :
         p \notin DOMAIN OwnerPages \cup DOMAIN AgentPages \cup Espace \cup PublicAt \cup {"bailleur", "publier", "notifications"}
    /\ \A p \in DOMAIN OwnerPages :
         p \notin DOMAIN AgentPages \cup Espace \cup PublicAt \cup {"publier", "notifications"}
    /\ \A p \in DOMAIN AgentPages : p \notin Espace \cup PublicAt \cup {"bailleur", "publier", "notifications"}
    /\ \A p \in Espace : p \notin PublicAt \cup {"bailleur", "publier", "notifications"}
    /\ \A p \in PublicAt : p \notin {"bailleur", "notifications"}
BY DEF TenantPages, OwnerPages, AgentPages, Espace, AdminPages, PublicAt, PublicPages

LEMMA TreeOfPage ==
    ASSUME NEW p, NEW me
    PROVE  /\ p \in DOMAIN TenantPages => PageOf(p, me) = TenantPages[p]
           /\ p \in DOMAIN OwnerPages \ {"bailleur"} => PageOf(p, me) = OwnerPages[p]
           /\ p \in DOMAIN AgentPages => PageOf(p, me) = AgentPages[p]
           /\ p \in Espace => PageOf(p, me) = AdminPages[p]
           /\ p \in PublicAt \ {"publier"} => PageOf(p, me) = PublicPages[p]
           /\ p = "bailleur" => PageOf(p, me) = OwnerHome(me)
           /\ p = "publier" => PageOf(p, me) = Wizard(me)
           /\ p = "notifications" => PageOf(p, me) = NotificationsPage
<1>1. "publier" \in PublicAt /\ "bailleur" \in DOMAIN OwnerPages
  BY DEF PublicAt, PublicPages, OwnerPages
<1> DEFINE T == DOMAIN TenantPages
           O == DOMAIN OwnerPages
           A == DOMAIN AgentPages
<1>2. /\ \A q \in T : q \notin O \cup A \cup Espace \cup PublicAt \cup {"bailleur", "publier", "notifications"}
      /\ \A q \in O : q \notin A \cup Espace \cup PublicAt \cup {"publier", "notifications"}
      /\ \A q \in A : q \notin Espace \cup PublicAt \cup {"bailleur", "publier", "notifications"}
      /\ \A q \in Espace : q \notin PublicAt \cup {"bailleur", "publier", "notifications"}
      /\ \A q \in PublicAt : q \notin {"bailleur", "notifications"}
  BY TreesApart
<1>3. CASE p \in T
  BY <1>1, <1>2, <1>3 DEF PageOf
<1>4. CASE p \in O \ {"bailleur"}
  BY <1>1, <1>2, <1>4 DEF PageOf
<1>5. CASE p \in A
  BY <1>1, <1>2, <1>5 DEF PageOf
<1>6. CASE p \in Espace
  BY <1>1, <1>2, <1>6 DEF PageOf
<1>7. CASE p \in PublicAt \ {"publier"}
  BY <1>1, <1>2, <1>7 DEF PageOf
<1>8. CASE p = "bailleur"
  BY <1>1, <1>2, <1>8 DEF PageOf
<1>9. CASE p = "publier"
  BY <1>1, <1>2, <1>9 DEF PageOf
<1>10. CASE p = "notifications"
  BY <1>1, <1>2, <1>10 DEF PageOf
<1> QED BY <1>3, <1>4, <1>5, <1>6, <1>7, <1>8, <1>9, <1>10

\* What the page of a person who is led to it asks for and offers.
LEMMA LedPagesFit ==
    ASSUME Led, NEW h \in PageOf(path, read).loads \cup PageOf(path, read).presses
    PROVE  IsServed(h, account, session) \/ <<path, h>> \in Unserved
<1> DEFINE roles == account.roles
           Goal == IsServed(h, account, session) \/ <<path, h>> \in Unserved
<1>1. session /\ ~account.suspended /\ read \in {{}, roles}
  BY DEF Led, Accepted
<1>2. ASSUME NEW role \in roles, h \in May(role) \/ <<path, h>> \in Unserved
      PROVE  Goal
  BY <1>1, <1>2, MayIsServed
<1>3. ASSUME h \in Everyone \/ <<path, h>> \in Unserved
      PROVE  Goal
  BY <1>1, <1>3, EveryoneIsServed
<1>4. \/ path \in {"notifications", "booking"} \cup Open
      \/ "LOCATAIRE" \in roles /\ path \in DOMAIN TenantPages
      \/ (\E role \in Owner : role \in roles) /\ path \in DOMAIN OwnerPages \ (AgencyPages \cup Unlinked)
      \/ "PRO_AGENCE" \in roles /\ path \in AgencyPages
      \/ "AGENT_TERRAIN" \in roles /\ path \in DOMAIN AgentPages
      \/ "ADMIN" \in roles /\ path \in Espace
  BY ProposedPages DEF Led
<1> HIDE DEF Goal
<1>5. ASSUME path = "notifications" PROVE Goal
  <2>1. PageOf(path, read) = NotificationsPage
    BY <1>5, TreeOfPage
  <2> QED BY <1>3, <2>1, EveryoneMay DEF NotificationsPage, Page
<1>6. ASSUME path \in (Open \cup {"booking"}) \ {"publier"} PROVE Goal
  <2>1. PageOf(path, read) = PublicPages[path]
    BY <1>6, TreeOfPage DEF Open, PublicAt, PublicPages
  <2> QED BY <1>3, <1>6, <2>1, OpenPagesFit DEF PageFits
<1>7. ASSUME path = "publier" PROVE Goal
  <2>1. PageOf(path, read) = Wizard(read)
    BY <1>7, TreeOfPage
  <2>2. h = "auth.getMe" \/ (h \in {"listings.create", "upload.upload"} /\ read \cap Owner # {})
    BY <2>1 DEF Wizard, Page, When
  <2>3. CASE h = "auth.getMe"
    BY <1>3, <2>3, EveryoneMay
  <2>4. CASE h \in {"listings.create", "upload.upload"} /\ read \cap Owner # {}
    <3>1. PICK role \in Owner : role \in roles
      BY <1>1, <2>4
    <3>2. h \in May(role)
      BY <2>4, <3>1, EveryoneMay, OwnerMay DEF May
    <3> QED BY <1>2, <3>1, <3>2
  <2> QED BY <2>2, <2>3, <2>4
<1>8. ASSUME "LOCATAIRE" \in roles, path \in DOMAIN TenantPages PROVE Goal
  <2>1. PageOf(path, read) = TenantPages[path]
    BY <1>8, TreeOfPage
  <2> QED BY <1>2, <1>8, <2>1, TenantPagesFit DEF PageFits
<1>9. ASSUME NEW role \in Owner, role \in roles, path \in DOMAIN OwnerPages \ (AgencyPages \cup Unlinked \cup {"bailleur"})
      PROVE  Goal
  <2>1. PageOf(path, read) = OwnerPages[path]
    BY <1>9, TreeOfPage
  <2> QED BY <1>2, <1>9, <2>1, OwnerPagesFit DEF PageFits
<1>10. ASSUME "PRO_AGENCE" \in roles, path \in AgencyPages PROVE Goal
  <2>1. PageOf(path, read) = OwnerPages[path]
    BY <1>10, TreeOfPage DEF AgencyPages, OwnerPages
  <2> QED BY <1>2, <1>10, <2>1, AgencyPagesFit DEF PageFits
<1>11. ASSUME "AGENT_TERRAIN" \in roles, path \in DOMAIN AgentPages PROVE Goal
  <2>1. PageOf(path, read) = AgentPages[path]
    BY <1>11, TreeOfPage
  <2> QED BY <1>2, <1>11, <2>1, AgentPagesFit DEF PageFits
<1>12. ASSUME "ADMIN" \in roles, path \in Espace PROVE Goal
  <2>1. PageOf(path, read) = AdminPages[path]
    BY <1>12, TreeOfPage
  <2> QED BY <1>2, <1>12, <2>1, AdminPagesFit DEF PageFits
<1>13. ASSUME NEW role \in Owner, role \in roles, path = "bailleur" PROVE Goal
  <2>1. PageOf(path, read) = OwnerHome(read)
    BY <1>13, TreeOfPage
  <2>2. \/ h \in {"auth.getMe", "analytics.getOwnerStats", "bookings.findReceived", "listings.findMine",
                  "analytics.getOwnerMonthlyStats", "reviews.findByOwner", "messages.findRooms",
                  "analytics.getOwnerReport"}
        \/ h = "subscriptions.findMine" /\ "PRO_AGENCE" \in roles
        \/ h \in {"bookings.findMine", "analytics.getLocataireStats"} /\ "LOCATAIRE" \in roles
    BY <1>1, <2>1 DEF OwnerHome, Page, When
  <2>3. CASE h \in {"auth.getMe", "analytics.getOwnerStats", "bookings.findReceived", "listings.findMine",
                    "analytics.getOwnerMonthlyStats", "reviews.findByOwner", "messages.findRooms",
                    "analytics.getOwnerReport"}
    <3>1. h \in May(role)
      BY <1>13, <2>3, EveryoneMay, OwnerMay DEF May
    <3> QED BY <1>2, <1>13, <3>1
  <2>4. CASE h = "subscriptions.findMine" /\ "PRO_AGENCE" \in roles
    BY <1>2, <2>4, AgencyMay
  <2>5. CASE h \in {"bookings.findMine", "analytics.getLocataireStats"} /\ "LOCATAIRE" \in roles
    <3>1. h \in May("LOCATAIRE")
      BY <2>5, EveryoneMay, TenantMay DEF May
    <3> QED BY <1>2, <2>5, <3>1
  <2> QED BY <2>2, <2>3, <2>4, <2>5
<1>14. Goal
  BY <1>4, <1>5, <1>6, <1>7, <1>8, <1>9, <1>10, <1>11, <1>12, <1>13
<1> QED BY <1>14 DEF Goal

\* What the frame of the dashboard asks for, by the roles it was drawn with.
LEMMA FrameIsServed ==
    ASSUME Accepted, menu = account.roles, NEW h \in ShellLoads(menu)
    PROVE  IsServed(h, account, session)
<1>1. \/ h \in {"messages.findRooms", "notifications.mine", "notifications.unreadCount"}
      \/ "ADMIN" \in account.roles /\ h \in {"verifications.pendingCount", "listings.pendingReportsCount",
                                             "bookings.pendingDisputesCount"}
      \/ "PRO_AGENCE" \in account.roles /\ h = "subscriptions.getAlert"
  BY DEF ShellLoads, When
<1>2. CASE h \in {"messages.findRooms", "notifications.mine", "notifications.unreadCount"}
  BY <1>2, EveryoneMay, EveryoneIsServed DEF Accepted
<1>3. CASE "ADMIN" \in account.roles /\ h \in {"verifications.pendingCount", "listings.pendingReportsCount",
                                               "bookings.pendingDisputesCount"}
  BY <1>3, AdminMay, MayIsServed DEF Accepted
<1>4. CASE "PRO_AGENCE" \in account.roles /\ h = "subscriptions.getAlert"
  BY <1>4, AgencyMay, MayIsServed DEF Accepted
<1> QED BY <1>1, <1>2, <1>3, <1>4

LEMMA MenuServes == MenuIsServed
<1> SUFFICES ASSUME Led PROVE /\ stage = "asking" => Refused(Requests) \subseteq Unserved
                              /\ stage = "shown"  => Refused(PageOf(path, read).presses) \subseteq Unserved
  BY DEF MenuIsServed
<1>1. ASSUME NEW h \in Requests
      PROVE  IsServed(h, account, session) \/ <<path, h>> \in Unserved
  <2>1. CASE h \in PageOf(path, read).loads
    BY <2>1, LedPagesFit
  <2>2. CASE path \in Dashboard /\ h \in ShellLoads(menu)
    <3>1. path \notin Open
      BY <2>2 DEF Open, Dashboard, TenantPages, OwnerPages, AgentPages, Espace, AdminPages
    <3> QED BY <2>2, <3>1, FrameIsServed DEF Led
  <2>3. CASE h \in {"auth.getMe", "messages.findRooms"}
    BY <2>3, EveryoneMay, EveryoneIsServed DEF Led, Accepted
  <2> QED BY <2>1, <2>2, <2>3 DEF Requests
<1>2. Refused(Requests) \subseteq Unserved
  BY <1>1 DEF Refused
<1>3. Refused(PageOf(path, read).presses) \subseteq Unserved
  BY LedPagesFit DEF Refused
<1> QED BY <1>2, <1>3

-----------------------------------------------------------------------------
(***************************************************************************)
(* The tab: its types, and the menu that follows a change of role.         *)
(***************************************************************************)

\* The variables a navigation sets, and how a load or a step inside the frame leaves them.
Place == /\ path \in Addresses /\ stage \in Stages /\ menu \in SUBSET Roles /\ read \in SUBSET Roles
         /\ icon \subseteq Addresses /\ tries \in 0..(Attempts - 1)
Rest  == /\ account \in AccountRow /\ session \in BOOLEAN /\ refresh \in BOOLEAN /\ owed \in BOOLEAN
         /\ failures \in 0..MaxFailures

LEMMA TypesSplit == TabTypes <=> Place /\ Rest
BY DEF TabTypes, Place, Rest

LEMMA LoadStep ==
    ASSUME Place, NEW p \in Addresses, LoadPage(p)
    PROVE  Place' /\ menu' = {} /\ (path' \in Dashboard => stage' = "server")
<1>1. Entry(p) \in Stages /\ (p \in Dashboard => Entry(p) = "server")
  BY NamedAddresses DEF Entry, Stages
<1> QED BY <1>1 DEF LoadPage, Place, Attempts

LEMMA GoStep ==
    ASSUME Place, NEW p \in Addresses, Go(p)
    PROVE  /\ Place'
           /\ \/ menu' = {} /\ (path' \in Dashboard => stage' = "server")
              \/ menu' = menu /\ menu # {}
<1>1. CASE LoadPage(p)
  BY <1>1, LoadStep
<1>2. CASE KeepFrame(p) /\ menu # {}
  BY <1>2 DEF KeepFrame, Place, Stages, Attempts
<1> QED BY <1>1, <1>2 DEF Go

LEMMA FailureTypes ==
    ASSUME Rest, Fail \/ Well
    PROVE  failures' \in 0..MaxFailures
BY NavigationAssumption DEF Rest, Fail, Well

LEMMA AccountTypes ==
    ASSUME NEW a \in AccountRow
    PROVE  /\ a.roles \in SUBSET Roles
           /\ \A b \in BOOLEAN : [a EXCEPT !.terms = b] \in AccountRow /\ [a EXCEPT !.terms = b].roles = a.roles
           /\ \A b \in BOOLEAN : [a EXCEPT !.mustChange = b] \in AccountRow /\ [a EXCEPT !.mustChange = b].roles = a.roles
           /\ [a EXCEPT !.suspended = ~@] \in AccountRow /\ [a EXCEPT !.suspended = ~@].roles = a.roles
           /\ [a EXCEPT !.roles = @ \cup {"BAILLEUR"}] \in AccountRow
           /\ "BAILLEUR" \in [a EXCEPT !.roles = @ \cup {"BAILLEUR"}].roles
           /\ [a EXCEPT !.roles = @ \ {"BAILLEUR"}] \in AccountRow
BY DEF AccountRow, Roles

LEMMA NewcomerTypes == Newcomer \in AccountRow
BY DEF Newcomer, AccountRow, Roles

\* What keeps the menu's part of the invariant: a page loaded again, a frame kept, a frame drawn.
Loaded == menu' = {} /\ (path' \in Dashboard => stage' = "server")
FrameKept == /\ menu' = menu
             /\ menu # {} \/ (path' = path /\ (stage = "server" => stage' = "server")) \/ path' \notin Dashboard
Drawn  == menu' = account.roles /\ UNCHANGED account

LEMMA MenuStep ==
    ASSUME RoleIsHeld, FrameIsThere, MenuFollows, RoleIsHeld', owed \in BOOLEAN, owed' \in BOOLEAN,
           Loaded \/ (FrameKept /\ refresh' = refresh /\ (owed' => owed)) \/ (FrameKept /\ menu # {} /\ refresh')
             \/ (Drawn /\ owed' = owed)
    PROVE  FrameIsThere' /\ MenuFollows'
BY DEF RoleIsHeld, FrameIsThere, MenuFollows, Loaded, FrameKept, Drawn

\* Layouts, guards of pages and first requests.
LEMMA MovesStep ==
    ASSUME TabTypes, Moves
    PROVE  /\ TabTypes' /\ UNCHANGED <<account, owed, refresh>>
           /\ Loaded \/ FrameKept \/ Drawn
<1> DEFINE Goal == TabTypes' /\ UNCHANGED <<account, owed, refresh>> /\ (Loaded \/ FrameKept \/ Drawn)
<1>1. Place /\ Rest
  BY TypesSplit
<1>2. ASSUME NEW p \in Addresses, LoadPage(p), Fail \/ Well, UNCHANGED <<account, session, refresh, owed>>
      PROVE  Goal
  <2>1. Place' /\ Loaded
    BY <1>1, <1>2, LoadStep DEF Loaded
  <2>2. Rest'
    BY <1>1, <1>2, FailureTypes DEF Rest
  <2> QED BY <1>2, <2>1, <2>2 DEF TabTypes, Place, Rest
<1>3. ASSUME NEW p \in Addresses, Go(p), Fail \/ Well, UNCHANGED <<account, session, refresh, owed>>
      PROVE  Goal
  <2>1. Place' /\ (Loaded \/ FrameKept)
    BY <1>1, <1>3, GoStep DEF Loaded, FrameKept
  <2>2. Rest'
    BY <1>1, <1>3, FailureTypes DEF Rest
  <2> QED BY <1>3, <2>1, <2>2 DEF TabTypes, Place, Rest
<1>4. ASSUME NEW next \in Stages, Proceed(next), stage # "server" \/ path \notin Dashboard,
             read' \in SUBSET Roles, Fail \/ Well, UNCHANGED <<account, session, refresh, owed>>
      PROVE  Goal
  <2>1. Place' /\ FrameKept
    BY <1>1, <1>4 DEF Proceed, Place, FrameKept
  <2>2. Rest'
    BY <1>1, <1>4, FailureTypes DEF Rest
  <2> QED BY <1>4, <2>1, <2>2 DEF TabTypes, Place, Rest
<1> HIDE DEF Goal
<1>5. {"home", "sign_in", "redirect", Gate} \subseteq Addresses
  BY NamedAddresses, TargetsAreAddresses
<1>6. ASSUME DashboardLayout PROVE Goal
  <2>1. CASE LoadPage("sign_in") /\ (Fail \/ Well)
    BY <1>2, <1>5, <1>6, <2>1 DEF DashboardLayout
  <2>2. CASE menu' = account.roles /\ stage' \in {"espace", "client"} /\ UNCHANGED <<path, read, tries, icon>> /\ Well
    <3>1. Drawn /\ UNCHANGED <<account, session, refresh, owed>>
      BY <1>6, <2>2 DEF DashboardLayout, Drawn
    <3>2. stage' \in Stages
      BY <2>2 DEF Stages
    <3> QED BY <1>1, <2>2, <3>1, <3>2, FailureTypes DEF Goal, TabTypes, Place, Rest, AccountRow
  <2> QED BY <1>6, <2>1, <2>2 DEF DashboardLayout
<1>7. ASSUME EspaceLayout PROVE Goal
  <2>1. CASE Proceed("client") /\ Well /\ UNCHANGED read
    BY <1>1, <1>4, <1>7, <2>1 DEF EspaceLayout, Stages, Place
  <2>2. CASE (LoadPage("home") \/ LoadPage("sign_in")) /\ (Fail \/ Well)
    BY <1>2, <1>5, <1>7, <2>2 DEF EspaceLayout
  <2> QED BY <1>7, <2>1, <2>2 DEF EspaceLayout
<1>8. ASSUME AuthLayout PROVE Goal
  <2>1. Well
    BY <1>8 DEF AuthLayout, Well
  <2>2. CASE LoadPage("redirect")
    BY <1>2, <1>5, <1>8, <2>1, <2>2 DEF AuthLayout
  <2>3. CASE Proceed("shown") /\ UNCHANGED read
    BY <1>1, <1>4, <1>8, <2>1, <2>3, NamedAddresses DEF AuthLayout, Stages, Place
  <2> QED BY <1>8, <2>2, <2>3 DEF AuthLayout
<1>9. ASSUME Redirect PROVE Goal
  <2>1. CASE (LoadPage("sign_in") \/ LoadPage(Gate)) /\ (Fail \/ Well)
    BY <1>2, <1>5, <1>9, <2>1 DEF Redirect
  <2>2. CASE \/ Fail /\ tries + 1 < Attempts /\ tries' = tries + 1 /\ UNCHANGED <<path, stage, menu, read, icon>>
             \/ Fail /\ tries' = 0 /\ stage' = "failed" /\ UNCHANGED <<path, menu, read, icon>>
    <3>1. FrameKept /\ UNCHANGED <<account, session, refresh, owed>>
      BY <1>9, <2>2 DEF Redirect, FrameKept
    <3>2. Place'
      BY <1>1, <2>2 DEF Place, Stages, Attempts
    <3>3. Rest'
      BY <1>1, <2>2, <3>1, FailureTypes DEF Rest
    <3> QED BY <3>1, <3>2, <3>3 DEF Goal, TabTypes, Place, Rest
  <2>3. CASE Proceed("tokenless") /\ Fail /\ UNCHANGED read
    <3>1. "tokenless" \in Stages /\ stage # "server" /\ read' \in SUBSET Roles
      BY <1>1, <1>9, <2>3 DEF Redirect, Stages, Place
    <3> QED BY <1>4, <1>9, <2>3, <3>1 DEF Redirect
  <2>4. NoToken("none") => Fail \/ Well
    BY DEF NoToken
  <2>5. session /\ NoToken("rejected") => Fail
    BY DEF NoToken
  <2> QED BY <1>9, <2>1, <2>2, <2>3, <2>4, <2>5 DEF Redirect
<1>10. ASSUME PageReads PROVE Goal
  <2>1. stage = "client" /\ UNCHANGED <<account, session, refresh, owed>>
    BY <1>10 DEF PageReads
  <2>2. CASE LoadPage("sign_in") /\ Well
    BY <1>2, <1>5, <2>1, <2>2
  <2>3. CASE (Proceed("asking") \/ Proceed("tokenless")) /\ (Fail \/ Well) /\ (UNCHANGED read \/ read' = account.roles)
    <3>1. read' \in SUBSET Roles
      BY <1>1, <2>3 DEF Place, Rest, AccountRow
    <3> QED BY <1>4, <2>1, <2>3, <3>1 DEF Stages
  <2>4. CASE \E subscribed \in BOOLEAN : Go(Detour(path, account.roles, subscribed)) /\ Well
    BY <1>1, <1>3, <2>1, <2>4, TargetsAreAddresses DEF Place
  <2>5. CASE UNCHANGED read /\ \E outcome \in {"none", "rejected"} :
               NoToken(outcome) /\ Proceed(IF Spins(path, outcome) THEN "tokenless" ELSE Unread(path))
    <3>1. PICK outcome \in {"none", "rejected"} :
            NoToken(outcome) /\ Proceed(IF Spins(path, outcome) THEN "tokenless" ELSE Unread(path))
      BY <2>5
    <3>2. Fail \/ Well
      BY <3>1 DEF NoToken
    <3>3. Proceed("asking") \/ Proceed("tokenless")
      BY <3>1 DEF Unread
    <3> QED BY <2>3, <2>5, <3>2, <3>3
  <2>6. \/ LoadPage("sign_in") /\ Well
        \/ Proceed("asking") /\ (Fail \/ Well) /\ (UNCHANGED read \/ read' = account.roles)
        \/ \E subscribed \in BOOLEAN : Go(Detour(path, account.roles, subscribed)) /\ Well
        \/ UNCHANGED read /\ \E outcome \in {"none", "rejected"} :
             NoToken(outcome) /\ Proceed(IF Spins(path, outcome) THEN "tokenless" ELSE Unread(path))
    BY <1>10 DEF PageReads, Unread
  <2> QED BY <2>2, <2>3, <2>4, <2>5, <2>6
<1>11. ASSUME PageAsks PROVE Goal
  <2>1. FrameKept /\ UNCHANGED <<account, session, refresh, owed>>
    BY <1>11 DEF PageAsks, FrameKept
  <2>2. (Fail \/ Well) /\ stage' \in {"shown", "tokenless", "unread"}
    BY <1>11 DEF PageAsks, NoToken
  <2>3. Place'
    BY <1>1, <1>11, <2>2, TargetsAreAddresses DEF PageAsks, Place, Stages
  <2>4. Rest'
    BY <1>1, <2>1, <2>2, FailureTypes DEF Rest
  <2> QED BY <2>1, <2>3, <2>4 DEF Goal, TabTypes, Place, Rest
<1>12. Goal
  BY <1>6, <1>7, <1>8, <1>9, <1>10, <1>11 DEF Moves
<1> QED BY <1>12 DEF Goal

\* router.refresh(): it leaves no frame that was drawn before the role.
LEMMA RefreshStep ==
    ASSUME TabInv, RefreshLayout
    PROVE  TabInv'
<1>1. Place /\ Rest /\ RoleIsHeld /\ FrameIsThere /\ MenuFollows
  BY TypesSplit DEF TabInv
<1>2. UNCHANGED <<account, session, owed>> /\ refresh' = FALSE /\ (Fail \/ Well)
  BY DEF RefreshLayout
<1>3. Rest' /\ RoleIsHeld'
  BY <1>1, <1>2, FailureTypes DEF Rest, RoleIsHeld
<1>4. CASE menu = {} /\ UNCHANGED <<path, stage, menu, read, icon, tries>>
  <2>1. Place' /\ FrameIsThere' /\ MenuFollows'
    BY <1>1, <1>2, <1>4 DEF Place, FrameIsThere, MenuFollows
  <2> QED BY <1>3, <2>1 DEF TabInv, TabTypes, Place, Rest
<1>5. CASE menu' = account.roles /\ UNCHANGED <<path, stage, read, icon, tries>>
  <2>1. Place'
    BY <1>1, <1>5 DEF Place, Rest, AccountRow
  <2>2. FrameIsThere' /\ MenuFollows'
    BY <1>1, <1>2, <1>5 DEF FrameIsThere, MenuFollows, RoleIsHeld
  <2> QED BY <1>3, <2>1, <2>2 DEF TabInv, TabTypes, Place, Rest
<1>6. CASE LoadPage("sign_in")
  <2>1. Place' /\ Loaded
    BY <1>1, <1>6, LoadStep, NamedAddresses DEF Loaded
  <2>2. FrameIsThere' /\ MenuFollows'
    BY <2>1 DEF Loaded, FrameIsThere, MenuFollows
  <2> QED BY <1>3, <2>1, <2>2 DEF TabInv, TabTypes, Place, Rest
<1> QED BY <1>4, <1>5, <1>6 DEF RefreshLayout

\* What the person does, and what is done to the account elsewhere: the role stays as long as
\* it is owed, and a frame that stays awaits the refresh that was asked for.
LEMMA PersonStep ==
    ASSUME TabInv, Person
    PROVE  TabInv'
<1>1. Place /\ Rest /\ RoleIsHeld /\ FrameIsThere /\ MenuFollows
  BY TypesSplit DEF TabInv
<1>2. ASSUME Place', Rest', RoleIsHeld', Loaded
      PROVE  TabInv'
  <2>1. FrameIsThere' /\ MenuFollows'
    BY <1>2 DEF Loaded, FrameIsThere, MenuFollows
  <2> QED BY <1>2, <2>1 DEF TabInv, TabTypes, Place, Rest
<1>3. ASSUME NEW p \in Addresses, LoadPage(p), Rest', RoleIsHeld'
      PROVE  TabInv'
  BY <1>1, <1>2, <1>3, LoadStep DEF Loaded
<1>4. ASSUME NEW p \in Addresses, Go(p), Rest', RoleIsHeld',
             (refresh' = refresh /\ (owed' => owed)) \/ refresh'
      PROVE  TabInv'
  <2>1. Place' /\ (Loaded \/ (menu' = menu /\ menu # {}))
    BY <1>1, <1>4, GoStep DEF Loaded
  <2>2. CASE menu' = menu /\ menu # {}
    <3>1. FrameKept
      BY <2>2 DEF FrameKept
    <3>2. owed \in BOOLEAN /\ owed' \in BOOLEAN
      BY <1>1, <1>4 DEF Rest
    <3>3. FrameIsThere' /\ MenuFollows'
      BY <1>1, <1>4, <2>2, <3>1, <3>2, MenuStep
    <3> QED BY <1>4, <2>1, <3>3 DEF TabInv, TabTypes, Place, Rest
  <2> QED BY <1>2, <1>4, <2>1, <2>2
<1>5. {"home", "redirect", "sign_in", "espace", "bailleur_listings"} \subseteq Addresses
  BY NamedAddresses
<1>6. ASSUME NEW p \in Addresses, FollowLink(p) \/ TypeAddress(p)
      PROVE  TabInv'
  <2>1. UNCHANGED <<account, session, refresh, owed, failures>>
    BY <1>6 DEF FollowLink, TypeAddress
  <2>2. Rest' /\ RoleIsHeld'
    BY <1>1, <2>1 DEF Rest, RoleIsHeld
  <2> QED BY <1>3, <1>4, <1>6, <2>1, <2>2 DEF FollowLink, TypeAddress
<1>7. ASSUME SignIn PROVE TabInv'
  <2>1. Rest' /\ RoleIsHeld'
    BY <1>1, <1>7 DEF SignIn, Rest, RoleIsHeld
  <2> QED BY <1>3, <1>5, <1>7, <2>1 DEF SignIn
<1>8. ASSUME SignUp PROVE TabInv'
  <2>1. account' \in AccountRow
    <3>1. PICK accepted \in BOOLEAN : account' = [Newcomer EXCEPT !.terms = accepted]
      BY <1>8 DEF SignUp
    <3> QED BY <3>1, NewcomerTypes, AccountTypes
  <2>2. Rest' /\ RoleIsHeld'
    BY <1>1, <1>8, <2>1 DEF SignUp, Rest, RoleIsHeld
  <2> QED BY <1>3, <1>5, <1>8, <2>2 DEF SignUp
<1>9. ASSUME SignOut PROVE TabInv'
  <2>1. Rest' /\ RoleIsHeld'
    BY <1>1, <1>9 DEF SignOut, Rest, RoleIsHeld
  <2> QED BY <1>3, <1>5, <1>9, <2>1 DEF SignOut
<1>10. ASSUME AcceptTerms \/ ChangePassword PROVE TabInv'
  <2>1. account' \in AccountRow /\ account'.roles = account.roles
    BY <1>1, <1>10, AccountTypes DEF AcceptTerms, ChangePassword, Pass, Rest
  <2>2. LoadPage("redirect") /\ refresh' = TRUE /\ UNCHANGED <<session, owed, failures>>
    BY <1>10 DEF AcceptTerms, ChangePassword, Pass
  <2>3. Rest' /\ RoleIsHeld'
    BY <1>1, <2>1, <2>2 DEF Rest, RoleIsHeld
  <2> QED BY <1>3, <1>5, <2>2, <2>3
<1>11. ASSUME Contact PROVE TabInv'
  <2>1. Rest' /\ RoleIsHeld'
    BY <1>1, <1>11 DEF Contact, Rest, RoleIsHeld
  <2> QED BY <1>3, <1>11, <2>1, TargetsAreAddresses DEF Contact
<1>12. Promoted \in AccountRow /\ "BAILLEUR" \in Promoted.roles
  BY <1>1, AccountTypes DEF Promoted, Rest
<1>13. ASSUME BecomeOwner PROVE TabInv'
  <2>1. Rest' /\ RoleIsHeld' /\ refresh'
    BY <1>1, <1>12, <1>13 DEF BecomeOwner, Rest, RoleIsHeld
  <2> QED BY <1>4, <1>5, <1>13, <2>1 DEF BecomeOwner
<1>14. ASSUME Onboard PROVE TabInv'
  <2>1. LoadPage("espace") /\ UNCHANGED <<session, refresh, failures>>
    BY <1>14 DEF Onboard
  <2>2. (account' = Promoted /\ owed' = TRUE) \/ UNCHANGED <<account, owed>>
    BY <1>14 DEF Onboard
  <2>3. Rest' /\ RoleIsHeld'
    <3>1. CASE account' = Promoted /\ owed' = TRUE
      BY <1>1, <1>12, <2>1, <3>1 DEF Rest, RoleIsHeld
    <3>2. CASE UNCHANGED <<account, owed>>
      BY <1>1, <2>1, <3>2 DEF Rest, RoleIsHeld
    <3> QED BY <2>2, <3>1, <3>2
  <2> QED BY <1>3, <1>5, <2>1, <2>3
<1>15. ASSUME Retry PROVE TabInv'
  <2>1. Rest' /\ RoleIsHeld'
    BY <1>1, <1>15 DEF Retry, Rest, RoleIsHeld
  <2> QED BY <1>3, <1>5, <1>15, <2>1 DEF Retry
<1> QED BY <1>6, <1>7, <1>8, <1>9, <1>10, <1>11, <1>13, <1>14, <1>15 DEF Person

LEMMA OthersStep ==
    ASSUME TabInv, Others
    PROVE  TabInv'
<1>1. Place /\ Rest /\ RoleIsHeld /\ FrameIsThere /\ MenuFollows
  BY TypesSplit DEF TabInv
<1>2. UNCHANGED <<path, stage, menu, read, icon, tries, refresh, failures>>
  BY DEF Others, SignOutElsewhere, SuspendUser, DeactivateBailleur, DeleteUser, Administer
<1>3. /\ account' \in AccountRow /\ session' \in BOOLEAN /\ owed' \in BOOLEAN
      /\ owed' => owed /\ "BAILLEUR" \in account'.roles
  <2>1. CASE SignOutElsewhere
    BY <1>1, <2>1 DEF SignOutElsewhere, Rest
  <2>2. ASSUME NEW entry \in AccountRow, Administer(entry)
        PROVE  /\ account' \in AccountRow /\ session' \in BOOLEAN /\ owed' \in BOOLEAN
               /\ owed' => owed /\ "BAILLEUR" \in account'.roles
    BY <1>1, <2>2 DEF Administer, Rest
  <2> QED BY <1>1, <2>1, <2>2, AccountTypes, NewcomerTypes
          DEF Others, SuspendUser, DeactivateBailleur, DeleteUser, Rest
<1>4. Place' /\ Rest' /\ RoleIsHeld' /\ FrameIsThere' /\ MenuFollows'
  BY <1>1, <1>2, <1>3 DEF Place, Rest, RoleIsHeld, FrameIsThere, MenuFollows
<1> QED BY <1>4 DEF TabInv, TabTypes, Place, Rest

\* The first page is the public home page, of a tab that owes nothing.
LEMMA TabStarts == TabInit => TabInv
<1> SUFFICES ASSUME TabInit PROVE TabInv
  OBVIOUS
<1>1. account \in AccountRow /\ 0 \in 0..MaxFailures /\ 0 \in 0..(Attempts - 1)
  BY NavigationAssumption DEF TabInit, Attempts
<1>2. "home" \in Addresses /\ "client" \in Stages
  BY NamedAddresses DEF Stages
<1> QED BY <1>1, <1>2 DEF TabInit, TabInv, TabTypes, RoleIsHeld, FrameIsThere, MenuFollows

LEMMA TabGoesOn ==
    ASSUME TabInv, [TabNext]_tabVars
    PROVE  TabInv'
<1>1. CASE Moves
  <2>1. /\ TabTypes' /\ UNCHANGED <<account, owed, refresh>>
        /\ Loaded \/ FrameKept \/ Drawn
    BY <1>1, MovesStep DEF TabInv
  <2>2. RoleIsHeld' /\ owed \in BOOLEAN /\ owed' \in BOOLEAN
    BY <2>1 DEF TabInv, RoleIsHeld, TabTypes
  <2>3. FrameIsThere' /\ MenuFollows'
    BY <2>1, <2>2, MenuStep DEF TabInv
  <2> QED BY <2>1, <2>2, <2>3 DEF TabInv
<1>2. CASE UNCHANGED tabVars
  BY <1>2 DEF TabInv, TabTypes, RoleIsHeld, FrameIsThere, MenuFollows, tabVars
<1> QED BY <1>1, <1>2, RefreshStep, PersonStep, OthersStep DEF TabNext

\* The types of the tab, and: who is owed the owner's menu has the role, a page of the dashboard
\* past its layout has a frame, and a frame drawn before the role awaits a refresh.
THEOREM TabInvariant == TabSpec => []TabInv
<1>1. TabInv /\ [TabNext]_tabVars => TabInv'
  BY TabGoesOn
<1> QED BY TabStarts, <1>1, PTL DEF TabSpec

\* The menu fits the person: whatever account it is, every request and every button of a page the
\* menu, a link or the home address leads to is served by the API, but for the four kinds Unserved
\* names; and whoever became an owner from this tab finds the owner's menu once the refresh is done.
THEOREM MenusFit == TabSpec => []MenuFits
<1>1. TabInv => MenuFits
  <2>1. TabInv => OwnRoleInMenu
    BY DEF TabInv, OwnRoleInMenu, FrameIsThere, MenuFollows
  <2> QED BY <2>1, MenuServes DEF MenuFits
<1> QED BY TabInvariant, <1>1, PTL
=============================================================================
