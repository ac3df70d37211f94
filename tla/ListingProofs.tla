---------------------------- MODULE ListingProofs ----------------------------
(***************************************************************************)
(* Proofs about Catalogue, for every set of listings and invoices, any     *)
(* number of requests served at the same time and any number of calls to   *)
(* Meilisearch under way; about ListingForms, for every set of photos and  *)
(* of numbers of nights, and any number of requests and of failures; and   *)
(* about Messaging, the conversations about a listing, for any people,     *)
(* rooms and number of messages.                                           *)
(***************************************************************************)
EXTENDS Catalogue, ListingForms, Messaging, FiniteSetTheorems, SequenceTheorems, TLAPS

-----------------------------------------------------------------------------
(***************************************************************************)
(* Type correctness.                                                       *)
(***************************************************************************)

\* What a request carries at each of its stages.
LEMMA Carried ==
    ASSUME NEW r \in Request
    PROVE  /\ r.stage = "status" => r.listing \in Listing /\ r.status \in ListingStatus
           /\ r.stage \in {"edit", "invoice", "plan", "boost"} => r.listing \in Listing
           /\ r.stage \in {"plan", "boost", "settle"} => r.score \in 0 .. BoostScoreMax
           /\ r.stage = "insert" => r.invoice \in Invoice
           /\ r.stage \in {"confirm", "score", "failed", "settle"} =>
                r.row \in Invoice /\ r.invoice \in Invoice
           /\ r.stage = "settle" => r.left \subseteq {"row", "boost"}
           /\ r.stage \in {"clear", "fill"} => r.rows \subseteq Listing
BY DEF Request, Idle

\* A request that moves to another stage, and carries the same, is a Request.
LEMMA Restaged ==
    ASSUME NEW r \in Request
    PROVE  /\ r.stage = "plan" => [r EXCEPT !.stage = "boost"] \in Request
           /\ r.stage = "confirm" =>
                \A s \in {"score", "failed"} : [r EXCEPT !.stage = s] \in Request
           /\ r.stage = "settle" =>
                \A part \in {"row", "boost"} : [r EXCEPT !.left = @ \ {part}] \in Request
BY DEF Request, Idle

\* A request replaced by a Request keeps the types of all of them.
LEMMA GotoType ==
    ASSUME request \in [Proc -> Request], NEW p \in Proc, NEW r \in Request, Goto(p, r)
    PROVE  request' \in [Proc -> Request]
BY DEF Goto

LEMMA DoneType ==
    ASSUME request \in [Proc -> Request], NEW p \in Proc, Done(p)
    PROVE  request' \in [Proc -> Request]
BY DEF Done, Goto, Request, Idle

\* Rows of the two tables after their columns are written.
LEMMA RowForms ==
    /\ \A row \in Row, n \in 0 .. BoostScoreMax :
          [row EXCEPT !.boostScore = n, !.boostUntil = "running"] \in Row
    /\ \A row \in Row : [row EXCEPT !.boostUntil = "over"] \in Row
    /\ \A i \in Invoice, s \in {"PENDING", "CONFIRMED"} :
          [status |-> s, paymentRef |-> i] \in PaymentRow
    /\ \A row \in PaymentRow, s \in {"none", "FAILED"} : [row EXCEPT !.status = s] \in PaymentRow
BY DEF Row, PaymentRow

\* Writing a status, boosting and telling Meilisearch keep the types of what they write.
LEMMA WriteStatusType ==
    ASSUME TypeOK, NEW l \in Listing, NEW s \in ListingStatus \cup {"DELETED"}, WriteStatus(l, s)
    PROVE  /\ listing' \in [Listing -> Row]
           /\ moved' \subseteq Listing /\ published' \subseteq Listing
BY DEF WriteStatus, TypeOK, Row

LEMMA ApplyBoostType ==
    ASSUME TypeOK, NEW l \in Listing, NEW score \in 0 .. BoostScoreMax, ApplyBoost(l, score)
    PROVE  listing' \in [Listing -> Row]
<1>1. Least(score + BoostScoreGain, BoostScoreMax) \in 0 .. BoostScoreMax
  BY CatalogueAssumption DEF Least
<1>2. listing' = [listing EXCEPT ![l] = [listing[l] EXCEPT
                    !.boostScore = Least(score + BoostScoreGain, BoostScoreMax),
                    !.boostUntil = "running"]]
  BY DEF ApplyBoost, TypeOK
<1> QED BY <1>1, <1>2, RowForms DEF TypeOK

LEMMA TellType ==
    ASSUME TypeOK, NEW l \in Listing, NEW c \in {"index", "delete"}, Tell(l, c)
    PROVE  /\ calls' \in [Listing -> Seq({"index", "delete"})]
           /\ heard' \in [Listing -> {"soon", "yes", "no"}]
           /\ index' = index
BY DEF Tell, TypeOK

\* A call that arrives or is lost leaves the others.
LEMMA RemoveAtType ==
    ASSUME NEW S, NEW s \in Seq(S), NEW k \in 1 .. Len(s)
    PROVE  /\ RemoveAt(s, k) \in Seq(S)
           /\ Len(RemoveAt(s, k)) = Len(s) - 1
           /\ \A j \in 1 .. Len(s) - 1 : RemoveAt(s, k)[j] = IF j < k THEN s[j] ELSE s[j + 1]
<1> DEFINE a == SubSeq(s, 1, k - 1)
           b == SubSeq(s, k + 1, Len(s))
<1>1. /\ a \in Seq(S) /\ Len(a) = k - 1
      /\ \A j \in 1 .. k - 1 : a[j] = s[j]
  OBVIOUS
<1>2. /\ b \in Seq(S) /\ Len(b) = Len(s) - k
      /\ \A j \in 1 .. Len(s) - k : b[j] = s[k + j]
  OBVIOUS
<1>3. RemoveAt(s, k) = a \o b
  BY DEF RemoveAt
<1> HIDE DEF a, b
<1>4. /\ a \o b \in Seq(S) /\ Len(a \o b) = Len(a) + Len(b)
      /\ \A j \in 1 .. Len(a) + Len(b) :
           (a \o b)[j] = IF j <= Len(a) THEN a[j] ELSE b[j - Len(a)]
  BY <1>1, <1>2, ConcatProperties
<1>5. ASSUME NEW j \in 1 .. Len(s) - 1
      PROVE  (a \o b)[j] = IF j < k THEN s[j] ELSE s[j + 1]
  <2>1. j \in 1 .. Len(a) + Len(b) /\ (j <= Len(a) <=> j < k)
    BY <1>1, <1>2
  <2>2. CASE j < k
    BY <2>1, <2>2, <1>1, <1>4
  <2>3. CASE ~(j < k)
    <3>1. j - Len(a) \in 1 .. Len(s) - k /\ k + (j - Len(a)) = j + 1
      BY <2>3, <1>1
    <3> QED BY <2>1, <2>3, <3>1, <1>2, <1>4
  <2> QED BY <2>2, <2>3
<1> QED BY <1>1, <1>2, <1>3, <1>4, <1>5

\* The writes of the status, and the word to Meilisearch about it.
LEMMA StatusTypes ==
    ASSUME TypeOK, NEW p \in Proc, NEW l \in Listing,
           \/ Create(p, l) \/ ActivateListing(p, l) \/ SuspendListing(p, l)
           \/ RemoveListing(p, l) \/ WriteUntold(p, l)
    PROVE  TypeOK'
<1>1. CASE Create(p, l)
  <2>1. PICK s \in {"ACTIVE", "DRAFT"} : WriteStatus(l, s) /\ SyncSearchIndex(l, s)
    BY <1>1 DEF Create
  <2> QED BY <1>1, <2>1, WriteStatusType, TellType
          DEF Create, SyncSearchIndex, ListingStatus, TypeOK, money
<1>2. CASE ActivateListing(p, l)
  BY <1>2, WriteStatusType, TellType
  DEF ActivateListing, SyncSearchIndex, ListingStatus, TypeOK, money
<1>3. CASE SuspendListing(p, l)
  BY <1>3, WriteStatusType, TellType DEF SuspendListing, ListingStatus, TypeOK, money
<1>4. CASE RemoveListing(p, l)
  <2>1. payment' \in [Invoice -> PaymentRow]
    BY <1>4, RowForms DEF RemoveListing, TypeOK
  <2> QED BY <1>4, <2>1, WriteStatusType, TellType DEF RemoveListing, TypeOK
<1>5. CASE WriteUntold(p, l)
  <2>1. PICK s \in {"RENTED", "ACTIVE", "SUSPENDED"} : WriteStatus(l, s)
    BY <1>5 DEF WriteUntold
  <2> QED BY <1>5, <2>1, WriteStatusType DEF WriteUntold, ListingStatus, TypeOK, money
<1> QED BY <1>1, <1>2, <1>3, <1>4, <1>5

\* The handlers that read a row and go on later.
LEMMA EntryTypes ==
    ASSUME TypeOK, NEW p \in Proc,
           \/ \E l \in Listing : CheckMove(p, l) \/ CheckEdit(p, l) \/ Boost(p, l)
           \/ \E i \in Invoice : HandleBoostWebhook(p, i)
           \/ ReindexRead(p)
    PROVE  TypeOK'
<1>1. ASSUME NEW l \in Listing, CheckMove(p, l)
      PROVE  TypeOK'
  <2>1. PICK s \in ListingStatus : Goto(p, [stage |-> "status", listing |-> l, status |-> s])
    BY <1>1 DEF CheckMove
  <2>2. [stage |-> "status", listing |-> l, status |-> s] \in Request
    BY DEF Request
  <2> QED BY <1>1, <2>1, <2>2, GotoType DEF CheckMove, TypeOK, money, search
<1>2. ASSUME NEW l \in Listing, CheckEdit(p, l)
      PROVE  TypeOK'
  <2>1. [stage |-> "edit", listing |-> l] \in Request
    BY DEF Request
  <2> QED BY <1>2, <2>1, GotoType DEF CheckEdit, TypeOK, money, search
<1>3. ASSUME NEW l \in Listing, Boost(p, l)
      PROVE  TypeOK'
  <2>1. [stage |-> "plan", listing |-> l, score |-> listing[l].boostScore] \in Request
    BY DEF Request, TypeOK, Row
  <2> QED BY <1>3, <2>1, GotoType DEF Boost, TypeOK, money, search
<1>4. ASSUME NEW i \in Invoice, HandleBoostWebhook(p, i)
      PROVE  TypeOK'
  <2>1. PICK row \in Invoice : Goto(p, [stage |-> "confirm", row |-> row, invoice |-> i])
    BY <1>4 DEF HandleBoostWebhook
  <2>2. [stage |-> "confirm", row |-> row, invoice |-> i] \in Request
    BY DEF Request
  <2> QED BY <1>4, <2>1, <2>2, GotoType DEF HandleBoostWebhook, TypeOK, money, search
<1>5. CASE ReindexRead(p)
  <2>1. [stage |-> "clear", rows |-> {l \in Listing : listing[l].status = "ACTIVE"}] \in Request
    BY DEF Request
  <2> QED BY <1>5, <2>1, GotoType DEF ReindexRead, TypeOK, money
<1> QED BY <1>1, <1>2, <1>3, <1>4, <1>5

\* What follows a first read.
LEMMA SearchStepTypes ==
    ASSUME TypeOK, NEW p \in Proc,
           MoveListing(p) \/ Update(p) \/ ReindexClear(p) \/ ReindexFill(p)
    PROVE  TypeOK'
<1>0. request[p] \in Request
  BY DEF TypeOK
<1>1. CASE MoveListing(p)
  BY <1>0, <1>1, Carried, WriteStatusType, TellType, DoneType
  DEF MoveListing, At, SyncSearchIndex, TypeOK, money
<1>2. CASE Update(p)
  BY <1>0, <1>2, Carried, TellType, DoneType DEF Update, At, SyncSearchIndex, TypeOK, money
<1>3. CASE ReindexClear(p)
  <2>1. [stage |-> "fill", rows |-> request[p].rows] \in Request
    BY <1>0, <1>3, Carried DEF ReindexClear, At, Request
  <2> QED BY <1>3, <2>1, GotoType DEF ReindexClear, TypeOK, money
<1>4. CASE ReindexFill(p)
  BY <1>0, <1>4, Carried, DoneType DEF ReindexFill, At, TypeOK, money
<1> QED BY <1>1, <1>2, <1>3, <1>4

LEMMA BoostStepTypes ==
    ASSUME TypeOK, NEW p \in Proc,
           \/ IsProActive(p) \/ BoostFree(p) \/ CreateInvoice(p) \/ InsertPayment(p)
           \/ ConfirmAnswer(p) \/ ReadScore(p) \/ ConfirmPayment(p)
           \/ BoostPaid(p) \/ FailPayment(p) \/ Abort(p)
    PROVE  TypeOK'
<1> USE CatalogueAssumption
<1>0. request[p] \in Request
  BY DEF TypeOK
<1>1. CASE IsProActive(p)
  <2>1. request[p].listing \in Listing
    BY <1>0, <1>1, Carried DEF IsProActive, At
  <2>2. /\ [request[p] EXCEPT !.stage = "boost"] \in Request
        /\ [stage |-> "invoice", listing |-> request[p].listing] \in Request
    BY <1>0, <1>1, <2>1, Restaged DEF IsProActive, At, Request
  <2>3. request' \in [Proc -> Request]
    BY <1>1, <2>2, GotoType DEF IsProActive, TypeOK
  <2> QED BY <1>1, <2>1, <2>3 DEF IsProActive, TypeOK, money, search
<1>2. CASE BoostFree(p)
  BY <1>0, <1>2, Carried, ApplyBoostType, DoneType DEF BoostFree, At, TypeOK, money, search
<1>3. CASE CreateInvoice(p)
  <2>1. PICK i \in Invoice : /\ invoice' = [invoice EXCEPT ![i] = "created"]
                             /\ Goto(p, [stage |-> "insert", invoice |-> i])
    BY <1>3 DEF CreateInvoice
  <2>2. [stage |-> "insert", invoice |-> i] \in Request
    BY DEF Request
  <2> QED BY <1>3, <2>1, <2>2, GotoType DEF CreateInvoice, TypeOK, search
<1>4. CASE InsertPayment(p)
  <2>1. request[p].invoice \in Invoice
    BY <1>0, <1>4, Carried DEF InsertPayment, At
  <2>2. request' \in [Proc -> Request]
    BY <1>4, DoneType DEF InsertPayment, TypeOK
  <2>3. payment' \in [Invoice -> PaymentRow]
    BY <1>4, <2>1, RowForms DEF InsertPayment, TypeOK
  <2>4. inserted' \in Seq(Invoice)
    BY <1>4, <2>1 DEF InsertPayment, TypeOK
  <2> QED BY <1>4, <2>1, <2>2, <2>3, <2>4 DEF InsertPayment, TypeOK, search
<1>5. CASE ConfirmAnswer(p)
  <2>1. request' \in [Proc -> Request]
    BY <1>0, <1>5, Restaged, GotoType, DoneType DEF ConfirmAnswer, At, TypeOK
  <2> QED BY <1>5, <2>1 DEF ConfirmAnswer, TypeOK, money, search
<1>6. CASE ReadScore(p)
  <2>1. request[p].row \in Invoice /\ request[p].invoice \in Invoice
    BY <1>0, <1>6, Carried DEF ReadScore, At
  <2>2. [stage |-> "settle", row |-> request[p].row, invoice |-> request[p].invoice,
         score |-> listing[ListingOf[request[p].invoice]].boostScore,
         left |-> {"row", "boost"}] \in Request
    BY <2>1 DEF Request, TypeOK, Row
  <2> QED BY <1>6, <2>2, GotoType DEF ReadScore, TypeOK, money, search
<1>7. ASSUME NEW part \in {"row", "boost"}, At(p, "settle"), Settled(p, part)
      PROVE  request' \in [Proc -> Request]
  BY <1>0, <1>7, Restaged, GotoType, DoneType DEF Settled, At, TypeOK
<1>8. CASE ConfirmPayment(p)
  <2>1. request[p].row \in Invoice /\ request[p].invoice \in Invoice
    BY <1>0, <1>8, Carried DEF ConfirmPayment, At
  <2>2. \/ payment' = [payment EXCEPT ![request[p].row] =
                         [status |-> "CONFIRMED", paymentRef |-> request[p].invoice]]
        \/ payment' = payment
    BY <1>8 DEF ConfirmPayment
  <2>3. payment' \in [Invoice -> PaymentRow]
    BY <2>1, <2>2, RowForms DEF TypeOK
  <2> QED BY <1>7, <1>8, <2>3 DEF ConfirmPayment, TypeOK, search
<1>9. CASE BoostPaid(p)
  <2>1. request[p].invoice \in Invoice /\ request[p].score \in 0 .. BoostScoreMax
    BY <1>0, <1>9, Carried DEF BoostPaid, At
  <2>2. listing' \in [Listing -> Row]
    BY <1>9, <2>1, ApplyBoostType DEF BoostPaid, TypeOK
  <2> QED BY <1>7, <1>9, <2>2 DEF BoostPaid, TypeOK, money, search
<1>10. CASE FailPayment(p)
  <2>1. payment' \in [Invoice -> PaymentRow]
    BY <1>0, <1>10, Carried, RowForms DEF FailPayment, At, TypeOK
  <2> QED BY <1>10, <2>1, DoneType DEF FailPayment, TypeOK, search
<1>11. CASE Abort(p)
  BY <1>11, DoneType DEF Abort, TypeOK, money, search
<1> QED BY <1>1, <1>2, <1>3, <1>4, <1>5, <1>6, <1>8, <1>9, <1>10, <1>11

LEMMA WorldTypes ==
    ASSUME TypeOK,
           \/ \E i \in Invoice : PayInvoice(i)
           \/ \E l \in Listing : Arrive(l) \/ Lose(l) \/ TurnPro(l) \/ BoostEnds(l)
    PROVE  TypeOK'
<1>1. ASSUME NEW i \in Invoice, PayInvoice(i)
      PROVE  TypeOK'
  BY <1>1 DEF PayInvoice, TypeOK, search
<1>2. ASSUME NEW l \in Listing, Arrive(l)
      PROVE  TypeOK'
  <2>1. PICK k \in 1 .. Len(calls[l]) :
           /\ index' = IF calls[l][k] = "index" THEN index \cup {l} ELSE index \ {l}
           /\ calls' = [calls EXCEPT ![l] = RemoveAt(@, k)]
           /\ heard' = [heard EXCEPT ![l] =
                CASE @ = "soon" /\ k = Len(calls[l]) -> "yes"
                  [] @ = "yes" -> "no"
                  [] OTHER -> @]
    BY <1>2 DEF Arrive
  <2>2. calls' \in [Listing -> Seq({"index", "delete"})]
    BY <2>1, RemoveAtType DEF TypeOK
  <2> QED BY <1>2, <2>1, <2>2 DEF Arrive, TypeOK, money
<1>3. ASSUME NEW l \in Listing, Lose(l)
      PROVE  TypeOK'
  <2>1. PICK k \in 1 .. Len(calls[l]) :
           /\ calls' = [calls EXCEPT ![l] = RemoveAt(@, k)]
           /\ heard' = [heard EXCEPT ![l] =
                IF @ = "soon" /\ k = Len(calls[l]) THEN "no" ELSE @]
    BY <1>3 DEF Lose
  <2>2. calls' \in [Listing -> Seq({"index", "delete"})]
    BY <2>1, RemoveAtType DEF TypeOK
  <2> QED BY <1>3, <2>1, <2>2 DEF Lose, TypeOK, money
<1>4. ASSUME NEW l \in Listing, TurnPro(l)
      PROVE  TypeOK'
  BY <1>4 DEF TurnPro, TypeOK, money, search
<1>5. ASSUME NEW l \in Listing, BoostEnds(l)
      PROVE  TypeOK'
  BY <1>5, RowForms DEF BoostEnds, TypeOK, money, search
<1> QED BY <1>1, <1>2, <1>3, <1>4, <1>5

LEMMA TypeInit == Init => TypeOK
BY CatalogueAssumption DEF Init, TypeOK, Row, PaymentRow, Request, Idle

LEMMA TypeStep == TypeOK /\ [Next]_vars => TypeOK'
<1> SUFFICES ASSUME TypeOK, [Next]_vars
             PROVE  TypeOK'
  OBVIOUS
<1>1. CASE Next
  BY <1>1, StatusTypes, EntryTypes, SearchStepTypes, BoostStepTypes, WorldTypes DEF Next
<1>2. CASE UNCHANGED vars
  BY <1>2 DEF vars, TypeOK
<1> QED BY <1>1, <1>2

\* Every variable keeps to its columns; the score of a boost, counted from a score that
\* was read before the request was answered, never passes the ceiling (applyBoost).
THEOREM CatalogueTypes == Spec => []TypeOK
BY TypeInit, TypeStep, PTL DEF Spec

-----------------------------------------------------------------------------
(***************************************************************************)
(* The search index.  A step writes a status and tells Meilisearch, tells  *)
(* it again, writes without a word, moves a rebuild on, delivers or loses  *)
(* a call, or does nothing that the index depends on.                      *)
(***************************************************************************)

\* No request enters or continues a rebuild.
NoRebuild == \A p \in Proc : request'[p].stage \in {"clear", "fill"} => request'[p] = request[p]

WrittenAndTold(l, s, c) ==
    /\ WriteStatus(l, s) /\ Tell(l, c)
    /\ Says(c) <=> s = "ACTIVE"
    /\ NoRebuild

Quiet ==
    /\ \A l \in Listing : listing'[l].status = listing[l].status
    /\ UNCHANGED search
    /\ NoRebuild

LEMMA GotoNoRebuild ==
    ASSUME TypeOK, NEW p \in Proc, NEW r, Goto(p, r), r.stage \notin {"clear", "fill"}
    PROVE  NoRebuild
BY DEF TypeOK, Goto, NoRebuild

LEMMA DoneNoRebuild ==
    ASSUME TypeOK, NEW p \in Proc, Done(p)
    PROVE  NoRebuild
BY DEF TypeOK, Done, Goto, NoRebuild, Idle

LEMMA IdleNoRebuild ==
    ASSUME UNCHANGED request
    PROVE  NoRebuild
BY DEF NoRebuild

\* Only the columns of the boost are written.
LEMMA BoostKeepsStatus ==
    ASSUME TypeOK, NEW l \in Listing, NEW score, ApplyBoost(l, score)
    PROVE  \A k \in Listing : listing'[k].status = listing[k].status
<1>1. \A row \in Row : \A n : [row EXCEPT !.boostScore = n, !.boostUntil = "running"].status = row.status
  BY DEF Row
<1>2. listing' = [listing EXCEPT ![l] = [listing[l] EXCEPT
                    !.boostScore = Least(score + BoostScoreGain, BoostScoreMax),
                    !.boostUntil = "running"]]
  BY DEF ApplyBoost, TypeOK
<1> QED BY <1>1, <1>2 DEF TypeOK

\* The handlers that write a status tell Meilisearch in the same step...
LEMMA HandlersTell ==
    ASSUME TypeOK, NEW p \in Proc,
           \/ \E l \in Listing : Create(p, l) \/ ActivateListing(p, l) \/ SuspendListing(p, l)
                                 \/ RemoveListing(p, l)
           \/ MoveListing(p)
    PROVE  \E l \in Listing, s \in ListingStatus \cup {"DELETED"}, c \in {"index", "delete"} :
               WrittenAndTold(l, s, c)
<1> USE DEF WrittenAndTold, SyncSearchIndex, Says, ListingStatus
<1>1. ASSUME NEW l \in Listing, Create(p, l)
      PROVE  \E s \in ListingStatus, c \in {"index", "delete"} : WrittenAndTold(l, s, c)
  <2>1. PICK s \in {"ACTIVE", "DRAFT"} : WriteStatus(l, s) /\ SyncSearchIndex(l, s)
    BY <1>1 DEF Create
  <2> QED BY <1>1, <2>1, IdleNoRebuild DEF Create
<1>2. ASSUME NEW l \in Listing, ActivateListing(p, l)
      PROVE  WrittenAndTold(l, "ACTIVE", "index")
  BY <1>2, IdleNoRebuild DEF ActivateListing
<1>3. ASSUME NEW l \in Listing, SuspendListing(p, l)
      PROVE  WrittenAndTold(l, "SUSPENDED", "delete")
  BY <1>3, IdleNoRebuild DEF SuspendListing
<1>4. ASSUME NEW l \in Listing, RemoveListing(p, l)
      PROVE  WrittenAndTold(l, "DELETED", "delete")
  BY <1>4, IdleNoRebuild DEF RemoveListing
<1>5. CASE MoveListing(p)
  <2>1. request[p].listing \in Listing /\ request[p].status \in ListingStatus
    BY <1>5, Carried DEF MoveListing, At, TypeOK
  <2> QED BY <1>5, <2>1, DoneNoRebuild DEF MoveListing
<1> QED BY <1>1, <1>2, <1>3, <1>4, <1>5

\* ... and the steps of boosts, payments and first reads do not concern the index.
LEMMA OthersAreQuiet ==
    ASSUME TypeOK,
           \/ \E p \in Proc, l \in Listing : CheckMove(p, l) \/ CheckEdit(p, l) \/ Boost(p, l)
           \/ \E p \in Proc :
                \/ IsProActive(p) \/ BoostFree(p) \/ CreateInvoice(p) \/ InsertPayment(p)
                \/ ConfirmAnswer(p) \/ ReadScore(p) \/ ConfirmPayment(p)
                \/ BoostPaid(p) \/ FailPayment(p) \/ Abort(p)
           \/ \E p \in Proc, i \in Invoice : HandleBoostWebhook(p, i)
           \/ \E i \in Invoice : PayInvoice(i)
           \/ \E l \in Listing : TurnPro(l) \/ BoostEnds(l)
    PROVE  Quiet
<1>1. ASSUME NEW p \in Proc, NEW l \in Listing, CheckMove(p, l) \/ CheckEdit(p, l) \/ Boost(p, l)
      PROVE  Quiet
  <2>1. NoRebuild
    BY <1>1, GotoNoRebuild DEF CheckMove, CheckEdit, Boost
  <2> QED BY <1>1, <2>1 DEF CheckMove, CheckEdit, Boost, Quiet
<1>2. ASSUME NEW p \in Proc, IsProActive(p)
      PROVE  Quiet
  <2>1. [request[p] EXCEPT !.stage = "boost"].stage = "boost"
    BY <1>2, Carried DEF IsProActive, At, TypeOK, Request, Idle
  <2>2. NoRebuild
    BY <1>2, <2>1, GotoNoRebuild DEF IsProActive
  <2> QED BY <1>2, <2>2 DEF IsProActive, Quiet
<1>3. ASSUME NEW p \in Proc, BoostFree(p)
      PROVE  Quiet
  <2>1. request[p].listing \in Listing
    BY <1>3, Carried DEF BoostFree, At, TypeOK
  <2> QED BY <1>3, <2>1, BoostKeepsStatus, DoneNoRebuild DEF BoostFree, Quiet
<1>4. ASSUME NEW p \in Proc, CreateInvoice(p) \/ ReadScore(p)
      PROVE  Quiet
  <2>1. NoRebuild
    BY <1>4, GotoNoRebuild DEF CreateInvoice, ReadScore
  <2> QED BY <1>4, <2>1 DEF CreateInvoice, ReadScore, Quiet
<1>5. ASSUME NEW p \in Proc, InsertPayment(p) \/ FailPayment(p) \/ Abort(p)
      PROVE  Quiet
  BY <1>5, DoneNoRebuild DEF InsertPayment, FailPayment, Abort, Quiet
<1>6. ASSUME NEW p \in Proc, ConfirmAnswer(p)
      PROVE  Quiet
  <2>1. \A s \in {"score", "failed"} : [request[p] EXCEPT !.stage = s].stage = s
    BY <1>6 DEF ConfirmAnswer, At, TypeOK, Request, Idle
  <2>2. NoRebuild
    BY <1>6, <2>1, GotoNoRebuild, DoneNoRebuild DEF ConfirmAnswer
  <2> QED BY <1>6, <2>2 DEF ConfirmAnswer, Quiet
<1>7. ASSUME NEW p \in Proc, NEW part \in {"row", "boost"}, At(p, "settle"), Settled(p, part)
      PROVE  NoRebuild
  <2>1. [request[p] EXCEPT !.left = @ \ {part}].stage = "settle"
    BY <1>7 DEF At, TypeOK, Request, Idle
  <2> QED BY <1>7, <2>1, GotoNoRebuild, DoneNoRebuild DEF Settled
<1>8. ASSUME NEW p \in Proc, ConfirmPayment(p)
      PROVE  Quiet
  BY <1>7, <1>8 DEF ConfirmPayment, Quiet
<1>9. ASSUME NEW p \in Proc, BoostPaid(p)
      PROVE  Quiet
  <2>1. ListingOf[request[p].invoice] \in Listing
    BY <1>9, Carried, CatalogueAssumption DEF BoostPaid, At, TypeOK
  <2> QED BY <1>7, <1>9, <2>1, BoostKeepsStatus DEF BoostPaid, Quiet
<1>10. ASSUME NEW p \in Proc, NEW i \in Invoice, HandleBoostWebhook(p, i)
       PROVE  Quiet
  <2>1. NoRebuild
    BY <1>10, GotoNoRebuild DEF HandleBoostWebhook
  <2> QED BY <1>10, <2>1 DEF HandleBoostWebhook, Quiet
<1>11. ASSUME NEW i \in Invoice, PayInvoice(i)
       PROVE  Quiet
  BY <1>11, IdleNoRebuild DEF PayInvoice, Quiet
<1>12. ASSUME NEW l \in Listing, TurnPro(l)
       PROVE  Quiet
  BY <1>12, IdleNoRebuild DEF TurnPro, Quiet
<1>13. ASSUME NEW l \in Listing, BoostEnds(l)
       PROVE  Quiet
  <2>1. \A row \in Row : [row EXCEPT !.boostUntil = "over"].status = row.status
    BY DEF Row
  <2>2. \A k \in Listing : listing'[k].status = listing[k].status
    BY <1>13, <2>1 DEF BoostEnds, TypeOK
  <2> QED BY <1>13, <2>2, IdleNoRebuild DEF BoostEnds, Quiet
<1> QED BY <1>1, <1>2, <1>3, <1>4, <1>5, <1>6, <1>8, <1>9, <1>10, <1>11, <1>12, <1>13

\* A call that leaves is the last one under way.
LEMMA TellAppends ==
    ASSUME TypeOK, NEW l \in Listing, NEW c \in {"index", "delete"}, Tell(l, c)
    PROVE  /\ \A k \in Listing \ {l} : calls'[k] = calls[k] /\ heard'[k] = heard[k]
           /\ heard'[l] = "soon" /\ index' = index
           /\ calls'[l] # <<>> /\ calls'[l][Len(calls'[l])] = c
           /\ \A n \in DOMAIN calls'[l] : (n \in DOMAIN calls[l] /\ calls'[l][n] = calls[l][n])
                                          \/ calls'[l][n] = c
<1>1. calls[l] \in Seq({"index", "delete"}) /\ calls'[l] = Append(calls[l], c)
  BY DEF Tell, TypeOK
<1>2. \A k \in Listing \ {l} : calls'[k] = calls[k] /\ heard'[k] = heard[k]
  BY DEF Tell, TypeOK
<1>3. heard'[l] = "soon" /\ index' = index
  BY DEF Tell, TypeOK
<1> QED BY <1>1, <1>2, <1>3

\* What RemoveAt leaves was there before, and its last one too unless the last was taken.
LEMMA RemoveAtKeeps ==
    ASSUME NEW S, NEW s \in Seq(S), NEW k \in 1 .. Len(s)
    PROVE  /\ \A n \in DOMAIN RemoveAt(s, k) : \E m \in DOMAIN s : RemoveAt(s, k)[n] = s[m]
           /\ k # Len(s) => /\ RemoveAt(s, k) # <<>>
                            /\ RemoveAt(s, k)[Len(RemoveAt(s, k))] = s[Len(s)]
<1>1. DOMAIN RemoveAt(s, k) = 1 .. Len(s) - 1
  BY RemoveAtType
<1>2. ASSUME NEW n \in 1 .. Len(s) - 1
      PROVE  \E m \in DOMAIN s : RemoveAt(s, k)[n] = s[m]
  <2>1. n \in DOMAIN s /\ n + 1 \in DOMAIN s
    OBVIOUS
  <2>2. RemoveAt(s, k)[n] = s[n] \/ RemoveAt(s, k)[n] = s[n + 1]
    BY RemoveAtType
  <2> QED BY <2>1, <2>2
<1>3. ASSUME k # Len(s)
      PROVE  /\ RemoveAt(s, k) # <<>>
             /\ RemoveAt(s, k)[Len(RemoveAt(s, k))] = s[Len(s)]
  <2>1. Len(s) - 1 \in 1 .. Len(s) - 1 /\ ~(Len(s) - 1 < k)
    BY <1>3
  <2>2. RemoveAt(s, k)[Len(s) - 1] = s[Len(s) - 1 + 1] /\ Len(RemoveAt(s, k)) = Len(s) - 1
    BY <2>1, RemoveAtType
  <2> QED BY <2>1, <2>2
<1> QED BY <1>1, <1>2, <1>3

LEMMA ToldSearch ==
    ASSUME TypeOK, SearchInv, NEW l \in Listing, NEW s \in ListingStatus \cup {"DELETED"},
           NEW c \in {"index", "delete"}, WrittenAndTold(l, s, c)
    PROVE  SearchInv'
<1> USE DEF SearchInv
<1>1. /\ \A k \in Listing : listing'[k].status = IF k = l THEN s ELSE listing[k].status
      /\ moved' = moved \cup {l}
      /\ published' = IF s = "ACTIVE" THEN published \cup {l} ELSE published
  BY DEF WrittenAndTold, WriteStatus, TypeOK, Row
<1>2. /\ \A k \in Listing \ {l} : calls'[k] = calls[k] /\ heard'[k] = heard[k]
      /\ heard'[l] = "soon" /\ index' = index
      /\ calls'[l] # <<>> /\ calls'[l][Len(calls'[l])] = c
      /\ \A n \in DOMAIN calls'[l] : (n \in DOMAIN calls[l] /\ calls'[l][n] = calls[l][n])
                                     \/ calls'[l][n] = c
  BY TellAppends DEF WrittenAndTold
<1>3. OnlyPublishedIsSent'
  BY <1>1, <1>2
  DEF WrittenAndTold, NoRebuild, OnlyPublishedIsSent, OnlyPublishedIsSearchable, Active, Says
<1>4. IndexFollowsStatus'
  BY <1>1, <1>2 DEF IndexFollowsStatus
<1>5. LastCallFollows'
  BY <1>1, <1>2 DEF WrittenAndTold, LastCallFollows, Active
<1>6. RebuildFollows'
  BY <1>1 DEF WrittenAndTold, NoRebuild, RebuildFollows, Active
<1> QED BY <1>3, <1>4, <1>5, <1>6

LEMMA UpdateSearch ==
    ASSUME TypeOK, SearchInv, NEW p \in Proc, Update(p)
    PROVE  SearchInv'
<1> USE DEF SearchInv
<1> DEFINE l == request[p].listing
           c == IF Active(l) THEN "index" ELSE "delete"
<1>1. l \in Listing /\ Tell(l, c) /\ UNCHANGED <<listing, moved, published>> /\ NoRebuild
  BY Carried, DoneNoRebuild DEF Update, At, TypeOK, SyncSearchIndex, Active
<1> HIDE DEF l
<1>2. /\ \A k \in Listing \ {l} : calls'[k] = calls[k] /\ heard'[k] = heard[k]
      /\ heard'[l] = "soon" /\ index' = index
      /\ calls'[l] # <<>> /\ calls'[l][Len(calls'[l])] = c
      /\ \A n \in DOMAIN calls'[l] : (n \in DOMAIN calls[l] /\ calls'[l][n] = calls[l][n])
                                     \/ calls'[l][n] = c
  BY <1>1, TellAppends
<1>3. OnlyPublishedIsSent'
  BY <1>1, <1>2 DEF NoRebuild, OnlyPublishedIsSent, OnlyPublishedIsSearchable, Active, Says
<1>4. IndexFollowsStatus'
  BY <1>1, <1>2 DEF IndexFollowsStatus
<1>5. LastCallFollows'
  BY <1>1, <1>2 DEF LastCallFollows, Active, Says
<1>6. RebuildFollows'
  BY <1>1 DEF NoRebuild, RebuildFollows, Active
<1> QED BY <1>3, <1>4, <1>5, <1>6

LEMMA UntoldSearch ==
    ASSUME TypeOK, SearchInv, NEW p \in Proc, NEW l \in Listing, WriteUntold(p, l)
    PROVE  SearchInv'
<1> USE DEF SearchInv
<1>1. PICK s \in {"RENTED", "ACTIVE", "SUSPENDED"} : WriteStatus(l, s)
  BY DEF WriteUntold
<1>2. /\ \A k \in Listing : listing'[k].status = IF k = l THEN s ELSE listing[k].status
      /\ moved' = moved \cup {l}
      /\ published' = IF s = "ACTIVE" THEN published \cup {l} ELSE published
  BY <1>1 DEF WriteStatus, TypeOK, Row
<1>3. /\ heard' = [heard EXCEPT ![l] = "no"]
      /\ UNCHANGED <<index, calls, request>>
  BY DEF WriteUntold
<1>4. OnlyPublishedIsSent'
  BY <1>2, <1>3 DEF OnlyPublishedIsSent, OnlyPublishedIsSearchable, Active
<1>5. IndexFollowsStatus' /\ LastCallFollows'
  BY <1>2, <1>3 DEF IndexFollowsStatus, LastCallFollows, Active, TypeOK
<1>6. RebuildFollows'
  BY <1>2, <1>3 DEF RebuildFollows, Active
<1> QED BY <1>4, <1>5, <1>6

LEMMA QuietSearch ==
    ASSUME TypeOK, SearchInv, Quiet
    PROVE  SearchInv'
BY DEF SearchInv, Quiet, NoRebuild, search, OnlyPublishedIsSent, OnlyPublishedIsSearchable,
       IndexFollowsStatus, LastCallFollows, RebuildFollows, Active

\* A rebuild reads the rows, empties the index and fills it with what it has read.
LEMMA RebuildSearch ==
    ASSUME TypeOK, SearchInv, NEW p \in Proc, ReindexRead(p) \/ ReindexClear(p) \/ ReindexFill(p)
    PROVE  SearchInv'
<1> USE DEF SearchInv
<1>1. CASE ReindexRead(p)
  <2> DEFINE found == {l \in Listing : listing[l].status = "ACTIVE"}
  <2>1. /\ request' = [request EXCEPT ![p] = [stage |-> "clear", rows |-> found]]
        /\ moved' = {}
        /\ UNCHANGED <<listing, index, calls, heard, published>>
        /\ \A q \in Proc : request[q].stage \notin {"clear", "fill"}
    BY <1>1 DEF ReindexRead, Goto, At
  <2>2. OnlyPublishedIsSent'
    BY <2>1 DEF TypeOK, OnlyPublishedIsSent, OnlyPublishedIsSearchable, Active
  <2>3. RebuildFollows'
    BY <2>1 DEF TypeOK, RebuildFollows, Active
  <2>4. IndexFollowsStatus' /\ LastCallFollows'
    BY <2>1 DEF IndexFollowsStatus, LastCallFollows, Active
  <2> QED BY <2>2, <2>3, <2>4
<1>2. CASE ReindexClear(p)
  <2> DEFINE found == request[p].rows
  <2>1. /\ request[p].stage = "clear"
        /\ request' = [request EXCEPT ![p] = [stage |-> "fill", rows |-> found]]
        /\ index' = {}
        /\ heard' = [l \in Listing |->
             IF heard[l] = "soon" THEN "soon" ELSE IF l \in found \cup moved THEN "no" ELSE "yes"]
        /\ UNCHANGED <<listing, calls, moved, published>>
    BY <1>2 DEF ReindexClear, Goto, At
  <2>2. OnlyPublishedIsSent'
    BY <2>1 DEF TypeOK, OnlyPublishedIsSent, OnlyPublishedIsSearchable, Active
  <2>3. RebuildFollows'
    BY <2>1 DEF TypeOK, RebuildFollows, Active
  <2>4. \A l \in Listing \ (found \cup moved) : ~Active(l)
    BY <2>1 DEF RebuildFollows
  <2>5. IndexFollowsStatus'
    BY <2>1, <2>4 DEF IndexFollowsStatus, Active
  <2>6. LastCallFollows'
    BY <2>1 DEF LastCallFollows, Active
  <2> QED BY <2>2, <2>3, <2>5, <2>6
<1>3. CASE ReindexFill(p)
  <2> DEFINE found == request[p].rows
  <2>1. /\ request[p].stage = "fill"
        /\ NoRebuild
        /\ index' = index \cup found
        /\ heard' = [l \in Listing |->
             IF l \notin found \/ heard[l] = "soon" THEN heard[l]
             ELSE IF l \in moved THEN "no" ELSE "yes"]
        /\ UNCHANGED <<listing, calls, moved, published>>
    BY <1>3, DoneNoRebuild DEF ReindexFill, At
  <2>2. OnlyPublishedIsSent'
    BY <2>1 DEF OnlyPublishedIsSent, OnlyPublishedIsSearchable, Active, NoRebuild
  <2>3. RebuildFollows'
    BY <2>1 DEF RebuildFollows, Active, NoRebuild
  <2>4. \A l \in Listing \ moved : l \in found => Active(l)
    BY <2>1 DEF RebuildFollows
  <2>5. IndexFollowsStatus'
    BY <2>1, <2>4 DEF IndexFollowsStatus, Active
  <2>6. LastCallFollows'
    BY <2>1 DEF LastCallFollows, Active
  <2> QED BY <2>2, <2>3, <2>5, <2>6
<1> QED BY <1>1, <1>2, <1>3

\* A call arrives or is lost: only the last one tells what the row says.
LEMMA CallSearch ==
    ASSUME TypeOK, SearchInv, NEW l \in Listing, Arrive(l) \/ Lose(l)
    PROVE  SearchInv'
<1> USE DEF SearchInv
<1>1. PICK k \in 1 .. Len(calls[l]) :
         /\ calls' = [calls EXCEPT ![l] = RemoveAt(@, k)]
         /\ UNCHANGED <<listing, request, moved, published>>
         /\ \/ /\ index' = IF calls[l][k] = "index" THEN index \cup {l} ELSE index \ {l}
               /\ heard' = [heard EXCEPT ![l] =
                    CASE @ = "soon" /\ k = Len(calls[l]) -> "yes"
                      [] @ = "yes" -> "no"
                      [] OTHER -> @]
            \/ /\ index' = index
               /\ heard' = [heard EXCEPT ![l] =
                    IF @ = "soon" /\ k = Len(calls[l]) THEN "no" ELSE @]
  BY DEF Arrive, Lose
<1>2. /\ \A n \in DOMAIN calls'[l] : \E m \in DOMAIN calls[l] : calls'[l][n] = calls[l][m]
      /\ k # Len(calls[l]) => /\ calls'[l] # <<>>
                              /\ calls'[l][Len(calls'[l])] = calls[l][Len(calls[l])]
      /\ \A j \in Listing \ {l} : calls'[j] = calls[j] /\ heard'[j] = heard[j]
  BY <1>1, RemoveAtKeeps DEF TypeOK
<1>3. Says(calls[l][k]) => l \in published
  BY <1>1 DEF OnlyPublishedIsSent, TypeOK
<1>4. OnlyPublishedIsSent'
  BY <1>1, <1>2, <1>3 DEF OnlyPublishedIsSent, OnlyPublishedIsSearchable, Active, Says
<1>5. heard[l] = "soon" /\ k = Len(calls[l]) => (Says(calls[l][k]) <=> Active(l))
  BY DEF LastCallFollows
<1>6. IndexFollowsStatus'
  <2> SUFFICES ASSUME NEW j \in Listing, heard'[j] = "yes"
               PROVE  j \in index' <=> listing[j].status = "ACTIVE"
    BY <1>1 DEF IndexFollowsStatus
  <2>1. CASE j # l
    BY <2>1, <1>1, <1>2 DEF IndexFollowsStatus
  <2>2. CASE j = l
    BY <2>2, <1>1, <1>5 DEF IndexFollowsStatus, TypeOK, Says, Active
  <2> QED BY <2>1, <2>2
<1>7. LastCallFollows'
  <2> SUFFICES ASSUME NEW j \in Listing, heard'[j] = "soon"
               PROVE  calls'[j] # <<>> /\ (Says(calls'[j][Len(calls'[j])]) <=> Active(j)')
    BY DEF LastCallFollows
  <2>1. CASE j # l
    BY <2>1, <1>1, <1>2 DEF LastCallFollows, Active
  <2>2. CASE j = l
    <3>1. heard[l] = "soon" /\ k # Len(calls[l])
      BY <2>2, <1>1 DEF TypeOK
    <3> QED BY <2>2, <3>1, <1>1, <1>2 DEF LastCallFollows, Active
  <2> QED BY <2>1, <2>2
<1>8. RebuildFollows'
  BY <1>1 DEF RebuildFollows, Active
<1> QED BY <1>4, <1>6, <1>7, <1>8

LEMMA SearchStep == TypeOK /\ SearchInv /\ [Next]_vars => SearchInv'
<1> SUFFICES ASSUME TypeOK, SearchInv, [Next]_vars
             PROVE  SearchInv'
  OBVIOUS
<1>1. CASE Next
  BY <1>1, HandlersTell, OthersAreQuiet, ToldSearch, UpdateSearch, UntoldSearch, QuietSearch,
     RebuildSearch, CallSearch
  DEF Next
<1>2. CASE UNCHANGED vars
  <2>1. Quiet
    BY <1>2 DEF vars, Quiet, search, NoRebuild
  <2> QED BY <2>1, QuietSearch
<1> QED BY <1>1, <1>2

LEMMA SearchInit == Init => SearchInv
BY DEF Init, Idle, SearchInv, OnlyPublishedIsSent, OnlyPublishedIsSearchable, IndexFollowsStatus,
       LastCallFollows, RebuildFollows, Active

LEMMA SearchAlways == Spec => [](TypeOK /\ SearchInv)
<1>1. TypeOK /\ SearchInv /\ [Next]_vars => (TypeOK /\ SearchInv)'
  BY TypeStep, SearchStep
<1> QED BY TypeInit, SearchInit, <1>1, PTL DEF Spec

\* A document exists only for a listing that has been ACTIVE, whatever calls are reordered,
\* lost or overtaken by a rebuild (syncSearchIndex, reindexAll).
THEOREM OnlyPublished == Spec => []OnlyPublishedIsSearchable
<1>1. SearchInv => OnlyPublishedIsSearchable
  BY DEF SearchInv, OnlyPublishedIsSent
<1> QED BY <1>1, SearchAlways, PTL

\* When the call of the last write arrived last, and no rebuild worked from older rows, the
\* index has exactly the listings that are ACTIVE.
THEOREM IndexFollows == Spec => []IndexFollowsStatus
<1>1. SearchInv => IndexFollowsStatus
  BY DEF SearchInv
<1> QED BY <1>1, SearchAlways, PTL

-----------------------------------------------------------------------------
(***************************************************************************)
(* Boosts.  Most steps neither boost, nor confirm, nor start to: they end  *)
(* a request or let it go on elsewhere.                                    *)
(***************************************************************************)
Founded == {"insert", "boost", "confirm", "score", "settle"}

NothingFounded == \A p \in Proc : request'[p].stage \in Founded => request'[p] = request[p]

NothingConfirmed ==
    \A i \in Invoice : payment'[i].status = "CONFIRMED" => payment'[i] = payment[i]

NothingBoosted ==
    \A l \in Listing : listing'[l].boostUntil # "never" => listing[l].boostUntil # "never"

Indifferent ==
    /\ NothingFounded /\ NothingConfirmed /\ NothingBoosted
    /\ UNCHANGED <<invoice, earned>>

LEMMA IndifferentBoost ==
    ASSUME TypeOK, BoostInv, Indifferent
    PROVE  BoostInv'
<1> USE DEF Indifferent, BoostInv
<1>1. UnbilledIsUnpaid'
  BY DEF NothingFounded, Founded, UnbilledIsUnpaid, At
<1>2. BoostIsFounded'
  BY DEF NothingFounded, Founded, BoostIsFounded
<1>3. BoostIsEarned'
  BY DEF NothingBoosted, BoostIsEarned, BoostsAreEarned
<1>4. ConfirmedRowsArePaid'
  BY DEF NothingConfirmed, ConfirmedRowsArePaid, BoostsAreEarned
<1> QED BY <1>1, <1>2, <1>3, <1>4 DEF BoostsAreEarned

LEMMA GotoNothingFounded ==
    ASSUME TypeOK, NEW p \in Proc, NEW r, Goto(p, r), r.stage \notin Founded
    PROVE  NothingFounded
BY DEF TypeOK, Goto, NothingFounded

LEMMA DoneNothingFounded ==
    ASSUME TypeOK, NEW p \in Proc, Done(p)
    PROVE  NothingFounded
BY DEF TypeOK, Done, Goto, NothingFounded, Idle, Founded

LEMMA SameNothing ==
    /\ UNCHANGED request => NothingFounded
    /\ UNCHANGED payment => NothingConfirmed
    /\ UNCHANGED listing => NothingBoosted
BY DEF NothingFounded, NothingConfirmed, NothingBoosted

LEMMA StatusBoostsNothing ==
    ASSUME TypeOK, NEW l \in Listing, NEW s \in ListingStatus \cup {"DELETED"}, WriteStatus(l, s)
    PROVE  NothingBoosted
<1>1. \A row \in Row : [row EXCEPT !.status = s].boostUntil = row.boostUntil
  BY DEF Row
<1>2. listing' = [listing EXCEPT ![l] = [listing[l] EXCEPT !.status = s]]
  BY DEF WriteStatus, TypeOK
<1> QED BY <1>1, <1>2 DEF TypeOK, NothingBoosted

\* The handlers of a status, of the index and the rest of the world are such steps.
LEMMA OthersAreIndifferent ==
    ASSUME TypeOK,
           \/ \E p \in Proc, l \in Listing :
                \/ Create(p, l) \/ CheckMove(p, l) \/ CheckEdit(p, l)
                \/ ActivateListing(p, l) \/ SuspendListing(p, l) \/ RemoveListing(p, l)
                \/ WriteUntold(p, l) \/ Boost(p, l)
           \/ \E p \in Proc :
                \/ MoveListing(p) \/ Update(p)
                \/ ReindexRead(p) \/ ReindexClear(p) \/ ReindexFill(p)
                \/ FailPayment(p) \/ Abort(p)
           \/ \E l \in Listing : Arrive(l) \/ Lose(l) \/ TurnPro(l) \/ BoostEnds(l)
    PROVE  Indifferent
<1> USE SameNothing DEF Indifferent
<1>1. ASSUME NEW p \in Proc, NEW l \in Listing, Create(p, l) \/ WriteUntold(p, l)
      PROVE  Indifferent
  <2>1. PICK s \in ListingStatus : WriteStatus(l, s) /\ UNCHANGED <<money, request, earned>>
    BY <1>1 DEF Create, WriteUntold, ListingStatus
  <2> QED BY <2>1, StatusBoostsNothing DEF money
<1>2. ASSUME NEW p \in Proc, NEW l \in Listing, CheckMove(p, l) \/ CheckEdit(p, l) \/ Boost(p, l)
      PROVE  Indifferent
  <2>1. NothingFounded
    BY <1>2, GotoNothingFounded DEF CheckMove, CheckEdit, Boost, Founded
  <2> QED BY <1>2, <2>1 DEF CheckMove, CheckEdit, Boost, money
<1>3. ASSUME NEW p \in Proc, NEW l \in Listing, ActivateListing(p, l) \/ SuspendListing(p, l)
      PROVE  Indifferent
  BY <1>3, StatusBoostsNothing DEF ActivateListing, SuspendListing, ListingStatus, money
<1>4. ASSUME NEW p \in Proc, NEW l \in Listing, RemoveListing(p, l)
      PROVE  Indifferent
  <2>1. NothingConfirmed
    BY <1>4 DEF RemoveListing, NothingConfirmed, TypeOK, PaymentRow
  <2>2. NothingBoosted
    BY <1>4, StatusBoostsNothing DEF RemoveListing
  <2> QED BY <1>4, <2>1, <2>2 DEF RemoveListing
<1>5. ASSUME NEW p \in Proc, MoveListing(p)
      PROVE  Indifferent
  <2>1. request[p].listing \in Listing /\ request[p].status \in ListingStatus
    BY <1>5, Carried DEF MoveListing, At, TypeOK
  <2> QED BY <1>5, <2>1, StatusBoostsNothing, DoneNothingFounded DEF MoveListing, money
<1>6. ASSUME NEW p \in Proc, Update(p) \/ ReindexFill(p) \/ Abort(p)
      PROVE  Indifferent
  BY <1>6, DoneNothingFounded DEF Update, ReindexFill, Abort, money
<1>7. ASSUME NEW p \in Proc, ReindexRead(p) \/ ReindexClear(p)
      PROVE  Indifferent
  <2>1. NothingFounded
    BY <1>7, GotoNothingFounded DEF ReindexRead, ReindexClear, Founded
  <2> QED BY <1>7, <2>1 DEF ReindexRead, ReindexClear, money
<1>8. ASSUME NEW p \in Proc, FailPayment(p)
      PROVE  Indifferent
  <2>1. request[p].row \in Invoice
    BY <1>8, Carried DEF FailPayment, At, TypeOK
  <2>2. NothingConfirmed
    BY <1>8, <2>1 DEF FailPayment, NothingConfirmed, TypeOK, PaymentRow
  <2> QED BY <1>8, <2>2, DoneNothingFounded DEF FailPayment
<1>9. ASSUME NEW l \in Listing, Arrive(l) \/ Lose(l) \/ TurnPro(l)
      PROVE  Indifferent
  BY <1>9 DEF Arrive, Lose, TurnPro, money
<1>10. ASSUME NEW l \in Listing, BoostEnds(l)
       PROVE  Indifferent
  <2>1. NothingBoosted
    BY <1>10 DEF BoostEnds, NothingBoosted, TypeOK
  <2> QED BY <1>10, <2>1 DEF BoostEnds, money
<1> QED BY <1>1, <1>2, <1>3, <1>4, <1>5, <1>6, <1>7, <1>8, <1>9, <1>10

\* What a request must have seen before it goes on as r.
Founds(r) ==
    /\ r.stage = "boost" => r.listing \in earned'
    /\ r.stage \in {"confirm", "score", "settle"} => ListingOf[r.row] = ListingOf[r.invoice]
    /\ r.stage \in {"score", "settle"} => invoice'[r.invoice] = "completed"

LEMMA GotoFounds ==
    ASSUME TypeOK, BoostInv, NEW p \in Proc, NEW r, Goto(p, r), r.stage # "insert", Founds(r),
           earned \subseteq earned', UNCHANGED invoice
    PROVE  UnbilledIsUnpaid' /\ BoostIsFounded'
<1>1. \A q \in Proc : request'[q] = IF q = p THEN r ELSE request[q]
  BY DEF Goto, TypeOK
<1>2. UnbilledIsUnpaid'
  BY <1>1 DEF BoostInv, UnbilledIsUnpaid, At
<1>3. BoostIsFounded'
  BY <1>1 DEF BoostInv, BoostIsFounded, Founds
<1> QED BY <1>2, <1>3

\* A request that goes on carries what it carried.
LEMMA RestagedKeeps ==
    ASSUME NEW r \in Request
    PROVE  /\ r.stage = "plan" =>
                LET b == [r EXCEPT !.stage = "boost"] IN b.stage = "boost" /\ b.listing = r.listing
           /\ r.stage = "confirm" =>
                \A s \in {"score", "failed"} :
                    LET c == [r EXCEPT !.stage = s]
                    IN  c.stage = s /\ c.row = r.row /\ c.invoice = r.invoice
           /\ r.stage = "settle" =>
                \A part \in {"row", "boost"} :
                    LET c == [r EXCEPT !.left = @ \ {part}]
                    IN  c.stage = "settle" /\ c.row = r.row /\ c.invoice = r.invoice
BY DEF Request, Idle

\* A request that ends, or that settles one of its two updates, is founded on what it was.
LEMMA DoneFounds ==
    ASSUME TypeOK, BoostInv, NEW p \in Proc, Done(p), earned \subseteq earned', UNCHANGED invoice
    PROVE  UnbilledIsUnpaid' /\ BoostIsFounded'
BY GotoFounds DEF Done, Founds, Idle

LEMMA SettledFounds ==
    ASSUME TypeOK, BoostInv, NEW p \in Proc, NEW part \in {"row", "boost"}, At(p, "settle"),
           Settled(p, part), UNCHANGED <<invoice, earned>>
    PROVE  UnbilledIsUnpaid' /\ BoostIsFounded'
<1> DEFINE r == request[p]
           c == [r EXCEPT !.left = @ \ {part}]
<1>1. c.stage = "settle" /\ c.row = r.row /\ c.invoice = r.invoice
  BY RestagedKeeps DEF At, TypeOK
<1>2. ListingOf[r.row] = ListingOf[r.invoice] /\ invoice[r.invoice] = "completed"
  BY DEF BoostInv, BoostIsFounded, At
<1>3. Founds(c) /\ c.stage # "insert"
  BY <1>1, <1>2 DEF Founds
<1>4. Done(p) \/ Goto(p, c)
  BY DEF Settled
<1> HIDE DEF c
<1> QED BY <1>3, <1>4, GotoFounds, DoneFounds

\* A listing is boosted for a plan that was seen or an invoice that was paid.
LEMMA BoostedIsEarned ==
    ASSUME TypeOK, BoostIsEarned, NEW l \in Listing, NEW score, ApplyBoost(l, score),
           l \in earned \/ \E i \in Invoice : ListingOf[i] = l /\ invoice[i] = "completed",
           UNCHANGED <<invoice, earned>>
    PROVE  BoostIsEarned'
<1>1. \A k \in Listing \ {l} : listing'[k] = listing[k]
  BY DEF ApplyBoost, TypeOK
<1> QED BY <1>1 DEF BoostIsEarned

\* An invoice that moves was not paid before.
LEMMA InvoiceMoves ==
    ASSUME TypeOK, BoostInv, NEW i \in Invoice, NEW s, invoice' = [invoice EXCEPT ![i] = s],
           invoice[i] # "completed",
           NothingConfirmed, UNCHANGED <<listing, earned>>
    PROVE  /\ BoostsAreEarned'
           /\ NothingFounded => BoostIsFounded'
           /\ NothingFounded /\ (\A q \in Proc : At(q, "insert")' => request[q].invoice # i) =>
                UnbilledIsUnpaid'
<1>1. \A j \in Invoice : invoice[j] = "completed" => invoice'[j] = "completed"
  BY DEF TypeOK
<1>2. \A j \in Invoice \ {i} : invoice'[j] = invoice[j]
  BY DEF TypeOK
<1>3. \A q \in Proc : At(q, "score") \/ At(q, "settle") => request[q].invoice \in Invoice
  BY Carried DEF TypeOK, At
<1>4. \A q \in Proc : At(q, "insert") => request[q].invoice \in Invoice
  BY Carried DEF TypeOK, At
<1>5. \A j \in Invoice : payment[j].paymentRef \in Invoice
  BY DEF TypeOK, PaymentRow
<1>6. BoostIsEarned'
  BY <1>1 DEF BoostInv, BoostsAreEarned, BoostIsEarned
<1>7. ConfirmedRowsArePaid'
  BY <1>1, <1>5 DEF BoostInv, BoostsAreEarned, ConfirmedRowsArePaid, NothingConfirmed
<1>8. NothingFounded => BoostIsFounded'
  BY <1>1, <1>3 DEF BoostInv, BoostIsFounded, NothingFounded, Founded, At
<1>9. ASSUME NothingFounded, \A q \in Proc : At(q, "insert")' => request[q].invoice # i
      PROVE  UnbilledIsUnpaid'
  BY <1>2, <1>4, <1>9 DEF BoostInv, UnbilledIsUnpaid, NothingFounded, Founded, At
<1> QED BY <1>6, <1>7, <1>8, <1>9 DEF BoostsAreEarned

LEMMA InvoiceSteps ==
    ASSUME TypeOK, BoostInv,
           \/ \E p \in Proc : CreateInvoice(p) \/ InsertPayment(p)
           \/ \E i \in Invoice : PayInvoice(i)
    PROVE  BoostInv'
<1> USE DEF BoostInv
<1>1. ASSUME NEW p \in Proc, CreateInvoice(p)
      PROVE  BoostInv'
  <2>1. PICK i \in Invoice :
          /\ invoice[i] = "none"
          /\ invoice' = [invoice EXCEPT ![i] = "created"]
          /\ request' = [request EXCEPT ![p] = [stage |-> "insert", invoice |-> i]]
          /\ UNCHANGED <<listing, payment, earned>>
    BY <1>1 DEF CreateInvoice, Goto
  <2>2. /\ \A q \in Proc \ {p} : request'[q] = request[q]
        /\ request'[p].stage = "insert" /\ request'[p].invoice = i
        /\ invoice'[i] = "created" /\ \A j \in Invoice \ {i} : invoice'[j] = invoice[j]
    BY <2>1 DEF TypeOK
  <2>3. BoostsAreEarned'
    BY <2>1, InvoiceMoves DEF NothingConfirmed
  <2>4. \A q \in Proc : At(q, "insert") =>
          /\ request[q].invoice \in Invoice \ {i}
          /\ invoice[request[q].invoice] = "created"
    BY <2>1, Carried DEF TypeOK, UnbilledIsUnpaid, At
  <2>5. UnbilledIsUnpaid'
    <3> SUFFICES ASSUME NEW a \in Proc, At(a, "insert")'
                 PROVE  /\ invoice'[request'[a].invoice] = "created"
                        /\ \A q \in Proc \ {a} :
                             At(q, "insert")' => request'[q].invoice # request'[a].invoice
      BY DEF UnbilledIsUnpaid
    <3>1. CASE a = p
      BY <2>2, <2>4, <3>1 DEF At
    <3>2. CASE a # p
      BY <2>2, <2>4, <3>2 DEF At, UnbilledIsUnpaid
    <3> QED BY <3>1, <3>2
  <2>6. \A q \in Proc : At(q, "score") \/ At(q, "settle") =>
          request[q].invoice \in Invoice \ {i}
    BY <2>1, Carried DEF TypeOK, BoostIsFounded, At
  <2>7. BoostIsFounded'
    BY <2>1, <2>2, <2>6 DEF BoostIsFounded, At
  <2> QED BY <2>3, <2>5, <2>7
<1>2. ASSUME NEW p \in Proc, InsertPayment(p)
      PROVE  BoostInv'
  <2> DEFINE i == request[p].invoice
  <2>1. /\ i \in Invoice /\ At(p, "insert") /\ invoice[i] = "created"
        /\ invoice' = [invoice EXCEPT ![i] = "open"]
        /\ payment' = [payment EXCEPT ![i] = [status |-> "PENDING", paymentRef |-> i]]
        /\ Done(p) /\ UNCHANGED <<listing, earned>>
    BY <1>2, Carried DEF InsertPayment, At, TypeOK, UnbilledIsUnpaid
  <2>2. NothingFounded /\ NothingConfirmed
    BY <2>1, DoneNothingFounded DEF NothingConfirmed, TypeOK
  <2>3. \A q \in Proc : At(q, "insert")' => request[q].invoice # i
    BY <2>1 DEF Done, Goto, Idle, At, TypeOK, UnbilledIsUnpaid
  <2> QED BY <2>1, <2>2, <2>3, InvoiceMoves
<1>3. CASE \E i \in Invoice : PayInvoice(i)
  <2>1. PICK i \in Invoice, s \in {"completed", "failed"} :
          /\ invoice[i] = "open" /\ invoice' = [invoice EXCEPT ![i] = s]
          /\ UNCHANGED <<listing, payment, request, earned>>
    BY <1>3 DEF PayInvoice
  <2>2. NothingFounded /\ NothingConfirmed
    BY <2>1, SameNothing
  <2>3. \A q \in Proc : At(q, "insert")' => request[q].invoice # i
    BY <2>1 DEF At, UnbilledIsUnpaid
  <2> QED BY <2>1, <2>2, <2>3, InvoiceMoves
<1> QED BY <1>1, <1>2, <1>3

\* The requests of a boost: from the plan to the row, from the notification to the two updates.
LEMMA FreeBoostSteps ==
    ASSUME TypeOK, BoostInv, NEW p \in Proc, IsProActive(p) \/ BoostFree(p)
    PROVE  BoostInv'
<1> USE DEF BoostInv
<1>1. CASE IsProActive(p)
  <2> DEFINE r == request[p]
             b == [r EXCEPT !.stage = "boost"]
             v == [stage |-> "invoice", listing |-> r.listing]
  <2>1. BoostsAreEarned'
    BY <1>1 DEF IsProActive, BoostsAreEarned, BoostIsEarned, ConfirmedRowsArePaid, money
  <2>2. CASE r.listing \in pro
    <3>1. b.stage = "boost" /\ b.listing = r.listing
      BY <1>1, RestagedKeeps DEF IsProActive, At, TypeOK
    <3>2. Goto(p, b) /\ earned' = earned \cup {r.listing} /\ UNCHANGED invoice
      BY <1>1, <2>2 DEF IsProActive, money
    <3>3. Founds(b) /\ b.stage # "insert" /\ earned \subseteq earned'
      BY <3>1, <3>2 DEF Founds
    <3> HIDE DEF b
    <3> QED BY <2>1, <3>2, <3>3, GotoFounds
  <2>3. CASE r.listing \notin pro
    <3>1. Goto(p, v) /\ UNCHANGED <<earned, invoice>>
      BY <1>1, <2>3 DEF IsProActive, money
    <3>2. Founds(v) /\ v.stage # "insert"
      BY DEF Founds
    <3> HIDE DEF v
    <3> QED BY <2>1, <3>1, <3>2, GotoFounds
  <2> QED BY <2>2, <2>3
<1>2. CASE BoostFree(p)
  <2>1. request[p].listing \in Listing /\ request[p].listing \in earned
    BY <1>2, Carried DEF BoostFree, At, TypeOK, BoostIsFounded
  <2>2. BoostIsEarned'
    BY <1>2, <2>1, BoostedIsEarned DEF BoostFree, money, BoostsAreEarned
  <2>3. ConfirmedRowsArePaid'
    BY <1>2 DEF BoostFree, money, BoostsAreEarned, ConfirmedRowsArePaid
  <2> QED BY <1>2, <2>2, <2>3, DoneFounds DEF BoostFree, money, BoostsAreEarned
<1> QED BY <1>1, <1>2

LEMMA NotificationSteps ==
    ASSUME TypeOK, BoostInv, NEW p \in Proc,
           \/ \E i \in Invoice : HandleBoostWebhook(p, i)
           \/ ConfirmAnswer(p) \/ ReadScore(p)
    PROVE  BoostInv'
<1> USE DEF BoostInv
<1> DEFINE r == request[p]
<1>1. BoostsAreEarned' /\ UNCHANGED <<invoice, earned>>
  BY DEF HandleBoostWebhook, ConfirmAnswer, ReadScore, money, BoostsAreEarned, BoostIsEarned,
         ConfirmedRowsArePaid
<1>2. ASSUME NEW i \in Invoice, HandleBoostWebhook(p, i)
      PROVE  UnbilledIsUnpaid' /\ BoostIsFounded'
  <2>1. PICK row \in Invoice :
          /\ LatestPending(ListingOf[i], row)
          /\ Goto(p, [stage |-> "confirm", row |-> row, invoice |-> i])
    BY <1>2 DEF HandleBoostWebhook
  <2> DEFINE c == [stage |-> "confirm", row |-> row, invoice |-> i]
  <2>2. Founds(c) /\ c.stage # "insert"
    BY <2>1 DEF LatestPending, Founds
  <2>3. Goto(p, c)
    BY <2>1
  <2> HIDE DEF c
  <2> QED BY <1>1, <2>2, <2>3, GotoFounds
<1>3. CASE ConfirmAnswer(p)
  <2>1. /\ r \in Request /\ r.stage = "confirm" /\ ListingOf[r.row] = ListingOf[r.invoice]
    BY <1>3 DEF ConfirmAnswer, At, TypeOK, BoostIsFounded
  <2> DEFINE c(s) == [r EXCEPT !.stage = s]
  <2>2. \A s \in {"score", "failed"} :
          c(s).stage = s /\ c(s).row = r.row /\ c(s).invoice = r.invoice
    BY <2>1, RestagedKeeps
  <2>3. \/ invoice[r.invoice] = "completed" /\ Goto(p, c("score"))
        \/ Goto(p, c("failed"))
        \/ Done(p)
    BY <1>3 DEF ConfirmAnswer
  <2> HIDE DEF c
  <2>4. /\ invoice[r.invoice] = "completed" => Founds(c("score"))
        /\ Founds(c("failed"))
        /\ c("score").stage # "insert" /\ c("failed").stage # "insert"
    BY <1>1, <2>1, <2>2 DEF Founds
  <2> QED BY <1>1, <2>3, <2>4, GotoFounds, DoneFounds
<1>4. CASE ReadScore(p)
  <2> DEFINE l == ListingOf[r.invoice]
             c == [stage |-> "settle", row |-> r.row, invoice |-> r.invoice,
                   score |-> listing[l].boostScore, left |-> {"row", "boost"}]
  <2>1. /\ ListingOf[r.row] = ListingOf[r.invoice] /\ invoice[r.invoice] = "completed"
        /\ Goto(p, c)
    BY <1>4 DEF ReadScore, At, BoostIsFounded
  <2>2. Founds(c) /\ c.stage # "insert"
    BY <1>1, <2>1 DEF Founds
  <2> HIDE DEF c
  <2> QED BY <1>1, <2>1, <2>2, GotoFounds
<1> QED BY <1>1, <1>2, <1>3, <1>4

LEMMA SettleSteps ==
    ASSUME TypeOK, BoostInv, NEW p \in Proc, ConfirmPayment(p) \/ BoostPaid(p)
    PROVE  BoostInv'
<1> USE DEF BoostInv
<1> DEFINE r == request[p]
<1>1. /\ r.row \in Invoice /\ r.invoice \in Invoice
      /\ ListingOf[r.row] = ListingOf[r.invoice] /\ invoice[r.invoice] = "completed"
  BY Carried DEF ConfirmPayment, BoostPaid, At, TypeOK, BoostIsFounded
<1>2. UnbilledIsUnpaid' /\ BoostIsFounded'
  BY SettledFounds DEF ConfirmPayment, BoostPaid, money
<1>3. CASE ConfirmPayment(p)
  <2>1. BoostIsEarned'
    BY <1>3 DEF ConfirmPayment, BoostsAreEarned, BoostIsEarned
  <2>2. UNCHANGED invoice
    BY <1>3 DEF ConfirmPayment
  <2>3. CASE UNCHANGED payment
    BY <1>2, <2>1, <2>2, <2>3 DEF BoostsAreEarned, ConfirmedRowsArePaid
  <2>4. CASE ~UNCHANGED payment
    <3>1. /\ payment' = [payment EXCEPT ![r.row] = [status |-> "CONFIRMED",
                                                    paymentRef |-> r.invoice]]
          /\ \A j \in Invoice \ {r.row} :
               payment[j].status # "none" => payment[j].paymentRef # r.invoice
      BY <1>3, <2>4 DEF ConfirmPayment
    <3>2. /\ payment'[r.row].status = "CONFIRMED" /\ payment'[r.row].paymentRef = r.invoice
          /\ \A j \in Invoice \ {r.row} : payment'[j] = payment[j]
          /\ \A j \in Invoice \ {r.row} :
               payment[j].status = "CONFIRMED" => payment[j].paymentRef # r.invoice
      BY <1>1, <3>1 DEF TypeOK
    <3> HIDE DEF r
    <3>3. ASSUME NEW i \in Invoice, payment'[i].status = "CONFIRMED"
          PROVE  /\ invoice[payment'[i].paymentRef] = "completed"
                 /\ ListingOf[payment'[i].paymentRef] = ListingOf[i]
                 /\ \A j \in Invoice \ {i} :
                      payment'[j].status = "CONFIRMED" =>
                          payment'[j].paymentRef # payment'[i].paymentRef
      <4>1. CASE i = r.row
        BY <1>1, <3>2, <4>1
      <4>2. CASE i # r.row
        BY <1>1, <3>2, <3>3, <4>2 DEF BoostsAreEarned, ConfirmedRowsArePaid
      <4> QED BY <4>1, <4>2
    <3> QED BY <2>1, <2>2, <1>2, <3>3 DEF BoostsAreEarned, ConfirmedRowsArePaid
  <2> QED BY <2>3, <2>4
<1>4. CASE BoostPaid(p)
  <2>1. /\ UNCHANGED <<payment, invoice, earned>>
        /\ \E score : ApplyBoost(ListingOf[r.invoice], score) \/ UNCHANGED listing
    BY <1>4 DEF BoostPaid, money
  <2>2. ListingOf[r.invoice] \in Listing
    BY <1>1, CatalogueAssumption
  <2>3. BoostIsEarned'
    <3>1. CASE UNCHANGED listing
      BY <2>1, <3>1 DEF BoostsAreEarned, BoostIsEarned
    <3>2. CASE \E score : ApplyBoost(ListingOf[r.invoice], score)
      BY <1>1, <2>1, <2>2, <3>2, BoostedIsEarned DEF BoostsAreEarned
    <3> QED BY <2>1, <3>1, <3>2
  <2>4. ConfirmedRowsArePaid'
    BY <2>1 DEF BoostsAreEarned, ConfirmedRowsArePaid
  <2> QED BY <1>2, <2>3, <2>4 DEF BoostsAreEarned
<1> QED BY <1>3, <1>4

LEMMA BoostInvStep == TypeOK /\ BoostInv /\ [Next]_vars => BoostInv'
<1> SUFFICES ASSUME TypeOK, BoostInv, [Next]_vars
             PROVE  BoostInv'
  OBVIOUS
<1>1. CASE Next
  BY <1>1, OthersAreIndifferent, IndifferentBoost, InvoiceSteps, FreeBoostSteps,
     NotificationSteps, SettleSteps
  DEF Next
<1>2. CASE UNCHANGED vars
  <2>1. Indifferent
    BY <1>2, SameNothing DEF vars, Indifferent
  <2> QED BY <2>1, IndifferentBoost
<1> QED BY <1>1, <1>2

LEMMA BoostInit == Init => BoostInv
<1> SUFFICES ASSUME Init
             PROVE  BoostInv
  OBVIOUS
<1>1. /\ \A p \in Proc : request[p].stage = "idle"
      /\ \A l \in Listing : listing[l].boostUntil = "never"
      /\ \A i \in Invoice : payment[i].status = "none"
  BY DEF Init, Idle
<1>2. UnbilledIsUnpaid /\ BoostIsFounded
  BY <1>1 DEF UnbilledIsUnpaid, BoostIsFounded, At
<1>3. BoostsAreEarned
  BY <1>1 DEF BoostsAreEarned, BoostIsEarned, ConfirmedRowsArePaid
<1> QED BY <1>2, <1>3 DEF BoostInv

\* The invariant of the catalogue: types, what the index may still hear, what a boost rests on.
THEOREM CatalogueInvariant == Spec => []IInv
<1>1. Init => IInv
  BY TypeInit, SearchInit, BoostInit DEF IInv
<1>2. IInv /\ [Next]_vars => IInv'
  BY TypeStep, SearchStep, BoostInvStep DEF IInv
<1> QED BY <1>1, <1>2, PTL DEF Spec

\* Nothing is boosted without a PRO plan or a paid invoice of that listing, and each CONFIRMED
\* row names a paid invoice of its own listing that no other row names, although
\* notifications are matched with the newest PENDING row (handleBoostWebhook).
THEOREM BoostsEarned == Spec => []BoostsAreEarned
<1>1. IInv => BoostsAreEarned
  BY DEF IInv, BoostInv
<1> QED BY <1>1, CatalogueInvariant, PTL

-----------------------------------------------------------------------------
(***************************************************************************)
(* A finite set of numbers in order, and the filter of a sequence.         *)
(***************************************************************************)

LEMMA SizeOfPart ==
    ASSUME NEW K, IsFiniteSet(K), NEW T \in SUBSET K, T # {}
    PROVE  IsFiniteSet(T) /\ Cardinality(T) \in 1 .. Cardinality(K)
<1>1. IsFiniteSet(T) /\ Cardinality(T) <= Cardinality(K)
  BY FS_Subset
<1>2. Cardinality(T) # 0
  BY <1>1, FS_EmptySet
<1>3. Cardinality(T) \in Nat /\ Cardinality(K) \in Nat
  BY <1>1, FS_CardinalityType
<1> QED BY <1>1, <1>2, <1>3

\* The enumeration in order reaches every member once: ranks are one to one.
LEMMA OrderIsOnto ==
    ASSUME NEW K \in SUBSET Nat, IsFiniteSet(K)
    PROVE  /\ Cardinality(K) \in Nat
           /\ \A j \in 1 .. Cardinality(K) : InOrder(K)[j] \in K
           /\ \A k \in K : \E j \in 1 .. Cardinality(K) : InOrder(K)[j] = k
           /\ \A i, j \in 1 .. Cardinality(K) : InOrder(K)[i] = InOrder(K)[j] => i = j
<1> DEFINE upto(k) == {i \in K : i <= k}
           n == Cardinality(K)
           rank == [k \in K |-> Cardinality(upto(k))]
<1>1. n \in Nat
  BY FS_CardinalityType
<1>2. ASSUME NEW k \in K
      PROVE  IsFiniteSet(upto(k)) /\ Cardinality(upto(k)) \in 1 .. n
  <2>1. upto(k) \in SUBSET K /\ upto(k) # {}
    OBVIOUS
  <2> HIDE DEF upto
  <2> QED BY <2>1, SizeOfPart
<1>3. ASSUME NEW k \in K, NEW m \in K, k < m
      PROVE  Cardinality(upto(k)) # Cardinality(upto(m))
  <2>1. upto(k) \in SUBSET upto(m)
    <3>1. ASSUME NEW i \in K, i <= k
          PROVE  i <= m
      <4>1. i \in Nat /\ k \in Nat /\ m \in Nat
        OBVIOUS
      <4> QED BY <1>3, <3>1, <4>1
    <3> QED BY <3>1
  <2>2. m \in upto(m) /\ m \notin upto(k)
    BY <1>3
  <2>3. upto(k) # upto(m)
    <3> HIDE DEF upto
    <3> QED BY <2>2
  <2>4. IsFiniteSet(upto(m))
    BY <1>2
  <2> HIDE DEF upto
  <2> QED BY <2>1, <2>3, <2>4, FS_Subset
<1>4. rank \in [K -> 1 .. n]
  <2> HIDE DEF upto, n
  <2> QED BY <1>2
<1>5. ASSUME NEW k \in K, NEW m \in K, rank[k] = rank[m]
      PROVE  k = m
  <2>1. k < m \/ m < k \/ k = m
    OBVIOUS
  <2>2. Cardinality(upto(k)) = Cardinality(upto(m))
    BY <1>5
  <2> HIDE DEF upto
  <2> QED BY <1>3, <2>1, <2>2
<1>6. rank \in Surjection(K, 1 .. n)
  <2>1. rank \in Injection(K, 1 .. n)
    <3> HIDE DEF rank
    <3> QED BY <1>4, <1>5 DEF Injection, IsInjective
  <2>2. IsFiniteSet(1 .. n) /\ Cardinality(1 .. n) = n
    BY <1>1, FS_Interval
  <2> HIDE DEF rank
  <2> QED BY <2>1, <2>2, FS_Injection
<1>7. ASSUME NEW j \in 1 .. n
      PROVE  InOrder(K)[j] \in K /\ rank[InOrder(K)[j]] = j
  <2>1. \E k \in K : rank[k] = j
    <3> HIDE DEF rank
    <3> QED BY <1>6 DEF Surjection
  <2>2. \E k \in K : Cardinality(upto(k)) = j
    BY <2>1
  <2>3. InOrder(K)[j] = CHOOSE k \in K : Cardinality(upto(k)) = j
    BY DEF InOrder
  <2>4. InOrder(K)[j] \in K /\ Cardinality(upto(InOrder(K)[j])) = j
    <3> HIDE DEF upto
    <3> QED BY <2>2, <2>3
  <2> QED BY <2>4
<1>8. ASSUME NEW k \in K
      PROVE  InOrder(K)[rank[k]] = k
  <2>1. rank[k] \in 1 .. n
    <3> HIDE DEF rank, n
    <3> QED BY <1>4
  <2> HIDE DEF rank, n
  <2> QED BY <1>5, <1>7, <2>1
<1> HIDE DEF rank
<1> QED BY <1>1, <1>4, <1>7, <1>8

\* A filter has the elements at the positions it keeps, and no others.
LEMMA ThoseKept ==
    ASSUME NEW S, NEW seq \in Seq(S), NEW K \in SUBSET DOMAIN seq
    PROVE  /\ Those(seq, K) \in Seq(S)
           /\ \A j \in DOMAIN Those(seq, K) : \E k \in K : Those(seq, K)[j] = seq[k]
           /\ \A k \in K : \E j \in DOMAIN Those(seq, K) : Those(seq, K)[j] = seq[k]
<1>1. K \in SUBSET (1 .. Len(seq)) /\ Len(seq) \in Nat
  OBVIOUS
<1>2. IsFiniteSet(K) /\ K \in SUBSET Nat
  <2>1. IsFiniteSet(1 .. Len(seq))
    BY <1>1, FS_Interval
  <2> QED BY <1>1, <2>1, FS_Subset
<1> DEFINE n == Cardinality(K)
           order == InOrder(K)
<1>3. /\ n \in Nat /\ \A j \in 1 .. n : order[j] \in K
      /\ \A k \in K : \E j \in 1 .. n : order[j] = k
  BY <1>2, OrderIsOnto
<1>4. Those(seq, K) = [j \in 1 .. n |-> seq[order[j]]]
  BY DEF Those
<1> HIDE DEF n, order
<1>5. \A k \in K : seq[k] \in S
  BY <1>1
<1>6. DOMAIN Those(seq, K) = 1 .. n /\ \A j \in 1 .. n : Those(seq, K)[j] = seq[order[j]]
  BY <1>4
<1>7. Those(seq, K) \in Seq(S)
  BY <1>3, <1>4, <1>5
<1>8. \A j \in DOMAIN Those(seq, K) : \E k \in K : Those(seq, K)[j] = seq[k]
  <2> TAKE j \in DOMAIN Those(seq, K)
  <2>1. order[j] \in K /\ Those(seq, K)[j] = seq[order[j]]
    BY <1>3, <1>6
  <2> QED BY <2>1
<1>9. \A k \in K : \E j \in DOMAIN Those(seq, K) : Those(seq, K)[j] = seq[k]
  <2> TAKE k \in K
  <2>1. PICK j \in 1 .. n : order[j] = k
    BY <1>3
  <2>2. j \in DOMAIN Those(seq, K) /\ Those(seq, K)[j] = seq[k]
    BY <1>6, <2>1
  <2> QED BY <2>2
<1> QED BY <1>7, <1>8, <1>9

-----------------------------------------------------------------------------
(***************************************************************************)
(* Listing forms: the zone of the photos and the types.                    *)
(***************************************************************************)

\* The photos that are ready are those whose items are done.
LEMMA ReadyIsDone ==
    ASSUME NEW z \in Seq(ZoneItem)
    PROVE  /\ ReadyPhotos(z) \in Seq(Photos)
           /\ ToSet(ReadyPhotos(z)) = PhotosAt(z, Ready(z))
<1> DEFINE s == Those(z, Ready(z))
<1>1. Ready(z) \in SUBSET DOMAIN z
  BY DEF Ready
<1>2. /\ s \in Seq(ZoneItem)
      /\ \A j \in DOMAIN s : \E k \in Ready(z) : s[j] = z[k]
      /\ \A k \in Ready(z) : \E j \in DOMAIN s : s[j] = z[k]
  BY <1>1, ThoseKept
<1>3. ReadyPhotos(z) = [j \in DOMAIN s |-> s[j].photo]
  BY DEF ReadyPhotos
<1> HIDE DEF s
<1>4. \A j \in DOMAIN s : s[j].photo \in Photos
  <2> TAKE j \in DOMAIN s
  <2>1. s[j] \in ZoneItem
    BY <1>2
  <2> QED BY <2>1 DEF ZoneItem
<1>5. ReadyPhotos(z) \in Seq(Photos)
  <2>1. DOMAIN s = 1 .. Len(s) /\ Len(s) \in Nat
    BY <1>2
  <2> QED BY <1>3, <1>4, <2>1
<1>6. ToSet(ReadyPhotos(z)) = {s[j].photo : j \in DOMAIN s}
  BY <1>3 DEF ToSet
<1>7. {s[j].photo : j \in DOMAIN s} = PhotosAt(z, Ready(z))
  BY <1>2 DEF PhotosAt
<1> QED BY <1>5, <1>6, <1>7

\* The items of other photos, with their status.
LEMMA RemovedItems ==
    ASSUME zone \in Seq(ZoneItem), NEW p
    PROVE  /\ Removed(p) \in Seq(ZoneItem)
           /\ PhotosAt(Removed(p), Ready(Removed(p))) = PhotosAt(zone, Ready(zone)) \ {p}
           /\ PhotosAt(Removed(p), Unsettled(Removed(p))) = Spinning \ {p}
<1> DEFINE K == {i \in DOMAIN zone : zone[i].photo # p}
           s == Those(zone, K)
<1>1. Removed(p) = s /\ K \in SUBSET DOMAIN zone
  BY DEF Removed
<1> HIDE DEF K
<1>2. /\ s \in Seq(ZoneItem)
      /\ \A j \in DOMAIN s : \E k \in K : s[j] = zone[k]
      /\ \A k \in K : \E j \in DOMAIN s : s[j] = zone[k]
  BY <1>1, ThoseKept
<1> HIDE DEF s
<1> USE DEF K
<1>3. PhotosAt(s, Ready(s)) = PhotosAt(zone, Ready(zone)) \ {p}
  BY <1>2 DEF PhotosAt, Ready
<1>4. PhotosAt(s, Unsettled(s)) = PhotosAt(zone, Unsettled(zone)) \ {p}
  BY <1>2 DEF PhotosAt, Unsettled
<1> QED BY <1>1, <1>2, <1>3, <1>4 DEF Spinning

\* The items of a photo in another status.
LEMMA ChangedItems ==
    ASSUME zone \in Seq(ZoneItem), NEW p, NEW status \in {"uploading", "done", "error"}
    PROVE  /\ ItemsIn(p, status) \in Seq(ZoneItem)
           /\ DOMAIN ItemsIn(p, status) = DOMAIN zone
           /\ \A i \in DOMAIN zone :
                /\ ItemsIn(p, status)[i].photo = zone[i].photo
                /\ ItemsIn(p, status)[i].status = IF zone[i].photo = p THEN status ELSE zone[i].status
<1>1. ASSUME NEW i \in DOMAIN zone
      PROVE  /\ zone[i] \in ZoneItem /\ [zone[i] EXCEPT !.status = status] \in ZoneItem
             /\ [zone[i] EXCEPT !.status = status].photo = zone[i].photo
             /\ [zone[i] EXCEPT !.status = status].status = status
  <2>1. zone[i] \in ZoneItem
    OBVIOUS
  <2> QED BY <2>1 DEF ZoneItem
<1>2. ItemsIn(p, status) = [i \in 1 .. Len(zone) |->
           IF zone[i].photo = p THEN [zone[i] EXCEPT !.status = status] ELSE zone[i]]
  BY DEF ItemsIn
<1> QED BY <1>1, <1>2

\* The zone starts from the photos of the form.
LEMMA ZoneStarts ==
    ASSUME NEW images \in Seq(Photos)
    PROVE  /\ ZoneOf(images) \in Seq(ZoneItem)
           /\ PhotosAt(ZoneOf(images), Ready(ZoneOf(images))) = ToSet(images)
<1>1. ZoneOf(images) = [i \in 1 .. Len(images) |-> [photo |-> images[i], status |-> "done"]]
  BY DEF ZoneOf
<1>2. \A i \in 1 .. Len(images) : [photo |-> images[i], status |-> "done"] \in ZoneItem
  BY DEF ZoneItem
<1>3. ZoneOf(images) \in Seq(ZoneItem)
  BY <1>1, <1>2
<1>4. Ready(ZoneOf(images)) = 1 .. Len(images)
  BY <1>1 DEF Ready
<1>5. PhotosAt(ZoneOf(images), Ready(ZoneOf(images))) = {images[i] : i \in 1 .. Len(images)}
  <2>1. \A i \in 1 .. Len(images) : ZoneOf(images)[i].photo = images[i]
    BY <1>1
  <2> QED BY <1>4, <2>1 DEF PhotosAt
<1> QED BY <1>3, <1>5 DEF ToSet

\* What a field, the zone or the owner changes in the values of a form.
LEMMA ValuesKeepType ==
    ASSUME NEW v \in Values
    PROVE  /\ \A s \in Seq(Photos) : [v EXCEPT !.images = s] \in Values
           /\ \A w, l \in SUBSET Photos : [v EXCEPT !.wanted = w, !.lost = l] \in Values
           /\ \A s \in Seq(Photos), w \in SUBSET Photos : [v EXCEPT !.images = s, !.wanted = w] \in Values
           /\ \A f \in SUBSET Required : [v EXCEPT !.filled = f] \in Values
           /\ \A n, m \in Nat : [v EXCEPT !.min = n, !.max = m] \in Values
           /\ \A n \in Nat : [v EXCEPT !.filling = n] \in Values
           /\ v.wanted \in SUBSET Photos /\ v.lost \in SUBSET Photos
           /\ v.filled \in SUBSET Required /\ v.images \in Seq(Photos) /\ v.filling \in Nat
           /\ \A n \in Nat : Blank(n) \in Values
<1> DEFINE Images == Seq(Photos)
           Wanted == SUBSET Photos
           Filled == SUBSET Required
<1>1. Values = [filling : Nat, filled : Filled, min : Nat, max : Nat, images : Images,
                basis : Nat, wanted : Wanted, lost : Wanted]
  BY DEF Values
<1>2. <<>> \in Images /\ {} \in Wanted /\ {} \in Filled
  OBVIOUS
<1> HIDE DEF Images, Wanted, Filled
<1>3. /\ v.wanted \in Wanted /\ v.lost \in Wanted /\ v.filled \in Filled /\ v.images \in Images
      /\ v.filling \in Nat
  BY <1>1
<1>4. /\ \A s \in Images : [v EXCEPT !.images = s] \in Values
      /\ \A w, l \in Wanted : [v EXCEPT !.wanted = w, !.lost = l] \in Values
      /\ \A s \in Images, w \in Wanted : [v EXCEPT !.images = s, !.wanted = w] \in Values
  BY <1>1
<1>5. /\ \A f \in Filled : [v EXCEPT !.filled = f] \in Values
      /\ \A n, m \in Nat : [v EXCEPT !.min = n, !.max = m] \in Values
      /\ \A n \in Nat : [v EXCEPT !.filling = n] \in Values
  BY <1>1
<1>6. \A n \in Nat : Blank(n) \in Values
  BY <1>1, <1>2 DEF Blank, NotGiven
<1> QED BY <1>3, <1>4, <1>5, <1>6 DEF Images, Wanted, Filled

\* The fields that such a change leaves and sets.
LEMMA ImagesChange ==
    ASSUME NEW v \in Values, NEW s, NEW w, NEW l
    PROVE  /\ LET u == [v EXCEPT !.images = s] IN
                u.images = s /\ u.wanted = v.wanted /\ u.lost = v.lost /\ u.filling = v.filling
           /\ LET u == [v EXCEPT !.images = s, !.wanted = w] IN
                u.images = s /\ u.wanted = w /\ u.lost = v.lost /\ u.filling = v.filling
           /\ LET u == [v EXCEPT !.wanted = w, !.lost = l] IN
                u.images = v.images /\ u.wanted = w /\ u.lost = l /\ u.filling = v.filling
BY DEF Values

\* A form without its zone: what was under way is given up, what was passed over is lost.
LEMMA LeaveZoneType ==
    ASSUME NEW v \in Values, tasks \in Tasks
    PROVE  /\ LeaveZone(v) \in Values /\ LeaveZone(v).filling = v.filling /\ LeaveZone(v).images = v.images
           /\ LeaveZone(v).wanted = v.wanted \ UnderWay
           /\ LeaveZone(v).lost = v.lost \cup (Spinning \cap tasks.stuck)
<1> DEFINE w == v.wanted \ UnderWay
           l == v.lost \cup (Spinning \cap tasks.stuck)
<1>1. w \in SUBSET Photos /\ l \in SUBSET Photos
  BY ValuesKeepType DEF Tasks
<1>2. LeaveZone(v) = [v EXCEPT !.wanted = w, !.lost = l]
  BY DEF LeaveZone
<1> HIDE DEF w, l
<1> DEFINE u == [v EXCEPT !.wanted = w, !.lost = l]
<1>3. u \in Values
  BY <1>1, ValuesKeepType
<1>4. u.filling = v.filling /\ u.images = v.images /\ u.wanted = w /\ u.lost = l
  BY ImagesChange
<1> HIDE DEF u
<1>5. LeaveZone(v) = u
  BY <1>2 DEF u
<1> QED BY <1>3, <1>4, <1>5 DEF w, l

LEMMA NoTasksType == NoTasks \in Tasks
BY DEF NoTasks, Tasks

\* The draft as a page that is left keeps it.
LEMMA LeftDraftType ==
    ASSUME FormTypes, draft # NoDraft
    PROVE  /\ LeftDraft \in Values /\ LeftDraft.filling = draft.filling /\ LeftDraft.images = draft.images
           /\ LeftDraft.wanted = LeaveZone(values).wanted
           /\ LeftDraft.lost = LeaveZone(values).lost \cup (ToSet(values.images) \ ToSet(draft.images))
<1> DEFINE w == LeaveZone(values).wanted
           l == LeaveZone(values).lost \cup (ToSet(values.images) \ ToSet(draft.images))
<1>1. draft \in Values /\ values \in Values /\ LeaveZone(values) \in Values
  BY LeaveZoneType DEF FormTypes
<1>2. ToSet(values.images) \subseteq Photos
  <2>1. values.images \in Seq(Photos)
    BY <1>1, ValuesKeepType
  <2> QED BY <2>1 DEF ToSet
<1>3. w \in SUBSET Photos /\ l \in SUBSET Photos
  <2>1. LeaveZone(values).wanted \in SUBSET Photos /\ LeaveZone(values).lost \in SUBSET Photos
    BY <1>1, ValuesKeepType
  <2> QED BY <1>2, <2>1
<1>4. LeftDraft = [draft EXCEPT !.wanted = w, !.lost = l]
  BY DEF LeftDraft
<1> HIDE DEF w, l
<1> DEFINE u == [draft EXCEPT !.wanted = w, !.lost = l]
<1>5. u \in Values
  BY <1>1, <1>3, ValuesKeepType
<1>6. u.filling = draft.filling /\ u.images = draft.images /\ u.wanted = w /\ u.lost = l
  BY <1>1, ImagesChange
<1> HIDE DEF u
<1>7. LeftDraft = u
  BY <1>4 DEF u
<1> QED BY <1>5, <1>6, <1>7 DEF w, l

LEMMA ShowStepType ==
    ASSUME NEW s \in 0..5, NEW v \in Values, ShowStep(s, v)
    PROVE  /\ step' = s /\ crops' = <<>> /\ tasks' = NoTasks /\ values' \in Values /\ zone' \in Seq(ZoneItem)
           /\ s = PhotoStep => zone' = ZoneOf(v.images) /\ values' = [v EXCEPT !.images = ReadyPhotos(ZoneOf(v.images))]
           /\ s # PhotoStep => zone' = <<>> /\ values' = v
<1>1. v.images \in Seq(Photos)
  BY ValuesKeepType
<1>2. ZoneOf(v.images) \in Seq(ZoneItem) /\ ReadyPhotos(ZoneOf(v.images)) \in Seq(Photos)
  BY <1>1, ZoneStarts, ReadyIsDone
<1>3. [v EXCEPT !.images = ReadyPhotos(ZoneOf(v.images))] \in Values
  BY <1>2, ValuesKeepType
<1>4. CASE s = PhotoStep
  BY <1>2, <1>3, <1>4 DEF ShowStep
<1>5. CASE s # PhotoStep
  <2>1. <<>> \in Seq(ZoneItem)
    OBVIOUS
  <2> QED BY <1>5, <2>1 DEF ShowStep
<1> QED BY <1>4, <1>5

\* The fields and the steps of the two forms.
LEMMA FieldsType ==
    ASSUME FormTypes,
           \/ FillBasics \/ FillPlace \/ FillPrices \/ FillNights \/ EditFields \/ EditPlace \/ EditNights
    PROVE  FormTypes' /\ UNCHANGED <<form, step, zone, crops, tasks, draft, server, begun, mishaps>>
<1>1. UNCHANGED <<form, step, zone, crops, tasks, draft, server, begun, mishaps>>
  BY DEF FillBasics, FillPlace, FillPrices, FillNights, EditFields, EditPlace, EditNights, Fill
<1>2. values' \in Values
  <2>1. CASE FillNights \/ EditNights
    <3>1. PICK min, max \in Nights \cup {NotGiven} : values' = [values EXCEPT !.min = min, !.max = max]
      BY <2>1 DEF FillNights, EditNights
    <3>2. min \in Nat /\ max \in Nat
      BY FormAssumption DEF NotGiven
    <3> QED BY <3>1, <3>2, ValuesKeepType DEF FormTypes
  <2>2. CASE FillBasics \/ FillPlace \/ FillPrices \/ EditFields \/ EditPlace
    <3>1. PICK part \in Required :
             \/ values' = [values EXCEPT !.filled = values.filled \cup {part}]
             \/ values' = [values EXCEPT !.filled = values.filled \ {part}]
      BY <2>2 DEF FillBasics, FillPlace, FillPrices, EditFields, EditPlace, Fill, Required
    <3>2. values.filled \cup {part} \in SUBSET Required /\ values.filled \ {part} \in SUBSET Required
      BY ValuesKeepType DEF FormTypes
    <3> QED BY <3>1, <3>2, ValuesKeepType DEF FormTypes
  <2> QED BY <2>1, <2>2
<1> QED BY <1>1, <1>2 DEF FormTypes, server

LEMMA StepsType ==
    ASSUME FormTypes, Advance \/ GoNext \/ GoBack
    PROVE  FormTypes'
<1>1. LeaveZone(values) \in Values
  BY LeaveZoneType DEF FormTypes
<1>2. PICK s \in 0..5 : ShowStep(s, LeaveZone(values))
  BY DEF Advance, GoNext, GoBack, FormTypes, Final, Editing
<1>3. step' \in 0..5 /\ crops' \in Seq(Photos) /\ tasks' \in Tasks /\ values' \in Values /\ zone' \in Seq(ZoneItem)
  <2>1. <<>> \in Seq(Photos)
    OBVIOUS
  <2> QED BY <1>1, <1>2, <2>1, ShowStepType, NoTasksType
<1>4. UNCHANGED <<form, server, begun, mishaps>> /\ draft' \in Values \cup {NoDraft}
  BY <1>1 DEF Advance, GoNext, GoBack, FormTypes
<1> QED BY <1>3, <1>4 DEF FormTypes, server

\* Pages opened and left.
LEMMA PagesType ==
    ASSUME FormTypes, OpenWizard \/ OpenEdit \/ OpenElsewhere \/ Leave \/ SessionEnds
    PROVE  FormTypes'
<1>0. ASSUME rows # <<>>
      PROVE  Loaded(rows[1]) \in Values
  <2>1. rows[1] \in FormRow
    BY <1>0 DEF FormTypes
  <2> QED BY <2>1 DEF Loaded, FormRow, Values
<1>1. CASE OpenWizard
  <2>1. values' \in Values /\ begun' \in Nat
    <3>1. begun + 1 \in Nat /\ Blank(begun + 1) \in Values
      <4>1. begun + 1 \in Nat /\ values \in Values
        BY DEF FormTypes
      <4> QED BY <4>1, ValuesKeepType
    <3>2. CASE draft # NoDraft
      <4>1. draft \in Values /\ begun \in Nat
        BY <3>2 DEF FormTypes
      <4>2. values' = draft /\ begun' = begun
        BY <1>1, <3>2 DEF OpenWizard
      <4> QED BY <4>1, <4>2
    <3>3. CASE draft = NoDraft
      BY <1>1, <3>1, <3>3 DEF OpenWizard
    <3> QED BY <3>2, <3>3
  <2> QED BY <1>1, <2>1, NoTasksType DEF OpenWizard, FormTypes, server, NoZone
<1>2. CASE OpenEdit
  BY <1>0, <1>2, NoTasksType DEF OpenEdit, FormTypes, server, NoZone
<1>4. CASE OpenElsewhere
  BY <1>0, <1>4 DEF OpenElsewhere, FormTypes
<1>3. CASE LeavePage /\ draft' \in Values \cup {NoDraft}
  <2>1. PICK to \in {"left", "gone"} :
          /\ posts' = {[r EXCEPT !.from = IF @ = "gone" THEN @ ELSE to] : r \in posts}
          /\ saves' = {[r EXCEPT !.from = IF @ = "here" THEN to ELSE @] : r \in saves}
    BY <1>3 DEF LeavePage
  <2>2. posts' \subseteq Post
    BY <2>1 DEF FormTypes, Post
  <2>3. saves' \subseteq Saving
    BY <2>1 DEF FormTypes, Saving
  <2>4. values' \in Values /\ again' \subseteq Nat
    <3>1. Blank(0) \in Values /\ values.filling \in Nat
      BY ValuesKeepType DEF FormTypes, Values
    <3> QED BY <1>3, <3>1 DEF LeavePage, FormTypes
  <2> QED BY <1>3, <2>2, <2>3, <2>4, NoTasksType DEF LeavePage, FormTypes, NoZone
<1>5. CASE Leave
  <2>1. draft' \in Values \cup {NoDraft}
    BY <1>5, LeftDraftType DEF Leave, FormTypes
  <2> QED BY <1>3, <1>5, <2>1 DEF Leave
<1> QED BY <1>1, <1>2, <1>3, <1>4, <1>5 DEF SessionEnds

\* A step in the zone: its items change, and what the form has of them with them.
ItemsShown ==
    /\ ToSet(values.images) = PhotosAt(zone, Ready(zone))
    /\ values.wanted \subseteq PhotosAt(zone, Ready(zone)) \cup Spinning \cup values.lost
ZoneShows == ItemsShown /\ Spinning \subseteq InHand(crops, tasks) \cup tasks.stuck

LEMMA ZoneMoves ==
    ASSUME FormTypes, NEW z \in Seq(ZoneItem), NEW w \in SUBSET Photos, zone' = z,
           \/ values' = [values EXCEPT !.images = ReadyPhotos(z), !.wanted = w]
           \/ values' = [values EXCEPT !.images = ReadyPhotos(z)] /\ w = values.wanted,
           w \subseteq PhotosAt(z, Ready(z)) \cup PhotosAt(z, Unsettled(z)) \cup values.lost
    PROVE  ItemsShown' /\ zone' \in Seq(ZoneItem) /\ values' \in Values /\ values'.filling = values.filling
<1>1. values \in Values
  BY DEF FormTypes
<1>2. ReadyPhotos(z) \in Seq(Photos) /\ ToSet(ReadyPhotos(z)) = PhotosAt(z, Ready(z))
  BY ReadyIsDone
<1>3. /\ values' \in Values /\ values'.images = ReadyPhotos(z) /\ values'.wanted = w
      /\ values'.lost = values.lost /\ values'.filling = values.filling
  <2> DEFINE s == ReadyPhotos(z)
  <2>1. values.wanted \in SUBSET Photos
    BY <1>1, ValuesKeepType
  <2>2. s \in Seq(Photos)
    BY <1>2
  <2>3. values' = [values EXCEPT !.images = s, !.wanted = w] \/ (values' = [values EXCEPT !.images = s] /\ w = values.wanted)
    OBVIOUS
  <2> HIDE DEF s
  <2>4. CASE values' = [values EXCEPT !.images = s, !.wanted = w]
    <3>1. [values EXCEPT !.images = s, !.wanted = w] \in Values
      BY <1>1, <2>2, ValuesKeepType
    <3> QED BY <1>1, <2>2, <2>4, <3>1, ImagesChange DEF s
  <2>5. CASE values' = [values EXCEPT !.images = s] /\ w = values.wanted
    <3>1. [values EXCEPT !.images = s] \in Values
      BY <1>1, <2>2, ValuesKeepType
    <3> QED BY <1>1, <2>1, <2>2, <2>5, <3>1, ImagesChange DEF s
  <2> QED BY <2>3, <2>4, <2>5
<1> QED BY <1>2, <1>3 DEF ItemsShown, Spinning

\* The photos that are ready or on their way stay so when one of them changes its status; those
\* on their way are the others that were.
LEMMA ChangedShow ==
    ASSUME zone \in Seq(ZoneItem), NEW p, NEW status \in {"uploading", "done", "error"}
    PROVE  LET z == ItemsIn(p, status) IN
           /\ \A q \in PhotosAt(zone, Ready(zone)) \cup Spinning :
                (status = "error" => q # p) => q \in PhotosAt(z, Ready(z)) \cup PhotosAt(z, Unsettled(z))
           /\ PhotosAt(z, Unsettled(z)) \subseteq Spinning \cup {p}
           /\ status # "uploading" => PhotosAt(z, Unsettled(z)) \subseteq Spinning \ {p}
<1> DEFINE z == ItemsIn(p, status)
<1>1. /\ DOMAIN z = DOMAIN zone
      /\ \A i \in DOMAIN zone :
           /\ z[i].photo = zone[i].photo
           /\ z[i].status = IF zone[i].photo = p THEN status ELSE zone[i].status
  BY ChangedItems
<1> HIDE DEF z
<1>2. ASSUME NEW q \in PhotosAt(zone, Ready(zone)) \cup Spinning, status = "error" => q # p
      PROVE  q \in PhotosAt(z, Ready(z)) \cup PhotosAt(z, Unsettled(z))
  <2>1. PICK i \in DOMAIN zone : zone[i].photo = q /\ zone[i].status \in {"done", "uploading"}
    BY DEF PhotosAt, Ready, Spinning, Unsettled
  <2>2. i \in DOMAIN z /\ z[i].photo = q /\ z[i].status \in {"done", "uploading"}
    BY <1>1, <1>2, <2>1
  <2>3. i \in Ready(z) \cup Unsettled(z)
    BY <2>2 DEF Ready, Unsettled
  <2> QED BY <2>2, <2>3 DEF PhotosAt
<1>3. ASSUME NEW q \in PhotosAt(z, Unsettled(z))
      PROVE  (q \in Spinning /\ q # p) \/ (q = p /\ status = "uploading")
  <2>1. PICK i \in DOMAIN z : z[i].photo = q /\ z[i].status = "uploading"
    BY DEF PhotosAt, Unsettled
  <2>2. i \in DOMAIN zone /\ zone[i].photo = q /\ (q = p => status = "uploading")
        /\ (q # p => zone[i].status = "uploading")
    BY <1>1, <2>1
  <2> QED BY <2>2 DEF PhotosAt, Unsettled, Spinning
<1> QED BY <1>2, <1>3 DEF z

\* So they do when a photo is moved to the front.
LEMMA PrimaryShows ==
    ASSUME zone \in Seq(ZoneItem), NEW p
    PROVE  LET z == Those(zone, {i \in DOMAIN zone : zone[i].photo = p}) \o Removed(p) IN
           /\ z \in Seq(ZoneItem)
           /\ PhotosAt(zone, Ready(zone)) \cup Spinning
                  \subseteq PhotosAt(z, Ready(z)) \cup PhotosAt(z, Unsettled(z))
           /\ PhotosAt(z, Unsettled(z)) \subseteq Spinning
<1> DEFINE K == {i \in DOMAIN zone : zone[i].photo = p}
           L == {i \in DOMAIN zone : zone[i].photo # p}
           a == Those(zone, K)
           b == Those(zone, L)
           z == a \o b
<1>1. K \in SUBSET DOMAIN zone /\ L \in SUBSET DOMAIN zone /\ DOMAIN zone = K \cup L
  OBVIOUS
<1>2. Removed(p) = b
  BY DEF Removed
<1> HIDE DEF K, L
<1>3. /\ a \in Seq(ZoneItem) /\ \A k \in K : \E j \in DOMAIN a : a[j] = zone[k]
      /\ \A j \in DOMAIN a : \E k \in K : a[j] = zone[k]
  BY <1>1, ThoseKept
<1>4. /\ b \in Seq(ZoneItem) /\ \A k \in L : \E j \in DOMAIN b : b[j] = zone[k]
      /\ \A j \in DOMAIN b : \E k \in L : b[j] = zone[k]
  BY <1>1, ThoseKept
<1> HIDE DEF a, b
<1>5. /\ z \in Seq(ZoneItem)
      /\ \A j \in DOMAIN a : j \in DOMAIN z /\ z[j] = a[j]
      /\ \A j \in DOMAIN b : Len(a) + j \in DOMAIN z /\ z[Len(a) + j] = b[j]
      /\ \A j \in DOMAIN z : (j \in DOMAIN a /\ z[j] = a[j]) \/ (j - Len(a) \in DOMAIN b /\ z[j] = b[j - Len(a)])
  BY <1>3, <1>4
<1> HIDE DEF z
<1>6. \A i \in DOMAIN zone : \E j \in DOMAIN z : z[j] = zone[i]
  <2> TAKE i \in DOMAIN zone
  <2>1. CASE i \in K
    BY <1>3, <1>5, <2>1
  <2>2. CASE i \in L
    <3>1. PICK j \in DOMAIN b : b[j] = zone[i]
      BY <1>4, <2>2
    <3>2. Len(a) + j \in DOMAIN z /\ z[Len(a) + j] = zone[i]
      BY <1>5, <3>1
    <3> QED BY <3>2
  <2> QED BY <1>1, <2>1, <2>2
<1>7. \A j \in DOMAIN z : \E i \in DOMAIN zone : z[j] = zone[i]
  BY <1>1, <1>3, <1>4, <1>5
<1>8. /\ PhotosAt(zone, Ready(zone)) \cup Spinning \subseteq PhotosAt(z, Ready(z)) \cup PhotosAt(z, Unsettled(z))
      /\ PhotosAt(z, Unsettled(z)) \subseteq Spinning
  BY <1>6, <1>7 DEF PhotosAt, Ready, Spinning, Unsettled
<1> QED BY <1>2, <1>5, <1>8 DEF z, a, K

ZoneActions ==
    \/ \E p \in Photos : ChooseFile(p) \/ RemoveItem(p) \/ UploadSettles(p) \/ UploadFails(p)
                        \/ AdjustConfirm(p) \/ AdjustSettles(p) \/ SetPrimary(p)
                        \/ CropRendered(p) \/ CropFails(p)
    \/ ConfirmCrop \/ CropCancel

LEMMA ChosenItem ==
    ASSUME zone \in Seq(ZoneItem), NEW item \in ZoneItem, item.status = "uploading"
    PROVE  LET z == Append(zone, item) IN
           /\ z \in Seq(ZoneItem)
           /\ PhotosAt(z, Ready(z)) = PhotosAt(zone, Ready(zone))
           /\ PhotosAt(z, Unsettled(z)) = Spinning \cup {item.photo}
<1> DEFINE z == Append(zone, item)
           n == Len(zone) + 1
<1>1. /\ z \in Seq(ZoneItem) /\ DOMAIN z = DOMAIN zone \cup {n} /\ n \notin DOMAIN zone
      /\ z[n] = item /\ \A i \in DOMAIN zone : z[i] = zone[i]
  OBVIOUS
<1> HIDE DEF z, n
<1>2. Ready(z) = Ready(zone) /\ Unsettled(z) = Unsettled(zone) \cup {n}
  BY <1>1 DEF Ready, Unsettled
<1>3. Ready(zone) \subseteq DOMAIN zone /\ Unsettled(zone) \subseteq DOMAIN zone
  BY DEF Ready, Unsettled
<1>4. PhotosAt(z, Ready(z)) = PhotosAt(zone, Ready(zone))
  BY <1>1, <1>2, <1>3 DEF PhotosAt
<1>5. PhotosAt(z, Unsettled(z)) = Spinning \cup {item.photo}
  BY <1>1, <1>2, <1>3 DEF PhotosAt, Spinning
<1> QED BY <1>1, <1>4, <1>5 DEF z

\* What the zone is doing, one part of it after another.
LEMMA TasksChange ==
    ASSUME NEW w \in Tasks, NEW p \in Photos
    PROVE  /\ \A n \in Nat : LET u == [w EXCEPT !.pressed[p] = n] IN
                /\ u \in Tasks /\ u.sends = w.sends /\ u.adjusts = w.adjusts /\ u.stuck = w.stuck
                /\ u.pressed[p] = n /\ \A q \in Photos \ {p} : u.pressed[q] = w.pressed[q]
           /\ \A n \in Nat : LET u == [w EXCEPT !.sends[p] = n] IN
                /\ u \in Tasks /\ u.pressed = w.pressed /\ u.adjusts = w.adjusts /\ u.stuck = w.stuck
                /\ u.sends[p] = n /\ \A q \in Photos \ {p} : u.sends[q] = w.sends[q]
           /\ \A k \in SUBSET Photos : LET u == [w EXCEPT !.stuck = k] IN
                /\ u \in Tasks /\ u.pressed = w.pressed /\ u.sends = w.sends /\ u.adjusts = w.adjusts /\ u.stuck = k
           /\ \A k \in SUBSET Photos : LET u == [w EXCEPT !.adjusts = k] IN
                /\ u \in Tasks /\ u.pressed = w.pressed /\ u.sends = w.sends /\ u.adjusts = k /\ u.stuck = w.stuck
           /\ w.pressed[p] \in Nat /\ w.sends[p] \in Nat /\ w.adjusts \in SUBSET Photos /\ w.stuck \in SUBSET Photos
<1> DEFINE Counts == [Photos -> Nat]
           Sets == SUBSET Photos
<1>1. Tasks = [pressed : Counts, sends : Counts, adjusts : Sets, stuck : Sets]
  BY DEF Tasks
<1>2. \A c \in Counts, n \in Nat : /\ [c EXCEPT ![p] = n] \in Counts /\ [c EXCEPT ![p] = n][p] = n
                                   /\ \A q \in Photos \ {p} : [c EXCEPT ![p] = n][q] = c[q]
  OBVIOUS
<1>3. w.pressed \in Counts /\ w.sends \in Counts /\ w.adjusts \in Sets /\ w.stuck \in Sets
  BY <1>1
<1>4. w.pressed[p] \in Nat /\ w.sends[p] \in Nat
  BY <1>3
<1> HIDE DEF Counts, Sets
<1>5. ASSUME NEW n \in Nat
      PROVE  LET u == [w EXCEPT !.pressed[p] = n] IN
             /\ u \in Tasks /\ u.sends = w.sends /\ u.adjusts = w.adjusts /\ u.stuck = w.stuck
             /\ u.pressed[p] = n /\ \A q \in Photos \ {p} : u.pressed[q] = w.pressed[q]
  <2> DEFINE c == [w.pressed EXCEPT ![p] = n]
  <2>1. c \in Counts /\ c[p] = n /\ \A q \in Photos \ {p} : c[q] = w.pressed[q]
    BY <1>2, <1>3
  <2>2. [w EXCEPT !.pressed[p] = n] = [w EXCEPT !.pressed = c]
    BY <1>1
  <2> HIDE DEF c
  <2>3. LET u == [w EXCEPT !.pressed = c] IN
        u \in Tasks /\ u.pressed = c /\ u.sends = w.sends /\ u.adjusts = w.adjusts /\ u.stuck = w.stuck
    BY <1>1, <2>1
  <2> QED BY <2>1, <2>2, <2>3
<1>6. ASSUME NEW n \in Nat
      PROVE  LET u == [w EXCEPT !.sends[p] = n] IN
             /\ u \in Tasks /\ u.pressed = w.pressed /\ u.adjusts = w.adjusts /\ u.stuck = w.stuck
             /\ u.sends[p] = n /\ \A q \in Photos \ {p} : u.sends[q] = w.sends[q]
  <2> DEFINE c == [w.sends EXCEPT ![p] = n]
  <2>1. c \in Counts /\ c[p] = n /\ \A q \in Photos \ {p} : c[q] = w.sends[q]
    BY <1>2, <1>3
  <2>2. [w EXCEPT !.sends[p] = n] = [w EXCEPT !.sends = c]
    BY <1>1
  <2> HIDE DEF c
  <2>3. LET u == [w EXCEPT !.sends = c] IN
        u \in Tasks /\ u.sends = c /\ u.pressed = w.pressed /\ u.adjusts = w.adjusts /\ u.stuck = w.stuck
    BY <1>1, <2>1
  <2> QED BY <2>1, <2>2, <2>3
<1>7. /\ \A k \in Sets : LET u == [w EXCEPT !.stuck = k] IN
           /\ u \in Tasks /\ u.pressed = w.pressed /\ u.sends = w.sends /\ u.adjusts = w.adjusts /\ u.stuck = k
      /\ \A k \in Sets : LET u == [w EXCEPT !.adjusts = k] IN
           /\ u \in Tasks /\ u.pressed = w.pressed /\ u.sends = w.sends /\ u.adjusts = k /\ u.stuck = w.stuck
  BY <1>1
<1> QED BY <1>3, <1>4, <1>5, <1>6, <1>7 DEF Sets

\* Whatever the zone knows of a photo: it is to be cropped, rendered, sent or cropped again, or
\* was passed over.
Known(q) ==
    \/ q \in ToSet(crops) \/ tasks.pressed[q] > 0 \/ tasks.sends[q] > 0
    \/ q \in tasks.adjusts \/ q \in tasks.stuck

LEMMA KnownIsInHand ==
    /\ \A q \in Photos : q \in InHand(crops, tasks) \cup tasks.stuck <=> Known(q)
    /\ \A q \in Photos : q \in (InHand(crops, tasks) \cup tasks.stuck)' <=> Known(q)'
BY DEF InHand, Known

\* The queue without its first photo.
LEMMA QueueShifts ==
    ASSUME crops \in Seq(Photos)
    PROVE  /\ Shifted(crops) \in Seq(Photos)
           /\ \A q \in ToSet(crops) : q \in ToSet(Shifted(crops)) \/ (crops # <<>> /\ q = Head(crops))
           /\ crops # <<>> => Shifted(crops) = Tail(crops) /\ Head(crops) \in Photos
<1>1. CASE crops = <<>>
  BY <1>1 DEF Shifted, ToSet
<1>2. CASE crops # <<>>
  <2>1. Shifted(crops) = Tail(crops) /\ Tail(crops) \in Seq(Photos) /\ Head(crops) = crops[1] /\ crops[1] \in Photos
    BY <1>2 DEF Shifted
  <2>2. ASSUME NEW i \in DOMAIN crops, i # 1
        PROVE  i - 1 \in DOMAIN Tail(crops) /\ Tail(crops)[i - 1] = crops[i]
    BY <1>2, <2>2
  <2>3. \A q \in ToSet(crops) : q \in ToSet(Tail(crops)) \/ q = Head(crops)
    BY <2>1, <2>2 DEF ToSet
  <2> QED BY <1>2, <2>1, <2>3
<1> QED BY <1>1, <1>2

LEMMA ForgetsTasks ==
    ASSUME NEW w \in Tasks, NEW p \in Photos
    PROVE  LET u == Forget(w, p) IN
           /\ u \in Tasks /\ u.pressed = w.pressed /\ u.adjusts = w.adjusts \ {p} /\ u.stuck = w.stuck \ {p}
           /\ \A q \in Photos \ {p} : u.sends[q] = w.sends[q]
<1> DEFINE a == [w EXCEPT !.sends[p] = 0]
           k == w.adjusts \ {p}
           b == [a EXCEPT !.adjusts = k]
           l == w.stuck \ {p}
           c == [b EXCEPT !.stuck = l]
<1>1. Forget(w, p) = c
  BY DEF Forget, Tasks
<1>2. k \in SUBSET Photos /\ l \in SUBSET Photos
  BY TasksChange
<1>3. /\ a \in Tasks /\ a.pressed = w.pressed /\ a.adjusts = w.adjusts /\ a.stuck = w.stuck
      /\ \A q \in Photos \ {p} : a.sends[q] = w.sends[q]
  BY TasksChange
<1> HIDE DEF a, k, l
<1>4. /\ b \in Tasks /\ b.pressed = a.pressed /\ b.sends = a.sends /\ b.adjusts = k /\ b.stuck = a.stuck
  BY <1>2, <1>3, TasksChange
<1> HIDE DEF b
<1>5. /\ c \in Tasks /\ c.pressed = b.pressed /\ c.sends = b.sends /\ c.adjusts = b.adjusts /\ c.stuck = l
  BY <1>2, <1>4, TasksChange
<1> HIDE DEF c
<1> QED BY <1>1, <1>3, <1>4, <1>5 DEF k, l

LEMMA RendersTasks ==
    ASSUME tasks \in Tasks, NEW p \in Photos, tasks.pressed[p] > 0
    PROVE  LET u == Rendered(p) IN
           /\ u \in Tasks /\ u.sends = tasks.sends /\ u.adjusts = tasks.adjusts /\ tasks.stuck \subseteq u.stuck
           /\ \A q \in Photos \ {p} : u.pressed[q] = tasks.pressed[q]
           /\ \A q \in Photos \ {p} : crops # <<>> /\ q = Head(crops) => tasks.pressed[q] > 0 \/ q \in u.stuck
<1> DEFINE passed == {q \in Photos : crops # <<>> /\ q = Head(crops) /\ q # p /\ tasks.pressed[q] = 0}
           n == tasks.pressed[p] - 1
           a == [tasks EXCEPT !.pressed[p] = n]
           l == tasks.stuck \cup passed
           b == [a EXCEPT !.stuck = l]
<1>1. Rendered(p) = b
  BY DEF Rendered, Tasks
<1>2. tasks.pressed[p] \in Nat /\ tasks.stuck \in SUBSET Photos
  BY TasksChange
<1>3. n \in Nat /\ l \in SUBSET Photos
  BY <1>2
<1>4. \A q \in Photos \ {p} : crops # <<>> /\ q = Head(crops) => tasks.pressed[q] > 0 \/ q \in l
  <2>1. \A q \in Photos : tasks.pressed[q] \in Nat
    BY TasksChange
  <2> QED BY <2>1
<1>5. tasks.stuck \subseteq l
  OBVIOUS
<1> HIDE DEF n, l
<1>6. /\ a \in Tasks /\ a.sends = tasks.sends /\ a.adjusts = tasks.adjusts
      /\ \A q \in Photos \ {p} : a.pressed[q] = tasks.pressed[q]
  BY <1>3, TasksChange
<1> HIDE DEF a
<1>7. b \in Tasks /\ b.pressed = a.pressed /\ b.sends = a.sends /\ b.adjusts = a.adjusts /\ b.stuck = l
  BY <1>3, <1>6, TasksChange
<1> HIDE DEF b
<1> QED BY <1>1, <1>4, <1>5, <1>6, <1>7

LEMMA SendsBackTasks ==
    ASSUME tasks \in Tasks, NEW p \in Photos, tasks.sends[p] > 0
    PROVE  LET u == SentBack(p) IN
           /\ u \in Tasks /\ u.pressed = tasks.pressed /\ u.adjusts = tasks.adjusts /\ u.stuck = tasks.stuck
           /\ \A q \in Photos \ {p} : u.sends[q] = tasks.sends[q]
<1> DEFINE n == tasks.sends[p] - 1
<1>1. n \in Nat
  <2>1. tasks.sends[p] \in Nat
    BY TasksChange
  <2> QED BY <2>1
<1>2. SentBack(p) = [tasks EXCEPT !.sends[p] = n]
  BY DEF SentBack
<1> HIDE DEF n
<1> QED BY <1>1, <1>2, TasksChange

\* What is on its way in the zone stays in hand, or is known to be stuck, if the other photos keep
\* what was done with them.
LEMMA StaysKnown ==
    ASSUME FormTypes, ZoneShows, NEW p \in Photos, \A q \in Photos \ {p} : Known(q) => Known(q)',
           Spinning' \subseteq Spinning \cup {p}, p \in Spinning' => Known(p)'
    PROVE  Spinning' \subseteq (InHand(crops, tasks) \cup tasks.stuck)'
<1>1. Spinning \subseteq Photos
  <2>1. \A i \in DOMAIN zone : zone[i] \in ZoneItem
    BY DEF FormTypes
  <2>2. \A i \in DOMAIN zone : zone[i].photo \in Photos
    BY <2>1 DEF ZoneItem
  <2> QED BY <2>2 DEF Spinning, PhotosAt, Unsettled
<1>2. \A q \in Spinning : Known(q)
  BY <1>1, KnownIsInHand DEF ZoneShows
<1>3. \A q \in Spinning' : q \in Photos /\ Known(q)'
  BY <1>1, <1>2
<1> QED BY <1>3, KnownIsInHand

TasksGoal ==
    /\ tasks' \in Tasks /\ crops' \in Seq(Photos)
    /\ Spinning' \subseteq (InHand(crops, tasks) \cup tasks.stuck)'

\* The queue and the tasks in each step of the zone.
LEMMA TasksStep ==
    ASSUME FormTypes, ZoneShows, ZoneActions
    PROVE  TasksGoal
<1>1. tasks \in Tasks /\ crops \in Seq(Photos) /\ zone \in Seq(ZoneItem)
  BY DEF FormTypes
<1>2. tasks.adjusts \in SUBSET Photos /\ tasks.stuck \in SUBSET Photos
  BY <1>1 DEF Tasks
<1>3. ASSUME NEW p \in Photos, NEW status \in {"uploading", "done", "error"}, zone' = ItemsIn(p, status)
      PROVE  Spinning' \subseteq Spinning \cup {p} /\ (status # "uploading" => p \notin Spinning')
  BY <1>1, <1>3, ChangedShow DEF Spinning
<1>4. ASSUME NEW p, zone' = Removed(p)
      PROVE  Spinning' = Spinning \ {p}
  BY <1>1, <1>4, RemovedItems DEF Spinning
<1>5. ASSUME zone' = zone
      PROVE  Spinning' = Spinning
  BY <1>5 DEF Spinning
<1>6. ASSUME NEW p \in Photos, ChooseFile(p)
      PROVE  TasksGoal
  <2> DEFINE item == [photo |-> p, status |-> "uploading"]
  <2>1. item \in ZoneItem /\ item.status = "uploading" /\ item.photo = p /\ zone' = Append(zone, item)
    BY <1>6 DEF ZoneItem, ChooseFile
  <2> HIDE DEF item
  <2>2. Spinning' = Spinning \cup {p}
    BY <1>1, <2>1, ChosenItem DEF Spinning
  <2>3. CASE p \in Videos
    <3>1. tasks' = [tasks EXCEPT !.sends[p] = 1] /\ crops' = crops
      BY <1>6, <2>3 DEF ChooseFile
    <3>2. /\ tasks' \in Tasks /\ tasks'.pressed = tasks.pressed /\ tasks'.adjusts = tasks.adjusts
          /\ tasks'.stuck = tasks.stuck /\ tasks'.sends[p] = 1
          /\ \A q \in Photos \ {p} : tasks'.sends[q] = tasks.sends[q]
      BY <1>1, <3>1, TasksChange
    <3>3. Known(p)' /\ \A q \in Photos \ {p} : Known(q) => Known(q)'
      BY <3>1, <3>2 DEF Known
    <3> QED BY <1>1, <2>2, <3>1, <3>2, <3>3, StaysKnown DEF TasksGoal
  <2>4. CASE p \notin Videos
    <3>1. tasks' = tasks /\ crops' = Append(crops, p)
      BY <1>6, <2>4 DEF ChooseFile
    <3>2. crops' \in Seq(Photos) /\ ToSet(crops) \subseteq ToSet(crops') /\ p \in ToSet(crops')
      <4>1. crops' \in Seq(Photos) /\ DOMAIN crops' = 1 .. (Len(crops) + 1) /\ crops'[Len(crops) + 1] = p
            /\ \A i \in DOMAIN crops : i \in DOMAIN crops' /\ crops'[i] = crops[i]
        BY <1>1, <3>1
      <4>2. Len(crops) + 1 \in DOMAIN crops'
        BY <1>1, <4>1
      <4> QED BY <4>1, <4>2 DEF ToSet
    <3>3. Known(p)' /\ \A q \in Photos \ {p} : Known(q) => Known(q)'
      BY <3>1, <3>2 DEF Known
    <3> QED BY <1>1, <2>2, <3>1, <3>2, <3>3, StaysKnown DEF TasksGoal
  <2> QED BY <2>3, <2>4
<1>7. ASSUME NEW p \in Photos, RemoveItem(p)
      PROVE  TasksGoal
  <2>1. tasks' = Forget(tasks, p) /\ crops' = crops /\ zone' = Removed(p)
    BY <1>7 DEF RemoveItem, TakeOut
  <2>2. /\ tasks' \in Tasks /\ tasks'.pressed = tasks.pressed /\ tasks'.adjusts = tasks.adjusts \ {p}
        /\ tasks'.stuck = tasks.stuck \ {p} /\ \A q \in Photos \ {p} : tasks'.sends[q] = tasks.sends[q]
    BY <1>1, <2>1, ForgetsTasks
  <2>3. \A q \in Photos \ {p} : Known(q) => Known(q)'
    BY <2>1, <2>2 DEF Known
  <2>4. Spinning' = Spinning \ {p}
    BY <1>4, <2>1
  <2> QED BY <1>1, <2>1, <2>2, <2>3, <2>4, StaysKnown DEF TasksGoal
<1>8. ASSUME NEW p \in Photos, UploadSettles(p) \/ UploadFails(p)
      PROVE  TasksGoal
  <2>1. tasks.sends[p] > 0 /\ crops' = crops
    BY <1>8 DEF UploadSettles, UploadFails
  <2>2. LET u == SentBack(p) IN
        /\ u \in Tasks /\ u.pressed = tasks.pressed /\ u.adjusts = tasks.adjusts /\ u.stuck = tasks.stuck
        /\ \A q \in Photos \ {p} : u.sends[q] = tasks.sends[q]
    BY <1>1, <2>1, SendsBackTasks
  <2>3. CASE tasks' = SentBack(p) /\ \E status \in {"done", "error"} : zone' = ItemsIn(p, status)
    <3>1. Spinning' \subseteq Spinning \cup {p} /\ p \notin Spinning'
      BY <1>3, <2>3
    <3>2. \A q \in Photos \ {p} : Known(q) => Known(q)'
      BY <2>1, <2>2, <2>3 DEF Known
    <3> QED BY <1>1, <2>1, <2>2, <2>3, <3>1, <3>2, StaysKnown DEF TasksGoal
  <2>4. CASE zone' = zone /\ tasks' = [SentBack(p) EXCEPT !.stuck = SentBack(p).stuck \cup {p}]
    <3> DEFINE u == SentBack(p)
               k == u.stuck \cup {p}
    <3>1. k \in SUBSET Photos /\ u \in Tasks
      BY <1>2, <2>2
    <3>2. p \in k /\ tasks.stuck \subseteq k
      BY <2>2
    <3>3. tasks' = [u EXCEPT !.stuck = k]
      BY <2>4
    <3>4. /\ u.pressed = tasks.pressed /\ u.adjusts = tasks.adjusts
          /\ \A q \in Photos \ {p} : u.sends[q] = tasks.sends[q]
      BY <2>2
    <3> HIDE DEF u, k
    <3>5. /\ tasks' \in Tasks /\ tasks'.pressed = u.pressed /\ tasks'.sends = u.sends /\ tasks'.adjusts = u.adjusts
          /\ tasks'.stuck = k
      BY <3>1, <3>3, TasksChange
    <3>6. Known(p)' /\ \A q \in Photos \ {p} : Known(q) => Known(q)'
      BY <2>1, <3>2, <3>4, <3>5 DEF Known
    <3> QED BY <1>1, <1>5, <2>1, <2>4, <3>5, <3>6, StaysKnown DEF TasksGoal
  <2>5. \/ tasks' = SentBack(p) /\ \E status \in {"done", "error"} : zone' = ItemsIn(p, status)
        \/ zone' = zone /\ tasks' = [SentBack(p) EXCEPT !.stuck = SentBack(p).stuck \cup {p}]
    <3>1. CASE UploadSettles(p)
      BY <3>1 DEF UploadSettles, Items
    <3>2. CASE UploadFails(p)
      BY <3>2 DEF UploadFails
    <3> QED BY <1>8, <3>1, <3>2
  <2> QED BY <2>3, <2>4, <2>5
<1>9. ASSUME NEW p \in Photos, AdjustConfirm(p)
      PROVE  TasksGoal
  <2> DEFINE k == tasks.adjusts \cup {p}
  <2>1. tasks' = [tasks EXCEPT !.adjusts = k] /\ crops' = crops /\ zone' = ItemsIn(p, "uploading")
    BY <1>9 DEF AdjustConfirm, Items
  <2>2. k \in SUBSET Photos /\ p \in k /\ tasks.adjusts \subseteq k
    BY <1>2
  <2> HIDE DEF k
  <2>3. /\ tasks' \in Tasks /\ tasks'.pressed = tasks.pressed /\ tasks'.sends = tasks.sends /\ tasks'.adjusts = k
        /\ tasks'.stuck = tasks.stuck
    BY <1>1, <2>1, <2>2, TasksChange
  <2>4. Known(p)' /\ \A q \in Photos \ {p} : Known(q) => Known(q)'
    BY <2>1, <2>2, <2>3 DEF Known
  <2>5. Spinning' \subseteq Spinning \cup {p}
    BY <1>3, <2>1
  <2> QED BY <1>1, <2>1, <2>3, <2>4, <2>5, StaysKnown DEF TasksGoal
<1>10. ASSUME NEW p \in Photos, AdjustSettles(p)
       PROVE  TasksGoal
  <2> DEFINE k == tasks.adjusts \ {p}
             a == [tasks EXCEPT !.adjusts = k]
             l == tasks.stuck \cup {p}
  <2>1. k \in SUBSET Photos /\ l \in SUBSET Photos /\ crops' = crops /\ tasks.stuck \subseteq l /\ p \in l
    BY <1>2, <1>10 DEF AdjustSettles
  <2>2. /\ a \in Tasks /\ a.pressed = tasks.pressed /\ a.sends = tasks.sends /\ a.adjusts = k /\ a.stuck = tasks.stuck
    BY <1>1, <2>1, TasksChange
  <2>3. \/ tasks' = a /\ zone' = ItemsIn(p, "done")
        \/ tasks' = [a EXCEPT !.stuck = l] /\ zone' = zone
    BY <1>1, <1>10 DEF AdjustSettles, Items, Tasks
  <2>4. \A q \in Photos \ {p} : q \in tasks.adjusts => q \in k
    OBVIOUS
  <2> HIDE DEF a, k, l
  <2>5. CASE tasks' = a /\ zone' = ItemsIn(p, "done")
    <3>1. Spinning' \subseteq Spinning \cup {p} /\ p \notin Spinning'
      BY <1>3, <2>5
    <3>2. \A q \in Photos \ {p} : Known(q) => Known(q)'
      BY <2>1, <2>2, <2>4, <2>5 DEF Known
    <3> QED BY <1>1, <2>1, <2>2, <2>5, <3>1, <3>2, StaysKnown DEF TasksGoal
  <2>6. CASE tasks' = [a EXCEPT !.stuck = l] /\ zone' = zone
    <3>1. /\ tasks' \in Tasks /\ tasks'.pressed = a.pressed /\ tasks'.sends = a.sends /\ tasks'.adjusts = a.adjusts
          /\ tasks'.stuck = l
      BY <2>1, <2>2, <2>6, TasksChange
    <3>2. Known(p)' /\ \A q \in Photos \ {p} : Known(q) => Known(q)'
      BY <2>1, <2>2, <2>4, <3>1 DEF Known
    <3> QED BY <1>1, <1>5, <2>1, <2>6, <3>1, <3>2, StaysKnown DEF TasksGoal
  <2> QED BY <2>3, <2>5, <2>6
<1>11. ASSUME NEW p \in Photos, SetPrimary(p)
       PROVE  TasksGoal
  <2>1. UNCHANGED <<crops, tasks>> /\ Spinning' \subseteq Spinning
    BY <1>1, <1>11, PrimaryShows DEF SetPrimary, Items, Spinning
  <2>2. \A q : Known(q) => Known(q)'
    BY <2>1 DEF Known
  <2>3. p \in Spinning' => Known(p)'
    BY <2>1, <2>2, KnownIsInHand DEF ZoneShows
  <2> QED BY <1>1, <2>1, <2>2, <2>3, StaysKnown DEF TasksGoal
<1>12. ASSUME NEW p \in Photos, CropRendered(p)
       PROVE  TasksGoal
  <2> DEFINE u == Rendered(p)
  <2>1. tasks.pressed[p] > 0 /\ crops' = Shifted(crops) /\ zone' = zone
    BY <1>12 DEF CropRendered
  <2>2. /\ u \in Tasks /\ u.sends = tasks.sends /\ u.adjusts = tasks.adjusts /\ tasks.stuck \subseteq u.stuck
        /\ \A q \in Photos \ {p} : u.pressed[q] = tasks.pressed[q]
        /\ \A q \in Photos \ {p} : crops # <<>> /\ q = Head(crops) => tasks.pressed[q] > 0 \/ q \in u.stuck
    BY <1>1, <2>1, RendersTasks
  <2>3. /\ Shifted(crops) \in Seq(Photos)
        /\ \A q \in ToSet(crops) : q \in ToSet(Shifted(crops)) \/ (crops # <<>> /\ q = Head(crops))
    BY <1>1, QueueShifts
  <2>4. tasks' = IF HasItem(p) THEN [u EXCEPT !.sends[p] = u.sends[p] + 1] ELSE u
    BY <1>12 DEF CropRendered
  <2> HIDE DEF u
  <2>5. CASE HasItem(p)
    <3> DEFINE n == u.sends[p] + 1
    <3>1. n \in Nat /\ n > 0
      <4>1. u.sends[p] \in Nat
        BY <2>2, TasksChange
      <4> QED BY <4>1
    <3>2. tasks' = [u EXCEPT !.sends[p] = n]
      BY <2>4, <2>5
    <3> HIDE DEF n
    <3>3. /\ tasks' \in Tasks /\ tasks'.pressed = u.pressed /\ tasks'.adjusts = u.adjusts /\ tasks'.stuck = u.stuck
          /\ tasks'.sends[p] = n /\ \A q \in Photos \ {p} : tasks'.sends[q] = u.sends[q]
      BY <2>2, <3>1, <3>2, TasksChange
    <3>4. Known(p)' /\ \A q \in Photos \ {p} : Known(q) => Known(q)'
      BY <2>1, <2>2, <2>3, <3>1, <3>3 DEF Known
    <3> QED BY <1>1, <1>5, <2>1, <2>3, <3>3, <3>4, StaysKnown DEF TasksGoal
  <2>6. CASE ~HasItem(p)
    <3>1. tasks' = u
      BY <2>4, <2>6
    <3>2. \A q \in Photos \ {p} : Known(q) => Known(q)'
      BY <2>1, <2>2, <2>3, <3>1 DEF Known
    <3>3. p \notin Spinning /\ Spinning' = Spinning
      BY <1>5, <2>1, <2>6 DEF HasItem, Spinning, PhotosAt, Unsettled
    <3> QED BY <1>1, <2>1, <2>2, <2>3, <3>1, <3>2, <3>3, StaysKnown DEF TasksGoal
  <2> QED BY <2>5, <2>6
<1>13. ASSUME NEW p \in Photos, CropFails(p)
       PROVE  TasksGoal
  <2> DEFINE u == Rendered(p)
  <2>1. tasks.pressed[p] > 0 /\ crops' = Shifted(crops) /\ zone' = Removed(p) /\ tasks' = Forget(u, p)
    BY <1>13 DEF CropFails, TakeOut
  <2>2. /\ u \in Tasks /\ u.sends = tasks.sends /\ u.adjusts = tasks.adjusts /\ tasks.stuck \subseteq u.stuck
        /\ \A q \in Photos \ {p} : u.pressed[q] = tasks.pressed[q]
        /\ \A q \in Photos \ {p} : crops # <<>> /\ q = Head(crops) => tasks.pressed[q] > 0 \/ q \in u.stuck
    BY <1>1, <2>1, RendersTasks
  <2>3. /\ Shifted(crops) \in Seq(Photos)
        /\ \A q \in ToSet(crops) : q \in ToSet(Shifted(crops)) \/ (crops # <<>> /\ q = Head(crops))
    BY <1>1, QueueShifts
  <2> HIDE DEF u
  <2>4. /\ tasks' \in Tasks /\ tasks'.pressed = u.pressed /\ tasks'.adjusts = u.adjusts \ {p}
        /\ tasks'.stuck = u.stuck \ {p} /\ \A q \in Photos \ {p} : tasks'.sends[q] = u.sends[q]
    BY <2>1, <2>2, ForgetsTasks
  <2>5. \A q \in Photos \ {p} : Known(q) => Known(q)'
    BY <2>1, <2>2, <2>3, <2>4 DEF Known
  <2>6. Spinning' = Spinning \ {p}
    BY <1>4, <2>1
  <2> QED BY <1>1, <2>1, <2>3, <2>4, <2>5, <2>6, StaysKnown DEF TasksGoal
<1>14. CASE ConfirmCrop
  <2>0. PICK p \in Photos : p = Head(crops)
    BY <1>1, <1>14, QueueShifts DEF ConfirmCrop
  <2> DEFINE n == tasks.pressed[p] + 1
  <2>1. crops' = crops /\ zone' = zone /\ tasks' = [tasks EXCEPT !.pressed[p] = n]
    BY <1>14, <2>0 DEF ConfirmCrop
  <2>2. n \in Nat /\ n > 0
    <3>1. tasks.pressed[p] \in Nat
      BY <1>1, <2>1, TasksChange
    <3> QED BY <3>1
  <2> HIDE DEF n
  <2>3. /\ tasks' \in Tasks /\ tasks'.sends = tasks.sends /\ tasks'.adjusts = tasks.adjusts /\ tasks'.stuck = tasks.stuck
        /\ tasks'.pressed[p] = n /\ \A q \in Photos \ {p} : tasks'.pressed[q] = tasks.pressed[q]
    BY <1>1, <2>1, <2>2, TasksChange
  <2>4. Known(p)' /\ \A q \in Photos \ {p} : Known(q) => Known(q)'
    BY <2>1, <2>2, <2>3 DEF Known
  <2> QED BY <1>1, <1>5, <2>1, <2>3, <2>4, StaysKnown DEF TasksGoal
<1>15. CASE CropCancel
  <2> DEFINE p == Head(crops)
  <2>1. /\ p \in Photos /\ crops' = Shifted(crops) /\ Shifted(crops) \in Seq(Photos)
        /\ \A q \in ToSet(crops) : q \in ToSet(Shifted(crops)) \/ q = p
    BY <1>1, <1>15, QueueShifts DEF CropCancel
  <2>2. zone' = Removed(p) /\ tasks' = Forget(tasks, p)
    BY <1>15 DEF CropCancel, TakeOut
  <2> HIDE DEF p
  <2>3. /\ tasks' \in Tasks /\ tasks'.pressed = tasks.pressed /\ tasks'.adjusts = tasks.adjusts \ {p}
        /\ tasks'.stuck = tasks.stuck \ {p} /\ \A q \in Photos \ {p} : tasks'.sends[q] = tasks.sends[q]
    BY <1>1, <2>1, <2>2, ForgetsTasks
  <2>4. \A q \in Photos \ {p} : Known(q) => Known(q)'
    BY <2>1, <2>3 DEF Known
  <2>5. Spinning' = Spinning \ {p}
    BY <1>4, <2>2
  <2> QED BY <1>1, <2>1, <2>3, <2>4, <2>5, StaysKnown DEF TasksGoal
<1> QED BY <1>6, <1>7, <1>8, <1>9, <1>10, <1>11, <1>12, <1>13, <1>14, <1>15 DEF ZoneActions

\* Whatever is done in the zone, the form has the photos that are ready there, and the photos
\* that are wanted are ready, under way or lost.
LEMMA ZoneStep ==
    ASSUME FormTypes, ZoneShows, ZoneActions
    PROVE  /\ ZoneShows' /\ FormTypes' /\ values'.filling = values.filling
           /\ UNCHANGED <<form, step, draft, server, begun>>
<1>1. /\ zone \in Seq(ZoneItem) /\ values \in Values /\ values.wanted \in SUBSET Photos
      /\ values.wanted \subseteq PhotosAt(zone, Ready(zone)) \cup Spinning \cup values.lost
  BY ValuesKeepType DEF FormTypes, ZoneShows, ItemsShown
<1>2. UNCHANGED <<form, step, draft, server, begun>>
  BY DEF ZoneActions, ChooseFile, RemoveItem, UploadSettles, UploadFails, AdjustConfirm, AdjustSettles,
         SetPrimary, CropRendered, CropFails, ConfirmCrop, CropCancel, ZoneOnly
<1>3. mishaps' \in Nat
  <2>1. Smooth \/ Mishap
    BY DEF ZoneActions, ChooseFile, RemoveItem, UploadSettles, UploadFails, AdjustConfirm, AdjustSettles,
           SetPrimary, CropRendered, CropFails, ConfirmCrop, CropCancel
  <2> QED BY <2>1 DEF Smooth, Mishap, FormTypes
<1>4. tasks' \in Tasks /\ crops' \in Seq(Photos) /\ Spinning' \subseteq (InHand(crops, tasks) \cup tasks.stuck)'
  BY TasksStep DEF TasksGoal
<1> DEFINE Goal == ItemsShown' /\ zone' \in Seq(ZoneItem) /\ values' \in Values /\ values'.filling = values.filling
\* Out of the zone, in another status, or as they were.
<1>5. ASSUME NEW p, TakeOut(p)
      PROVE  Goal
  <2>1. /\ Removed(p) \in Seq(ZoneItem) /\ values.wanted \ {p} \in SUBSET Photos
        /\ values.wanted \ {p} \subseteq PhotosAt(Removed(p), Ready(Removed(p)))
                                           \cup PhotosAt(Removed(p), Unsettled(Removed(p))) \cup values.lost
    BY <1>1, RemovedItems
  <2>2. zone' = Removed(p) /\ values' = [values EXCEPT !.images = ReadyPhotos(Removed(p)), !.wanted = values.wanted \ {p}]
    BY <1>1, <1>5 DEF TakeOut, Values
  <2> QED BY <2>1, <2>2, ZoneMoves
<1>6. ASSUME NEW p, NEW status \in {"uploading", "done"}, Items(ItemsIn(p, status))
      PROVE  Goal
  <2>1. ItemsIn(p, status) \in Seq(ZoneItem)
    BY <1>1, ChangedItems
  <2>2. values.wanted \subseteq PhotosAt(ItemsIn(p, status), Ready(ItemsIn(p, status)))
                                  \cup PhotosAt(ItemsIn(p, status), Unsettled(ItemsIn(p, status))) \cup values.lost
    BY <1>1, ChangedShow
  <2> QED BY <1>1, <1>6, <2>1, <2>2, ZoneMoves DEF Items
<1>7. ASSUME UNCHANGED <<zone, values>>
      PROVE  Goal
  BY <1>1, <1>7 DEF ItemsShown, ZoneShows, Spinning
<1>8. ASSUME NEW p \in Photos, UploadFails(p)
      PROVE  Goal
  <2>1. ItemsIn(p, "error") \in Seq(ZoneItem) /\ values.wanted \ {p} \in SUBSET Photos
    BY <1>1, ChangedItems
  <2>2. values.wanted \ {p} \subseteq PhotosAt(ItemsIn(p, "error"), Ready(ItemsIn(p, "error")))
                                        \cup PhotosAt(ItemsIn(p, "error"), Unsettled(ItemsIn(p, "error"))) \cup values.lost
    BY <1>1, ChangedShow
  <2>3. CASE zone' = ItemsIn(p, "error") /\
             values' = [values EXCEPT !.images = ReadyPhotos(ItemsIn(p, "error")), !.wanted = values.wanted \ {p}]
    BY <2>1, <2>2, <2>3, ZoneMoves
  <2>4. \/ zone' = ItemsIn(p, "error") /\
             values' = [values EXCEPT !.images = ReadyPhotos(ItemsIn(p, "error")), !.wanted = values.wanted \ {p}]
        \/ UNCHANGED <<zone, values>>
    BY <1>1, <1>8 DEF UploadFails, Values
  <2> QED BY <1>7, <2>3, <2>4
<1>9. ASSUME NEW p \in Photos, ChooseFile(p)
      PROVE  Goal
  <2> DEFINE item == [photo |-> p, status |-> "uploading"]
             w == values.wanted \cup {p}
             l == values.lost \ {p}
  <2>1. item \in ZoneItem /\ item.status = "uploading" /\ item.photo = p
    BY DEF ZoneItem
  <2>2. zone' = Append(zone, item) /\ values' = [values EXCEPT !.wanted = w, !.lost = l]
    BY <1>1, <1>9 DEF ChooseFile, Values
  <2> HIDE DEF item
  <2>3. /\ zone' \in Seq(ZoneItem)
        /\ PhotosAt(zone', Ready(zone')) = PhotosAt(zone, Ready(zone))
        /\ PhotosAt(zone', Unsettled(zone')) = Spinning \cup {p}
    BY <1>1, <2>1, <2>2, ChosenItem
  <2>4. w \in SUBSET Photos /\ l \in SUBSET Photos
    BY <1>1, ValuesKeepType
  <2>5. w \subseteq PhotosAt(zone, Ready(zone)) \cup Spinning \cup {p} \cup l
    BY <1>1
  <2> HIDE DEF w, l
  <2>6. values.images \in Seq(Photos) /\ [values EXCEPT !.wanted = w, !.lost = l] \in Values
    BY <1>1, <2>4, ValuesKeepType
  <2>7. /\ values' \in Values /\ values'.images = values.images /\ values'.wanted = w /\ values'.lost = l
        /\ values'.filling = values.filling
    BY <1>1, <2>2, <2>6, ImagesChange
  <2> QED BY <2>3, <2>5, <2>7 DEF ZoneShows, ItemsShown, Spinning
<1>10. ASSUME NEW p, SetPrimary(p)
      PROVE  Goal
  <2> DEFINE z == Those(zone, {i \in DOMAIN zone : zone[i].photo = p}) \o Removed(p)
  <2>1. /\ z \in Seq(ZoneItem)
        /\ PhotosAt(zone, Ready(zone)) \cup Spinning \subseteq PhotosAt(z, Ready(z)) \cup PhotosAt(z, Unsettled(z))
    BY <1>1, PrimaryShows
  <2>2. zone' = z /\ values' = [values EXCEPT !.images = ReadyPhotos(z)]
    BY <1>10 DEF SetPrimary, Items
  <2> HIDE DEF z
  <2>3. values.wanted \subseteq PhotosAt(z, Ready(z)) \cup PhotosAt(z, Unsettled(z)) \cup values.lost
    BY <1>1, <2>1
  <2> QED BY <1>1, <2>1, <2>2, <2>3, ZoneMoves
<1>11. ASSUME ConfirmCrop \/ CropCancel
       PROVE  Goal
  <2>1. CASE ConfirmCrop
    BY <1>7, <2>1 DEF ConfirmCrop
  <2>2. CASE CropCancel
    BY <1>5, <2>2 DEF CropCancel
  <2> QED BY <1>11, <2>1, <2>2
<1>12. ASSUME NEW p \in Photos,
              RemoveItem(p) \/ UploadSettles(p) \/ UploadFails(p) \/ AdjustConfirm(p) \/ AdjustSettles(p)
                  \/ SetPrimary(p) \/ ChooseFile(p) \/ CropRendered(p) \/ CropFails(p)
       PROVE  Goal
  <2>1. CASE RemoveItem(p) \/ CropFails(p)
    BY <1>5, <2>1 DEF RemoveItem, CropFails
  <2>2. CASE UploadSettles(p) \/ AdjustConfirm(p)
    BY <1>6, <2>2 DEF UploadSettles, AdjustConfirm
  <2>3. CASE AdjustSettles(p)
    <3>1. Items(ItemsIn(p, "done")) \/ UNCHANGED <<zone, values>>
      BY <2>3 DEF AdjustSettles
    <3> QED BY <1>6, <1>7, <3>1
  <2>4. CASE CropRendered(p)
    BY <1>7, <2>4 DEF CropRendered
  <2> QED BY <1>8, <1>9, <1>10, <1>12, <2>1, <2>2, <2>3, <2>4
<1>13. Goal
  <2> HIDE DEF Goal
  <2> QED BY <1>11, <1>12 DEF ZoneActions
<1>14. ZoneShows'
  BY <1>4, <1>13 DEF ZoneShows
<1> QED BY <1>2, <1>3, <1>4, <1>13, <1>14 DEF FormTypes, server

\* Requests: sent, answered by the API, and what the page does with the answer.
LEMMA PostsType ==
    ASSUME FormTypes,
           \/ SendForm \/ PublishAnother
           \/ \E r \in posts : CreateListing(r) \/ Published(r) \/ NotPublished(r)
    PROVE  FormTypes'
<1>1. CASE SendForm
  <2> DEFINE new == [n |-> sent + 1, at |-> "sent", from |-> "here", body |-> values]
  <2>1. new \in Post /\ sent + 1 \in Nat /\ values.filling \in Nat
    BY DEF FormTypes, Post, Values
  <2>2. posts' = posts \cup {new} /\ sent' = sent + 1 /\ again' \subseteq again \cup {values.filling}
    BY <1>1 DEF SendForm
  <2> HIDE DEF new
  <2>3. posts' \subseteq Post /\ sent' \in Nat /\ again' \subseteq Nat
    BY <2>1, <2>2 DEF FormTypes
  <2> QED BY <1>1, <2>3 DEF SendForm, FormTypes
<1>2. CASE PublishAnother
  <2>1. begun + 1 \in Nat /\ values \in Values
    BY DEF FormTypes
  <2>2. [values EXCEPT !.filling = begun + 1] \in Values
    BY <2>1, ValuesKeepType
  <2>3. values' \in Values /\ begun' \in Nat
    BY <1>2, <2>1, <2>2 DEF PublishAnother
  <2> QED BY <1>2, <2>3 DEF PublishAnother, FormTypes, server
<1>3. ASSUME NEW r \in posts, CreateListing(r)
      PROVE  FormTypes'
  <2>1. r \in Post /\ r.body \in Values
    BY DEF FormTypes, Post
  <2>2. [r EXCEPT !.at = "created"] \in Post /\ [r EXCEPT !.at = "refused"] \in Post
    BY <2>1 DEF Post
  <2>3. posts' \subseteq Post
    BY <1>3, <2>2 DEF CreateListing, FormTypes
  <2> DEFINE row == [filling |-> r.body.filling, min |-> r.body.min, max |-> r.body.max,
                     images |-> r.body.images, writes |-> 0, wanted |-> r.body.wanted, lost |-> r.body.lost]
  <2>4. row \in FormRow
    BY <2>1 DEF Values, FormRow
  <2>5. rows' = Append(rows, row) \/ rows' = rows
    BY <1>3 DEF CreateListing
  <2> HIDE DEF row
  <2>6. rows' \in Seq(FormRow)
    BY <2>4, <2>5 DEF FormTypes
  <2>7. mishaps' \in Nat
    BY <1>3 DEF CreateListing, Smooth, Mishap, FormTypes
  <2> QED BY <1>3, <2>3, <2>6, <2>7 DEF CreateListing, FormTypes
<1>4. ASSUME NEW r \in posts, Published(r)
      PROVE  FormTypes'
  <2>1. r.body \in Values /\ r.body.filling \in Nat
    BY DEF FormTypes, Post, Values
  <2>2. posts' \subseteq Post /\ draft' \in Values \cup {NoDraft} /\ again' \subseteq Nat /\ mishaps' \in Nat
    <3>1. posts' = posts \ {r} /\ (again' = again \/ again' = again \cup {r.body.filling})
      BY <1>4 DEF Published
    <3>2. draft' = draft \/ draft' = NoDraft
      BY <1>4 DEF Published, DropDraft
    <3>3. mishaps' = mishaps \/ mishaps' = mishaps + 1
      BY <1>4 DEF Published, Smooth, Mishap
    <3>4. posts \subseteq Post /\ again \subseteq Nat /\ draft \in Values \cup {NoDraft} /\ mishaps \in Nat
      BY DEF FormTypes
    <3>5. mishaps' \in Nat
      BY <3>3, <3>4
    <3>6. again' \subseteq Nat /\ posts' \subseteq Post
      BY <2>1, <3>1, <3>4
    <3> QED BY <3>2, <3>4, <3>5, <3>6
  <2>3. /\ values' \in Values /\ zone' \in Seq(ZoneItem) /\ crops' \in Seq(Photos) /\ tasks' \in Tasks
        /\ form' \in {"away", "wizard", "success", "edit"} /\ step' \in 0..5
    <3>1. LeaveZone(values) \in Values
      BY LeaveZoneType DEF FormTypes
    <3>2. <<>> \in Seq(ZoneItem) /\ <<>> \in Seq(Photos) /\ 0 \in 0..5
      OBVIOUS
    <3>3. \/ /\ form' = "success" /\ step' = 0 /\ zone' = <<>> /\ crops' = <<>> /\ tasks' = NoTasks
             /\ values' = LeaveZone(values)
          \/ UNCHANGED <<form, step, values, zone, crops, tasks>>
      BY <1>4 DEF Published, NoZone
    <3> QED BY <3>1, <3>2, <3>3, NoTasksType DEF FormTypes
  <2> QED BY <1>4, <2>2, <2>3 DEF Published, FormTypes
<1>5. ASSUME NEW r \in posts, NotPublished(r)
      PROVE  FormTypes'
  BY <1>5 DEF NotPublished, FormTypes
<1> QED BY <1>1, <1>2, <1>3, <1>4, <1>5

LEMMA RangesGiven ==
    ASSUME FormTypes, rows # <<>>, NEW v \in Values
    PROVE  /\ rows[1] \in FormRow /\ 1 \in DOMAIN rows
           /\ Or(v.min, rows[1].min) \in Nat /\ Or(v.max, rows[1].max) \in Nat
<1>1. rows[1] \in FormRow /\ 1 \in DOMAIN rows
  BY DEF FormTypes
<1> QED BY <1>1 DEF FormRow, Values, Or

\* The other tab sends what it has, with other nights.
LEMMA OtherSends ==
    ASSUME FormTypes, SaveElsewhere
    PROVE  \E v \in Values : /\ saves' = saves \cup {ChangeRequest("elsewhere", v)} /\ other # NoForm
                             /\ v.images = other.images /\ v.wanted = other.wanted /\ v.lost = other.lost
                             /\ v.basis = other.basis
<1>1. PICK min, max \in Nights \cup {NotGiven} :
        saves' = saves \cup {ChangeRequest("elsewhere", [other EXCEPT !.min = min, !.max = max])}
  BY DEF SaveElsewhere
<1>2. min \in Nat /\ max \in Nat /\ other \in Values /\ other # NoForm
  BY FormAssumption DEF NotGiven, FormTypes, SaveElsewhere
<1> DEFINE v == [other EXCEPT !.min = min, !.max = max]
<1>3. v \in Values
  BY <1>2, ValuesKeepType
<1>4. v.images = other.images /\ v.wanted = other.wanted /\ v.lost = other.lost /\ v.basis = other.basis
  BY <1>2 DEF Values
<1>5. saves' = saves \cup {ChangeRequest("elsewhere", v)}
  BY <1>1
<1> HIDE DEF v
<1> QED BY <1>2, <1>3, <1>4, <1>5

LEMMA SavesType ==
    ASSUME FormTypes, CheckedHolds,
           Save \/ SaveElsewhere \/ (\E r \in saves : UpdateChecks(r) \/ UpdateWrites(r) \/ SaveSettles(r))
    PROVE  FormTypes'
<1>1. CASE Save \/ SaveElsewhere
  <2>1. PICK from \in {"here", "elsewhere"}, v \in Values : saves' = saves \cup {ChangeRequest(from, v)}
    <3>1. CASE Save
      BY <3>1 DEF Save, FormTypes
    <3>2. CASE SaveElsewhere
      BY <3>2, OtherSends
    <3> QED BY <1>1, <3>1, <3>2
  <2>2. ChangeRequest(from, v) \in Saving /\ saved + 1 \in Nat
    BY DEF ChangeRequest, Saving, FormTypes
  <2>3. saves' \subseteq Saving /\ saved' \in Nat
    BY <1>1, <2>1, <2>2 DEF Save, SaveElsewhere, FormTypes
  <2>4. other' \in Values \cup {NoForm} /\ mishaps' \in Nat
    <3>1. other' \in {other, NoForm} /\ (mishaps' = mishaps \/ mishaps' = mishaps + 1)
      BY <1>1 DEF Save, SaveElsewhere, Smooth, Mishap
    <3> QED BY <3>1 DEF FormTypes
  <2> QED BY <1>1, <2>3, <2>4 DEF Save, SaveElsewhere, FormTypes
<1>2. ASSUME NEW r \in saves, NEW at \in {"sent", "checked", "written", "refused"}
      PROVE  [r EXCEPT !.at = at] \in Saving
  BY DEF FormTypes, Saving
<1>3. ASSUME NEW r \in saves, UpdateChecks(r)
      PROVE  FormTypes'
  <2>1. saves' \subseteq Saving /\ overlap' \in BOOLEAN
    BY <1>2, <1>3 DEF UpdateChecks, FormTypes
  <2>2. mishaps' \in Nat
    BY <1>3 DEF UpdateChecks, Smooth, Mishap, FormTypes
  <2> QED BY <1>3, <2>1, <2>2 DEF UpdateChecks, FormTypes
<1>4. ASSUME NEW r \in saves, UpdateWrites(r)
      PROVE  FormTypes'
  <2>1. r.body \in Values /\ rows # <<>> /\ rows \in Seq(FormRow)
    BY <1>4 DEF FormTypes, Saving, CheckedHolds
  <2>2. rows[1] \in FormRow /\ Or(r.body.min, rows[1].min) \in Nat /\ Or(r.body.max, rows[1].max) \in Nat
    BY <2>1, RangesGiven
  <2> DEFINE wanted == IF r.from = "elsewhere" THEN rows[1].wanted
                       ELSE r.body.wanted \cup (rows[1].wanted \cap WrittenOver(r))
             lost == WrittenOver(r) \cup IF r.from = "elsewhere" THEN rows[1].lost ELSE r.body.lost
             writes == rows[1].writes + 1
             row == [rows[1] EXCEPT !.min = Or(r.body.min, rows[1].min), !.max = Or(r.body.max, rows[1].max),
                                    !.images = r.body.images, !.writes = writes, !.wanted = wanted, !.lost = lost]
  <2>3. r.body.images \in Seq(Photos) /\ wanted \in SUBSET Photos /\ lost \in SUBSET Photos /\ writes \in Nat
    <3>1. /\ rows[1].images \in Seq(Photos) /\ rows[1].wanted \in SUBSET Photos /\ rows[1].lost \in SUBSET Photos
          /\ rows[1].writes \in Nat
      BY <2>2 DEF FormRow
    <3>2. r.body.images \in Seq(Photos) /\ r.body.wanted \in SUBSET Photos /\ r.body.lost \in SUBSET Photos
      BY <2>1, ValuesKeepType
    <3>3. WrittenOver(r) \subseteq Photos
      BY <3>1 DEF WrittenOver, ToSet
    <3> QED BY <3>1, <3>2, <3>3
  <2>4. row \in FormRow
    <3> HIDE DEF wanted, lost, writes
    <3> QED BY <2>2, <2>3 DEF FormRow
  <2>5. rows' = [rows EXCEPT ![1] = row]
    BY <1>4, <2>1, <2>2 DEF UpdateWrites, FormRow
  <2> HIDE DEF row
  <2>6. rows' \in Seq(FormRow)
    BY <2>1, <2>4, <2>5
  <2>7. saves' \subseteq Saving
    BY <1>2, <1>4 DEF UpdateWrites, FormTypes
  <2> QED BY <1>4, <2>6, <2>7 DEF UpdateWrites, FormTypes
<1>5. ASSUME NEW r \in saves, SaveSettles(r)
      PROVE  FormTypes'
  <2>1. saves' \subseteq Saving /\ mishaps' \in Nat
    BY <1>5 DEF SaveSettles, Smooth, Mishap, FormTypes
  <2>2. /\ values' \in Values /\ zone' \in Seq(ZoneItem) /\ crops' \in Seq(Photos) /\ tasks' \in Tasks
        /\ form' \in {"away", "wizard", "success", "edit"} /\ step' \in 0..5
    <3>1. Blank(0) \in Values
      BY ValuesKeepType DEF FormTypes
    <3>2. <<>> \in Seq(ZoneItem) /\ <<>> \in Seq(Photos) /\ 0 \in 0..5
      OBVIOUS
    <3>3. \/ form' = "away" /\ step' = 0 /\ zone' = <<>> /\ crops' = <<>> /\ tasks' = NoTasks /\ values' = Blank(0)
          \/ UNCHANGED <<form, step, values, zone, crops, tasks>>
      BY <1>5 DEF SaveSettles, NoZone
    <3> QED BY <3>1, <3>2, <3>3, NoTasksType DEF FormTypes
  <2> QED BY <1>5, <2>1, <2>2 DEF SaveSettles, FormTypes
<1> QED BY <1>1, <1>3, <1>4, <1>5

FieldActions ==
    FillBasics \/ FillPlace \/ FillPrices \/ FillNights \/ EditFields \/ EditPlace \/ EditNights
StepActions == Advance \/ GoNext \/ GoBack
PageActions == OpenWizard \/ OpenEdit \/ OpenElsewhere \/ Leave \/ SessionEnds
PostActions ==
    \/ SendForm \/ PublishAnother
    \/ \E r \in posts : CreateListing(r) \/ Published(r) \/ NotPublished(r)
SaveActions ==
    Save \/ SaveElsewhere \/ (\E r \in saves : UpdateChecks(r) \/ UpdateWrites(r) \/ SaveSettles(r))

\* Only a form at the step of its photos has items in a zone.
LEMMA ItemsAreShown ==
    ASSUME PhotosFollow, FormTypes, ZoneActions
    PROVE  ZoneShows /\ InZone
<1>1. InZone \/ zone # <<>> \/ tasks # NoTasks
  <2>1. ASSUME NEW p, NEW status, Has(p, status)
        PROVE  zone # <<>>
    BY <2>1 DEF Has
  <2>2. ASSUME NEW p \in Photos, tasks.pressed[p] > 0 \/ tasks.sends[p] > 0 \/ p \in tasks.adjusts
        PROVE  tasks # NoTasks
    BY <2>2 DEF NoTasks
  <2>3. CASE \E p \in Photos : AdjustConfirm(p) \/ SetPrimary(p)
    BY <2>1, <2>3 DEF AdjustConfirm, SetPrimary
  <2>4. CASE \E p \in Photos : \/ UploadSettles(p) \/ UploadFails(p) \/ AdjustSettles(p) \/ CropRendered(p)
                               \/ CropFails(p)
    BY <2>2, <2>4 DEF UploadSettles, UploadFails, AdjustSettles, CropRendered, CropFails
  <2>5. CASE (\E p \in Photos : ChooseFile(p) \/ RemoveItem(p)) \/ ConfirmCrop \/ CropCancel
    BY <2>5 DEF ChooseFile, RemoveItem, ConfirmCrop, CropCancel
  <2> QED BY <2>3, <2>4, <2>5 DEF ZoneActions
<1>2. InZone
  BY <1>1 DEF PhotosFollow
<1>3. ToSet(values.images) = PhotosAt(zone, Ready(zone))
  BY <1>2 DEF PhotosFollow
<1> QED BY <1>2, <1>3 DEF PhotosFollow, ZoneShows, ItemsShown

\* A form that leaves its zone has every photo that is still wanted, or has it as lost.
LEMMA LeftIsWhole ==
    ASSUME FormTypes, PhotosFollow
    PROVE  /\ LeaveZone(values) \in Values /\ HasAll(LeaveZone(values))
           /\ LeaveZone(values).filling = values.filling
<1>1. /\ LeaveZone(values) \in Values /\ LeaveZone(values).filling = values.filling
      /\ LeaveZone(values).images = values.images /\ LeaveZone(values).wanted = values.wanted \ UnderWay
      /\ LeaveZone(values).lost = values.lost \cup (Spinning \cap tasks.stuck)
  BY LeaveZoneType DEF FormTypes
<1>2. values.wanted \ UnderWay \subseteq ToSet(values.images) \cup values.lost \cup (Spinning \cap tasks.stuck)
  BY DEF PhotosFollow, HasAll, UnderWay
<1> QED BY <1>1, <1>2 DEF HasAll

\* So has the draft of a wizard that is left.
LEMMA LeftDraftIsWhole ==
    ASSUME FormTypes, PhotosFollow, draft # NoDraft
    PROVE  HasAll(LeftDraft)
<1>1. LeaveZone(values).images = values.images
  BY LeaveZoneType DEF FormTypes
<1>2. LeaveZone(values).wanted \subseteq ToSet(values.images) \cup LeaveZone(values).lost
  BY <1>1, LeftIsWhole DEF HasAll
<1> QED BY <1>2, LeftDraftType DEF HasAll

LEMMA BlankIsWhole ==
    ASSUME NEW n
    PROVE  HasAll(Blank(n)) /\ Blank(n).filling = n
BY DEF HasAll, Blank

LEMMA NextTypes ==
    ASSUME FormTypes, PhotosFollow, CheckedHolds, [FormNext]_formVars
    PROVE  /\ FormTypes'
           /\ FieldActions \/ StepActions \/ PageActions \/ ZoneActions \/ PostActions \/ SaveActions
                  \/ UNCHANGED formVars
<1>1. FieldActions \/ StepActions \/ PageActions \/ ZoneActions \/ PostActions \/ SaveActions \/ UNCHANGED formVars
  BY DEF FormNext, FieldActions, StepActions, PageActions, ZoneActions, PostActions, SaveActions,
         Submit, PressEnter
<1>2. CASE FieldActions
  BY <1>2, FieldsType DEF FieldActions
<1>3. CASE StepActions
  BY <1>3, StepsType DEF StepActions
<1>4. CASE PageActions
  BY <1>4, PagesType DEF PageActions
<1>5. CASE ZoneActions
  BY <1>5, ItemsAreShown, ZoneStep
<1>6. CASE PostActions
  BY <1>6, PostsType DEF PostActions
<1>7. CASE SaveActions
  BY <1>7, SavesType DEF SaveActions
<1>8. CASE UNCHANGED formVars
  BY <1>8 DEF formVars, FormTypes
<1> QED BY <1>1, <1>2, <1>3, <1>4, <1>5, <1>6, <1>7, <1>8

\* A step of the form that shows the values v whole.
LEMMA ShownIsWhole ==
    ASSUME NEW s \in 0..5, NEW v \in Values, HasAll(v), ShowStep(s, v), form' = form, Editing
    PROVE  IF InZone' THEN ZoneShows' ELSE zone' = <<>> /\ tasks' = NoTasks /\ HasAll(values')
<1>1. InZone' <=> s = PhotoStep
  BY DEF InZone, Editing, PhotoStep, ShowStep
<1>2. CASE s = PhotoStep
  <2> DEFINE z == ZoneOf(v.images)
             images == ReadyPhotos(z)
  <2>1. zone' = z /\ values' = [v EXCEPT !.images = images]
    BY <1>2 DEF ShowStep
  <2>2. v.images \in Seq(Photos)
    BY ValuesKeepType
  <2>3. z \in Seq(ZoneItem) /\ PhotosAt(z, Ready(z)) = ToSet(v.images)
    BY <2>2, ZoneStarts
  <2>4. ToSet(images) = PhotosAt(z, Ready(z))
    BY <2>3, ReadyIsDone
  <2>9. Spinning' = {}
    <3>1. \A i \in DOMAIN z : z[i].status = "done"
      BY DEF ZoneOf
    <3> QED BY <2>1, <3>1 DEF Spinning, PhotosAt, Unsettled
  <2> HIDE DEF images, z
  <2>5. values'.images = images /\ values'.wanted = v.wanted /\ values'.lost = v.lost
    BY <2>1, ImagesChange
  <2>6. PhotosAt(zone, Ready(zone))' = PhotosAt(z, Ready(z))
    BY <2>1
  <2>7. values'.wanted \subseteq ToSet(values'.images) \cup values'.lost
    BY <2>3, <2>4, <2>5 DEF HasAll
  <2>8. ToSet(values'.images) = PhotosAt(zone, Ready(zone))'
    BY <2>4, <2>5, <2>6
  <2> QED BY <1>1, <1>2, <2>7, <2>8, <2>9 DEF ZoneShows, ItemsShown
<1>3. CASE s # PhotoStep
  BY <1>1, <1>3 DEF ShowStep
<1> QED BY <1>2, <1>3

\* The parts of what the forms, the drafts and the requests have.
LEMMA FollowsWith ==
    ASSUME IF InZone' THEN ZoneShows' ELSE zone' = <<>> /\ tasks' = NoTasks /\ HasAll(values)',
           draft' # NoDraft => HasAll(draft'), other' # NoForm => HasAll(other'),
           \A r \in (posts \cup saves)' : HasAll(r.body)
    PROVE  PhotosFollow'
<1>1. CASE InZone'
  <2>1. ItemsShown' /\ Spinning' \subseteq (InHand(crops, tasks) \cup tasks.stuck)'
    BY <1>1 DEF ZoneShows
  <2> QED BY <1>1, <2>1 DEF PhotosFollow, ItemsShown, HasAll
<1>2. CASE ~InZone'
  BY <1>2 DEF PhotosFollow, HasAll
<1> QED BY <1>1, <1>2

LEMMA ShowsSame ==
    ASSUME PhotosFollow, UNCHANGED <<form, step, values, zone, crops, tasks>>
    PROVE  IF InZone' THEN ZoneShows' ELSE zone' = <<>> /\ tasks' = NoTasks /\ HasAll(values)'
<1>1. InZone' <=> InZone
  BY DEF InZone, Editing, PhotoStep
<1>2. Spinning' = Spinning /\ InHand(crops, tasks)' = InHand(crops, tasks)
  BY DEF Spinning, InHand
<1> QED BY <1>1, <1>2 DEF PhotosFollow, ZoneShows, ItemsShown, HasAll

LEMMA LoadedIsWhole ==
    ASSUME FormTypes, PhotosKept, rows # <<>>
    PROVE  HasAll(Loaded(rows[1]))
<1>1. 1 \in DOMAIN rows
  BY DEF FormTypes
<1> QED BY <1>1 DEF PhotosKept, HasAll, Loaded

\* What the steps that create no listing and change none leave of the photos.
LEMMA PhotosFollowForm ==
    ASSUME FormTypes, PhotosFollow, PhotosKept,
           FieldActions \/ StepActions \/ PageActions \/ ZoneActions \/ UNCHANGED formVars
    PROVE  PhotosFollow'
<1>0. ASSUME UNCHANGED <<draft, other, posts, saves>>
      PROVE  /\ (draft' # NoDraft => HasAll(draft')) /\ (other' # NoForm => HasAll(other'))
             /\ \A r \in (posts \cup saves)' : HasAll(r.body)
  BY <1>0 DEF PhotosFollow
<1>1. CASE FieldActions
  <2>1. UNCHANGED <<form, step, zone, crops, tasks, draft, other, posts, saves>>
    BY <1>1, FieldsType DEF FieldActions, server
  <2>2. values'.images = values.images /\ values'.wanted = values.wanted /\ values'.lost = values.lost
    <3>1. values \in Values
      BY DEF FormTypes
    <3> QED BY <1>1, <3>1 DEF FieldActions, FillBasics, FillPlace, FillPrices, FillNights, EditFields, EditPlace,
                             EditNights, Fill, Values
  <2>3. InZone' <=> InZone
    BY <2>1 DEF InZone, Editing, PhotoStep
  <2>4. HasAll(values)' <=> HasAll(values)
    BY <2>2 DEF HasAll
  <2>5. Spinning' = Spinning /\ PhotosAt(zone, Ready(zone))' = PhotosAt(zone, Ready(zone))
        /\ InHand(crops, tasks)' = InHand(crops, tasks)
    BY <2>1 DEF Spinning, InHand
  <2>6. IF InZone' THEN ZoneShows' ELSE zone' = <<>> /\ tasks' = NoTasks /\ HasAll(values)'
    BY <2>1, <2>2, <2>3, <2>4, <2>5 DEF PhotosFollow, ZoneShows, ItemsShown
  <2> QED BY <1>0, <2>1, <2>6, FollowsWith
<1>2. CASE StepActions
  <2> DEFINE v == LeaveZone(values)
  <2>1. v \in Values /\ HasAll(v)
    BY LeftIsWhole
  <2>2. /\ form' = form /\ posts' = posts /\ saves' = saves /\ other' = other /\ (draft' = draft \/ draft' = v)
        /\ Editing
    BY <1>2 DEF StepActions, Advance, GoNext, GoBack, server, Editing
  <2>3. PICK s \in 0..5 : ShowStep(s, v)
    BY <1>2 DEF StepActions, Advance, GoNext, GoBack, Final, Editing, FormTypes
  <2> HIDE DEF v
  <2>4. IF InZone' THEN ZoneShows' ELSE zone' = <<>> /\ tasks' = NoTasks /\ HasAll(values')
    BY <2>1, <2>2, <2>3, ShownIsWhole
  <2>5. draft' # NoDraft => HasAll(draft')
    BY <2>1, <2>2 DEF PhotosFollow
  <2>6. (other' # NoForm => HasAll(other')) /\ \A r \in (posts \cup saves)' : HasAll(r.body)
    BY <2>2 DEF PhotosFollow
  <2> QED BY <2>4, <2>5, <2>6, FollowsWith DEF HasAll
<1>3. CASE OpenWizard \/ OpenEdit
  <2>1. zone' = <<>> /\ tasks' = NoTasks /\ ~InZone' /\ UNCHANGED <<draft, other, posts, saves>>
    BY <1>3 DEF OpenWizard, OpenEdit, NoZone, InZone, PhotoStep, server
  <2>2. HasAll(values')
    <3>1. CASE OpenWizard
      BY <3>1, BlankIsWhole DEF OpenWizard, PhotosFollow
    <3>2. CASE OpenEdit
      BY <3>2, LoadedIsWhole DEF OpenEdit
    <3> QED BY <1>3, <3>1, <3>2
  <2> QED BY <1>0, <2>1, <2>2, FollowsWith DEF HasAll
<1>7. CASE OpenElsewhere
  <2>1. UNCHANGED <<form, step, values, zone, crops, tasks, draft, posts, saves>> /\ other' = Loaded(rows[1]) /\ rows # <<>>
    BY <1>7 DEF OpenElsewhere
  <2>2. HasAll(other')
    BY <2>1, LoadedIsWhole
  <2>3. IF InZone' THEN ZoneShows' ELSE zone' = <<>> /\ tasks' = NoTasks /\ HasAll(values)'
    BY <2>1, ShowsSame
  <2>4. (draft' # NoDraft => HasAll(draft')) /\ \A r \in (posts \cup saves)' : HasAll(r.body)
    BY <2>1 DEF PhotosFollow
  <2> QED BY <2>2, <2>3, <2>4, FollowsWith
<1>4. CASE LeavePage /\ draft' \in {draft, NoDraft, IF draft # NoDraft THEN LeftDraft ELSE draft}
  <2>1. zone' = <<>> /\ tasks' = NoTasks /\ ~InZone' /\ HasAll(values')
    BY <1>4, BlankIsWhole DEF LeavePage, NoZone, InZone, Editing
  <2>2. \A r \in posts' : \E q \in posts : r.body = q.body
    BY <1>4 DEF LeavePage, FormTypes, Post
  <2>3. \A r \in saves' : \E q \in saves : r.body = q.body
    BY <1>4 DEF LeavePage, FormTypes, Saving
  <2>4. draft' # NoDraft => HasAll(draft')
    BY <1>4, LeftDraftIsWhole DEF PhotosFollow
  <2>5. \A r \in posts' \cup saves' : HasAll(r.body)
    BY <2>2, <2>3 DEF PhotosFollow
  <2>6. other' # NoForm => HasAll(other')
    BY <1>4 DEF LeavePage, PhotosFollow
  <2> QED BY <2>1, <2>4, <2>5, <2>6, FollowsWith DEF HasAll
<1>5. CASE ZoneActions
  <2>1. ZoneShows' /\ InZone /\ UNCHANGED <<form, step, draft, other, posts, saves>>
    BY <1>5, ItemsAreShown, ZoneStep DEF server
  <2>2. InZone'
    BY <2>1 DEF InZone, Editing, PhotoStep
  <2> QED BY <1>0, <2>1, <2>2, FollowsWith
<1>6. CASE UNCHANGED formVars
  <2>1. IF InZone' THEN ZoneShows' ELSE zone' = <<>> /\ tasks' = NoTasks /\ HasAll(values)'
    BY <1>6, ShowsSame DEF formVars
  <2> QED BY <1>0, <1>6, <2>1, FollowsWith DEF formVars
<1>8. CASE Leave \/ SessionEnds
  BY <1>4, <1>8 DEF Leave, SessionEnds
<1> QED BY <1>1, <1>2, <1>3, <1>5, <1>6, <1>7, <1>8 DEF PageActions

\* No request is sent from the step of the photos.
LEMMA SentWhole ==
    ASSUME PhotosFollow, Submit \/ PressEnter \/ Save
    PROVE  HasAll(values)
<1>1. ~InZone
  BY DEF Submit, PressEnter, Save, InZone, PhotoStep, Final
<1> QED BY <1>1 DEF PhotosFollow

\* The photos of the requests to create a listing, and of the listing.
LEMMA PhotosFollowPosts ==
    ASSUME FormTypes, PhotosFollow, PhotosKept, 
           \/ Submit \/ PressEnter \/ PublishAnother
           \/ \E r \in posts : CreateListing(r) \/ Published(r) \/ NotPublished(r)
    PROVE  PhotosFollow' /\ PhotosKept'
<1>0. ASSUME UNCHANGED <<form, step, values, zone, crops, tasks, other>>, draft' \in {draft, NoDraft},
             \A r \in (posts \cup saves)' : HasAll(r.body)
      PROVE  PhotosFollow'
  <2>1. (draft' # NoDraft => HasAll(draft')) /\ (other' # NoForm => HasAll(other'))
    BY <1>0 DEF PhotosFollow
  <2> QED BY <1>0, <2>1, ShowsSame, FollowsWith
<1>1. CASE Submit \/ PressEnter
  <2>1. SendForm /\ HasAll(values)
    BY <1>1, SentWhole DEF Submit, PressEnter
  <2>2. \A r \in posts' \cup saves' : HasAll(r.body)
    <3> DEFINE new == [n |-> sent + 1, at |-> "sent", from |-> "here", body |-> values]
    <3>1. posts' = posts \cup {new} /\ saves' = saves /\ new.body = values
      BY <2>1 DEF SendForm
    <3> HIDE DEF new
    <3> QED BY <2>1, <3>1 DEF PhotosFollow
  <2> QED BY <1>0, <2>1, <2>2 DEF SendForm, PhotosKept
<1>2. CASE PublishAnother
  <2>1. UNCHANGED <<zone, draft, posts, saves, rows>> \/ (UNCHANGED <<zone, posts, saves, rows>> /\ draft' = NoDraft)
    BY <1>2 DEF PublishAnother, server
  <2>2. ~InZone /\ ~InZone'
    BY <1>2 DEF PublishAnother, InZone, Editing, PhotoStep
  <2>3. values'.images = values.images /\ values'.wanted = values.wanted /\ values'.lost = values.lost
    BY <1>2 DEF PublishAnother, FormTypes, Values
  <2>4. tasks' = tasks /\ other' = other
    BY <1>2 DEF PublishAnother, server
  <2> QED BY <2>1, <2>2, <2>3, <2>4 DEF PhotosFollow, HasAll, PhotosKept
<1>3. ASSUME NEW r \in posts, CreateListing(r)
      PROVE  PhotosFollow' /\ PhotosKept'
  <2>1. r \in Post /\ HasAll(r.body)
    BY DEF FormTypes, PhotosFollow
  <2>2. \A q \in posts' : q \in posts \/ q.body = r.body
    BY <1>3, <2>1 DEF CreateListing, Post
  <2>3. PhotosFollow'
    BY <1>0, <1>3, <2>1, <2>2 DEF CreateListing, PhotosFollow
  <2> DEFINE row == [filling |-> r.body.filling, min |-> r.body.min, max |-> r.body.max,
                     images |-> r.body.images, writes |-> 0, wanted |-> r.body.wanted, lost |-> r.body.lost]
  <2>4. rows' = Append(rows, row) \/ rows' = rows
    BY <1>3 DEF CreateListing
  <2>5. row.wanted \subseteq ToSet(row.images) \cup row.lost
    BY <2>1 DEF HasAll
  <2> HIDE DEF row
  <2>6. \A i \in DOMAIN rows' : rows'[i] = row \/ (i \in DOMAIN rows /\ rows'[i] = rows[i])
    BY <2>4 DEF FormTypes
  <2> QED BY <2>3, <2>5, <2>6 DEF PhotosKept
<1>4. ASSUME NEW r \in posts, Published(r)
      PROVE  PhotosFollow' /\ PhotosKept'
  <2>1. /\ draft' \in {draft, NoDraft} /\ \A q \in posts' \cup saves' : HasAll(q.body)
        /\ rows' = rows /\ other' = other
    BY <1>4 DEF Published, DropDraft, PhotosFollow
  <2>2. CASE UNCHANGED <<form, step, values, zone, crops, tasks>>
    BY <1>0, <2>1, <2>2 DEF PhotosKept
  <2>3. CASE form' = "success" /\ zone' = <<>> /\ tasks' = NoTasks /\ values' = LeaveZone(values)
    <3>1. ~InZone' /\ HasAll(values')
      BY <2>3, LeftIsWhole DEF InZone, Editing
    <3>2. (draft' # NoDraft => HasAll(draft')) /\ (other' # NoForm => HasAll(other'))
      BY <2>1 DEF PhotosFollow
    <3>3. PhotosFollow'
      BY <2>1, <2>3, <3>1, <3>2, FollowsWith DEF HasAll
    <3> QED BY <2>1, <3>3 DEF PhotosKept
  <2> QED BY <1>4, <2>2, <2>3 DEF Published, NoZone
<1>5. ASSUME NEW r \in posts, NotPublished(r)
      PROVE  PhotosFollow' /\ PhotosKept'
  BY <1>0, <1>5 DEF NotPublished, PhotosKept, PhotosFollow
<1> QED BY <1>1, <1>2, <1>3, <1>4, <1>5

\* The photos of the changes of a listing.
LEMMA PhotosFollowSaves ==
    ASSUME FormTypes, PhotosFollow, KnownElsewhere, PhotosKept, CheckedHolds, SaveActions
    PROVE  PhotosFollow' /\ PhotosKept'
<1>0. ASSUME UNCHANGED <<form, step, values, zone, crops, tasks, draft, posts>>, \A r \in saves' : HasAll(r.body),
             other' \in {other, NoForm}
      PROVE  PhotosFollow'
  <2>1. /\ (draft' # NoDraft => HasAll(draft')) /\ (other' # NoForm => HasAll(other'))
        /\ \A r \in (posts \cup saves)' : HasAll(r.body)
    BY <1>0 DEF PhotosFollow
  <2> QED BY <1>0, <2>1, ShowsSame, FollowsWith
<1>1. CASE Save \/ SaveElsewhere
  <2>1. PICK from \in {"here", "elsewhere"}, v \in Values :
          saves' = saves \cup {ChangeRequest(from, v)} /\ HasAll(v)
    <3>1. CASE Save
      BY <3>1, SentWhole DEF Save, FormTypes
    <3>2. CASE SaveElsewhere
      <4>1. PICK v \in Values : /\ saves' = saves \cup {ChangeRequest("elsewhere", v)} /\ other # NoForm
                                /\ v.images = other.images /\ v.wanted = other.wanted /\ v.lost = other.lost
        BY <3>2, OtherSends
      <4>2. HasAll(v)
        BY <4>1 DEF PhotosFollow, HasAll
      <4> QED BY <4>1, <4>2
    <3> QED BY <1>1, <3>1, <3>2
  <2>2. \A r \in saves' : HasAll(r.body)
    BY <2>1 DEF ChangeRequest, PhotosFollow
  <2> QED BY <1>0, <1>1, <2>2 DEF Save, SaveElsewhere, PhotosKept
<1>2. ASSUME NEW r \in saves, NEW at
      PROVE  [r EXCEPT !.at = at].body = r.body /\ HasAll(r.body)
  BY DEF FormTypes, Saving, PhotosFollow
<1>3. ASSUME NEW r \in saves, UpdateChecks(r)
      PROVE  PhotosFollow' /\ PhotosKept'
  <2>1. \A q \in saves' : HasAll(q.body)
    BY <1>2, <1>3 DEF UpdateChecks, PhotosFollow
  <2> QED BY <1>0, <1>3, <2>1 DEF UpdateChecks, PhotosKept
<1>4. ASSUME NEW r \in saves, UpdateWrites(r)
      PROVE  PhotosFollow' /\ PhotosKept'
  <2>1. \A q \in saves' : HasAll(q.body)
    BY <1>2, <1>4 DEF UpdateWrites, PhotosFollow
  <2>2. rows[1] \in FormRow /\ 1 \in DOMAIN rows /\ HasAll(r.body)
    BY <1>2, <1>4 DEF FormTypes, CheckedHolds
  <2>3. /\ DOMAIN rows' = DOMAIN rows
        /\ \A i \in DOMAIN rows \ {1} : rows'[i] = rows[i]
        /\ rows'[1].images = r.body.images
        /\ rows'[1].wanted = IF r.from = "elsewhere" THEN rows[1].wanted
                              ELSE r.body.wanted \cup (rows[1].wanted \cap WrittenOver(r))
        /\ rows'[1].lost = WrittenOver(r) \cup IF r.from = "elsewhere" THEN rows[1].lost ELSE r.body.lost
    BY <1>4, <2>2 DEF UpdateWrites, FormTypes, FormRow
  <2>4. rows'[1].wanted \subseteq ToSet(rows'[1].images) \cup rows'[1].lost
    <3>1. CASE r.from # "elsewhere"
      BY <2>2, <2>3, <3>1 DEF HasAll
    <3>2. CASE r.from = "elsewhere"
      <4>1. rows[1].wanted \subseteq ToSet(rows[1].images) \cup rows[1].lost
        BY <2>2 DEF PhotosKept
      <4>2. UpToDate(r.body)
        BY <3>2 DEF KnownElsewhere
      <4>3. ToSet(rows[1].images) \subseteq ToSet(r.body.images) \cup WrittenOver(r)
        <5>1. CASE r.body.basis = rows[1].writes
          BY <4>2, <5>1 DEF UpToDate
        <5>2. CASE r.body.basis # rows[1].writes
          BY <5>2 DEF WrittenOver
        <5> QED BY <5>1, <5>2
      <4> QED BY <2>3, <3>2, <4>1, <4>3
    <3> QED BY <3>1, <3>2
  <2>5. PhotosKept'
    BY <2>2, <2>3, <2>4 DEF PhotosKept
  <2> QED BY <1>0, <1>4, <2>1, <2>5 DEF UpdateWrites
<1>5. ASSUME NEW r \in saves, SaveSettles(r)
      PROVE  PhotosFollow' /\ PhotosKept'
  <2>1. UNCHANGED <<rows, posts, draft, other>> /\ \A q \in saves' : HasAll(q.body)
    BY <1>5 DEF SaveSettles, PhotosFollow
  <2>2. CASE UNCHANGED <<form, step, values, zone, crops, tasks>>
    BY <1>0, <2>1, <2>2 DEF PhotosKept
  <2>3. CASE form' = "away" /\ zone' = <<>> /\ tasks' = NoTasks /\ values' = Blank(0)
    <3>1. ~InZone' /\ HasAll(values')
      BY <2>3, BlankIsWhole DEF InZone, Editing
    <3> QED BY <2>1, <2>3, <3>1 DEF PhotosFollow, PhotosKept
  <2> QED BY <1>5, <2>2, <2>3 DEF SaveSettles, NoZone
<1> QED BY <1>1, <1>3, <1>4, <1>5 DEF SaveActions

\* Every photo is there, in the forms and in the listings.
LEMMA PhotosStep ==
    ASSUME FormTypes, PhotosFollow, KnownElsewhere, PhotosKept, CheckedHolds, [FormNext]_formVars
    PROVE  PhotosFollow' /\ PhotosKept'
<1>1. CASE FieldActions \/ StepActions \/ PageActions \/ ZoneActions \/ UNCHANGED formVars
  <2>1. rows' = rows
    <3>1. CASE ZoneActions
      BY <3>1, ItemsAreShown, ZoneStep DEF server
    <3>2. CASE FieldActions
      BY <3>2, FieldsType DEF FieldActions, server
    <3> QED BY <1>1, <3>1, <3>2 DEF StepActions, Advance, GoNext, GoBack, PageActions, OpenWizard, OpenEdit,
                       OpenElsewhere, Leave, SessionEnds, LeavePage, server, formVars
  <2> QED BY <1>1, <2>1, PhotosFollowForm DEF PhotosKept
<1>2. CASE Submit \/ PressEnter \/ PublishAnother
           \/ (\E r \in posts : CreateListing(r) \/ Published(r) \/ NotPublished(r))
  BY <1>2, PhotosFollowPosts
<1>3. CASE SaveActions
  BY <1>3, PhotosFollowSaves
<1> QED BY <1>1, <1>2, <1>3 DEF FormNext, FieldActions, StepActions, PageActions, ZoneActions, SaveActions

-----------------------------------------------------------------------------
(***************************************************************************)
(* Listing forms: the nights of a listing.                                 *)
(***************************************************************************)

\* Steps that leave the rows, and what the API has to do, alone.
LEMMA NightsSame ==
    ASSUME CheckedHolds, NightsInOrder, UNCHANGED <<rows, saves, overlap>>,
           form' = "edit" => rows # <<>>
    PROVE  CheckedHolds' /\ NightsInOrder'
BY DEF CheckedHolds, NightsInOrder, RangeAfter

LEMMA NightsOfForms ==
    ASSUME FormTypes, PhotosFollow, CheckedHolds, NightsInOrder,
           FieldActions \/ StepActions \/ PageActions \/ ZoneActions \/ UNCHANGED formVars
    PROVE  CheckedHolds' /\ NightsInOrder'
<1>1. CASE UNCHANGED <<form, rows, saves, overlap>>
  BY <1>1, NightsSame DEF CheckedHolds
<1>2. CASE FieldActions
  BY <1>1, <1>2, FieldsType DEF FieldActions, server
<1>3. CASE StepActions
  BY <1>1, <1>3 DEF StepActions, Advance, GoNext, GoBack, server
<1>4. CASE ZoneActions
  BY <1>1, <1>4, ItemsAreShown, ZoneStep DEF server
<1>5. CASE OpenWizard \/ OpenEdit \/ OpenElsewhere
  BY <1>5, NightsSame DEF OpenWizard, OpenEdit, OpenElsewhere, server, CheckedHolds
<1>6. CASE LeavePage
  <2>1. PICK to \in {"left", "gone"} :
          saves' = {[r EXCEPT !.from = IF @ = "here" THEN to ELSE @] : r \in saves}
    BY <1>6 DEF LeavePage
  <2> DEFINE Left(r) == [r EXCEPT !.from = IF @ = "here" THEN to ELSE @]
  <2>2. \A r \in saves : Left(r).at = r.at /\ Left(r).body = r.body
    BY DEF FormTypes, Saving
  <2>3. saves' = {Left(r) : r \in saves}
    BY <2>1
  <2> HIDE DEF Left
  <2>4. rows' = rows /\ overlap' = overlap /\ form' = "away"
    BY <1>6 DEF LeavePage
  <2>5. \A r \in saves' : \E q \in saves : r = Left(q) /\ r.at = q.at /\ r.body = q.body
    BY <2>2, <2>3
  <2>6. saves' # {} => saves # {}
    BY <2>3
  <2>7. ~overlap => /\ \A r \in saves' : r.at = "checked" => RangeAfter(r.body)
                    /\ \A r, q \in saves' : r.at = "checked" /\ q.at = "checked" => r = q
    BY <2>5 DEF CheckedHolds
  <2> QED BY <2>4, <2>6, <2>7 DEF CheckedHolds, NightsInOrder, RangeAfter
<1>7. CASE UNCHANGED formVars
  BY <1>1, <1>7 DEF formVars
<1> QED BY <1>2, <1>3, <1>4, <1>5, <1>6, <1>7 DEF PageActions, Leave, SessionEnds

\* A listing is created with its nights in order; the first one stays the first.
LEMMA NightsOfPosts ==
    ASSUME FormTypes, CheckedHolds, NightsInOrder, PostActions
    PROVE  CheckedHolds' /\ NightsInOrder'
<1>1. CASE UNCHANGED <<rows, saves, overlap>> /\ (form' = form \/ form' # "edit")
  BY <1>1, NightsSame DEF CheckedHolds
<1>2. CASE SendForm \/ PublishAnother \/ (\E r \in posts : Published(r) \/ NotPublished(r))
  BY <1>1, <1>2 DEF SendForm, PublishAnother, Published, NotPublished, server
<1>3. ASSUME NEW r \in posts, CreateListing(r)
      PROVE  CheckedHolds' /\ NightsInOrder'
  <2>1. UNCHANGED <<form, saves, overlap>>
    BY <1>3 DEF CreateListing
  <2>2. CASE rows' = rows
    BY <1>1, <2>1, <2>2
  <2>3. CASE rows' # rows
    <3> DEFINE row == [filling |-> r.body.filling, min |-> r.body.min, max |-> r.body.max,
                       images |-> r.body.images, writes |-> 0, wanted |-> r.body.wanted, lost |-> r.body.lost]
    <3>1. rows' = Append(rows, row) /\ NightsRange(row.min, row.max)
      BY <1>3, <2>3 DEF CreateListing
    <3> HIDE DEF row
    <3>2. /\ rows' # <<>> /\ (rows # <<>> => rows'[1] = rows[1])
          /\ \A i \in DOMAIN rows' : rows'[i] = row \/ (i \in DOMAIN rows /\ rows'[i] = rows[i])
      BY <3>1 DEF FormTypes
    <3>3. ~overlap => \A q \in saves : q.at = "checked" => RangeAfter(q.body)'
      <4> SUFFICES ASSUME ~overlap, NEW q \in saves, q.at = "checked"
                   PROVE  RangeAfter(q.body)'
        OBVIOUS
      <4>1. RangeAfter(q.body) /\ rows # <<>>
        BY DEF CheckedHolds
      <4> QED BY <3>2, <4>1 DEF RangeAfter
    <3>4. NightsInOrder'
      BY <2>1, <3>1, <3>2 DEF NightsInOrder
    <3>5. CheckedHolds'
      <4>1. ~overlap => \A q, s \in saves : q.at = "checked" /\ s.at = "checked" => q = s
        BY DEF CheckedHolds
      <4>2. \A q \in saves : RangeAfter(q.body)' <=> NightsRange(Or(q.body.min, rows'[1].min), Or(q.body.max, rows'[1].max))
        BY DEF RangeAfter
      <4>3. ~overlap' => \A q \in saves' : q.at = "checked" => RangeAfter(q.body)'
        BY <2>1, <3>3
      <4> QED BY <2>1, <3>2, <3>3, <4>1, <4>2 DEF CheckedHolds, RangeAfter
    <3> QED BY <3>4, <3>5
  <2> QED BY <2>2, <2>3
<1> QED BY <1>2, <1>3 DEF PostActions

\* A change is checked against the row it is written to, unless two changes overlap.
LEMMA NightsOfSaves ==
    ASSUME FormTypes, KnownElsewhere, CheckedHolds, NightsInOrder, SaveActions
    PROVE  CheckedHolds' /\ NightsInOrder'
<1>1. CASE Save \/ SaveElsewhere
  <2>1. PICK new : new.at = "sent" /\ saves' = saves \cup {new}
    BY <1>1 DEF Save, SaveElsewhere, ChangeRequest
  <2>2. rows # <<>> /\ UNCHANGED <<form, rows, overlap>>
    BY <1>1 DEF Save, SaveElsewhere, CheckedHolds, KnownElsewhere
  <2> QED BY <2>1, <2>2 DEF CheckedHolds, NightsInOrder, RangeAfter
<1>2. ASSUME NEW r \in saves, NEW at \in {"checked", "written", "refused"}
      PROVE  [r EXCEPT !.at = at].body = r.body /\ [r EXCEPT !.at = at].at = at
  BY DEF FormTypes, Saving
<1>3. ASSUME NEW r \in saves, UpdateChecks(r)
      PROVE  CheckedHolds' /\ NightsInOrder'
  <2>1. /\ UNCHANGED <<form, rows>> /\ rows # <<>>
        /\ overlap' = (overlap \/ \E q \in saves : q.at = "checked")
    BY <1>3 DEF UpdateChecks, CheckedHolds
  <2>2. CASE saves' = (saves \ {r}) \cup {[r EXCEPT !.at = "refused"]}
    <3>1. \A q \in saves' : q \in saves \/ q.at = "refused"
      BY <1>2, <2>2
    <3> QED BY <2>1, <3>1 DEF CheckedHolds, NightsInOrder, RangeAfter
  <2>3. CASE RangeAfter(r.body) /\ saves' = (saves \ {r}) \cup {[r EXCEPT !.at = "checked"]}
    <3> DEFINE new == [r EXCEPT !.at = "checked"]
    <3>1. new.body = r.body /\ saves' = (saves \ {r}) \cup {new}
      BY <1>2, <2>3
    <3> HIDE DEF new
    <3>2. ~overlap' => \A q \in saves' : q.at = "checked" => q = new
      BY <2>1, <3>1
    <3> QED BY <2>1, <2>3, <3>1, <3>2 DEF CheckedHolds, NightsInOrder, RangeAfter
  <2> QED BY <1>3, <2>2, <2>3 DEF UpdateChecks
<1>4. ASSUME NEW r \in saves, UpdateWrites(r)
      PROVE  CheckedHolds' /\ NightsInOrder'
  <2>1. rows # <<>> /\ r.at = "checked" /\ UNCHANGED <<form, overlap>>
    BY <1>4 DEF UpdateWrites, CheckedHolds
  <2>2. rows[1] \in FormRow /\ 1 \in DOMAIN rows
    BY <2>1 DEF FormTypes
  <2>3. /\ DOMAIN rows' = DOMAIN rows
        /\ \A i \in DOMAIN rows \ {1} : rows'[i] = rows[i]
        /\ rows'[1].min = Or(r.body.min, rows[1].min) /\ rows'[1].max = Or(r.body.max, rows[1].max)
        /\ rows' # <<>>
    BY <1>4, <2>1, <2>2 DEF UpdateWrites, FormTypes, FormRow
  <2>4. \A q \in saves' : (q \in saves /\ q # r) \/ q.at = "written"
    BY <1>2, <1>4 DEF UpdateWrites
  <2>5. ~overlap => RangeAfter(r.body) /\ \A q \in saves' : q.at # "checked"
    BY <2>1, <2>4 DEF CheckedHolds
  <2>6. NightsInOrder'
    BY <2>1, <2>3, <2>5 DEF NightsInOrder, RangeAfter
  <2> QED BY <2>1, <2>3, <2>5, <2>6 DEF CheckedHolds
<1>5. ASSUME NEW r \in saves, SaveSettles(r)
      PROVE  CheckedHolds' /\ NightsInOrder'
  <2>1. saves' \subseteq saves /\ (form' = form \/ form' = "away") /\ UNCHANGED <<rows, overlap>>
    BY <1>5 DEF SaveSettles
  <2> QED BY <2>1 DEF CheckedHolds, NightsInOrder, RangeAfter
<1> QED BY <1>1, <1>3, <1>4, <1>5 DEF SaveActions

-----------------------------------------------------------------------------
(***************************************************************************)
(* Listing forms: the fillings of the wizard.                              *)
(***************************************************************************)

\* Requests keep their contents when the page is left, and wait no more.
LEMMA LeavingRequests ==
    ASSUME FormTypes, LeavePage
    PROVE  /\ \A r \in posts' : r.from # "here" /\ \E q \in posts : r.body = q.body /\ r.at = q.at
           /\ \A q \in posts : \E r \in posts' : r.body = q.body /\ r.at = q.at
           /\ \A r, s \in posts' : \E q, t \in posts :
                /\ r.body = q.body /\ s.body = t.body /\ (q = t => r = s)
           /\ \A r \in saves' : r.from # "here"
           /\ \A r \in saves' : \E q \in saves : r.body = q.body /\ (r.from = "elsewhere" => q.from = "elsewhere")
<1>1. PICK to \in {"left", "gone"} :
        /\ posts' = {[r EXCEPT !.from = IF @ = "gone" THEN @ ELSE to] : r \in posts}
        /\ saves' = {[r EXCEPT !.from = IF @ = "here" THEN to ELSE @] : r \in saves}
  BY DEF LeavePage
<1> DEFINE LeftPost(r) == [r EXCEPT !.from = IF @ = "gone" THEN @ ELSE to]
           LeftSave(r) == [r EXCEPT !.from = IF @ = "here" THEN to ELSE @]
<1>2. \A r \in posts : LeftPost(r).from # "here" /\ LeftPost(r).body = r.body /\ LeftPost(r).at = r.at
  BY DEF FormTypes, Post
<1>3. \A r \in saves : /\ LeftSave(r).from # "here" /\ LeftSave(r).body = r.body
                       /\ LeftSave(r).from = "elsewhere" => r.from = "elsewhere"
  BY DEF FormTypes, Saving
<1>4. posts' = {LeftPost(r) : r \in posts} /\ saves' = {LeftSave(r) : r \in saves}
  BY <1>1
<1> HIDE DEF LeftPost, LeftSave
<1> QED BY <1>2, <1>3, <1>4

\* A page waits for the requests it has sent.
LEMMA PagesWaitStep ==
    ASSUME FormTypes, PhotosFollow, PagesWait, CheckedHolds, [FormNext]_formVars
    PROVE  PagesWait'
<1>1. CASE form' = form /\ posts' = posts /\ saves' \subseteq saves
  BY <1>1 DEF PagesWait
<1>2. CASE ZoneActions \/ FieldActions \/ StepActions \/ UNCHANGED formVars
  <2>1. form' = form /\ posts' = posts /\ saves' = saves
    <3>1. CASE ZoneActions
      BY <3>1, ItemsAreShown, ZoneStep DEF server
    <3>2. CASE FieldActions
      BY <3>2, FieldsType DEF FieldActions, server
    <3> QED BY <1>2, <3>1, <3>2 DEF StepActions, Advance, GoNext, GoBack, server, formVars
  <2> QED BY <1>1, <2>1
<1>3. CASE OpenWizard \/ OpenEdit \/ OpenElsewhere \/ PublishAnother
  BY <1>3 DEF OpenWizard, OpenEdit, OpenElsewhere, PublishAnother, server, PagesWait
<1>4. CASE LeavePage
  BY <1>4, LeavingRequests DEF PagesWait
<1>5. CASE Submit \/ PressEnter
  <2> DEFINE new == [n |-> sent + 1, at |-> "sent", from |-> "here", body |-> values]
  <2>1. posts' = posts \cup {new} /\ form' = form /\ saves' = saves /\ form = "wizard"
    BY <1>5 DEF Submit, PressEnter, SendForm
  <2> HIDE DEF new
  <2> QED BY <2>1 DEF PagesWait
<1>6. ASSUME NEW r \in posts, CreateListing(r) \/ NotPublished(r)
      PROVE  PagesWait'
  <2>1. \A q \in posts' : \E s \in posts : q.from = s.from
    <3>1. \A at : [r EXCEPT !.at = at].from = r.from
      BY DEF FormTypes, Post
    <3>2. \A q \in posts' : q \in posts \/ \E at \in {"created", "refused"} : q = [r EXCEPT !.at = at]
      BY <1>6 DEF CreateListing, NotPublished
    <3> QED BY <3>1, <3>2
  <2>2. form' = form /\ saves' = saves
    BY <1>6 DEF CreateListing, NotPublished
  <2> QED BY <2>1, <2>2 DEF PagesWait
<1>7. ASSUME NEW r \in posts, Published(r)
      PROVE  PagesWait'
  BY <1>7 DEF Published, PagesWait
<1>8. CASE Save \/ SaveElsewhere
  <2>1. PICK from, v : /\ saves' = saves \cup {ChangeRequest(from, v)}
                       /\ from = "here" => form = "edit" /\ \A r \in saves : r.from # "here"
    <3>1. CASE Save
      BY <3>1 DEF Save
    <3>2. CASE SaveElsewhere
      BY <3>2 DEF SaveElsewhere
    <3> QED BY <1>8, <3>1, <3>2
  <2>2. form' = form /\ posts' = posts
    BY <1>8 DEF Save, SaveElsewhere
  <2>3. ChangeRequest(from, v).from = from
    BY DEF ChangeRequest
  <2> QED BY <2>1, <2>2, <2>3 DEF PagesWait
<1>9. ASSUME NEW r \in saves, UpdateChecks(r) \/ UpdateWrites(r)
      PROVE  PagesWait'
  <2>1. PICK new : new.from = r.from /\ saves' = (saves \ {r}) \cup {new}
    BY <1>9 DEF UpdateChecks, UpdateWrites, FormTypes, Saving
  <2>2. form' = form /\ posts' = posts
    BY <1>9 DEF UpdateChecks, UpdateWrites
  <2> QED BY <2>1, <2>2 DEF PagesWait
<1>10. ASSUME NEW r \in saves, SaveSettles(r)
       PROVE  PagesWait'
  <2>1. saves' = saves \ {r} /\ posts' = posts
    BY <1>10 DEF SaveSettles
  <2>2. form' = form \/ (r.from = "here" /\ form' = "away")
    BY <1>10 DEF SaveSettles
  <2> QED BY <2>1, <2>2 DEF PagesWait
<1> QED BY <1>2, <1>3, <1>4, <1>5, <1>6, <1>7, <1>8, <1>9, <1>10
        DEF FormNext, FieldActions, StepActions, ZoneActions, Leave, SessionEnds

\* Steps after which the wizard, or its draft, has what it had.
LEMMA FillingsSame ==
    ASSUME FillingsApart, OneListingPerFilling, UNCHANGED <<posts, again, begun>>,
           DOMAIN rows' = DOMAIN rows, \A i \in DOMAIN rows : rows'[i].filling = rows[i].filling,
           (form' = form /\ values'.filling = values.filling) \/ (form # "wizard" /\ form' # "wizard"),
           \/ draft' \in {draft, NoDraft}
           \/ form = "wizard" /\ form' = "wizard" /\ draft'.filling = values.filling
    PROVE  FillingsApart' /\ OneListingPerFilling'
<1>1. \A f : HasRow(f)' <=> HasRow(f)
  BY DEF HasRow
<1>2. \A f : CreatedFrom(f)' <=> CreatedFrom(f)
  BY DEF CreatedFrom
<1>3. \A f : (InWizard(f)' <=> InWizard(f)) /\ (InDraft(f)' => InDraft(f) \/ InWizard(f))
  BY DEF InWizard, InDraft
<1>4. OneListingPerFilling'
  BY DEF OneListingPerFilling
<1>5. (form = "wizard" => Sendable(values.filling))' /\ (draft # NoDraft => Sendable(draft.filling))'
  <2>1. \A f : (Sendable(f) => f \in 1..begun' /\ (HasRow(f)' => f \in again' \/ CreatedFrom(f)'))
    BY <1>1, <1>2 DEF Sendable
  <2>2. (form = "wizard" => Sendable(values.filling)) /\ (draft # NoDraft => Sendable(draft.filling))
    BY DEF FillingsApart
  <2>3. form' = "wizard" => Sendable(values'.filling)
    BY <2>2
  <2>4. draft' # NoDraft => Sendable(draft'.filling)
    BY <2>2
  <2> QED BY <2>1, <2>3, <2>4 DEF Sendable
<1> QED BY <1>1, <1>2, <1>3, <1>4, <1>5 DEF FillingsApart

LEMMA FillingsUnmoved ==
    ASSUME FormTypes, PhotosFollow, PagesWait, CheckedHolds, FillingsApart, OneListingPerFilling,
           FieldActions \/ StepActions \/ ZoneActions \/ OpenEdit \/ OpenElsewhere \/ SaveActions \/ UNCHANGED formVars
    PROVE  FillingsApart' /\ OneListingPerFilling'
<1>1. CASE UNCHANGED <<form, draft, begun, posts, rows, again>> /\ values'.filling = values.filling
  BY <1>1, FillingsSame
<1>2. CASE FieldActions
  <2>1. values'.filling = values.filling
    <3>1. values \in Values
      BY DEF FormTypes
    <3> QED BY <1>2, <3>1 DEF FieldActions, FillBasics, FillPlace, FillPrices, FillNights, EditFields, EditPlace,
                             EditNights, Fill, Values
  <2> QED BY <1>1, <1>2, <2>1, FieldsType DEF FieldActions, server
<1>3. CASE StepActions
  <2> DEFINE v == LeaveZone(values)
  <2>1. v \in Values /\ v.filling = values.filling
    BY LeftIsWhole
  <2>2. /\ UNCHANGED <<form, begun, posts, rows, again>>
        /\ draft' = draft \/ (form = "wizard" /\ draft' = v)
    BY <1>3 DEF StepActions, Advance, GoNext, GoBack, server
  <2>3. PICK s \in 0..5 : ShowStep(s, v)
    BY <1>3 DEF StepActions, Advance, GoNext, GoBack, Final, Editing, FormTypes
  <2> HIDE DEF v
  <2>4. values'.filling = v.filling
    BY <2>1, <2>3 DEF ShowStep, Values
  <2> QED BY <2>1, <2>2, <2>4, FillingsSame
<1>4. CASE ZoneActions
  BY <1>1, <1>4, ItemsAreShown, ZoneStep DEF server
<1>5. CASE OpenEdit \/ OpenElsewhere
  BY <1>5, FillingsSame DEF OpenEdit, OpenElsewhere, server
<1>6. CASE Save \/ SaveElsewhere
  BY <1>1, <1>6 DEF Save, SaveElsewhere
<1>7. ASSUME NEW r \in saves, UpdateChecks(r)
      PROVE  FillingsApart' /\ OneListingPerFilling'
  BY <1>1, <1>7 DEF UpdateChecks
<1>8. ASSUME NEW r \in saves, UpdateWrites(r)
      PROVE  FillingsApart' /\ OneListingPerFilling'
  <2>1. rows # <<>>
    BY DEF CheckedHolds
  <2>2. rows[1] \in FormRow /\ 1 \in DOMAIN rows
    BY <2>1 DEF FormTypes
  <2>3. DOMAIN rows' = DOMAIN rows /\ \A i \in DOMAIN rows : rows'[i].filling = rows[i].filling
    BY <1>8, <2>2 DEF UpdateWrites, FormTypes, FormRow
  <2> QED BY <1>8, <2>3, FillingsSame DEF UpdateWrites
<1>9. ASSUME NEW r \in saves, SaveSettles(r)
      PROVE  FillingsApart' /\ OneListingPerFilling'
  <2>1. UNCHANGED <<draft, posts, rows, begun, again>>
    BY <1>9 DEF SaveSettles
  <2>2. UNCHANGED <<form, values>> \/ (form = "edit" /\ form' = "away")
    BY <1>9 DEF SaveSettles, PagesWait
  <2> QED BY <2>1, <2>2, FillingsSame
<1>10. CASE UNCHANGED formVars
  BY <1>1, <1>10 DEF formVars
<1> QED BY <1>2, <1>3, <1>4, <1>5, <1>6, <1>7, <1>8, <1>9, <1>10 DEF SaveActions

\* A filling begins, comes back from the draft, or is left.
LEMMA FillingsOfPages ==
    ASSUME FormTypes, PagesWait, FillingsApart, OneListingPerFilling,
           OpenWizard \/ Leave \/ SessionEnds \/ PublishAnother
    PROVE  FillingsApart' /\ OneListingPerFilling'
<1>1. CASE OpenWizard
  <2>1. /\ form = "away" /\ form' = "wizard" /\ UNCHANGED <<draft, posts, rows, again>>
        /\ \/ draft # NoDraft /\ values' = draft /\ begun' = begun
           \/ draft = NoDraft /\ begun' = begun + 1 /\ values' = Blank(begun + 1)
    BY <1>1 DEF OpenWizard, server
  <2>2. \A r \in posts : r.from # "here"
    BY <2>1 DEF PagesWait
  <2>3. begun \in Nat
    BY DEF FormTypes
  <2>4. CASE draft # NoDraft
    <3>1. values' = draft /\ begun' = begun
      BY <2>1, <2>4
    <3>2. \A f : InDraft(f)' <=> InDraft(f)
      BY <2>1 DEF InDraft
    <3>3. \A f : InWizard(f)' => InDraft(f) /\ ~InWizard(f)
      BY <2>1, <2>4, <3>1 DEF InWizard, InDraft
    <3>4. \A f : HasRow(f)' <=> HasRow(f)
      BY <2>1 DEF HasRow
    <3>5. (form = "wizard" => Sendable(values.filling))' /\ (draft # NoDraft => Sendable(draft.filling))'
      BY <2>1, <2>4, <3>1 DEF FillingsApart, Sendable, CreatedFrom, HasRow
    <3> QED BY <2>1, <2>2, <3>1, <3>2, <3>3, <3>4, <3>5 DEF FillingsApart, OneListingPerFilling
  <2>5. CASE draft = NoDraft
    <3>1. begun' = begun + 1 /\ values'.filling = begun + 1 /\ draft' = NoDraft
      BY <2>1, <2>5, BlankIsWhole
    <3>2. \A r \in posts : r.body.filling \in Nat /\ r.body.filling <= begun
      BY DEF FillingsApart, FormTypes, Post, Values
    <3>3. \A i \in DOMAIN rows : rows[i].filling \in Nat /\ rows[i].filling <= begun
      <4>1. \A i \in DOMAIN rows : rows[i] \in FormRow
        BY DEF FormTypes
      <4> QED BY <4>1 DEF FillingsApart, FormRow
    <3>4. \A r \in posts : ~InWizard(r.body.filling)' /\ ~InDraft(r.body.filling)' /\ r.body.filling <= begun'
      BY <2>3, <3>1, <3>2 DEF InWizard, InDraft
    <3>5. \A f : HasRow(f)' <=> HasRow(f)
      BY <2>1 DEF HasRow
    <3>6. ~HasRow(begun + 1) /\ begun + 1 \in 1 .. begun'
      BY <2>3, <3>1, <3>3 DEF HasRow
    <3>7. Sendable(values.filling)'
      BY <3>1, <3>5, <3>6 DEF Sendable
    <3>8. \A i \in DOMAIN rows' : rows'[i].filling <= begun'
      BY <2>1, <2>3, <3>1, <3>3
    <3> QED BY <2>1, <3>1, <3>4, <3>5, <3>7, <3>8 DEF FillingsApart, OneListingPerFilling
  <2> QED BY <2>4, <2>5
<1>2. ASSUME LeavePage, draft' = NoDraft \/ (draft # NoDraft /\ draft'.filling = draft.filling)
      PROVE  FillingsApart' /\ OneListingPerFilling'
  <2>1. /\ form' = "away" /\ UNCHANGED <<rows, begun>> /\ again \subseteq again'
        /\ form = "wizard" /\ Pending(values.filling) => values.filling \in again'
    BY <1>2 DEF LeavePage
  <2>2. /\ \A r \in posts' : r.from # "here" /\ \E q \in posts : r.body = q.body /\ r.at = q.at
        /\ \A q \in posts : \E r \in posts' : r.body = q.body /\ r.at = q.at
        /\ \A r, s \in posts' : \E q, t \in posts :
             /\ r.body = q.body /\ s.body = t.body /\ (q = t => r = s)
    BY <1>2, LeavingRequests
  <2>3. \A f : (HasRow(f)' <=> HasRow(f)) /\ (CreatedFrom(f) => CreatedFrom(f)')
    <3>1. \A f : HasRow(f)' <=> HasRow(f)
      BY <2>1 DEF HasRow
    <3>2. ASSUME NEW f, CreatedFrom(f)
          PROVE  CreatedFrom(f)'
      <4>1. PICK q \in posts : q.body.filling = f /\ q.at = "created"
        BY <3>2 DEF CreatedFrom
      <4>2. PICK r \in posts' : r.body = q.body /\ r.at = q.at
        BY <2>2
      <4> QED BY <4>1, <4>2 DEF CreatedFrom
    <3> QED BY <3>1, <3>2
  <2>4. \A f : ~InWizard(f)' /\ (InDraft(f)' => InDraft(f))
    BY <1>2, <2>1 DEF InWizard, InDraft
  <2>5. (draft # NoDraft => Sendable(draft.filling))'
    <3>1. draft' # NoDraft => draft'.filling = draft.filling /\ Sendable(draft.filling)
      BY <1>2 DEF FillingsApart
    <3> QED BY <2>1, <2>3, <3>1 DEF Sendable
  <2>6. ASSUME NEW r \in posts'
        PROVE  /\ r.body.filling <= begun'
               /\ InDraft(r.body.filling)' => r.body.filling \in again'
               /\ HasRow(r.body.filling)' => r.at = "created" \/ r.body.filling \in again'
    <3>1. PICK q \in posts : r.body = q.body /\ r.at = q.at
      BY <2>2
    <3>2. InWizard(q.body.filling) => q.body.filling \in again'
      BY <2>1 DEF InWizard, Pending
    <3> QED BY <2>1, <2>3, <2>4, <3>1, <3>2 DEF FillingsApart
  <2>7. \A r, s \in posts' : r.body.filling = s.body.filling => r = s \/ r.body.filling \in again'
    <3> TAKE r, s \in posts'
    <3>1. PICK q, t \in posts : r.body = q.body /\ s.body = t.body /\ (q = t => r = s)
      BY <2>2
    <3>2. q.body.filling = t.body.filling => q = t \/ q.body.filling \in again
      BY DEF FillingsApart
    <3> QED BY <2>1, <3>1, <3>2
  <2>8. OneListingPerFilling' /\ \A i \in DOMAIN rows' : rows'[i].filling <= begun'
    BY <2>1 DEF OneListingPerFilling, FillingsApart
  <2> QED BY <2>1, <2>4, <2>5, <2>6, <2>7, <2>8 DEF FillingsApart
<1>4. CASE Leave \/ SessionEnds
  <2>1. LeavePage /\ draft' \in {draft, NoDraft, IF draft # NoDraft THEN LeftDraft ELSE draft}
    BY <1>4 DEF Leave, SessionEnds
  <2>2. CASE draft' = NoDraft
    BY <1>2, <2>1, <2>2
  <2>3. CASE draft' # NoDraft
    <3>1. draft # NoDraft /\ draft' \in {draft, LeftDraft}
      BY <2>1, <2>3
    <3>2. LeftDraft.filling = draft.filling
      BY <3>1, LeftDraftType
    <3> QED BY <1>2, <2>1, <3>1, <3>2
  <2> QED BY <2>2, <2>3
<1>3. CASE PublishAnother
  <2>1. /\ form' = "wizard" /\ draft' = NoDraft /\ begun' = begun + 1 /\ UNCHANGED <<posts, rows, again>>
        /\ values' = [values EXCEPT !.filling = begun + 1]
    BY <1>3 DEF PublishAnother, server
  <2>2. values'.filling = begun + 1 /\ begun \in Nat
    BY <2>1 DEF FormTypes, Values
  <2>3. \A r \in posts : r.body.filling \in Nat /\ r.body.filling <= begun
    BY DEF FillingsApart, FormTypes, Post, Values
  <2>4. \A i \in DOMAIN rows : rows[i].filling \in Nat /\ rows[i].filling <= begun
    <3>1. \A i \in DOMAIN rows : rows[i] \in FormRow
      BY DEF FormTypes
    <3> QED BY <3>1 DEF FillingsApart, FormRow
  <2>5. \A r \in posts : ~InWizard(r.body.filling)' /\ ~InDraft(r.body.filling)' /\ r.body.filling <= begun'
    BY <2>1, <2>2, <2>3 DEF InWizard, InDraft
  <2>6. \A f : HasRow(f)' <=> HasRow(f)
    BY <2>1 DEF HasRow
  <2>7. ~HasRow(begun + 1) /\ begun + 1 \in 1 .. begun'
    BY <2>1, <2>2, <2>4 DEF HasRow
  <2>8. Sendable(values.filling)'
    BY <2>2, <2>6, <2>7 DEF Sendable
  <2>9. \A i \in DOMAIN rows' : rows'[i].filling <= begun'
    BY <2>1, <2>2, <2>4
  <2> QED BY <2>1, <2>5, <2>6, <2>8, <2>9 DEF FillingsApart, OneListingPerFilling
<1> QED BY <1>1, <1>3, <1>4

\* A filling is submitted, becomes a listing, and leaves the wizard when that is known.
LEMMA FillingsOfPosts ==
    ASSUME FormTypes, PagesWait, FillingsApart, OneListingPerFilling,
           Submit \/ PressEnter \/ \E r \in posts : CreateListing(r) \/ Published(r) \/ NotPublished(r)
    PROVE  FillingsApart' /\ OneListingPerFilling'
<1>1. CASE Submit \/ PressEnter
  <2> DEFINE new == [n |-> sent + 1, at |-> "sent", from |-> "here", body |-> values]
             f == values.filling
  <2>1. /\ posts' = posts \cup {new} /\ new.body.filling = f /\ new.from = "here" /\ new.at = "sent"
        /\ form = "wizard" /\ UNCHANGED <<form, values, draft, begun, rows>>
        /\ again \subseteq again' /\ (Pending(f) => f \in again')
    BY <1>1 DEF Submit, PressEnter, SendForm
  <2>2. f \in Nat /\ begun \in Nat /\ Sendable(f)
    BY <2>1 DEF FillingsApart, FormTypes, Values
  <2> HIDE DEF new, f
  <2>3. \A g : /\ (HasRow(g)' <=> HasRow(g)) /\ (InWizard(g)' <=> InWizard(g)) /\ (InDraft(g)' <=> InDraft(g))
    BY <2>1 DEF HasRow, InWizard, InDraft
  <2>4. \A g : CreatedFrom(g) => CreatedFrom(g)' /\ Pending(g)
    BY <2>1 DEF CreatedFrom, Pending
  <2>5. InWizard(f)
    BY <2>1 DEF InWizard, f
  <2>6. HasRow(f) => f \in again'
    BY <2>1, <2>2, <2>4 DEF Sendable
  <2>7. \A g : Sendable(g) => g \in 1 .. begun' /\ (HasRow(g)' => g \in again' \/ CreatedFrom(g)')
    BY <2>1, <2>3, <2>4 DEF Sendable
  <2>8. (form = "wizard" => Sendable(values.filling))' /\ (draft # NoDraft => Sendable(draft.filling))'
    <3>1. (form' = "wizard" => Sendable(values'.filling)) /\ (draft' # NoDraft => Sendable(draft'.filling))
      BY <2>1 DEF FillingsApart
    <3> QED BY <2>7, <3>1 DEF Sendable
  <2>9. f <= begun
    BY <2>2 DEF Sendable
  <2>10. \A r \in posts : r.body.filling = f => f \in again'
    BY <2>1 DEF Pending
  <2> QED BY <2>1, <2>3, <2>5, <2>6, <2>8, <2>9, <2>10 DEF FillingsApart, OneListingPerFilling
<1>2. ASSUME NEW r \in posts, NEW at \in {"created", "refused"}, posts' = (posts \ {r}) \cup {[r EXCEPT !.at = at]},
             r.at = "sent"
      PROVE  /\ \A q \in posts' : \E s \in posts : /\ q.body = s.body /\ q.from = s.from
                                                   /\ q.at = s.at \/ (s = r /\ q.at = at)
             /\ \A q \in posts : q # r => q \in posts'
             /\ \E q \in posts' : q.body = r.body /\ q.at = at
             /\ \A q, t \in posts' : q.body.filling = t.body.filling => q = t \/ q.body.filling \in again
             /\ \A f : CreatedFrom(f) => CreatedFrom(f)'
             /\ \A q \in posts' : q \in posts \/ q.at = at
  <2> DEFINE new == [r EXCEPT !.at = at]
  <2>1. new.body = r.body /\ new.from = r.from /\ new.at = at
    BY DEF FormTypes, Post
  <2>2. posts' = (posts \ {r}) \cup {new}
    BY <1>2
  <2> HIDE DEF new
  <2>3. \A q, t \in posts' : q.body.filling = t.body.filling => q = t \/ q.body.filling \in again
    BY <2>1, <2>2 DEF FillingsApart
  <2>4. \A f : CreatedFrom(f) => CreatedFrom(f)'
    <3> SUFFICES ASSUME NEW f, CreatedFrom(f)
                 PROVE  CreatedFrom(f)'
      OBVIOUS
    <3>1. PICK q \in posts : q.body.filling = f /\ q.at = "created"
      BY DEF CreatedFrom
    <3>2. q \in posts'
      BY <1>2, <2>2, <3>1
    <3> QED BY <3>1, <3>2 DEF CreatedFrom
  <2> QED BY <2>1, <2>2, <2>3, <2>4
<1>3. ASSUME NEW r \in posts, CreateListing(r), rows' = rows
      PROVE  FillingsApart' /\ OneListingPerFilling'
  <2>1. /\ UNCHANGED <<form, values, draft, begun, again>> /\ r.at = "sent"
        /\ \E at \in {"created", "refused"} : posts' = (posts \ {r}) \cup {[r EXCEPT !.at = at]}
    BY <1>3 DEF CreateListing
  <2>2. /\ \A q \in posts' : \E s \in posts : q.body = s.body /\ q.from = s.from /\ (q.at = s.at \/ s.at = "sent")
        /\ \A q, t \in posts' : q.body.filling = t.body.filling => q = t \/ q.body.filling \in again
        /\ \A f : CreatedFrom(f) => CreatedFrom(f)'
    BY <1>2, <2>1
  <2>3. \A g : /\ (HasRow(g)' <=> HasRow(g)) /\ (InWizard(g)' <=> InWizard(g)) /\ (InDraft(g)' <=> InDraft(g))
    BY <1>3, <2>1 DEF HasRow, InWizard, InDraft
  <2>4. (form = "wizard" => Sendable(values.filling))' /\ (draft # NoDraft => Sendable(draft.filling))'
    <3>1. \A g : Sendable(g) => Sendable(g)'
      BY <2>1, <2>2, <2>3 DEF Sendable
    <3>2. (form' = "wizard" => Sendable(values.filling)') /\ (draft' # NoDraft => Sendable(draft.filling)')
      BY <2>1, <3>1 DEF FillingsApart
    <3> QED BY <2>1, <3>2 DEF Sendable
  <2>5. ASSUME NEW q \in posts'
        PROVE  /\ q.body.filling <= begun'
               /\ InWizard(q.body.filling)' /\ q.from # "here" => q.body.filling \in again'
               /\ InDraft(q.body.filling)' /\ ~(InWizard(q.body.filling)' /\ q.from = "here") => q.body.filling \in again'
               /\ HasRow(q.body.filling)' => q.at = "created" \/ q.body.filling \in again'
    <3>1. PICK s \in posts : q.body = s.body /\ q.from = s.from /\ (q.at = s.at \/ s.at = "sent")
      BY <2>2
    <3> QED BY <2>1, <2>3, <3>1 DEF FillingsApart
  <2>6. OneListingPerFilling' /\ \A i \in DOMAIN rows' : rows'[i].filling <= begun'
    BY <1>3, <2>1 DEF OneListingPerFilling, FillingsApart
  <2> QED BY <2>1, <2>2, <2>4, <2>5, <2>6 DEF FillingsApart
<1>4. ASSUME NEW r \in posts, CreateListing(r), rows' # rows
      PROVE  FillingsApart' /\ OneListingPerFilling'
  <2> DEFINE row == [filling |-> r.body.filling, min |-> r.body.min, max |-> r.body.max,
                     images |-> r.body.images, writes |-> 0, wanted |-> r.body.wanted, lost |-> r.body.lost]
             f == r.body.filling
  <2>1. /\ UNCHANGED <<form, values, draft, begun, again>> /\ r.at = "sent"
        /\ posts' = (posts \ {r}) \cup {[r EXCEPT !.at = "created"]} /\ rows' = Append(rows, row) /\ row.filling = f
    BY <1>4 DEF CreateListing
  <2>2. /\ \A q \in posts' : \E s \in posts : /\ q.body = s.body /\ q.from = s.from
                                              /\ q.at = s.at \/ (s = r /\ q.at = "created")
        /\ \E q \in posts' : q.body = r.body /\ q.at = "created"
        /\ \A q, t \in posts' : q.body.filling = t.body.filling => q = t \/ q.body.filling \in again
        /\ \A g : CreatedFrom(g) => CreatedFrom(g)'
        /\ \A q \in posts' : q \in posts \/ q.at = "created"
    BY <1>2, <2>1
  <2>3. \A i \in DOMAIN rows : rows[i].filling = f => f \in again
    BY <2>1 DEF FillingsApart, HasRow
  <2> HIDE DEF row, f
  <2>4. /\ DOMAIN rows' = DOMAIN rows \cup {Len(rows) + 1} /\ rows'[Len(rows) + 1] = row
        /\ \A i \in DOMAIN rows : rows'[i] = rows[i]
    BY <2>1 DEF FormTypes
  <2>5. \A g : /\ (InWizard(g)' <=> InWizard(g)) /\ (InDraft(g)' <=> InDraft(g))
               /\ (HasRow(g)' => HasRow(g) \/ g = f)
    BY <2>1, <2>4 DEF HasRow, InWizard, InDraft
  <2>6. CreatedFrom(f)'
    BY <2>2 DEF CreatedFrom, f
  <2>7. (form = "wizard" => Sendable(values.filling))' /\ (draft # NoDraft => Sendable(draft.filling))'
    <3>1. \A g : Sendable(g) => Sendable(g)'
      BY <2>1, <2>2, <2>5, <2>6 DEF Sendable
    <3>2. (form' = "wizard" => Sendable(values.filling)') /\ (draft' # NoDraft => Sendable(draft.filling)')
      BY <2>1, <3>1 DEF FillingsApart
    <3> QED BY <2>1, <3>2 DEF Sendable
  <2>8. ASSUME NEW q \in posts'
        PROVE  /\ q.body.filling <= begun'
               /\ InWizard(q.body.filling)' /\ q.from # "here" => q.body.filling \in again'
               /\ InDraft(q.body.filling)' /\ ~(InWizard(q.body.filling)' /\ q.from = "here") => q.body.filling \in again'
               /\ HasRow(q.body.filling)' => q.at = "created" \/ q.body.filling \in again'
    <3>1. PICK s \in posts : q.body = s.body /\ q.from = s.from /\ (q.at = s.at \/ (s = r /\ q.at = "created"))
      BY <2>2
    <3>2. /\ s.body.filling <= begun
          /\ InWizard(s.body.filling) /\ s.from # "here" => s.body.filling \in again
          /\ InDraft(s.body.filling) /\ ~(InWizard(s.body.filling) /\ s.from = "here") => s.body.filling \in again
          /\ HasRow(s.body.filling) => s.at = "created" \/ s.body.filling \in again
      BY DEF FillingsApart
    <3>3. q.at # "created" => q.body.filling # f \/ q.body.filling \in again
      BY <2>1, <2>2 DEF FillingsApart, f
    <3> QED BY <2>1, <2>5, <3>1, <3>2, <3>3
  <2>9. \A i \in DOMAIN rows' : rows'[i].filling <= begun'
    <3>1. f <= begun
      BY DEF FillingsApart, f
    <3> QED BY <2>1, <2>4, <3>1 DEF FillingsApart
  <2>10. OneListingPerFilling'
    BY <2>1, <2>3, <2>4 DEF OneListingPerFilling
  <2> QED BY <2>1, <2>2, <2>7, <2>8, <2>9, <2>10 DEF FillingsApart
<1>5. ASSUME NEW r \in posts, Published(r)
      PROVE  FillingsApart' /\ OneListingPerFilling'
  <2> DEFINE f == r.body.filling
  <2>1. posts' = posts \ {r} /\ UNCHANGED <<rows, begun>> /\ again \subseteq again'
    BY <1>5 DEF Published
  <2>2. \/ r.from = "here" /\ form' = "success" /\ draft' = NoDraft
        \/ r.from = "left" /\ draft' = NoDraft /\ UNCHANGED <<form, values>>
        \/ r.from = "gone" /\ UNCHANGED <<form, values, draft>>
        \/ f \in again' /\ UNCHANGED <<form, values, draft>>
    BY <1>5 DEF Published, DropDraft
  <2>3. \A g : (InWizard(g)' => InWizard(g)) /\ (InDraft(g)' => InDraft(g))
    BY <2>2 DEF InWizard, InDraft
  <2>4. \A g : HasRow(g)' <=> HasRow(g)
    BY <2>1 DEF HasRow
  <2>5. InWizard(f)' \/ InDraft(f)' => f \in again'
    BY <2>1, <2>2, <2>3 DEF FillingsApart, InWizard, InDraft
  <2>6. \A g : CreatedFrom(g) => CreatedFrom(g)' \/ g = f
    BY <2>1 DEF CreatedFrom
  <2>7. (form = "wizard" => Sendable(values.filling))'
    <3> SUFFICES ASSUME form' = "wizard"
                 PROVE  Sendable(values.filling)'
      OBVIOUS
    <3>1. form = "wizard" /\ values' = values
      BY <2>2
    <3>2. Sendable(values.filling) /\ (values.filling = f => f \in again')
      BY <2>5, <3>1 DEF FillingsApart, InWizard
    <3> QED BY <2>1, <2>4, <2>6, <3>1, <3>2 DEF Sendable
  <2>8. (draft # NoDraft => Sendable(draft.filling))'
    <3> SUFFICES ASSUME draft' # NoDraft
                 PROVE  Sendable(draft.filling)'
      OBVIOUS
    <3>1. draft # NoDraft /\ draft' = draft
      BY <2>2
    <3>2. Sendable(draft.filling) /\ (draft.filling = f => f \in again')
      BY <2>5, <3>1 DEF FillingsApart, InDraft
    <3> QED BY <2>1, <2>4, <2>6, <3>1, <3>2 DEF Sendable
  <2>9. ASSUME NEW q \in posts'
        PROVE  /\ q.body.filling <= begun'
               /\ InWizard(q.body.filling)' /\ q.from # "here" => q.body.filling \in again'
               /\ InDraft(q.body.filling)' /\ ~(InWizard(q.body.filling)' /\ q.from = "here") => q.body.filling \in again'
               /\ HasRow(q.body.filling)' => q.at = "created" \/ q.body.filling \in again'
    <3>1. q \in posts
      BY <2>1
    <3>2. InDraft(q.body.filling)' => (InWizard(q.body.filling)' <=> InWizard(q.body.filling))
      BY <2>2 DEF InDraft, InWizard
    <3> QED BY <2>1, <2>3, <2>4, <3>1, <3>2 DEF FillingsApart
  <2>10. /\ OneListingPerFilling' /\ \A i \in DOMAIN rows' : rows'[i].filling <= begun'
         /\ \A q, t \in posts' : q.body.filling = t.body.filling => q = t \/ q.body.filling \in again'
    BY <2>1 DEF OneListingPerFilling, FillingsApart
  <2> QED BY <2>7, <2>8, <2>9, <2>10 DEF FillingsApart
<1>6. ASSUME NEW r \in posts, NotPublished(r)
      PROVE  FillingsApart' /\ OneListingPerFilling'
  <2>1. posts' = posts \ {r} /\ r.at = "refused" /\ UNCHANGED <<form, values, draft, rows, begun, again>>
    BY <1>6 DEF NotPublished
  <2>2. \A g : CreatedFrom(g)' <=> CreatedFrom(g)
    BY <2>1 DEF CreatedFrom
  <2>3. \A g : /\ (HasRow(g)' <=> HasRow(g)) /\ (InWizard(g)' <=> InWizard(g)) /\ (InDraft(g)' <=> InDraft(g))
    BY <2>1 DEF HasRow, InWizard, InDraft
  <2>4. (form = "wizard" => Sendable(values.filling))' /\ (draft # NoDraft => Sendable(draft.filling))'
    <3>1. (form = "wizard" => Sendable(values.filling)) /\ (draft # NoDraft => Sendable(draft.filling))
      BY DEF FillingsApart
    <3> QED BY <2>1, <2>2, <2>3, <3>1 DEF Sendable
  <2> QED BY <2>1, <2>3, <2>4 DEF FillingsApart, OneListingPerFilling
<1> QED BY <1>1, <1>3, <1>4, <1>5, <1>6

LEMMA FillingsStep ==
    ASSUME FormTypes, PhotosFollow, PagesWait, CheckedHolds, FillingsApart, OneListingPerFilling, [FormNext]_formVars
    PROVE  FillingsApart' /\ OneListingPerFilling'
<1>1. CASE FieldActions \/ StepActions \/ ZoneActions \/ OpenEdit \/ OpenElsewhere \/ SaveActions \/ UNCHANGED formVars
  BY <1>1, FillingsUnmoved
<1>2. CASE OpenWizard \/ Leave \/ SessionEnds \/ PublishAnother
  BY <1>2, FillingsOfPages
<1>3. CASE Submit \/ PressEnter \/ \E r \in posts : CreateListing(r) \/ Published(r) \/ NotPublished(r)
  BY <1>3, FillingsOfPosts
<1> QED BY <1>1, <1>2, <1>3 DEF FormNext, FieldActions, StepActions, ZoneActions, SaveActions

\* What another tab has of the row: no step makes it newer than the row.
LEMMA KnownSame ==
    ASSUME KnownElsewhere, CheckedHolds, other' \in {other, NoForm},
           rows # <<>> => /\ rows' # <<>> /\ rows'[1].writes = rows[1].writes
                          /\ rows'[1].images = rows[1].images,
           \A r \in saves' : r.from = "elsewhere" =>
             \E q \in saves : q.from = "elsewhere" /\ q.body = r.body
    PROVE  KnownElsewhere'
<1>1. \A v : rows # <<>> /\ UpToDate(v) => v.basis <= rows'[1].writes /\ (v.basis = rows'[1].writes => v.images = rows'[1].images)
  BY DEF UpToDate
<1>2. other' # NoForm => rows' # <<>> /\ UpToDate(other)'
  BY <1>1 DEF KnownElsewhere, UpToDate
<1>3. ASSUME NEW r \in saves', r.from = "elsewhere"
      PROVE  r.body.basis <= rows'[1].writes /\ (r.body.basis = rows'[1].writes => r.body.images = rows'[1].images)
  BY <1>1, <1>3 DEF KnownElsewhere, CheckedHolds
<1> QED BY <1>2, <1>3 DEF KnownElsewhere, UpToDate

LEMMA KnownElsewhereStep ==
    ASSUME FormTypes, PhotosFollow, KnownElsewhere, CheckedHolds, [FormNext]_formVars
    PROVE  KnownElsewhere'
<1>0. FieldActions \/ StepActions \/ PageActions \/ ZoneActions \/ PostActions \/ SaveActions \/ UNCHANGED formVars
  BY NextTypes
<1>1. CASE UNCHANGED <<other, rows, saves>>
  BY <1>1, KnownSame
<1>2. CASE FieldActions \/ StepActions \/ ZoneActions \/ OpenWizard \/ OpenEdit \/ UNCHANGED formVars
  <2>1. CASE FieldActions
    BY <1>1, <2>1, FieldsType DEF FieldActions, server
  <2>2. CASE ZoneActions
    BY <1>1, <2>2, ItemsAreShown, ZoneStep DEF server
  <2>3. CASE StepActions \/ OpenWizard \/ OpenEdit \/ UNCHANGED formVars
    BY <1>1, <2>3 DEF StepActions, Advance, GoNext, GoBack, OpenWizard, OpenEdit, server, formVars
  <2> QED BY <1>2, <2>1, <2>2, <2>3
<1>3. CASE LeavePage
  <2>1. other' = other /\ rows' = rows
    BY <1>3 DEF LeavePage
  <2>2. \A r \in saves' : r.from = "elsewhere" => \E q \in saves : q.from = "elsewhere" /\ q.body = r.body
    BY <1>3, LeavingRequests
  <2> QED BY <2>1, <2>2, KnownSame
<1>4. CASE OpenElsewhere
  <2>1. rows # <<>> /\ other' = Loaded(rows[1]) /\ rows' = rows /\ saves' = saves
    BY <1>4 DEF OpenElsewhere
  <2>2. rows[1].writes \in Nat
    <3>1. rows[1] \in FormRow
      BY <2>1 DEF FormTypes
    <3> QED BY <3>1 DEF FormRow
  <2>3. other'.basis = rows[1].writes /\ other'.images = rows[1].images
    BY <2>1 DEF Loaded
  <2> QED BY <2>1, <2>2, <2>3 DEF KnownElsewhere, UpToDate
<1>5. CASE PostActions
  <2>1. other' = other /\ saves' = saves
    BY <1>5 DEF PostActions, SendForm, PublishAnother, CreateListing, Published, NotPublished, server
  <2>2. rows # <<>> => rows' # <<>> /\ rows'[1] = rows[1]
    <3>1. rows' = rows \/ \E row : rows' = Append(rows, row)
      BY <1>5 DEF PostActions, SendForm, PublishAnother, CreateListing, Published, NotPublished, server
    <3> QED BY <3>1 DEF FormTypes
  <2> QED BY <2>1, <2>2, KnownSame
<1>6. CASE Save
  <2>1. UNCHANGED <<other, rows>> /\ saves' = saves \cup {ChangeRequest("here", values)}
    BY <1>6 DEF Save
  <2>2. ChangeRequest("here", values).from # "elsewhere"
    BY DEF ChangeRequest
  <2> QED BY <2>1, <2>2, KnownSame
<1>7. CASE SaveElsewhere
  <2>1. PICK v \in Values : /\ saves' = saves \cup {ChangeRequest("elsewhere", v)} /\ other # NoForm
                            /\ v.images = other.images /\ v.basis = other.basis
    BY <1>7, OtherSends
  <2>2. ChangeRequest("elsewhere", v).body = v
    BY DEF ChangeRequest
  <2>3. rows # <<>> /\ UpToDate(v) /\ rows' = rows /\ other' \in {other, NoForm}
    BY <1>7, <2>1 DEF KnownElsewhere, UpToDate, SaveElsewhere
  <2> QED BY <2>1, <2>2, <2>3 DEF KnownElsewhere, UpToDate
<1>8. ASSUME NEW r \in saves, NEW at, saves' = (saves \ {r}) \cup {[r EXCEPT !.at = at]}
      PROVE  \A s \in saves' : s.from = "elsewhere" => \E q \in saves : q.from = "elsewhere" /\ q.body = s.body
  <2>1. [r EXCEPT !.at = at].from = r.from /\ [r EXCEPT !.at = at].body = r.body
    BY DEF FormTypes, Saving
  <2> QED BY <1>8, <2>1
<1>9. ASSUME NEW r \in saves, UpdateChecks(r)
      PROVE  KnownElsewhere'
  <2>1. other' = other /\ rows' = rows /\ \E at : saves' = (saves \ {r}) \cup {[r EXCEPT !.at = at]}
    BY <1>9 DEF UpdateChecks
  <2> QED BY <1>8, <2>1, KnownSame
<1>10. ASSUME NEW r \in saves, UpdateWrites(r)
       PROVE  KnownElsewhere'
  <2>1. other' = other /\ saves' = (saves \ {r}) \cup {[r EXCEPT !.at = "written"]}
    BY <1>10 DEF UpdateWrites
  <2>2. \A s \in saves' : s.from = "elsewhere" => \E q \in saves : q.from = "elsewhere" /\ q.body = s.body
    BY <1>8, <2>1
  <2>3. rows # <<>> /\ rows[1] \in FormRow /\ 1 \in DOMAIN rows
    BY DEF CheckedHolds, FormTypes
  <2>4. rows' # <<>> /\ rows'[1].writes = rows[1].writes + 1 /\ rows[1].writes \in Nat
    BY <1>10, <2>3 DEF UpdateWrites, FormTypes, FormRow
  <2>5. \A v \in Values : UpToDate(v) => v.basis <= rows'[1].writes /\ v.basis # rows'[1].writes
    BY <2>4 DEF UpToDate, Values
  <2>6. \A q \in saves : q.body \in Values
    BY DEF FormTypes, Saving
  <2>7. \A s \in saves' : s.from = "elsewhere" => s.body.basis <= rows'[1].writes /\ s.body.basis # rows'[1].writes
    BY <2>2, <2>5, <2>6 DEF KnownElsewhere
  <2>8. other' # NoForm => other'.basis <= rows'[1].writes /\ other'.basis # rows'[1].writes
    BY <2>1, <2>5 DEF KnownElsewhere, FormTypes
  <2> QED BY <2>4, <2>7, <2>8 DEF KnownElsewhere, UpToDate
<1>11. ASSUME NEW r \in saves, SaveSettles(r)
       PROVE  KnownElsewhere'
  <2>1. other' = other /\ rows' = rows /\ saves' \subseteq saves
    BY <1>11 DEF SaveSettles
  <2> QED BY <2>1, KnownSame
<1> QED BY <1>0, <1>2, <1>3, <1>4, <1>5, <1>6, <1>7, <1>9, <1>10, <1>11
        DEF PageActions, Leave, SessionEnds, SaveActions

LEMMA NightsStep ==
    ASSUME FormTypes, PhotosFollow, KnownElsewhere, CheckedHolds, NightsInOrder, [FormNext]_formVars
    PROVE  CheckedHolds' /\ NightsInOrder'
<1>1. FieldActions \/ StepActions \/ PageActions \/ ZoneActions \/ PostActions \/ SaveActions \/ UNCHANGED formVars
  BY NextTypes
<1>2. CASE FieldActions \/ StepActions \/ PageActions \/ ZoneActions \/ UNCHANGED formVars
  BY <1>2, NightsOfForms
<1>3. CASE PostActions
  BY <1>3, NightsOfPosts
<1>4. CASE SaveActions
  BY <1>4, NightsOfSaves
<1> QED BY <1>1, <1>2, <1>3, <1>4

\* The invariant of the two forms and the API that serves them: it holds at first, and every step
\* keeps it.
THEOREM FormsInvariant == FormSpec => []FormsInv
<1>1. FormInit => FormsInv
  <2> SUFFICES ASSUME FormInit
               PROVE  FormsInv
    OBVIOUS
  <2>1. FormTypes
    <3>1. Blank(0) \in Values
      BY DEF Blank, Values, NotGiven
    <3>2. <<>> \in Seq(ZoneItem) /\ <<>> \in Seq(Photos) /\ <<>> \in Seq(FormRow)
      OBVIOUS
    <3>3. zone \in Seq(ZoneItem) /\ crops \in Seq(Photos) /\ rows \in Seq(FormRow)
      BY <3>2, Zenon DEF FormInit
    <3>4. /\ values \in Values /\ draft \in Values \cup {NoDraft} /\ tasks \in Tasks
          /\ other \in Values \cup {NoForm}
      BY <3>1, NoTasksType DEF FormInit
    <3>5. /\ form \in {"away", "wizard", "success", "edit"} /\ step \in 0..5
          /\ posts \subseteq Post /\ saves \subseteq Saving
          /\ begun \in Nat /\ sent \in Nat /\ saved \in Nat /\ mishaps \in Nat /\ again \subseteq Nat
      <4>1. form = "away" /\ step = 0 /\ begun = 0 /\ sent = 0 /\ saved = 0 /\ mishaps = 0
        BY DEF FormInit
      <4>2. posts = {} /\ saves = {} /\ again = {}
        BY DEF FormInit
      <4> QED BY <4>1, <4>2
    <3>6. overlap \in BOOLEAN
      BY Zenon DEF FormInit
    <3> QED BY <3>3, <3>4, <3>5, <3>6 DEF FormTypes
  <2>2. PhotosFollow /\ KnownElsewhere
    BY BlankIsWhole DEF FormInit, PhotosFollow, KnownElsewhere, InZone, Editing
  <2>3. PagesWait /\ CheckedHolds
    BY DEF FormInit, PagesWait, CheckedHolds
  <2>4. DOMAIN rows = {}
    BY DEF FormInit
  <2>5. FillingsApart
    BY <2>4 DEF FormInit, FillingsApart
  <2>6. OneListingPerFilling /\ PhotosKept /\ NightsInOrder
    BY <2>4 DEF OneListingPerFilling, PhotosKept, NightsInOrder
  <2> QED BY <2>1, <2>2, <2>3, <2>5, <2>6 DEF FormsInv
<1>2. FormsInv /\ [FormNext]_formVars => FormsInv'
  <2> SUFFICES ASSUME FormsInv, [FormNext]_formVars
               PROVE  FormsInv'
    OBVIOUS
  <2>1. /\ FormTypes /\ PhotosFollow /\ KnownElsewhere /\ PagesWait /\ CheckedHolds /\ FillingsApart
        /\ OneListingPerFilling /\ PhotosKept /\ NightsInOrder
    BY DEF FormsInv
  <2>2. FormTypes'
    BY <2>1, NextTypes
  <2>3. PhotosFollow' /\ PhotosKept'
    BY <2>1, PhotosStep
  <2>4. PagesWait'
    BY <2>1, PagesWaitStep
  <2>5. CheckedHolds' /\ NightsInOrder'
    BY <2>1, NightsStep
  <2>6. FillingsApart' /\ OneListingPerFilling'
    BY <2>1, FillingsStep
  <2>7. KnownElsewhere'
    BY <2>1, KnownElsewhereStep
  <2> QED BY <2>2, <2>3, <2>4, <2>5, <2>6, <2>7 DEF FormsInv
<1> QED BY <1>1, <1>2, PTL DEF FormSpec

\* One filling of the wizard makes one listing, unless its owner submits it again.
THEOREM OneListing == FormSpec => []OneListingPerFilling
<1>1. FormsInv => OneListingPerFilling
  BY DEF FormsInv
<1> QED BY <1>1, FormsInvariant, PTL

\* A listing has every photo its owner had chosen in the form that was submitted, and has neither
\* removed nor been shown as failed nor left while it was under way, except those lost by a crop
\* confirmed twice, cancelled late or sent without a token, by leaving the wizard before Next, and
\* by a form filled before they were saved: there is no fourth way.
THEOREM PhotosArePublished == FormSpec => []PhotosKept
<1>1. FormsInv => PhotosKept
  BY DEF FormsInv
<1> QED BY <1>1, FormsInvariant, PTL

\* The shortest stay of a listing is at most its longest, unless two changes overlap.
THEOREM NightsAreInOrder == FormSpec => []NightsInOrder
<1>1. FormsInv => NightsInOrder
  BY DEF FormsInv
<1> QED BY <1>1, FormsInvariant, PTL

-----------------------------------------------------------------------------
(***************************************************************************)
(* The conversations: types.                                               *)
(***************************************************************************)

LEMMA Numbers == Bound \in Nat /\ AtOnce \in Nat /\ Message \subseteq Nat
BY MessagingAssumption DEF Message

\* A finite set of messages, in order, is a list without repetition.
LEMMA OrderedMessages ==
    ASSUME NEW K \in SUBSET Message
    PROVE  /\ InOrder(K) \in Seq(Message)
           /\ \A i, j \in DOMAIN InOrder(K) : InOrder(K)[i] = InOrder(K)[j] => i = j
<1>1. K \in SUBSET Nat /\ IsFiniteSet(K)
  <2>1. IsFiniteSet(Message)
    BY Numbers, FS_Interval DEF Message
  <2> QED BY <2>1, Numbers, FS_Subset
<1>2. /\ Cardinality(K) \in Nat
      /\ \A j \in 1 .. Cardinality(K) : InOrder(K)[j] \in Message
      /\ \A i, j \in 1 .. Cardinality(K) : InOrder(K)[i] = InOrder(K)[j] => i = j
  BY <1>1, OrderIsOnto
<1>3. InOrder(K) \in [1 .. Cardinality(K) -> Message]
  BY <1>2 DEF InOrder
<1>4. InOrder(K) \in Seq(Message)
  BY <1>2, <1>3
<1>5. DOMAIN InOrder(K) = 1 .. Cardinality(K)
  BY <1>3
<1> QED BY <1>2, <1>4, <1>5

\* What the actions write in a row, in a page and in a posting.
LEMMA RowUpdates ==
    ASSUME NEW x \in MessageRow
    PROVE  /\ \A c \in Content : LET n == [x EXCEPT !.content = c] IN
                n \in MessageRow /\ n.sender = x.sender /\ n.room = x.room /\ n.read = x.read /\ n.content = c
           /\ LET n == [x EXCEPT !.deleted = TRUE] IN
                /\ n \in MessageRow /\ n.sender = x.sender /\ n.room = x.room
                /\ n.read = x.read /\ n.content = x.content
           /\ LET n == [x EXCEPT !.read = TRUE] IN
                n \in MessageRow /\ n.sender = x.sender /\ n.room = x.room /\ n.content = x.content
           /\ x.room \in Room /\ x.sender \in User /\ x.content \in Content /\ x.read \in BOOLEAN
           /\ x # Null
BY MessagingAssumption DEF MessageRow

LEMMA PageUpdates ==
    ASSUME NEW x \in Shell
    PROVE  /\ \A s \in Seq(Message) : LET n == [x EXCEPT !.list = s] IN
                n \in Shell /\ n.room = x.room /\ n.joined = x.joined /\ n.list = s
           /\ LET n == [x EXCEPT !.joined = TRUE] IN
                n \in Shell /\ n.room = x.room /\ n.joined /\ n.list = x.list
           /\ LET n == [x EXCEPT !.room = Null, !.joined = FALSE] IN
                n \in Shell /\ n.room = Null /\ n.list = x.list
           /\ x.room \in Room \cup {Null} /\ x.list \in Seq(Message)
BY DEF Shell

LEMMA PostingUpdates ==
    ASSUME NEW x \in Posting
    PROVE  /\ \A m \in Message : LET n == [x EXCEPT !.id = m] IN n \in Posting /\ n.room = x.room
           /\ x.room \in Room /\ x.content \in Content /\ x.id \in Message \cup {Null}
           /\ x # Null
BY MessagingAssumption DEF Posting

LEMMA LoadUpdates ==
    ASSUME NEW x \in RoomLoad
    PROVE  /\ \A s \in SUBSET Message : LET n == [x EXCEPT !.stage = "show", !.seen = s] IN
                n \in RoomLoad /\ n.user = x.user /\ n.room = x.room /\ n.stage = "show" /\ n.seen = s
           /\ LET n == [x EXCEPT !.stage = "read"] IN
                /\ n \in RoomLoad /\ n.user = x.user /\ n.room = x.room
                /\ n.stage = "read" /\ n.seen = x.seen
           /\ x.user \in Viewer /\ x.room \in Room /\ x.seen \in SUBSET Message
           /\ x.stage \in {"fetch", "show", "read"}
BY DEF RoomLoad

LEMMA TypesAtFirst == MessagingInit => MessagingTypes
<1> SUFFICES ASSUME MessagingInit PROVE MessagingTypes
  OBVIOUS
<1>1. [room |-> Null, list |-> <<>>, joined |-> FALSE] \in Shell
  <2>1. <<>> \in Seq(Message)
    OBVIOUS
  <2> QED BY <2>1 DEF Shell
<1>2. 0 \in 0 .. AtOnce
  BY Numbers
<1>3. loads = {} /\ marks = {} /\ events = {} /\ received \cup missed = {} /\ alerted \cup miscounted = {}
  BY DEF MessagingInit
<1>4. /\ tenantOf \in [Room -> Tenant \cup {Null}] /\ message \in [Message -> MessageRow \cup {Null}]
      /\ posting \in [Viewer -> Posting \cup {Null}]
  BY DEF MessagingInit
<1>5. creating \in [Tenant -> 0 .. AtOnce] /\ counting \in [User -> 0 .. AtOnce] /\ shell \in [Viewer -> Shell]
  BY <1>1, <1>2 DEF MessagingInit
<1> QED BY <1>3, <1>4, <1>5 DEF MessagingTypes

\* A recount that a write starts, and one that ends.
LEMMA CountingTypes ==
    ASSUME counting \in [User -> 0 .. AtOnce], miscounted \subseteq User, NEW u \in User
    PROVE  /\ \A c : /\ c = "masked" => counting[u] < AtOnce
                     /\ Recount(u, c)
                     => counting' \in [User -> 0 .. AtOnce] /\ miscounted' \subseteq User
           /\ /\ counting[u] > 0
              /\ counting' = [counting EXCEPT ![u] = @ - 1]
              => counting' \in [User -> 0 .. AtOnce]
<1>1. counting[u] \in 0 .. AtOnce /\ AtOnce \in Nat
  BY Numbers
<1>2. counting[u] < AtOnce => counting[u] + 1 \in 0 .. AtOnce
  BY <1>1
<1>3. counting[u] > 0 => counting[u] - 1 \in 0 .. AtOnce
  BY <1>1
<1> QED BY <1>2, <1>3 DEF Recount

LEMMA StoreTypes ==
    ASSUME MessagingTypes, NEW m \in Message, NEW r \in Room, NEW u \in User, NEW c \in Content,
           Store(m, r, u, c)
    PROVE  /\ message' \in [Message -> MessageRow \cup {Null}]
           /\ counting' \in [User -> 0 .. AtOnce] /\ miscounted' \subseteq User
           /\ events' \subseteq Event
           /\ missed' \subseteq Message
<1>1. [room |-> r, sender |-> u, content |-> c, read |-> FALSE, deleted |-> FALSE] \in MessageRow
  BY DEF MessageRow
<1>2. message' \in [Message -> MessageRow \cup {Null}]
  BY <1>1 DEF Store, MessagingTypes
<1>3. counting' \in [User -> 0 .. AtOnce] /\ miscounted' \subseteq User
  BY CountingTypes DEF Store, MessagingTypes
<1>4. events' \subseteq Event
  BY DEF Store, MessagingTypes, Event
<1>5. missed' \subseteq Message
  BY DEF Store, MessagingTypes
<1> QED BY <1>2, <1>3, <1>4, <1>5

LEMMA RoomTypes ==
    ASSUME MessagingTypes, NEW t \in Tenant, LookForRoom(t) \/ \E r \in Room : InsertRoom(t, r)
    PROVE  MessagingTypes'
<1>1. creating[t] \in 0 .. AtOnce /\ AtOnce \in Nat
  BY Numbers DEF MessagingTypes
<1>2. /\ creating[t] < AtOnce => creating[t] + 1 \in 0 .. AtOnce
      /\ creating[t] > 0 => creating[t] - 1 \in 0 .. AtOnce
  BY <1>1
<1>3. CASE LookForRoom(t)
  BY <1>2, <1>3 DEF LookForRoom, MessagingTypes
<1>4. CASE \E r \in Room : InsertRoom(t, r)
  BY <1>2, <1>4 DEF InsertRoom, MessagingTypes
<1> QED BY <1>3, <1>4

LEMMA ServerTypes ==
    ASSUME MessagingTypes, NEW u \in User, AtServer(u)
    PROVE  MessagingTypes'
<1>1. ASSUME NEW m \in Message, EditMessage(u, m)
      PROVE  MessagingTypes'
  <2>1. PICK c \in {"text", "masked"} :
          /\ c = "masked" => counting[u] < AtOnce
          /\ message' = [message EXCEPT ![m].content = c]
          /\ Recount(u, c)
    BY <1>1 DEF EditMessage
  <2>2. message[m] \in MessageRow /\ c \in Content
    BY <1>1 DEF EditMessage, MessagingTypes, Content
  <2>3. message' \in [Message -> MessageRow \cup {Null}]
    BY <2>1, <2>2, RowUpdates DEF MessagingTypes
  <2>4. counting' \in [User -> 0 .. AtOnce] /\ miscounted' \subseteq User
    BY <2>1, CountingTypes DEF MessagingTypes
  <2> QED BY <1>1, <2>3, <2>4 DEF EditMessage, MessagingTypes
<1>2. ASSUME NEW m \in Message, DeleteMessage(u, m)
      PROVE  MessagingTypes'
  <2>1. message[m] \in MessageRow
    BY <1>2 DEF DeleteMessage, MessagingTypes
  <2>2. message' \in [Message -> MessageRow \cup {Null}]
    BY <1>2, <2>1, RowUpdates DEF DeleteMessage, MessagingTypes
  <2> QED BY <1>2, <2>2 DEF DeleteMessage, MessagingTypes
<1>3. ASSUME NEW r \in Room, NEW m \in Message, NEW c \in Content, SendMessage(u, r, m, c)
      PROVE  MessagingTypes'
  <2>1. Store(m, r, u, c)
    BY <1>3 DEF SendMessage
  <2> QED BY <1>3, <2>1, StoreTypes DEF SendMessage, MessagingTypes
<1>4. ASSUME CountMasked(u) PROVE MessagingTypes'
  <2>1. counting' \in [User -> 0 .. AtOnce]
    BY <1>4, CountingTypes DEF CountMasked, MessagingTypes
  <2>2. alerted' \subseteq User
    BY <1>4 DEF CountMasked, MessagingTypes
  <2> QED BY <1>4, <2>1, <2>2 DEF CountMasked, MessagingTypes
<1>5. ASSUME CountFails(u) PROVE MessagingTypes'
  <2>1. counting' \in [User -> 0 .. AtOnce]
    BY <1>5, CountingTypes DEF CountFails, MessagingTypes
  <2> QED BY <1>5, <2>1 DEF CountFails, MessagingTypes
<1> QED BY <1>1, <1>2, <1>3, <1>4, <1>5 DEF AtServer

\* What marking as read changes of a row.
LEMMA ReadChanges ==
    ASSUME MessagingTypes, NEW u, NEW r, Read(u, r)
    PROVE  /\ message' \in [Message -> MessageRow \cup {Null}]
           /\ \A m \in Message :
                /\ message'[m] = Null <=> message[m] = Null
                /\ message'[m] # Null =>
                     /\ message'[m].sender = message[m].sender
                     /\ message'[m].room = message[m].room
                     /\ message'[m].content = message[m].content
                     /\ message'[m].read => message[m].read \/ m \in ToRead(u, r)
<1> SUFFICES ASSUME NEW m \in Message
             PROVE  /\ message'[m] \in MessageRow \cup {Null}
                    /\ message'[m] = Null <=> message[m] = Null
                    /\ message'[m] # Null =>
                         /\ message'[m].sender = message[m].sender
                         /\ message'[m].room = message[m].room
                         /\ message'[m].content = message[m].content
                         /\ message'[m].read => message[m].read \/ m \in ToRead(u, r)
  BY DEF Read
<1>1. message[m] \in MessageRow \cup {Null}
  BY DEF MessagingTypes
<1>2. CASE m \in ToRead(u, r)
  <2>1. message[m] \in MessageRow
    BY <1>1, <1>2 DEF ToRead, In, Stored
  <2>2. message'[m] = [message[m] EXCEPT !.read = TRUE]
    BY <1>2 DEF Read
  <2> QED BY <1>2, <2>1, <2>2, RowUpdates
<1>3. CASE m \notin ToRead(u, r)
  <2>1. message'[m] = message[m]
    BY <1>3 DEF Read
  <2> QED BY <1>1, <2>1
<1> QED BY <1>2, <1>3

LEMMA LeaveTypes ==
    ASSUME MessagingTypes, NEW u, LeaveRoom(u)
    PROVE  events' \subseteq Event /\ missed' \subseteq Message
<1>1. \A e \in events : e.id \in Message
  BY DEF MessagingTypes, Event
<1> QED BY <1>1 DEF LeaveRoom, MessagingTypes

LEMMA PageTypes ==
    ASSUME MessagingTypes, NEW u \in Viewer, OnPage(u)
    PROVE  MessagingTypes'
<1> Viewer \subseteq User
  BY MessagingAssumption
<1>1. shell[u] \in Shell /\ posting[u] \in Posting \cup {Null}
  BY DEF MessagingTypes
<1>2. ASSUME NEW r \in Room, OpenRoom(u, r)
      PROVE  MessagingTypes'
  <2>1. [room |-> r, list |-> <<>>, joined |-> FALSE] \in Shell
    <3>1. <<>> \in Seq(Message)
      OBVIOUS
    <3> QED BY <3>1 DEF Shell
  <2>2. [user |-> u, room |-> r, stage |-> "fetch", seen |-> {}] \in RoomLoad
    BY DEF RoomLoad
  <2>3. shell' \in [Viewer -> Shell] /\ loads' \subseteq RoomLoad
    BY <1>2, <2>1, <2>2 DEF OpenRoom, MessagingTypes
  <2>4. events' \subseteq Event /\ missed' \subseteq Message
    BY <1>2, LeaveTypes DEF OpenRoom
  <2> QED BY <1>2, <2>3, <2>4 DEF OpenRoom, MessagingTypes
<1>3. ASSUME CloseRoom(u) PROVE MessagingTypes'
  <2>1. shell' \in [Viewer -> Shell]
    <3>1. shell' = [shell EXCEPT ![u] = [shell[u] EXCEPT !.room = Null, !.joined = FALSE]]
      BY <1>3 DEF CloseRoom
    <3> QED BY <1>1, <3>1, PageUpdates DEF MessagingTypes
  <2>2. events' \subseteq Event /\ missed' \subseteq Message
    BY <1>3, LeaveTypes DEF CloseRoom
  <2> QED BY <1>3, <2>1, <2>2 DEF CloseRoom, MessagingTypes
<1>4. ASSUME Join(u) PROVE MessagingTypes'
  <2>1. shell' \in [Viewer -> Shell]
    BY <1>1, <1>4, PageUpdates DEF Join, MessagingTypes
  <2> QED BY <1>4, <2>1 DEF Join, MessagingTypes
<1>5. ASSUME NEW c \in Content, HandleSend(u, c)
      PROVE  MessagingTypes'
  <2>1. [room |-> shell[u].room, content |-> c, id |-> Null] \in Posting
    BY <1>1, <1>5, PageUpdates DEF HandleSend, Posting
  <2>2. posting' \in [Viewer -> Posting \cup {Null}]
    BY <1>5, <2>1 DEF HandleSend, MessagingTypes
  <2> QED BY <1>5, <2>2 DEF HandleSend, MessagingTypes
<1>6. ASSUME NEW m \in Message, ServeSend(u, m)
      PROVE  MessagingTypes'
  <2>1. posting[u] \in Posting
    BY <1>1, <1>6 DEF ServeSend
  <2>2. posting' \in [Viewer -> Posting \cup {Null}]
    BY <1>6, <2>1, PostingUpdates DEF ServeSend, MessagingTypes
  <2>3. Store(m, posting[u].room, u, posting[u].content)
    BY <1>6 DEF ServeSend
  <2>4. posting[u].room \in Room /\ posting[u].content \in Content
    BY <2>1, PostingUpdates
  <2>5. /\ message' \in [Message -> MessageRow \cup {Null}]
        /\ counting' \in [User -> 0 .. AtOnce] /\ miscounted' \subseteq User
        /\ events' \subseteq Event
        /\ missed' \subseteq Message
    BY <2>3, <2>4, StoreTypes
  <2> QED BY <1>6, <2>2, <2>5 DEF ServeSend, MessagingTypes
<1>7. ASSUME SendAnswered(u) PROVE MessagingTypes'
  <2>1. posting[u].id \in Message
    BY <1>1, <1>7, PostingUpdates DEF SendAnswered, SendIsAnswered
  <2>2. PICK shown \in Seq(Message) : SendIsAnswered(u, shown)
    <3>1. shell[u].list \in Seq(Message)
      BY <1>1, PageUpdates
    <3>2. Append(shell[u].list, posting[u].id) \in Seq(Message)
      BY <2>1, <3>1
    <3>3. CASE posting[u].id \in Shown(u)
      BY <1>7, <3>1, <3>3 DEF SendAnswered
    <3>4. CASE posting[u].id \notin Shown(u)
      BY <1>7, <3>2, <3>4 DEF SendAnswered
    <3> QED BY <3>3, <3>4
  <2>3. shell' \in [Viewer -> Shell]
    BY <1>1, <2>2, PageUpdates DEF SendIsAnswered, MessagingTypes
  <2> QED BY <2>2, <2>3 DEF SendIsAnswered, MessagingTypes
<1>8. ASSUME SendFails(u) PROVE MessagingTypes'
  BY <1>8 DEF SendFails, MessagingTypes
<1> QED BY <1>2, <1>3, <1>4, <1>5, <1>6, <1>7, <1>8 DEF OnPage

LEMMA LoadTypes ==
    ASSUME MessagingTypes, NEW l \in loads, AnswerLoad(l) \/ ShowLoad(l) \/ ReadLoad(l) \/ LoadIsLost(l)
    PROVE  MessagingTypes'
<1>1. l \in RoomLoad
  BY DEF MessagingTypes
<1>2. CASE AnswerLoad(l)
  <2>1. In(l.room) \in SUBSET Message
    BY DEF In, Stored
  <2>2. [l EXCEPT !.stage = "show", !.seen = In(l.room)] \in RoomLoad
    <3> HIDE DEF In
    <3> QED BY <1>1, <2>1, LoadUpdates
  <2>3. loads' \subseteq RoomLoad
    BY <1>2, <2>2 DEF AnswerLoad, MessagingTypes
  <2> QED BY <1>2, <2>3 DEF AnswerLoad, MessagingTypes
<1>3. CASE ShowLoad(l)
  <2>1. l.user \in Viewer /\ l.seen \in SUBSET Message /\ [l EXCEPT !.stage = "read"] \in RoomLoad
    BY <1>1, LoadUpdates
  <2>2. InOrder(l.seen) \in Seq(Message) /\ shell[l.user] \in Shell
    BY <2>1, OrderedMessages DEF MessagingTypes
  <2>3. shell' \in [Viewer -> Shell]
    BY <1>3, <2>1, <2>2, PageUpdates DEF ShowLoad, MessagingTypes
  <2>4. loads' \subseteq RoomLoad /\ received' \cup missed' \subseteq Message
    BY <1>3, <2>1 DEF ShowLoad, MessagingTypes
  <2> QED BY <1>3, <2>3, <2>4 DEF ShowLoad, MessagingTypes
<1>4. CASE ReadLoad(l)
  <2>1. message' \in [Message -> MessageRow \cup {Null}]
    BY <1>4, ReadChanges DEF ReadLoad
  <2> QED BY <1>4, <2>1 DEF ReadLoad, MessagingTypes
<1>5. CASE LoadIsLost(l)
  <2>1. missed' \subseteq Message
    BY <1>5 DEF LoadIsLost, In, Stored, MessagingTypes
  <2> QED BY <1>5, <2>1 DEF LoadIsLost, MessagingTypes
<1> QED BY <1>2, <1>3, <1>4, <1>5

LEMMA EventTypes ==
    ASSUME MessagingTypes, EventsFit, NEW e \in events, Deliver(e) \/ LoseEvent(e)
    PROVE  MessagingTypes'
<1>1. e.to \in Viewer /\ e.id \in Message
  BY DEF MessagingTypes, Event
<1>2. CASE Deliver(e)
  <2>1. shell[e.to] \in Shell /\ Append(shell[e.to].list, e.id) \in Seq(Message)
    <3>1. shell[e.to] \in Shell
      BY <1>1 DEF MessagingTypes
    <3>2. shell[e.to].list \in Seq(Message)
      BY <3>1, PageUpdates
    <3> QED BY <1>1, <3>1, <3>2
  <2>2. shell' \in [Viewer -> Shell]
    BY <1>1, <1>2, <2>1, PageUpdates DEF Deliver, MessagingTypes
  <2>3. received' \subseteq Message
    BY <1>1, <1>2 DEF Deliver, MessagingTypes
  <2>4. marks' \subseteq Mark
    <3>1. message[e.id] \in MessageRow
      BY <1>1 DEF EventsFit, MessagingTypes
    <3>2. [user |-> e.to, room |-> message[e.id].room] \in Mark
      BY <1>1, <3>1, RowUpdates DEF Mark
    <3> QED BY <1>2, <3>2 DEF Deliver, MessagingTypes
  <2> QED BY <1>2, <2>2, <2>3, <2>4 DEF Deliver, MessagingTypes
<1>3. CASE LoseEvent(e)
  BY <1>1, <1>3 DEF LoseEvent, MessagingTypes
<1> QED BY <1>2, <1>3

LEMMA MarkTypes ==
    ASSUME MessagingTypes, NEW k \in marks, MarkRead(k) \/ LoseMark(k)
    PROVE  MessagingTypes'
<1>1. CASE MarkRead(k)
  <2>1. message' \in [Message -> MessageRow \cup {Null}]
    BY <1>1, ReadChanges DEF MarkRead
  <2> QED BY <1>1, <2>1 DEF MarkRead, MessagingTypes
<1>2. CASE LoseMark(k)
  BY <1>2 DEF LoseMark, MessagingTypes
<1> QED BY <1>1, <1>2

-----------------------------------------------------------------------------
(***************************************************************************)
(* The conversations: who is in which room.                                *)
(***************************************************************************)

\* What a step never changes of a message, unless it stores one.
RowsStay ==
    \A m \in Message :
        /\ message'[m] = Null <=> message[m] = Null
        /\ message'[m] # Null =>
             message'[m].sender = message[m].sender /\ message'[m].room = message[m].room

RoomsStay == \A r \in Room : tenantOf[r] # Null => tenantOf'[r] = tenantOf[r]

\* The rooms that pages, postings, loads and marks come to be in are those of their users.
PagesFollow ==
    /\ \A u \in Viewer : shell'[u].room \in {shell[u].room, Null} \/ TalksIn(u, shell'[u].room)
    /\ \A u \in Viewer : posting'[u] # Null =>
          (posting[u] # Null /\ posting'[u].room = posting[u].room) \/ TalksIn(u, posting'[u].room)
    /\ \A l \in loads' : /\ (\E k \in loads : k.user = l.user /\ k.room = l.room) \/ TalksIn(l.user, l.room)
                         /\ (\E k \in loads : k.room = l.room /\ k.seen = l.seen) \/ l.seen \subseteq In(l.room)
    /\ \A k \in marks' : k \in marks \/ TalksIn(k.user, k.room)

\* The requests that leave rows, rooms and pages as they are, but for a column of a row.
LEMMA ServerKeepsRows ==
    ASSUME MessagingTypes
    PROVE  /\ \A t \in Tenant : LookForRoom(t) \/ (\E r \in Room : InsertRoom(t, r)) => RowsStay /\ RoomsStay
           /\ \A u \in User, m \in Message : EditMessage(u, m) \/ DeleteMessage(u, m) => RowsStay /\ RoomsStay
           /\ \A u \in User : CountMasked(u) \/ CountFails(u) => RowsStay /\ RoomsStay
<1>1. ASSUME NEW t \in Tenant, LookForRoom(t) \/ \E r \in Room : InsertRoom(t, r)
      PROVE  RowsStay /\ RoomsStay
  <2>1. CASE LookForRoom(t)
    BY <2>1 DEF LookForRoom, RowsStay, RoomsStay
  <2>2. CASE \E r \in Room : InsertRoom(t, r)
    BY <2>2 DEF InsertRoom, RowsStay, RoomsStay, MessagingTypes
  <2> QED BY <1>1, <2>1, <2>2
<1>2. ASSUME NEW u \in User, NEW m \in Message, EditMessage(u, m) \/ DeleteMessage(u, m)
      PROVE  RowsStay /\ RoomsStay
  <2>1. message[m] \in MessageRow
    BY <1>2 DEF EditMessage, DeleteMessage, MessagingTypes
  <2>2. PICK n \in MessageRow : /\ n.sender = message[m].sender /\ n.room = message[m].room
                                /\ message' = [message EXCEPT ![m] = n]
    <3>1. CASE EditMessage(u, m)
      <4>1. PICK c \in {"text", "masked"} : message' = [message EXCEPT ![m].content = c]
        BY <3>1 DEF EditMessage
      <4>2. c \in Content
        BY DEF Content
      <4> QED BY <2>1, <4>1, <4>2, RowUpdates
    <3>2. CASE DeleteMessage(u, m)
      BY <2>1, <3>2, RowUpdates DEF DeleteMessage
    <3> QED BY <1>2, <3>1, <3>2
  <2>3. n # Null
    BY RowUpdates
  <2>4. RowsStay
    BY <2>1, <2>2, <2>3, RowUpdates DEF RowsStay, MessagingTypes
  <2> QED BY <1>2, <2>4 DEF EditMessage, DeleteMessage, RoomsStay
<1>3. ASSUME NEW u \in User, CountMasked(u) \/ CountFails(u)
      PROVE  RowsStay /\ RoomsStay
  BY <1>3 DEF CountMasked, CountFails, RowsStay, RoomsStay
<1> QED BY <1>1, <1>2, <1>3

\* All requests and pages stay in their rooms, as long as no message is stored.
LEMMA InTheirRoomsStay ==
    ASSUME MessagingTypes, InTheirRooms, RowsStay, RoomsStay, PagesFollow, MessagingTypes'
    PROVE  InTheirRooms'
<1>1. Stored' = Stored
  BY DEF RowsStay, Stored
<1>2. \A r \in Room : \A u : TalksIn(u, r) => tenantOf'[r] # Null /\ u \in {tenantOf'[r], Owner}
  BY DEF RoomsStay, TalksIn, Participants
<1>2a. /\ \A u \in Viewer : shell[u].room \in Room \cup {Null} /\ shell'[u].room \in Room \cup {Null}
       /\ \A u \in Viewer : posting'[u] # Null => posting'[u].room \in Room
       /\ \A l \in loads' : l.room \in Room /\ l.user \in Viewer
       /\ \A k \in marks' : k.room \in Room /\ k.user \in Viewer
       /\ \A m \in Stored : message[m].room \in Room
  BY DEF MessagingTypes, Shell, Posting, RoomLoad, Mark, Stored, MessageRow
<1>3. \A r \in Room : In(r)' = In(r)
  BY <1>1 DEF RowsStay, In, Stored
<1>4. (Stored = 1 .. Cardinality(Stored))'
  BY <1>1 DEF InTheirRooms
<1>5. (\A m \in Stored : TalksIn(message[m].sender, message[m].room))'
  <2> SUFFICES ASSUME NEW m \in Stored'
               PROVE  /\ tenantOf'[message'[m].room] # Null
                      /\ message'[m].sender \in {tenantOf'[message'[m].room], Owner}
    BY DEF TalksIn, Participants
  <2>1. m \in Stored /\ message'[m].sender = message[m].sender /\ message'[m].room = message[m].room
    BY <1>1 DEF RowsStay, Stored
  <2> QED BY <1>2, <1>2a, <2>1 DEF InTheirRooms
<1>6. (\A u \in Viewer : shell[u].room # Null => TalksIn(u, shell[u].room))'
  BY <1>2, <1>2a DEF InTheirRooms, PagesFollow, TalksIn, Participants
<1>7. (\A u \in Viewer : posting[u] # Null => TalksIn(u, posting[u].room))'
  BY <1>2, <1>2a DEF InTheirRooms, PagesFollow, TalksIn, Participants
<1>8. (\A l \in loads : TalksIn(l.user, l.room) /\ l.seen \subseteq In(l.room))'
  <2> SUFFICES ASSUME NEW l \in loads'
               PROVE  /\ tenantOf'[l.room] # Null /\ l.user \in {tenantOf'[l.room], Owner}
                      /\ l.seen \subseteq In(l.room)'
    BY DEF TalksIn, Participants
  <2>1. TalksIn(l.user, l.room)
    BY DEF InTheirRooms, PagesFollow
  <2>2. l.seen \subseteq In(l.room)
    BY DEF InTheirRooms, PagesFollow
  <2> QED BY <1>2, <1>2a, <1>3, <2>1, <2>2
<1>9. (\A k \in marks : TalksIn(k.user, k.room))'
  <2> SUFFICES ASSUME NEW k \in marks'
               PROVE  tenantOf'[k.room] # Null /\ k.user \in {tenantOf'[k.room], Owner}
    BY DEF TalksIn, Participants
  <2>1. TalksIn(k.user, k.room)
    BY DEF InTheirRooms, PagesFollow
  <2> QED BY <1>2, <1>2a, <2>1
<1> QED BY <1>4, <1>5, <1>6, <1>7, <1>8, <1>9 DEF InTheirRooms

\* A new message has the next number, and the others stay.
LEMMA StoredIsNext ==
    ASSUME MessagingTypes, InTheirRooms,
           NEW m \in Message, NEW r \in Room, NEW u \in User, NEW c \in Content, Store(m, r, u, c)
    PROVE  /\ message[m] = Null /\ m \notin Stored
           /\ message'[m] = [room |-> r, sender |-> u, content |-> c, read |-> FALSE, deleted |-> FALSE]
           /\ message'[m] # Null
           /\ \A x \in Message \ {m} : message'[x] = message[x]
           /\ Stored' = Stored \cup {m}
           /\ Stored' = 1 .. Cardinality(Stored')
           /\ IsFiniteSet(Stored)
<1> DEFINE n == Cardinality(Stored)
<1>1. IsFiniteSet(Stored)
  <2>1. IsFiniteSet(Message)
    BY Numbers, FS_Interval DEF Message
  <2>2. Stored \in SUBSET Message
    BY DEF Stored
  <2> QED BY <2>1, <2>2, FS_Subset
<1>2. n \in Nat /\ m = n + 1 /\ Stored = 1 .. n
  BY <1>1, FS_CardinalityType DEF Store, InTheirRooms
<1>3. m \notin Stored
  <2> HIDE DEF n
  <2> QED BY <1>2
<1>4. message[m] = Null
  BY <1>3 DEF Stored
<1>5. /\ message'[m] = [room |-> r, sender |-> u, content |-> c, read |-> FALSE, deleted |-> FALSE]
      /\ \A x \in Message \ {m} : message'[x] = message[x]
  BY DEF Store, MessagingTypes
<1>6. message'[m] # Null
  <2>1. [room |-> r, sender |-> u, content |-> c, read |-> FALSE, deleted |-> FALSE] \in MessageRow
    BY DEF MessageRow
  <2> QED BY <1>5, <2>1, RowUpdates
<1>7. Stored' = Stored \cup {m}
  BY <1>5, <1>6 DEF Stored
<1>8. Stored' = 1 .. (n + 1)
  <2> HIDE DEF n
  <2> QED BY <1>2, <1>7
<1>9. Cardinality(Stored') = n + 1
  BY <1>2, <1>8, FS_Interval
<1> QED BY <1>1, <1>3, <1>4, <1>5, <1>6, <1>7, <1>8, <1>9

LEMMA InTheirRoomsStored ==
    ASSUME MessagingTypes, InTheirRooms, MessagingTypes',
           NEW m \in Message, NEW r \in Room, NEW u \in User, NEW c \in Content, Store(m, r, u, c),
           TalksIn(u, r), UNCHANGED <<tenantOf, shell, loads, marks>>,
           \A v \in Viewer : posting'[v] # Null => posting[v] # Null /\ posting'[v].room = posting[v].room
    PROVE  InTheirRooms'
<1>1. /\ message[m] = Null
      /\ message'[m] = [room |-> r, sender |-> u, content |-> c, read |-> FALSE, deleted |-> FALSE]
      /\ \A x \in Message \ {m} : message'[x] = message[x]
      /\ Stored' = Stored \cup {m}
      /\ Stored' = 1 .. Cardinality(Stored')
  BY StoredIsNext
<1>2. (Stored = 1 .. Cardinality(Stored))'
  BY <1>1
<1>3. (\A x \in Stored : TalksIn(message[x].sender, message[x].room))'
  <2> SUFFICES ASSUME NEW x \in Stored'
               PROVE  /\ tenantOf[message'[x].room] # Null
                      /\ message'[x].sender \in {tenantOf[message'[x].room], Owner}
    BY DEF TalksIn, Participants
  <2>1. CASE x = m
    BY <1>1, <2>1 DEF TalksIn, Participants
  <2>2. CASE x # m
    BY <1>1, <2>2 DEF TalksIn, Participants, InTheirRooms, Stored
  <2> QED BY <2>1, <2>2
<1>4. (\A v \in Viewer : shell[v].room # Null => TalksIn(v, shell[v].room))'
  BY DEF InTheirRooms, TalksIn, Participants
<1>5. (\A v \in Viewer : posting[v] # Null => TalksIn(v, posting[v].room))'
  BY DEF InTheirRooms, TalksIn, Participants
<1>6. (\A l \in loads : TalksIn(l.user, l.room) /\ l.seen \subseteq In(l.room))'
  <2>1. \A x : In(x) \subseteq In(x)'
    BY <1>1 DEF In, Stored
  <2> QED BY <2>1 DEF InTheirRooms, TalksIn, Participants
<1>7. (\A k \in marks : TalksIn(k.user, k.room))'
  BY DEF InTheirRooms, TalksIn, Participants
<1> QED BY <1>2, <1>3, <1>4, <1>5, <1>6, <1>7 DEF InTheirRooms

\* A page, a run of loadMessages, an event and a mark, none of which stores a message.
LEMMA PageFollows ==
    ASSUME MessagingTypes, InTheirRooms, NEW u \in Viewer,
           \/ \E r \in Room : OpenRoom(u, r)
           \/ CloseRoom(u) \/ Join(u) \/ SendAnswered(u) \/ SendFails(u)
           \/ \E c \in Content : HandleSend(u, c)
    PROVE  RowsStay /\ RoomsStay /\ PagesFollow
<1>1. shell \in [Viewer -> Shell] /\ shell[u] \in Shell
  BY DEF MessagingTypes
<1>2. ASSUME NEW r \in Room, OpenRoom(u, r)
      PROVE  RowsStay /\ RoomsStay /\ PagesFollow
  <2>1. TalksIn(u, r)
    BY <1>2 DEF OpenRoom, TalksIn
  <2>2. \A v \in Viewer : shell'[v].room = shell[v].room \/ (v = u /\ shell'[v].room = r)
    BY <1>1, <1>2 DEF OpenRoom
  <2>3. \A l \in loads' : l \in loads \/ (l.user = u /\ l.room = r /\ l.seen = {})
    BY <1>2 DEF OpenRoom
  <2>4. UNCHANGED <<message, tenantOf, posting, marks>>
    BY <1>2 DEF OpenRoom
  <2>5. PagesFollow
    BY <2>1, <2>2, <2>3, <2>4 DEF PagesFollow
  <2> QED BY <2>4, <2>5 DEF RowsStay, RoomsStay
<1>3. ASSUME CloseRoom(u) \/ Join(u) \/ SendAnswered(u) \/ SendFails(u)
      PROVE  RowsStay /\ RoomsStay /\ PagesFollow
  <2>1. UNCHANGED <<message, tenantOf, marks, loads>>
    BY <1>3 DEF CloseRoom, Join, SendAnswered, SendIsAnswered, SendFails
  <2>2. \A v \in Viewer : shell'[v].room \in {shell[v].room, Null}
    <3>1. CASE CloseRoom(u)
      <4>1. shell' = [shell EXCEPT ![u] = [shell[u] EXCEPT !.room = Null, !.joined = FALSE]]
        BY <3>1 DEF CloseRoom
      <4> QED BY <1>1, <4>1, PageUpdates
    <3>2. CASE Join(u)
      BY <1>1, <3>2 DEF Join, Shell
    <3>3. CASE SendAnswered(u)
      BY <1>1, <3>3 DEF SendAnswered, SendIsAnswered, Shell
    <3>4. CASE SendFails(u)
      BY <3>4 DEF SendFails
    <3> QED BY <1>3, <3>1, <3>2, <3>3, <3>4
  <2>3. \A v \in Viewer : posting'[v] # Null => posting[v] # Null /\ posting'[v].room = posting[v].room
    BY <1>3 DEF CloseRoom, Join, SendAnswered, SendIsAnswered, SendFails, MessagingTypes
  <2>4. PagesFollow
    BY <2>1, <2>2, <2>3 DEF PagesFollow
  <2> QED BY <2>1, <2>4 DEF RowsStay, RoomsStay
<1>4. ASSUME NEW c \in Content, HandleSend(u, c)
      PROVE  RowsStay /\ RoomsStay /\ PagesFollow
  <2>1. UNCHANGED <<message, tenantOf, marks, loads, shell>>
    BY <1>4 DEF HandleSend
  <2>2. TalksIn(u, shell[u].room)
    BY <1>4 DEF HandleSend, InTheirRooms
  <2>3. \A v \in Viewer : posting'[v] = posting[v] \/ (v = u /\ posting'[v].room = shell[u].room)
    BY <1>4 DEF HandleSend, MessagingTypes
  <2>4. PagesFollow
    BY <2>1, <2>2, <2>3 DEF PagesFollow
  <2> QED BY <2>1, <2>4 DEF RowsStay, RoomsStay
<1> QED BY <1>2, <1>3, <1>4

LEMMA RunsFollow ==
    ASSUME MessagingTypes, EventsFit, InTheirRooms,
           \/ \E l \in loads : AnswerLoad(l) \/ ShowLoad(l) \/ ReadLoad(l) \/ LoadIsLost(l)
           \/ \E e \in events : Deliver(e) \/ LoseEvent(e)
           \/ \E k \in marks : MarkRead(k) \/ LoseMark(k)
    PROVE  RowsStay /\ RoomsStay /\ PagesFollow
<1> loads \subseteq RoomLoad /\ shell \in [Viewer -> Shell]
  BY DEF MessagingTypes
<1>1. ASSUME NEW l \in loads, AnswerLoad(l)
      PROVE  RowsStay /\ RoomsStay /\ PagesFollow
  <2>1. UNCHANGED <<message, tenantOf, marks, posting, shell>>
    BY <1>1 DEF AnswerLoad
  <2>2. \A k \in loads' : \/ k \in loads
                          \/ k.user = l.user /\ k.room = l.room /\ k.seen = In(l.room)
    <3> DEFINE n == [l EXCEPT !.stage = "show", !.seen = In(l.room)]
    <3>1. n.user = l.user /\ n.room = l.room /\ n.seen = In(l.room)
      BY DEF RoomLoad
    <3>2. \A k \in loads' : k \in loads \/ k = n
      BY <1>1 DEF AnswerLoad
    <3> HIDE DEF n
    <3> QED BY <3>1, <3>2
  <2>3. PagesFollow
    BY <2>1, <2>2 DEF PagesFollow
  <2> QED BY <2>1, <2>3 DEF RowsStay, RoomsStay
<1>2. ASSUME NEW l \in loads, ShowLoad(l)
      PROVE  RowsStay /\ RoomsStay /\ PagesFollow
  <2>1. UNCHANGED <<message, tenantOf, marks, posting>>
    BY <1>2 DEF ShowLoad
  <2>2. \A k \in loads' : k \in loads \/ (k.user = l.user /\ k.room = l.room /\ k.seen = l.seen)
    <3> DEFINE n == [l EXCEPT !.stage = "read"]
    <3>1. n.user = l.user /\ n.room = l.room /\ n.seen = l.seen
      BY LoadUpdates
    <3>2. \A k \in loads' : k \in loads \/ k = n
      BY <1>2 DEF ShowLoad
    <3> HIDE DEF n
    <3> QED BY <3>1, <3>2
  <2>3. \A v \in Viewer : shell'[v].room = shell[v].room
    BY <1>2 DEF ShowLoad, Shell
  <2>4. PagesFollow
    BY <2>1, <2>2, <2>3 DEF PagesFollow
  <2> QED BY <2>1, <2>4 DEF RowsStay, RoomsStay
<1>3. ASSUME NEW l \in loads, ReadLoad(l) \/ LoadIsLost(l)
      PROVE  RowsStay /\ RoomsStay /\ PagesFollow
  <2>1. UNCHANGED <<tenantOf, marks, posting, shell>> /\ loads' \subseteq loads
    BY <1>3 DEF ReadLoad, LoadIsLost
  <2>2. PagesFollow
    BY <2>1 DEF PagesFollow
  <2>3. RowsStay
    BY <1>3, ReadChanges DEF ReadLoad, LoadIsLost, RowsStay
  <2> QED BY <2>1, <2>2, <2>3 DEF RoomsStay
<1>4. ASSUME NEW e \in events, Deliver(e) \/ LoseEvent(e)
      PROVE  RowsStay /\ RoomsStay /\ PagesFollow
  <2>1. UNCHANGED <<message, tenantOf, posting, loads>>
    BY <1>4 DEF Deliver, LoseEvent
  <2>2. \A v \in Viewer : shell'[v].room = shell[v].room
    BY <1>4 DEF Deliver, LoseEvent, Shell
  <2>3. TalksIn(e.to, message[e.id].room)
    <3>1. e.to \in Viewer /\ e.id \in Message /\ message[e.id] \in MessageRow
      BY DEF EventsFit, MessagingTypes, Event
    <3>2. message[e.id].room # Null
      BY <3>1, RowUpdates, MessagingAssumption
    <3> QED BY <3>1, <3>2 DEF EventsFit, InTheirRooms
  <2>4. \A k \in marks' : k \in marks \/ (k.user = e.to /\ k.room = message[e.id].room)
    BY <1>4 DEF Deliver, LoseEvent
  <2>5. PagesFollow
    BY <2>1, <2>2, <2>3, <2>4 DEF PagesFollow
  <2> QED BY <2>1, <2>5 DEF RowsStay, RoomsStay
<1>5. ASSUME NEW k \in marks, MarkRead(k) \/ LoseMark(k)
      PROVE  RowsStay /\ RoomsStay /\ PagesFollow
  <2>1. UNCHANGED <<tenantOf, loads, posting, shell>> /\ marks' \subseteq marks
    BY <1>5 DEF MarkRead, LoseMark
  <2>2. PagesFollow
    BY <2>1 DEF PagesFollow
  <2>3. RowsStay
    BY <1>5, ReadChanges DEF MarkRead, LoseMark, RowsStay
  <2> QED BY <2>1, <2>2, <2>3 DEF RoomsStay
<1> QED BY <1>1, <1>2, <1>3, <1>4, <1>5

-----------------------------------------------------------------------------
(***************************************************************************)
(* The conversations: what is read was received.                           *)
(***************************************************************************)

LEMMA EventsStillFit ==
    ASSUME MessagingTypes, EventsFit, RowsStay, events' \subseteq events,
           \A e \in events' : /\ shell'[e.to].room = shell[e.to].room
                              /\ shell[e.to].joined => shell'[e.to].joined
    PROVE  EventsFit'
<1> SUFFICES ASSUME NEW e \in events'
             PROVE  /\ message'[e.id] # Null /\ shell'[e.to].room = message'[e.id].room
                    /\ shell'[e.to].joined
  BY DEF EventsFit
<1>1. e.id \in Message
  BY DEF MessagingTypes, Event
<1> QED BY <1>1 DEF EventsFit, RowsStay

\* A step that stores no message leaves the rest to what becomes of a message due.
LEMMA FollowingStill ==
    ASSUME MessagingTypes, InTheirRooms, Following, RowsStay, RoomsStay,
           ASSUME NEW u \in Viewer, NEW m \in Stored, Due(m, u)', Due(m, u) => Followed(m, u),
                  message[m].sender # u, TalksIn(u, message[m].room)
           PROVE  Followed(m, u)'
    PROVE  Following'
<1> SUFFICES ASSUME NEW u \in Viewer, NEW m \in Stored', Due(m, u)'
             PROVE  Followed(m, u)'
  BY DEF Following
<1>1. m \in Stored /\ message'[m].sender = message[m].sender /\ message'[m].room = message[m].room
  BY DEF RowsStay, Stored
<1>2. message[m].room \in Room /\ tenantOf[message[m].room] # Null
  BY <1>1 DEF InTheirRooms, TalksIn, MessagingTypes, Stored, MessageRow
<1>3. message[m].sender # u /\ TalksIn(u, message[m].room)
  BY <1>1, <1>2 DEF Due, TalksIn, Participants, RoomsStay
<1> QED BY <1>1, <1>3 DEF Following

\* Nothing that a message is due for, or is followed by, has changed.
LEMMA FollowingUnmoved ==
    ASSUME MessagingTypes, InTheirRooms, Following, RowsStay, RoomsStay,
           UNCHANGED <<loads, marks, received, missed>>, events \subseteq events',
           \A u \in Viewer : shell'[u].room = shell[u].room,
           \A m \in Stored : message'[m].read => message[m].read
    PROVE  Following'
<1>1. ASSUME NEW u \in Viewer, NEW m \in Stored, Due(m, u)', Due(m, u) => Followed(m, u),
             message[m].sender # u, TalksIn(u, message[m].room)
      PROVE  Followed(m, u)'
  <2>1. message'[m].room = message[m].room
    BY DEF RowsStay, Stored
  <2>2. Due(m, u)
    BY <1>1, <2>1 DEF Due, Marking
  <2>3. Followed(m, u)
    BY <1>1, <2>2
  <2> QED BY <2>1, <2>3 DEF Followed, OnItsWay
<1> QED BY <1>1, FollowingStill

\* Marking a room as read concerns the messages of the other of its two.
LEMMA MarkedWasDue ==
    ASSUME MessagingTypes, InTheirRooms, NEW v, NEW r, Read(v, r), TalksIn(v, r),
           NEW u, NEW m \in Stored, message[m].sender # u, TalksIn(u, message[m].room), message'[m].read
    PROVE  message[m].read \/ (v = u /\ r = message[m].room)
<1>1. message'[m] # Null
  BY ReadChanges DEF Stored
<1>2. message[m].read \/ m \in ToRead(v, r)
  BY <1>1, ReadChanges DEF Stored
<1>3. CASE m \in ToRead(v, r)
  <2>1. message[m].room = r /\ message[m].sender # v
    BY <1>3 DEF ToRead, In
  <2>2. TalksIn(message[m].sender, r)
    BY <2>1 DEF InTheirRooms
  <2> QED BY <2>1, <2>2 DEF TalksIn, Participants
<1> QED BY <1>2, <1>3

\* The page leaves a room: what Soketi had for it is missed, if it is due still.
LEMMA LeavingFollows ==
    ASSUME MessagingTypes, EventsFit, InTheirRooms, Following, NEW u \in Viewer,
           (\E r \in Room : OpenRoom(u, r)) \/ CloseRoom(u)
    PROVE  EventsFit' /\ Following'
<1>1. RowsStay /\ RoomsStay /\ PagesFollow
  BY PageFollows
<1>2. /\ LeaveRoom(u) /\ UNCHANGED <<message, tenantOf, marks, received>> /\ loads \subseteq loads'
      /\ shell \in [Viewer -> Shell] /\ shell[u] \in Shell
      /\ \A v \in Viewer \ {u} : shell'[v] = shell[v]
  BY DEF OpenRoom, CloseRoom, MessagingTypes
<1>3. events' = {e \in events : e.to # u} /\ missed \subseteq missed'
  BY <1>2 DEF LeaveRoom
<1>4. EventsFit'
  <2>1. \A e \in events' : e.to \in Viewer \ {u}
    BY <1>3 DEF MessagingTypes, Event
  <2> QED BY <1>1, <1>2, <1>3, <2>1, EventsStillFit
<1>5. ASSUME NEW v \in Viewer, NEW m \in Stored, Due(m, v)', Due(m, v) => Followed(m, v),
             message[m].sender # v, TalksIn(v, message[m].room)
      PROVE  Followed(m, v)'
  <2> DEFINE r == message[m].room
  <2>1. \A l \in loads' : l \in loads \/ (l.user = u /\ l.stage = "fetch" /\ l.room = shell'[u].room)
    BY <1>2 DEF OpenRoom, CloseRoom
  <2>2. Marking(v, r)' => Marking(v, r)
    BY <1>2, <2>1 DEF Marking
  <2>3. CASE v # u
    <3>1. Due(m, v)
      BY <1>2, <1>5, <2>2, <2>3 DEF Due
    <3>2. Followed(m, v)
      BY <1>5, <3>1
    <3> QED BY <1>2, <1>3, <2>3, <3>2 DEF Followed, OnItsWay
  <2>4. CASE v = u /\ shell'[u].room = r
    <3>1. r # Null
      BY MessagingAssumption DEF MessagingTypes, Stored, MessageRow
    <3>2. ~CloseRoom(u)
      BY <2>4, <3>1, <1>2, PageUpdates DEF CloseRoom, MessagingTypes
    <3>3. PICK q \in Room : OpenRoom(u, q)
      BY <3>2
    <3>4. q = r
      BY <1>2, <2>4, <3>3 DEF OpenRoom
    <3>5. [user |-> u, room |-> q, stage |-> "fetch", seen |-> {}] \in loads'
      BY <3>3 DEF OpenRoom
    <3>6. \E l \in loads' : l.user = u /\ l.stage = "fetch" /\ l.room = r
      BY <3>4, <3>5
    <3> QED BY <1>2, <2>4, <3>6 DEF Followed, OnItsWay
  <2>5. CASE v = u /\ shell'[u].room # r
    <3>1. message[m].read \/ Marking(u, r)
      BY <1>2, <1>5, <2>2, <2>5 DEF Due
    <3>2. Followed(m, u)
      BY <1>5, <2>5, <3>1 DEF Due
    <3>3. [to |-> u, id |-> m] \in events => m \in missed'
      BY <1>2, <1>5, <2>5, <3>1 DEF LeaveRoom
    <3> QED BY <1>2, <1>3, <2>5, <3>2, <3>3 DEF Followed, OnItsWay
  <2> QED BY <2>3, <2>4, <2>5
<1>6. Following'
  BY <1>1, <1>5, FollowingStill
<1> QED BY <1>4, <1>6

LEMMA LoadFollows ==
    ASSUME MessagingTypes, EventsFit, InTheirRooms, Following, NEW l \in loads,
           AnswerLoad(l) \/ ShowLoad(l) \/ ReadLoad(l) \/ LoadIsLost(l)
    PROVE  EventsFit' /\ Following'
<1>1. RowsStay /\ RoomsStay /\ PagesFollow
  BY RunsFollow
<1>2. l \in RoomLoad /\ TalksIn(l.user, l.room) /\ shell \in [Viewer -> Shell]
  BY DEF InTheirRooms, MessagingTypes
<1>3. EventsFit'
  <2>1. events' = events /\ (\A v \in Viewer : shell'[v].room = shell[v].room /\ shell'[v].joined = shell[v].joined)
    <3>1. CASE ShowLoad(l)
      BY <1>2, <3>1 DEF ShowLoad, Shell
    <3>2. CASE AnswerLoad(l) \/ ReadLoad(l) \/ LoadIsLost(l)
      BY <3>2 DEF AnswerLoad, ReadLoad, LoadIsLost
    <3> QED BY <3>1, <3>2
  <2>2. \A e \in events : e.to \in Viewer
    BY DEF MessagingTypes, Event
  <2> QED BY <1>1, <2>1, <2>2, EventsStillFit
<1>4. CASE AnswerLoad(l)
  <2> DEFINE n == [l EXCEPT !.stage = "show", !.seen = In(l.room)]
  <2>1. n.user = l.user /\ n.room = l.room /\ n.stage = "show" /\ n.seen = In(l.room)
    BY <1>2 DEF RoomLoad
  <2>2. loads' = (loads \ {l}) \cup {n} /\ UNCHANGED <<message, tenantOf, shell, marks, events, received, missed>>
    BY <1>4 DEF AnswerLoad
  <2> HIDE DEF n
  <2>3. ASSUME NEW u \in Viewer, NEW m \in Stored, Due(m, u)', Due(m, u) => Followed(m, u),
               message[m].sender # u, TalksIn(u, message[m].room)
        PROVE  Followed(m, u)'
    <3>1. CASE l.user = u /\ l.room = message[m].room
      <4>1. n \in loads' /\ m \in n.seen
        BY <2>1, <2>2, <3>1 DEF In
      <4> QED BY <2>1, <2>2, <3>1, <4>1 DEF Followed, OnItsWay
    <3>2. CASE ~(l.user = u /\ l.room = message[m].room)
      <4>1. Due(m, u)
        BY <2>1, <2>2, <2>3, <3>2 DEF Due, Marking
      <4>2. Followed(m, u)
        BY <2>3, <4>1
      <4> QED BY <2>2, <3>2, <4>2 DEF Followed, OnItsWay
    <3> QED BY <3>1, <3>2
  <2> QED BY <1>1, <1>3, <2>3, FollowingStill
<1>5. CASE ShowLoad(l)
  <2> DEFINE n == [l EXCEPT !.stage = "read"]
  <2>1. n.user = l.user /\ n.room = l.room /\ n.stage = "read"
    BY <1>2 DEF RoomLoad
  <2>2. loads' = (loads \ {l}) \cup {n} /\ UNCHANGED <<message, tenantOf, marks, events, missed>> /\ l.stage = "show"
    BY <1>5 DEF ShowLoad
  <2>3. received' = received \cup {m \in l.seen : message[m].sender # l.user}
    BY <1>5 DEF ShowLoad
  <2>4. \A v \in Viewer : shell'[v].room = shell[v].room
    BY <1>2, <1>5 DEF ShowLoad, Shell
  <2> HIDE DEF n
  <2>5. ASSUME NEW u \in Viewer, NEW m \in Stored, Due(m, u)', Due(m, u) => Followed(m, u),
               message[m].sender # u, TalksIn(u, message[m].room)
        PROVE  Followed(m, u)'
    <3>1. Due(m, u)
      BY <2>1, <2>2, <2>4, <2>5 DEF Due, Marking
    <3>2. Followed(m, u)
      BY <2>5, <3>1
    <3>3. CASE m \in received' \cup missed'
      BY <3>3 DEF Followed
    <3>4. CASE m \notin received' \cup missed'
      <4>1. ~(l.user = u /\ m \in l.seen)
        BY <2>3, <2>5, <3>4
      <4>2. OnItsWay(m, u)
        BY <2>2, <2>3, <3>2, <3>4 DEF Followed
      <4>3. OnItsWay(m, u)'
        BY <2>2, <4>1, <4>2 DEF OnItsWay
      <4> QED BY <4>3 DEF Followed
    <3> QED BY <3>3, <3>4
  <2> QED BY <1>1, <1>3, <2>5, FollowingStill
<1>6. CASE ReadLoad(l)
  <2>1. /\ loads' = loads \ {l} /\ UNCHANGED <<tenantOf, shell, marks, events, received, missed>>
        /\ l.stage = "read" /\ Read(l.user, l.room)
    BY <1>6 DEF ReadLoad
  <2>2. ASSUME NEW u \in Viewer, NEW m \in Stored, Due(m, u)', Due(m, u) => Followed(m, u),
               message[m].sender # u, TalksIn(u, message[m].room)
        PROVE  Followed(m, u)'
    <3>1. message'[m].room = message[m].room
      BY <1>1 DEF RowsStay, Stored
    <3>2. message'[m].read => message[m].read \/ (l.user = u /\ l.room = message[m].room)
      BY <1>2, <2>1, <2>2, MarkedWasDue
    <3>3. Due(m, u)
      BY <2>1, <2>2, <3>1, <3>2 DEF Due, Marking
    <3>4. Followed(m, u)
      BY <2>2, <3>3
    <3> QED BY <2>1, <3>1, <3>4 DEF Followed, OnItsWay
  <2> QED BY <1>1, <1>3, <2>2, FollowingStill
<1>7. CASE LoadIsLost(l)
  <2>1. /\ loads' = loads \ {l} /\ UNCHANGED <<message, tenantOf, shell, marks, events, received>>
        /\ missed' = IF l.stage = "read" THEN missed
                       ELSE missed \cup {m \in In(l.room) \ received : message[m].sender # l.user}
    BY <1>7 DEF LoadIsLost
  <2>2. ASSUME NEW u \in Viewer, NEW m \in Stored, Due(m, u)', Due(m, u) => Followed(m, u),
               message[m].sender # u, TalksIn(u, message[m].room)
        PROVE  Followed(m, u)'
    <3>1. Due(m, u)
      BY <2>1, <2>2 DEF Due, Marking
    <3>2. Followed(m, u)
      BY <2>2, <3>1
    <3>3. CASE m \in received' \cup missed'
      BY <3>3 DEF Followed
    <3>4. CASE m \notin received' \cup missed'
      <4>1. ~(l.user = u /\ l.room = message[m].room /\ l.stage # "read")
        BY <2>1, <2>2, <3>4 DEF In
      <4>2. OnItsWay(m, u)
        BY <2>1, <3>2, <3>4 DEF Followed
      <4>3. OnItsWay(m, u)'
        BY <2>1, <4>1, <4>2 DEF OnItsWay
      <4> QED BY <4>3 DEF Followed
    <3> QED BY <3>3, <3>4
  <2> QED BY <1>1, <1>3, <2>2, FollowingStill
<1> QED BY <1>4, <1>5, <1>6, <1>7

LEMMA EventFollows ==
    ASSUME MessagingTypes, EventsFit, InTheirRooms, Following, NEW e \in events, Deliver(e) \/ LoseEvent(e)
    PROVE  EventsFit' /\ Following'
<1>1. RowsStay /\ RoomsStay /\ PagesFollow
  BY RunsFollow
<1>2. /\ UNCHANGED <<message, tenantOf, loads>> /\ events' = events \ {e} /\ missed \subseteq missed'
      /\ received \subseteq received'
  BY DEF Deliver, LoseEvent
<1>3. /\ shell \in [Viewer -> Shell] /\ e.to \in Viewer /\ e.id \in Stored
      /\ e = [to |-> e.to, id |-> e.id]
  BY DEF EventsFit, MessagingTypes, Event, Stored
<1>4. \A v \in Viewer : shell'[v].room = shell[v].room /\ shell'[v].joined = shell[v].joined
  BY <1>3 DEF Deliver, LoseEvent, Shell
<1>5. EventsFit'
  <2>1. \A x \in events : x.to \in Viewer
    BY DEF MessagingTypes, Event
  <2> QED BY <1>1, <1>2, <1>4, <2>1, EventsStillFit
<1>6. \A k \in marks' : k \in marks \/ k = [user |-> e.to, room |-> message[e.id].room]
  BY DEF Deliver, LoseEvent
<1>7. message[e.id].sender # e.to => e.id \in received' \cup missed'
  BY <1>3 DEF Deliver, LoseEvent
<1>8. ASSUME NEW u \in Viewer, NEW m \in Stored, Due(m, u)', Due(m, u) => Followed(m, u),
             message[m].sender # u, TalksIn(u, message[m].room)
      PROVE  Followed(m, u)'
  <2>1. Marking(u, message[m].room)' => Marking(u, message[m].room) \/ shell[u].room = message[m].room
    <3>1. shell[e.to].room = message[e.id].room
      BY DEF EventsFit
    <3> QED BY <1>2, <1>6, <3>1 DEF Marking
  <2>2. Due(m, u)
    BY <1>2, <1>4, <1>8, <2>1 DEF Due
  <2>3. Followed(m, u)
    BY <1>8, <2>2
  <2>4. CASE e = [to |-> u, id |-> m]
    <3>1. e.id = m /\ e.to = u
      BY <2>4
    <3> QED BY <1>7, <1>8, <3>1 DEF Followed
  <2>5. CASE e # [to |-> u, id |-> m]
    BY <1>2, <2>3, <2>5 DEF Followed, OnItsWay
  <2> QED BY <2>4, <2>5
<1> QED BY <1>1, <1>5, <1>8, FollowingStill

LEMMA MarkFollows ==
    ASSUME MessagingTypes, EventsFit, InTheirRooms, Following, NEW k \in marks, MarkRead(k) \/ LoseMark(k)
    PROVE  EventsFit' /\ Following'
<1>1. RowsStay /\ RoomsStay /\ PagesFollow
  BY RunsFollow
<1>2. /\ marks' = marks \ {k} /\ UNCHANGED <<tenantOf, shell, loads, events, received, missed>>
      /\ message' = message \/ Read(k.user, k.room)
  BY DEF MarkRead, LoseMark
<1>3. TalksIn(k.user, k.room) /\ k = [user |-> k.user, room |-> k.room]
  BY DEF InTheirRooms, MessagingTypes, Mark
<1>4. EventsFit'
  BY <1>1, <1>2, EventsStillFit
<1>5. ASSUME NEW u \in Viewer, NEW m \in Stored, Due(m, u)', Due(m, u) => Followed(m, u),
             message[m].sender # u, TalksIn(u, message[m].room)
      PROVE  Followed(m, u)'
  <2>1. message'[m].room = message[m].room
    BY <1>1 DEF RowsStay, Stored
  <2>2. message'[m].read => message[m].read \/ (k.user = u /\ k.room = message[m].room)
    BY <1>2, <1>3, <1>5, MarkedWasDue
  <2>3. Due(m, u)
    BY <1>2, <1>3, <1>5, <2>1, <2>2 DEF Due, Marking
  <2>4. Followed(m, u)
    BY <1>5, <2>3
  <2> QED BY <1>2, <2>1, <2>4 DEF Followed, OnItsWay
<1> QED BY <1>1, <1>4, <1>5, FollowingStill

\* A message stored while its reader's page is on the room, or about to mark it as read, is
\* pushed to it, or fetched by it, or missed.
LEMMA StoredFollows ==
    ASSUME MessagingTypes, EventsFit, InTheirRooms, Following,
           NEW m \in Message, NEW r \in Room, NEW s \in User, NEW c \in Content, Store(m, r, s, c),
           TalksIn(s, r), UNCHANGED <<tenantOf, shell, loads, marks, received>>
    PROVE  EventsFit' /\ Following'
<1>1. /\ message[m] = Null /\ m \notin Stored
      /\ message'[m] = [room |-> r, sender |-> s, content |-> c, read |-> FALSE, deleted |-> FALSE]
      /\ message'[m] # Null
      /\ \A x \in Message \ {m} : message'[x] = message[x]
      /\ Stored' = Stored \cup {m}
  BY StoredIsNext
<1>2. /\ message'[m].room = r /\ message'[m].sender = s /\ ~message'[m].read
      /\ \A x \in Stored : message'[x] = message[x]
  BY <1>1 DEF Stored
<1>3. /\ events' = events \cup {[to |-> v, id |-> m] : v \in {x \in Viewer : Joined(x, r)}}
      /\ missed' = IF /\ Reader(r, s) \in Viewer /\ ~Joined(Reader(r, s), r)
                      /\ Marking(Reader(r, s), r) \/ Deaf(Reader(r, s), r)
                     THEN missed \cup {m} ELSE missed
  BY DEF Store
<1>4. EventsFit'
  <2> SUFFICES ASSUME NEW e \in events'
               PROVE  message'[e.id] # Null /\ shell[e.to].room = message'[e.id].room /\ shell[e.to].joined
    BY DEF EventsFit
  <2>1. CASE e \in events
    <3>1. e.id \in Stored
      BY <2>1 DEF EventsFit, MessagingTypes, Event, Stored
    <3> QED BY <1>2, <2>1, <3>1 DEF EventsFit
  <2>2. CASE e \notin events
    <3>1. e.id = m /\ Joined(e.to, r)
      BY <1>3, <2>2
    <3> QED BY <1>1, <1>2, <3>1 DEF Joined
  <2> QED BY <2>1, <2>2
<1>5. Following'
  <2> SUFFICES ASSUME NEW u \in Viewer, NEW x \in Stored', Due(x, u)'
               PROVE  Followed(x, u)'
    BY DEF Following
  <2>1. CASE x # m
    <3>1. x \in Stored /\ message'[x] = message[x]
      BY <1>1, <1>2, <2>1
    <3>2. Due(x, u)
      BY <3>1 DEF Due, Marking, TalksIn, Participants
    <3>3. Followed(x, u)
      BY <3>1, <3>2 DEF Following
    <3> QED BY <1>3, <3>1, <3>3 DEF Followed, OnItsWay
  <2>2. CASE x = m
    <3>1. s # u /\ TalksIn(u, r) /\ (Marking(u, r) \/ shell[u].room = r)
      BY <1>2, <2>2 DEF Due, Marking, TalksIn, Participants
    <3>2. Reader(r, s) = u
      <4>1. s \in Participants(r) /\ u \in Participants(r)
        BY <3>1 DEF TalksIn
      <4>2. \A v \in Participants(r) : v # s => v = u
        BY <3>1, <4>1 DEF Participants
      <4> QED BY <3>1, <4>1, <4>2 DEF Reader
    <3>3. CASE Joined(u, r)
      <4>1. [to |-> u, id |-> m] \in events'
        BY <1>3, <3>3
      <4> QED BY <2>2, <4>1 DEF Followed, OnItsWay
    <3>4. CASE ~Joined(u, r) /\ (Marking(u, r) \/ Deaf(u, r))
      BY <1>3, <2>2, <3>2, <3>4 DEF Followed
    <3>5. CASE ~Joined(u, r) /\ ~Marking(u, r) /\ ~Deaf(u, r)
      <4>1. \E l \in loads : l.user = u /\ l.room = r /\ l.stage = "fetch"
        BY <3>1, <3>5 DEF Deaf, Joined
      <4> QED BY <1>2, <2>2, <4>1 DEF Followed, OnItsWay
    <3> QED BY <3>3, <3>4, <3>5
  <2> QED BY <2>1, <2>2
<1> QED BY <1>4, <1>5

\* The rest of the page, and the server, move nothing of this.
LEMMA OthersFollow ==
    ASSUME MessagingTypes, EventsFit, InTheirRooms, Following
    PROVE  /\ \A t \in Tenant : LookForRoom(t) \/ (\E r \in Room : InsertRoom(t, r)) => EventsFit' /\ Following'
           /\ \A u \in User, m \in Message : EditMessage(u, m) \/ DeleteMessage(u, m) => EventsFit' /\ Following'
           /\ \A u \in User : CountMasked(u) \/ CountFails(u) => EventsFit' /\ Following'
           /\ \A u \in Viewer, c \in Content :
                Join(u) \/ HandleSend(u, c) \/ SendAnswered(u) \/ SendFails(u) => EventsFit' /\ Following'
<1> DEFINE Calm == /\ UNCHANGED <<loads, marks, received, missed, events>>
                   /\ \A u \in Viewer : /\ shell'[u].room = shell[u].room
                                        /\ shell[u].joined => shell'[u].joined
                   /\ \A m \in Stored : message'[m].read => message[m].read
<1>1. ASSUME RowsStay, RoomsStay, Calm
      PROVE  EventsFit' /\ Following'
  <2>1. \A e \in events : e.to \in Viewer
    BY DEF MessagingTypes, Event
  <2>2. EventsFit'
    BY <1>1, <2>1, EventsStillFit
  <2>3. Following'
    BY <1>1, FollowingUnmoved
  <2> QED BY <2>2, <2>3
<1>2. ASSUME NEW t \in Tenant, LookForRoom(t) \/ \E r \in Room : InsertRoom(t, r)
      PROVE  Calm
  BY <1>2 DEF LookForRoom, InsertRoom
<1>3. ASSUME NEW u \in User, NEW m \in Message, EditMessage(u, m) \/ DeleteMessage(u, m)
      PROVE  Calm
  <2>1. message[m] \in MessageRow
    BY <1>3 DEF EditMessage, DeleteMessage, MessagingTypes
  <2>2. PICK n : n.read = message[m].read /\ message' = [message EXCEPT ![m] = n]
    <3>1. CASE EditMessage(u, m)
      <4>1. PICK c \in {"text", "masked"} : message' = [message EXCEPT ![m].content = c]
        BY <3>1 DEF EditMessage
      <4>2. c \in Content
        BY DEF Content
      <4> QED BY <2>1, <4>1, <4>2, RowUpdates
    <3>2. CASE DeleteMessage(u, m)
      BY <2>1, <3>2, RowUpdates DEF DeleteMessage
    <3> QED BY <1>3, <3>1, <3>2
  <2>3. \A x \in Stored : message'[x].read => message[x].read
    BY <2>2 DEF Stored, MessagingTypes
  <2> QED BY <1>3, <2>3 DEF EditMessage, DeleteMessage
<1>4. ASSUME NEW u \in User, CountMasked(u) \/ CountFails(u)
      PROVE  Calm
  BY <1>4 DEF CountMasked, CountFails
<1>5. ASSUME NEW u \in Viewer, NEW c \in Content,
             Join(u) \/ HandleSend(u, c) \/ SendAnswered(u) \/ SendFails(u)
      PROVE  Calm
  <2>1. shell \in [Viewer -> Shell]
    BY DEF MessagingTypes
  <2>2. \A v \in Viewer : shell'[v].room = shell[v].room /\ (shell[v].joined => shell'[v].joined)
    <3>1. CASE Join(u)
      BY <2>1, <3>1 DEF Join, Shell
    <3>2. CASE SendAnswered(u)
      BY <2>1, <3>2 DEF SendAnswered, SendIsAnswered, Shell
    <3>3. CASE HandleSend(u, c) \/ SendFails(u)
      BY <3>3 DEF HandleSend, SendFails
    <3> QED BY <1>5, <3>1, <3>2, <3>3
  <2> QED BY <1>5, <2>2 DEF Join, HandleSend, SendAnswered, SendIsAnswered, SendFails
<1> HIDE DEF Calm
<1>6. \A t \in Tenant : LookForRoom(t) \/ (\E r \in Room : InsertRoom(t, r)) => EventsFit' /\ Following'
  BY <1>1, <1>2, ServerKeepsRows
<1>7. \A u \in User, m \in Message : EditMessage(u, m) \/ DeleteMessage(u, m) => EventsFit' /\ Following'
  BY <1>1, <1>3, ServerKeepsRows
<1>8. \A u \in User : CountMasked(u) \/ CountFails(u) => EventsFit' /\ Following'
  BY <1>1, <1>4, ServerKeepsRows
<1>9. \A u \in Viewer, c \in Content :
        Join(u) \/ HandleSend(u, c) \/ SendAnswered(u) \/ SendFails(u) => EventsFit' /\ Following'
  BY <1>1, <1>5, PageFollows
<1> QED BY <1>6, <1>7, <1>8, <1>9

-----------------------------------------------------------------------------
(***************************************************************************)
(* The conversations: nothing twice.                                       *)
(***************************************************************************)

Once(list) == \A i, j \in DOMAIN list : list[i] = list[j] => i = j

LEMMA AppendedOnce ==
    ASSUME NEW list \in Seq(Message), Once(list), NEW id \in Message,
           id \notin {list[i] : i \in 1 .. Len(list)}
    PROVE  Once(Append(list, id))
<1> DEFINE longer == Append(list, id)
<1>1. /\ DOMAIN longer = 1 .. (Len(list) + 1) /\ DOMAIN list = 1 .. Len(list) /\ Len(list) \in Nat
      /\ \A i \in 1 .. Len(list) : longer[i] = list[i]
      /\ longer[Len(list) + 1] = id
  OBVIOUS
<1> SUFFICES ASSUME NEW i \in DOMAIN longer, NEW j \in DOMAIN longer, longer[i] = longer[j]
             PROVE  i = j
  BY DEF Once
<1>2. i \in 1 .. Len(list) \/ i = Len(list) + 1
  BY <1>1
<1>3. j \in 1 .. Len(list) \/ j = Len(list) + 1
  BY <1>1
<1> HIDE DEF longer
<1> QED BY <1>1, <1>2, <1>3 DEF Once

\* The list of one page changes at a time, and to one without repetition.
LEMMA ListsOnce ==
    ASSUME MessagingTypes, NothingTwice, NEW u \in Viewer, NEW list, Once(list),
           \A v \in Viewer : shell'[v].list = shell[v].list \/ (v = u /\ shell'[v].list = list)
    PROVE  NothingTwice'
BY DEF NothingTwice, Once

LEMMA PageShowsOnce ==
    ASSUME MessagingTypes, NothingTwice, NEW u \in Viewer, OnPage(u)
    PROVE  NothingTwice'
<1>1. shell \in [Viewer -> Shell] /\ shell[u] \in Shell /\ posting[u] \in Posting \cup {Null}
  BY DEF MessagingTypes
<1>2. Once(shell[u].list) /\ Once(<<>>) /\ shell[u].list \in Seq(Message)
  <2>1. Once(shell[u].list)
    BY DEF NothingTwice, Once
  <2>2. Once(<<>>)
    <3>1. DOMAIN <<>> = {}
      OBVIOUS
    <3> QED BY <3>1 DEF Once
  <2> QED BY <1>1, <2>1, <2>2, PageUpdates
<1>3. ASSUME NEW r \in Room, OpenRoom(u, r)
      PROVE  NothingTwice'
  <2>1. \A v \in Viewer : shell'[v].list = shell[v].list \/ (v = u /\ shell'[v].list = <<>>)
    BY <1>1, <1>3 DEF OpenRoom
  <2> QED BY <1>2, <2>1, ListsOnce
<1>4. ASSUME CloseRoom(u) \/ Join(u) PROVE NothingTwice'
  <2>1. \A v \in Viewer : shell'[v].list = shell[v].list
    <3>1. CASE CloseRoom(u)
      <4>1. shell' = [shell EXCEPT ![u] = [shell[u] EXCEPT !.room = Null, !.joined = FALSE]]
        BY <3>1 DEF CloseRoom
      <4> QED BY <1>1, <4>1, PageUpdates
    <3>2. CASE Join(u)
      BY <1>1, <3>2 DEF Join, Shell
    <3> QED BY <1>4, <3>1, <3>2
  <2> QED BY <1>2, <2>1, ListsOnce
<1>5. ASSUME SendAnswered(u) PROVE NothingTwice'
  <2> DEFINE id == posting[u].id
             list == IF id \in Shown(u) THEN shell[u].list ELSE Append(shell[u].list, id)
  <2>1. id \in Message
    BY <1>1, <1>5, PostingUpdates DEF SendAnswered, SendIsAnswered
  <2>2. CASE id \in Shown(u)
    <3>1. shell' = [shell EXCEPT ![u].list = shell[u].list]
      BY <1>5, <2>2 DEF SendAnswered, SendIsAnswered
    <3>2. \A v \in Viewer : shell'[v].list = shell[v].list
      BY <1>1, <3>1 DEF Shell
    <3> QED BY <1>2, <3>2, ListsOnce
  <2>3. CASE id \notin Shown(u)
    <3>1. shell' = [shell EXCEPT ![u].list = Append(shell[u].list, id)]
      BY <1>5, <2>3 DEF SendAnswered, SendIsAnswered
    <3>2. Once(Append(shell[u].list, id))
      BY <1>2, <2>1, <2>3, AppendedOnce DEF Shown
    <3>3. \A v \in Viewer : \/ shell'[v].list = shell[v].list
                            \/ v = u /\ shell'[v].list = Append(shell[u].list, id)
      BY <1>1, <3>1 DEF Shell
    <3> QED BY <3>2, <3>3, ListsOnce
  <2> QED BY <2>2, <2>3
<1>6. ASSUME SendFails(u) PROVE NothingTwice'
  <2>1. shell' = shell
    BY <1>6 DEF SendFails
  <2> QED BY <2>1 DEF NothingTwice
<1>7. ASSUME NEW c \in Content, HandleSend(u, c) PROVE NothingTwice'
  <2>1. shell' = shell
    BY <1>7 DEF HandleSend
  <2> QED BY <2>1 DEF NothingTwice
<1>8. ASSUME NEW m \in Message, ServeSend(u, m) PROVE NothingTwice'
  <2>1. shell' = shell
    BY <1>8 DEF ServeSend
  <2> QED BY <2>1 DEF NothingTwice
<1> QED BY <1>3, <1>4, <1>5, <1>6, <1>7, <1>8 DEF OnPage

LEMMA AnswersShowOnce ==
    ASSUME MessagingTypes, NothingTwice,
           \/ \E l \in loads : AnswerLoad(l) \/ ShowLoad(l) \/ ReadLoad(l) \/ LoadIsLost(l)
           \/ \E e \in events : Deliver(e) \/ LoseEvent(e)
           \/ \E k \in marks : MarkRead(k) \/ LoseMark(k)
    PROVE  NothingTwice'
<1>1. shell \in [Viewer -> Shell]
  BY DEF MessagingTypes
<1>2. ASSUME NEW l \in loads, ShowLoad(l)
      PROVE  NothingTwice'
  <2>1. l.user \in Viewer /\ l.seen \in SUBSET Message
    BY DEF MessagingTypes, RoomLoad
  <2>2. Once(InOrder(l.seen))
    BY <2>1, OrderedMessages DEF Once
  <2>3. \A v \in Viewer : \/ shell'[v].list = shell[v].list
                          \/ v = l.user /\ shell'[v].list = InOrder(l.seen)
    BY <1>1, <1>2 DEF ShowLoad, Shell
  <2> QED BY <2>1, <2>2, <2>3, ListsOnce
<1>3. ASSUME NEW e \in events, Deliver(e)
      PROVE  NothingTwice'
  <2>1. e.to \in Viewer /\ e.id \in Message
    BY DEF MessagingTypes, Event
  <2>2. CASE e.id \in Shown(e.to)
    <3>1. shell' = shell
      BY <1>3, <2>2 DEF Deliver
    <3> QED BY <3>1 DEF NothingTwice
  <2>3. CASE e.id \notin Shown(e.to)
    <3>1. shell' = [shell EXCEPT ![e.to].list = Append(shell[e.to].list, e.id)]
      BY <1>3, <2>3 DEF Deliver
    <3>2. Once(shell[e.to].list) /\ shell[e.to].list \in Seq(Message)
      BY <1>1, <2>1, PageUpdates DEF NothingTwice, Once
    <3>3. Once(Append(shell[e.to].list, e.id))
      BY <2>1, <2>3, <3>2, AppendedOnce DEF Shown
    <3>4. \A v \in Viewer : \/ shell'[v].list = shell[v].list
                            \/ v = e.to /\ shell'[v].list = Append(shell[e.to].list, e.id)
      BY <1>1, <3>1 DEF Shell
    <3> QED BY <2>1, <3>3, <3>4, ListsOnce
  <2> QED BY <2>2, <2>3
<1>4. ASSUME shell' = shell PROVE NothingTwice'
  BY <1>4 DEF NothingTwice
<1> QED BY <1>2, <1>3, <1>4 DEF AnswerLoad, ReadLoad, LoadIsLost, LoseEvent, MarkRead, LoseMark

-----------------------------------------------------------------------------
(***************************************************************************)
(* The conversations: who hides contacts is reported.                      *)
(***************************************************************************)

LEMMA MaskedAreFinite ==
    ASSUME NEW u
    PROVE  IsFiniteSet(Masked(u)) /\ Cardinality(Masked(u)) \in Nat
<1>1. IsFiniteSet(Message)
  BY Numbers, FS_Interval DEF Message
<1>2. Masked(u) \in SUBSET Message
  BY DEF Masked, Stored
<1>3. IsFiniteSet(Masked(u))
  BY <1>1, <1>2, FS_Subset
<1> QED BY <1>3, FS_CardinalityType

\* A write changes one message of one sender; it is recounted if it is masked.
LEMMA WriteReports ==
    ASSUME MessagingTypes, Reporting, NEW s \in User, NEW c \in Content, Recount(s, c),
           alerted' = alerted, NEW m,
           \A u \in User \ {s} : Masked(u)' = Masked(u),
           IF c = "masked" THEN Masked(s)' = Masked(s) \cup {m} ELSE Masked(s)' = Masked(s) \ {m}
    PROVE  Reporting'
<1> SUFFICES ASSUME NEW u \in User \ miscounted', Cardinality(Masked(u)') >= 3
             PROVE  u \in alerted \/ (counting'[u] > 0 /\ Cardinality(Masked(u)') = 3)
  BY DEF Reporting, CIRCUMVENTION_ALERT_THRESHOLD
<1>1. u \notin miscounted /\ counting \in [User -> 0 .. AtOnce] /\ counting[u] \in Nat
  <2>1. counting[u] \in 0 .. AtOnce
    BY DEF MessagingTypes
  <2> QED BY <2>1, Numbers DEF Recount, MessagingTypes
<1>2. IsFiniteSet(Masked(u)) /\ Cardinality(Masked(u)) \in Nat
  BY MaskedAreFinite
<1>3. Cardinality(Masked(u)) >= 3 => u \in alerted \/ (counting[u] > 0 /\ Cardinality(Masked(u)) = 3)
  BY <1>1 DEF Reporting, CIRCUMVENTION_ALERT_THRESHOLD
<1>4. CASE u # s
  <2>1. Masked(u)' = Masked(u) /\ counting'[u] = counting[u]
    BY <1>1, <1>4 DEF Recount
  <2> QED BY <1>3, <2>1
<1>5. CASE u = s
  <2>1. counting[u] = 0
    BY <1>1, <1>5 DEF Recount
  <2>2. Cardinality(Masked(u)) >= 3 => u \in alerted
    BY <1>3, <2>1
  <2>3. CASE c = "masked"
    <3>1. counting'[u] = 1
      BY <1>1, <1>5, <2>1, <2>3 DEF Recount
    <3>2. Masked(u)' = Masked(u) \cup {m}
      BY <1>5, <2>3
    <3>3. Cardinality(Masked(u)') \in {Cardinality(Masked(u)), Cardinality(Masked(u)) + 1}
      BY <1>2, <3>2, FS_AddElement
    <3> QED BY <1>2, <2>2, <3>1, <3>3
  <2>4. CASE c # "masked"
    <3>1. Masked(u)' = Masked(u) \ {m}
      BY <1>5, <2>4
    <3>2. Cardinality(Masked(u)') <= Cardinality(Masked(u)) /\ Cardinality(Masked(u)') \in Nat
      <4>1. Masked(u)' \in SUBSET Masked(u)
        BY <3>1
      <4>2. IsFiniteSet(Masked(u)') /\ Cardinality(Masked(u)') <= Cardinality(Masked(u))
        BY <1>2, <4>1, FS_Subset
      <4> QED BY <4>2, FS_CardinalityType
    <3> QED BY <1>2, <2>2, <3>2
  <2> QED BY <2>3, <2>4
<1> QED BY <1>4, <1>5

LEMMA StoreReports ==
    ASSUME MessagingTypes, InTheirRooms, Reporting, alerted' = alerted,
           NEW m \in Message, NEW r \in Room, NEW s \in User, NEW c \in Content, Store(m, r, s, c)
    PROVE  Reporting'
<1>1. /\ m \notin Stored /\ Stored' = Stored \cup {m}
      /\ message'[m] = [room |-> r, sender |-> s, content |-> c, read |-> FALSE, deleted |-> FALSE]
      /\ \A x \in Message \ {m} : message'[x] = message[x]
  BY StoredIsNext
<1>2. \A x \in Stored : message'[x] = message[x]
  BY <1>1 DEF Stored
<1>3. message'[m].sender = s /\ message'[m].content = c
  BY <1>1
<1>4. \A u \in User : Masked(u)' = IF u = s /\ c = "masked" THEN Masked(u) \cup {m} ELSE Masked(u)
  BY <1>1, <1>2, <1>3 DEF Masked
<1>5. m \notin Masked(s)
  BY <1>1 DEF Masked
<1>6. IF c = "masked" THEN Masked(s)' = Masked(s) \cup {m} ELSE Masked(s)' = Masked(s) \ {m}
  BY <1>4, <1>5
<1>7. \A u \in User \ {s} : Masked(u)' = Masked(u)
  BY <1>4
<1>8. Recount(s, c)
  BY DEF Store
<1> QED BY <1>6, <1>7, <1>8, WriteReports

LEMMA EditReports ==
    ASSUME MessagingTypes, Reporting, NEW s \in User, NEW m \in Message, EditMessage(s, m)
    PROVE  Reporting'
<1>1. PICK c \in {"text", "masked"} : message' = [message EXCEPT ![m].content = c] /\ Recount(s, c)
  BY DEF EditMessage
<1>2. message[m] \in MessageRow /\ c \in Content /\ message[m].sender = s
  BY DEF EditMessage, MessagingTypes, Content
<1>3. /\ message'[m].sender = s /\ message'[m].content = c /\ message'[m] # Null /\ message[m] # Null
      /\ \A x \in Message \ {m} : message'[x] = message[x]
  <2> DEFINE n == [message[m] EXCEPT !.content = c]
  <2>1. n \in MessageRow /\ n.sender = s /\ n.content = c
    BY <1>2, RowUpdates
  <2>2. message'[m] = n /\ (\A x \in Message \ {m} : message'[x] = message[x])
    BY <1>1 DEF MessagingTypes
  <2>3. n # Null /\ message[m] # Null
    BY <1>2, <2>1, RowUpdates
  <2> HIDE DEF n
  <2> QED BY <2>1, <2>2, <2>3
<1>4. \A u \in User \ {s} : Masked(u)' = Masked(u)
  BY <1>2, <1>3 DEF Masked, Stored
<1>5. IF c = "masked" THEN Masked(s)' = Masked(s) \cup {m} ELSE Masked(s)' = Masked(s) \ {m}
  <2>1. CASE c = "masked"
    BY <1>2, <1>3, <2>1 DEF Masked, Stored
  <2>2. CASE c # "masked"
    BY <1>2, <1>3, <2>2 DEF Masked, Stored
  <2> QED BY <2>1, <2>2
<1>6. alerted' = alerted
  BY DEF EditMessage
<1> QED BY <1>1, <1>2, <1>4, <1>5, <1>6, WriteReports

\* The recount reports the third, whatever was counted before.
LEMMA CountReports ==
    ASSUME MessagingTypes, Reporting, NEW s \in User, CountMasked(s) \/ CountFails(s)
    PROVE  Reporting'
<1>1. \A u \in User : Masked(u)' = Masked(u)
  BY DEF CountMasked, CountFails, Masked, Stored
<1>2. /\ alerted \subseteq alerted' /\ miscounted \subseteq miscounted'
      /\ \A u \in User \ {s} : counting'[u] = counting[u]
  BY DEF CountMasked, CountFails, MessagingTypes
<1>3. CASE CountFails(s)
  <2>1. s \in miscounted'
    BY <1>3 DEF CountFails
  <2> QED BY <1>1, <1>2, <2>1 DEF Reporting
<1>4. CASE CountMasked(s)
  <2>1. Cardinality(Masked(s)) = 3 => s \in alerted'
    BY <1>4 DEF CountMasked, CIRCUMVENTION_ALERT_THRESHOLD
  <2> QED BY <1>1, <1>2, <2>1 DEF Reporting, CIRCUMVENTION_ALERT_THRESHOLD
<1> QED BY <1>3, <1>4

\* Whoever else acts, the masked messages, their recounts and the reports are the same.
LEMMA SameReports ==
    ASSUME Reporting, UNCHANGED <<counting, alerted, miscounted>>,
           \A u \in User : Masked(u)' = Masked(u)
    PROVE  Reporting'
BY DEF Reporting

LEMMA MaskedStay ==
    ASSUME MessagingTypes, RowsStay, \A x \in Stored : message'[x].content = message[x].content
    PROVE  \A u \in User : Masked(u)' = Masked(u)
<1>1. Stored' = Stored
  BY DEF RowsStay, Stored
<1> QED BY <1>1 DEF RowsStay, Masked, Stored

-----------------------------------------------------------------------------
(***************************************************************************)
(* The conversations: the invariant.                                       *)
(***************************************************************************)

\* The part of the invariant from which the three properties follow.
TalkInv ==
    MessagingTypes /\ EventsFit /\ InTheirRooms /\ Following /\ Reporting /\ NothingTwice

LEMMA TalkTells == TalkInv => ReadWasReceived /\ AlertedAtThree
<1> SUFFICES ASSUME TalkInv PROVE ReadWasReceived /\ AlertedAtThree
  OBVIOUS
<1>1. ReadWasReceived
  <2> SUFFICES ASSUME NEW m \in Stored, Reader(message[m].room, message[m].sender) \in Viewer,
                      message[m].read
               PROVE  LET u == Reader(message[m].room, message[m].sender) IN
                      m \in received \cup missed \/ OnItsWay(m, u)
    BY DEF ReadWasReceived
  <2> DEFINE r == message[m].room
             u == Reader(r, message[m].sender)
  <2>1. r \in Room /\ TalksIn(message[m].sender, r)
    BY DEF TalkInv, InTheirRooms, MessagingTypes, Stored, MessageRow
  <2>2. tenantOf[r] \in Tenant /\ tenantOf[r] # Owner
    BY <2>1, MessagingAssumption DEF TalksIn, TalkInv, MessagingTypes
  <2>3. \E v \in Participants(r) : v # message[m].sender
    BY <2>2 DEF Participants
  <2>4. u \in Participants(r) /\ u # message[m].sender
    BY <2>3 DEF Reader
  <2>5. Due(m, u)
    BY <2>1, <2>4 DEF Due, TalksIn
  <2> HIDE DEF u
  <2>6. Followed(m, u)
    BY <2>5 DEF TalkInv, Following, u
  <2> QED BY <2>6 DEF Followed, u
<1>2. AlertedAtThree
  <2> SUFFICES ASSUME NEW u \in User, counting[u] = 0, u \notin miscounted,
                      Cardinality(Masked(u)) >= CIRCUMVENTION_ALERT_THRESHOLD
               PROVE  u \in alerted
    BY DEF AlertedAtThree
  <2> QED BY DEF TalkInv, Reporting
<1> QED BY <1>1, <1>2

LEMMA TalkAtFirst == MessagingInit => TalkInv
<1> SUFFICES ASSUME MessagingInit PROVE TalkInv
  OBVIOUS
<1>1. Stored = {}
  BY DEF MessagingInit, Stored
<1>2. MessagingTypes
  BY TypesAtFirst
<1>3. EventsFit
  BY DEF EventsFit, MessagingInit
<1>4. InTheirRooms
  <2>1. Stored = 1 .. Cardinality(Stored)
    BY <1>1, FS_EmptySet
  <2>2. \A u \in Viewer : shell[u].room = Null /\ posting[u] = Null
    BY DEF MessagingInit
  <2>3. loads = {} /\ marks = {}
    BY DEF MessagingInit
  <2> QED BY <1>1, <2>1, <2>2, <2>3 DEF InTheirRooms
<1>5. Following
  BY <1>1 DEF Following
<1>6. Reporting
  <2> SUFFICES ASSUME NEW u \in User, Cardinality(Masked(u)) >= CIRCUMVENTION_ALERT_THRESHOLD
               PROVE  FALSE
    BY DEF Reporting
  <2>1. Masked(u) = {}
    BY <1>1 DEF Masked
  <2> QED BY <2>1, FS_EmptySet DEF CIRCUMVENTION_ALERT_THRESHOLD
<1>7. NothingTwice
  <2> SUFFICES ASSUME NEW u \in Viewer PROVE DOMAIN shell[u].list = {}
    BY DEF NothingTwice
  <2>1. shell[u].list = <<>>
    BY DEF MessagingInit
  <2> QED BY <2>1
<1> QED BY <1>2, <1>3, <1>4, <1>5, <1>6, <1>7 DEF TalkInv

LEMMA StoringKeeps ==
    ASSUME TalkInv, MessagingTypes', NEW m \in Message, NEW r \in Room, NEW s \in User, NEW c \in Content,
           Store(m, r, s, c), TalksIn(s, r),
           UNCHANGED <<tenantOf, shell, loads, marks, received, alerted>>,
           \A v \in Viewer : posting'[v] # Null => posting[v] # Null /\ posting'[v].room = posting[v].room
    PROVE  TalkInv'
<1> MessagingTypes /\ EventsFit /\ InTheirRooms /\ Following /\ Reporting /\ NothingTwice
  BY DEF TalkInv
<1>1. InTheirRooms'
  BY InTheirRoomsStored
<1>2. EventsFit' /\ Following'
  BY StoredFollows
<1>3. Reporting'
  BY StoreReports
<1>4. NothingTwice'
  BY DEF NothingTwice
<1> QED BY <1>1, <1>2, <1>3, <1>4 DEF TalkInv

LEMMA TalkStep == TalkInv /\ [MessagingNext]_messagingVars => TalkInv'
<1> SUFFICES ASSUME TalkInv, [MessagingNext]_messagingVars PROVE TalkInv'
  OBVIOUS
<1> MessagingTypes /\ EventsFit /\ InTheirRooms /\ Following /\ Reporting /\ NothingTwice
  BY DEF TalkInv
<1> Viewer \subseteq User
  BY MessagingAssumption
<1>1. ASSUME RowsStay, RoomsStay, PagesFollow, MessagingTypes'
      PROVE  InTheirRooms'
  BY <1>1, InTheirRoomsStay
<1>2. ASSUME UNCHANGED <<shell, posting, loads, marks>>
      PROVE  PagesFollow /\ NothingTwice'
  BY <1>2 DEF PagesFollow, NothingTwice
<1>3. ASSUME RowsStay, \A x \in Stored : message'[x].content = message[x].content,
             UNCHANGED <<counting, alerted, miscounted>>
      PROVE  Reporting'
  <2>1. \A u \in User : Masked(u)' = Masked(u)
    BY <1>3, MaskedStay
  <2> QED BY <1>3, <2>1, SameReports
<1>4. ASSUME NEW t \in Tenant, LookForRoom(t) \/ \E r \in Room : InsertRoom(t, r)
      PROVE  TalkInv'
  <2>1. MessagingTypes' /\ RowsStay /\ RoomsStay
    BY <1>4, RoomTypes, ServerKeepsRows
  <2>2. UNCHANGED <<message, counting, shell, posting, loads, marks, alerted, miscounted>>
    BY <1>4 DEF LookForRoom, InsertRoom
  <2>3. InTheirRooms' /\ NothingTwice' /\ Reporting'
    BY <1>1, <1>2, <1>3, <2>1, <2>2
  <2>4. EventsFit' /\ Following'
    BY <1>4, OthersFollow
  <2> QED BY <2>1, <2>3, <2>4 DEF TalkInv
<1>5. ASSUME NEW u \in User, AtServer(u)
      PROVE  TalkInv'
  <2>1. MessagingTypes'
    BY <1>5, ServerTypes
  <2>2. ASSUME NEW m \in Message, EditMessage(u, m)
        PROVE  TalkInv'
    <3>1. RowsStay /\ RoomsStay /\ EventsFit' /\ Following'
      BY <2>2, ServerKeepsRows, OthersFollow
    <3>2. UNCHANGED <<shell, posting, loads, marks>>
      BY <2>2 DEF EditMessage
    <3>3. Reporting'
      BY <2>2, EditReports
    <3> QED BY <1>1, <1>2, <2>1, <3>1, <3>2, <3>3 DEF TalkInv
  <2>3. ASSUME NEW m \in Message, DeleteMessage(u, m)
        PROVE  TalkInv'
    <3>1. RowsStay /\ RoomsStay /\ EventsFit' /\ Following'
      BY <2>3, ServerKeepsRows, OthersFollow
    <3>2. UNCHANGED <<shell, posting, loads, marks, counting, alerted, miscounted>>
      BY <2>3 DEF DeleteMessage
    <3>3. \A x \in Stored : message'[x].content = message[x].content
      <4>1. message[m] \in MessageRow
        BY <2>3 DEF DeleteMessage, MessagingTypes
      <4>2. message' = [message EXCEPT ![m] = [message[m] EXCEPT !.deleted = TRUE]]
        BY <2>3 DEF DeleteMessage
      <4> QED BY <4>1, <4>2, RowUpdates DEF Stored, MessagingTypes
    <3> QED BY <1>1, <1>2, <1>3, <2>1, <3>1, <3>2, <3>3 DEF TalkInv
  <2>4. ASSUME NEW r \in Room, NEW m \in Message, NEW c \in Content, SendMessage(u, r, m, c)
        PROVE  TalkInv'
    <3>1. Store(m, r, u, c) /\ TalksIn(u, r)
      BY <2>4 DEF SendMessage, TalksIn
    <3>2. UNCHANGED <<tenantOf, shell, loads, marks, received, alerted, posting>>
      BY <2>4 DEF SendMessage
    <3> QED BY <2>1, <3>1, <3>2, StoringKeeps
  <2>5. ASSUME CountMasked(u) \/ CountFails(u) PROVE TalkInv'
    <3>1. RowsStay /\ RoomsStay /\ EventsFit' /\ Following'
      BY <2>5, ServerKeepsRows, OthersFollow
    <3>2. UNCHANGED <<shell, posting, loads, marks>>
      BY <2>5 DEF CountMasked, CountFails
    <3>3. Reporting'
      BY <2>5, CountReports
    <3> QED BY <1>1, <1>2, <2>1, <3>1, <3>2, <3>3 DEF TalkInv
  <2> QED BY <1>5, <2>2, <2>3, <2>4, <2>5 DEF AtServer
<1>6. ASSUME NEW u \in Viewer, OnPage(u)
      PROVE  TalkInv'
  <2>1. MessagingTypes' /\ NothingTwice'
    BY <1>6, PageTypes, PageShowsOnce
  <2>2. ASSUME NEW m \in Message, ServeSend(u, m)
        PROVE  TalkInv'
    <3>1. posting[u] # Null /\ posting[u] \in Posting /\ Store(m, posting[u].room, u, posting[u].content)
      BY <2>2 DEF ServeSend, MessagingTypes
    <3>2. posting[u].room \in Room /\ posting[u].content \in Content
      BY <3>1, PostingUpdates
    <3>3. TalksIn(u, posting[u].room)
      BY <3>1 DEF InTheirRooms
    <3>4. UNCHANGED <<tenantOf, shell, loads, marks, received, alerted>>
      BY <2>2 DEF ServeSend
    <3>5. \A v \in Viewer : posting'[v] # Null => posting[v] # Null /\ posting'[v].room = posting[v].room
      <4>1. posting' = [posting EXCEPT ![u] = [posting[u] EXCEPT !.id = m]]
        BY <2>2 DEF ServeSend
      <4>2. [posting[u] EXCEPT !.id = m].room = posting[u].room
        BY <3>1, PostingUpdates
      <4> QED BY <3>1, <4>1, <4>2 DEF MessagingTypes
    <3> QED BY <2>1, <3>1, <3>2, <3>3, <3>4, <3>5, StoringKeeps
  <2>3. ASSUME \/ \E r \in Room : OpenRoom(u, r)
               \/ CloseRoom(u) \/ Join(u) \/ SendAnswered(u) \/ SendFails(u)
               \/ \E c \in Content : HandleSend(u, c)
        PROVE  TalkInv'
    <3>1. RowsStay /\ RoomsStay /\ PagesFollow
      BY <2>3, PageFollows
    <3>2. UNCHANGED <<message, counting, alerted, miscounted>>
      BY <2>3 DEF OpenRoom, CloseRoom, Join, SendAnswered, SendIsAnswered, SendFails, HandleSend
    <3>3. EventsFit' /\ Following'
      <4>1. CASE (\E r \in Room : OpenRoom(u, r)) \/ CloseRoom(u)
        BY <4>1, LeavingFollows
      <4>2. CASE Join(u) \/ SendAnswered(u) \/ SendFails(u) \/ \E c \in Content : HandleSend(u, c)
        <5>1. "text" \in Content
          BY DEF Content
        <5> QED BY <4>2, <5>1, OthersFollow
      <4> QED BY <2>3, <4>1, <4>2
    <3> QED BY <1>1, <1>3, <2>1, <3>1, <3>2, <3>3 DEF TalkInv
  <2> QED BY <1>6, <2>2, <2>3 DEF OnPage
<1>7. ASSUME \/ \E l \in loads : AnswerLoad(l) \/ ShowLoad(l) \/ ReadLoad(l) \/ LoadIsLost(l)
             \/ \E e \in events : Deliver(e) \/ LoseEvent(e)
             \/ \E k \in marks : MarkRead(k) \/ LoseMark(k)
      PROVE  TalkInv'
  <2>1. RowsStay /\ RoomsStay /\ PagesFollow
    BY <1>7, RunsFollow
  <2>2. MessagingTypes' /\ EventsFit' /\ Following'
    BY <1>7, LoadTypes, EventTypes, MarkTypes, LoadFollows, EventFollows, MarkFollows
  <2>3. NothingTwice'
    BY <1>7, AnswersShowOnce
  <2>4. Reporting'
    <3>1. UNCHANGED <<counting, alerted, miscounted>>
      BY <1>7 DEF AnswerLoad, ShowLoad, ReadLoad, LoadIsLost, Deliver, LoseEvent, MarkRead, LoseMark
    <3>2. message' = message \/ \E u, r : Read(u, r)
      BY <1>7 DEF AnswerLoad, ShowLoad, ReadLoad, LoadIsLost, Deliver, LoseEvent, MarkRead, LoseMark
    <3>3. \A x \in Stored : message'[x].content = message[x].content
      BY <3>2, ReadChanges DEF Stored
    <3> QED BY <1>3, <2>1, <3>1, <3>3
  <2> QED BY <1>1, <2>1, <2>2, <2>3, <2>4 DEF TalkInv
<1>8. ASSUME UNCHANGED messagingVars PROVE TalkInv'
  <2>1. /\ UNCHANGED <<tenantOf, message, counting, creating, shell, loads, marks, events, posting>>
        /\ UNCHANGED <<received, missed, alerted, miscounted>>
    BY <1>8 DEF messagingVars
  <2>2. MessagingTypes' /\ EventsFit'
    BY <2>1 DEF MessagingTypes, EventsFit
  <2>3. RowsStay /\ RoomsStay /\ PagesFollow /\ NothingTwice'
    BY <1>2, <2>1 DEF RowsStay, RoomsStay
  <2>4. InTheirRooms' /\ Reporting'
    BY <1>1, <1>3, <2>1, <2>2, <2>3
  <2>5. Following'
    BY <2>1, <2>3, FollowingUnmoved
  <2> QED BY <2>2, <2>3, <2>4, <2>5 DEF TalkInv
<1> QED BY <1>4, <1>5, <1>6, <1>7, <1>8 DEF MessagingNext

\* The rooms, pages, events, marks and recounts stay consistent, whoever writes and reads.
THEOREM MessagingInvariant == MessagingSpec => []MessagingInv
<1>1. TalkInv => MessagingInv
  BY TalkTells DEF TalkInv, MessagingInv
<1> QED BY <1>1, TalkAtFirst, TalkStep, PTL DEF MessagingSpec

\* No message is twice on a page, whichever comes first of an answer, an event and a load.
THEOREM NothingShownTwice == MessagingSpec => []NothingTwice
<1>1. MessagingInv => NothingTwice
  BY DEF MessagingInv
<1> QED BY <1>1, MessagingInvariant, PTL

\* What is marked as read has reached its reader's page or is on its way, unless it was missed.
THEOREM ReadIsReceived == MessagingSpec => []ReadWasReceived
<1>1. MessagingInv => ReadWasReceived
  BY DEF MessagingInv
<1> QED BY <1>1, MessagingInvariant, PTL

\* Three masked messages are reported, unless a recount failed or overlapped a write.
THEOREM ThirdIsReported == MessagingSpec => []AlertedAtThree
<1>1. MessagingInv => AlertedAtThree
  BY DEF MessagingInv
<1> QED BY <1>1, MessagingInvariant, PTL

=============================================================================
