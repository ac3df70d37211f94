----------------------------- MODULE Catalogue -----------------------------
(***************************************************************************)
(* What visitors find, and in which order: ListingsService keeps the       *)
(* status of a listing in the database and tells Meilisearch about it      *)
(* (syncSearchIndex), the admin rebuilds the index (reindexAll), and a     *)
(* boost, paid at PayDunya or free for a PRO agency, raises the listing.   *)
(*                                                                         *)
(* A handler reads, checks, and writes by id in a later step.  The call to *)
(* Meilisearch leaves with the write and is not awaited: calls of several  *)
(* handlers travel together, arrive in any order, or are lost without      *)
(* anybody noticing (.catch(() => undefined)).                             *)
(***************************************************************************)
EXTENDS Naturals, FiniteSets, SequencesExt

CONSTANTS
    Listing,         \* rows of the table listings
    Invoice,         \* PayDunya invoices that may be created for boosts
    ListingOf,       \* [Invoice -> Listing]: custom_data.listing_id
    BoostScoreGain,  \* points of one boost
    BoostScoreMax,   \* ceiling of the points
    MaxCalls,        \* bound: calls to Meilisearch under way per listing
    Proc             \* requests served at the same time

ASSUME CatalogueAssumption ==
    /\ ListingOf \in [Invoice -> Listing]
    /\ BoostScoreGain \in Nat /\ BoostScoreMax \in Nat /\ MaxCalls \in Nat

VARIABLES
    listing,    \* [Listing -> row]
    pro,        \* listings whose owner is an agency with an active PRO plan
    payment,    \* [Invoice -> boost_payments row inserted for that invoice]
    inserted,   \* the invoices whose row exists, oldest first (createdAt)
    invoice,    \* [Invoice -> state at PayDunya]
    index,      \* the listings that have a document in Meilisearch
    calls,      \* [Listing -> calls to Meilisearch under way, oldest first]
    request,    \* [Proc -> what the request served by p does next]
    heard,      \* history: does the index know of the last write of status?
    moved,      \* history: listings written since reindexAll read them
    published,  \* history: listings that have been ACTIVE
    earned      \* history: listings boosted free of charge under a PRO plan

vars == <<listing, pro, payment, inserted, invoice, index, calls, request,
          heard, moved, published, earned>>
search == <<index, calls, heard, moved, published>>
money == <<payment, inserted, invoice>>

(***************************************************************************)
(* Types.                                                                  *)
(***************************************************************************)
ListingStatus == {"DRAFT", "ACTIVE", "SUSPENDED", "RENTED"}

\* "ABSENT" before the INSERT, "DELETED" after the DELETE.
Row == [status : ListingStatus \cup {"ABSENT", "DELETED"},
        boostScore : 0 .. BoostScoreMax,
        boostUntil : {"never", "running", "over"}]

\* A row of the table boost_payments, "none" before the INSERT and after the DELETE.
PaymentRow == [status : {"none", "PENDING", "CONFIRMED", "FAILED"}, paymentRef : Invoice]

Idle == [stage |-> "idle"]

Request ==
    {Idle}
    \cup [stage : {"status"}, listing : Listing, status : ListingStatus]
    \cup [stage : {"edit", "invoice"}, listing : Listing]
    \cup [stage : {"plan", "boost"}, listing : Listing, score : 0 .. BoostScoreMax]
    \cup [stage : {"insert"}, invoice : Invoice]
    \cup [stage : {"confirm", "score", "failed"}, row : Invoice, invoice : Invoice]
    \cup [stage : {"settle"}, row : Invoice, invoice : Invoice,
          score : 0 .. BoostScoreMax, left : SUBSET {"row", "boost"}]
    \cup [stage : {"clear", "fill"}, rows : SUBSET Listing]

\* Every variable keeps to its columns: in particular the score never passes
\* the ceiling that applyBoost applies to a score read earlier.
TypeOK ==
    /\ listing \in [Listing -> Row]
    /\ pro \subseteq Listing
    /\ payment \in [Invoice -> PaymentRow]
    /\ inserted \in Seq(Invoice)
    /\ invoice \in [Invoice -> {"none", "created", "open", "completed", "failed"}]
    /\ index \subseteq Listing
    /\ calls \in [Listing -> Seq({"index", "delete"})]
    /\ request \in [Proc -> Request]
    /\ heard \in [Listing -> {"soon", "yes", "no"}]
    /\ moved \subseteq Listing /\ published \subseteq Listing
    /\ earned \subseteq Listing

Exists(l) == listing[l].status \in ListingStatus

Init ==
    /\ listing = [l \in Listing |->
         [status |-> "ABSENT", boostScore |-> 0, boostUntil |-> "never"]]
    /\ pro = {}
    /\ payment = [i \in Invoice |-> [status |-> "none", paymentRef |-> i]]
    /\ inserted = <<>>
    /\ invoice = [i \in Invoice |-> "none"]
    /\ index = {}
    /\ calls = [l \in Listing |-> <<>>]
    /\ request = [p \in Proc |-> Idle]
    /\ heard = [l \in Listing |-> "yes"]
    /\ moved = {} /\ published = {} /\ earned = {}

Free(p) == request[p] = Idle
Goto(p, r) == request' = [request EXCEPT ![p] = r]
At(p, stage) == request[p].stage = stage
Done(p) == Goto(p, Idle)

(***************************************************************************)
(* Writing the status and telling Meilisearch.                             *)
(***************************************************************************)
WriteStatus(l, s) ==
    /\ listing' = [listing EXCEPT ![l].status = s]
    /\ moved' = moved \cup {l}
    /\ published' = IF s = "ACTIVE" THEN published \cup {l} ELSE published

\* A call leaves for Meilisearch; nobody waits for its answer.
Tell(l, call) ==
    /\ Len(calls[l]) < MaxCalls
    /\ calls' = [calls EXCEPT ![l] = Append(@, call)]
    /\ heard' = [heard EXCEPT ![l] = "soon"]
    /\ UNCHANGED index

\* Only a row that is ACTIVE after the write has a document.
\* mutant: the former code, which sent every row to the index.
SyncEveryRow(l, s) == Tell(l, "index")
SyncSearchIndex(l, s) == Tell(l, IF s = "ACTIVE" THEN "index" ELSE "delete")

\* Whether the owner may publish (assertCanPublish) is left to AgencySubscription.
Create(p, l) ==
    \E s \in {"ACTIVE", "DRAFT"} :
        /\ Free(p) /\ listing[l].status = "ABSENT"
        /\ WriteStatus(l, s)
        /\ SyncSearchIndex(l, s)
        /\ UNCHANGED <<pro, money, request, earned>>

\* The rows each handler accepts, and the status it then writes.
Moves ==
    {<<"DRAFT", "SUSPENDED">>, <<"ACTIVE", "SUSPENDED">>,  \* archiveListing
     <<"SUSPENDED", "DRAFT">>, <<"SUSPENDED", "ACTIVE">>,  \* restoreListing
     <<"ACTIVE", "DRAFT">>,                                \* unpublishListing
     <<"DRAFT", "ACTIVE">>}                                \* publishListing

CheckMove(p, l) ==
    \E s \in ListingStatus :
        /\ Free(p) /\ <<listing[l].status, s>> \in Moves
        /\ Goto(p, [stage |-> "status", listing |-> l, status |-> s])
        /\ UNCHANGED <<listing, pro, money, search, earned>>

\* mutant: the status moves and Meilisearch is not told.
MoveUntold(p) ==
    LET r == request[p] IN
    /\ At(p, "status") /\ Exists(r.listing)
    /\ WriteStatus(r.listing, r.status)
    /\ Done(p)
    /\ UNCHANGED <<pro, money, index, calls, heard, earned>>
MoveListing(p) ==
    LET r == request[p] IN
    /\ At(p, "status") /\ Exists(r.listing)
    /\ WriteStatus(r.listing, r.status)
    /\ SyncSearchIndex(r.listing, r.status)
    /\ Done(p)
    /\ UNCHANGED <<pro, money, earned>>

\* update() reads the row for its owner and its prices, and leaves the status
\* alone; the row it gets back from the UPDATE says what to tell Meilisearch.
CheckEdit(p, l) ==
    /\ Free(p) /\ Exists(l)
    /\ Goto(p, [stage |-> "edit", listing |-> l])
    /\ UNCHANGED <<listing, pro, money, search, earned>>

Update(p) ==
    LET l == request[p].listing IN
    /\ At(p, "edit") /\ Exists(l)
    /\ SyncSearchIndex(l, listing[l].status)
    /\ Done(p)
    /\ UNCHANGED <<listing, pro, money, moved, published, earned>>

\* Single statements of admins and field agents: no row is read first.
ActivateListing(p, l) ==
    /\ Free(p) /\ Exists(l)
    /\ WriteStatus(l, "ACTIVE")
    /\ SyncSearchIndex(l, "ACTIVE")
    /\ UNCHANGED <<pro, money, request, earned>>

SuspendListing(p, l) ==
    /\ Free(p) /\ Exists(l)
    /\ WriteStatus(l, "SUSPENDED")
    /\ Tell(l, "delete")
    /\ UNCHANGED <<pro, money, request, earned>>

\* One transaction deletes the listing and every row that refers to it.
RemoveListing(p, l) ==
    /\ Free(p) /\ Exists(l)
    /\ WriteStatus(l, "DELETED")
    /\ payment' = [i \in Invoice |->
         IF ListingOf[i] = l THEN [payment[i] EXCEPT !.status = "none"] ELSE payment[i]]
    /\ Tell(l, "delete")
    /\ UNCHANGED <<pro, inserted, invoice, request, earned>>

\* A lease that starts or ends and the nightly job of the subscriptions write
\* the status without a word to Meilisearch.
WriteUntold(p, l) ==
    \E s \in {"RENTED", "ACTIVE", "SUSPENDED"} :
        /\ Free(p) /\ Exists(l)
        /\ s = "SUSPENDED" => listing[l].status = "ACTIVE"
        /\ WriteStatus(l, s)
        /\ heard' = [heard EXCEPT ![l] = "no"]
        /\ UNCHANGED <<pro, money, index, calls, request, earned>>

\* A call arrives, not necessarily in the order of the writes...
Arrive(l) ==
    \E k \in 1 .. Len(calls[l]) :
        /\ index' = IF calls[l][k] = "index" THEN index \cup {l} ELSE index \ {l}
        /\ calls' = [calls EXCEPT ![l] = RemoveAt(@, k)]
        /\ heard' = [heard EXCEPT ![l] =
             CASE @ = "soon" /\ k = Len(calls[l]) -> "yes"
               [] @ = "yes" -> "no"
               [] OTHER -> @]
        /\ UNCHANGED <<listing, pro, money, request, moved, published, earned>>

\* ... or Meilisearch is down, and the error is swallowed.
Lose(l) ==
    \E k \in 1 .. Len(calls[l]) :
        /\ calls' = [calls EXCEPT ![l] = RemoveAt(@, k)]
        /\ heard' = [heard EXCEPT ![l] =
             IF @ = "soon" /\ k = Len(calls[l]) THEN "no" ELSE @]
        /\ UNCHANGED <<listing, pro, money, request, index, moved, published, earned>>

(***************************************************************************)
(* reindexAll: read the ACTIVE rows, empty the index, add what was read.   *)
(* One rebuild at a time: an admin starts it by hand.                      *)
(***************************************************************************)
ReindexRead(p) ==
    /\ Free(p)
    /\ \A q \in Proc : ~At(q, "clear") /\ ~At(q, "fill")
    /\ Goto(p, [stage |-> "clear",
                rows |-> {l \in Listing : listing[l].status = "ACTIVE"}])
    /\ moved' = {}
    /\ UNCHANGED <<listing, pro, money, index, calls, heard, published, earned>>

ReindexClear(p) ==
    LET rows == request[p].rows IN
    /\ At(p, "clear")
    /\ index' = {}
    /\ heard' = [l \in Listing |->
         IF heard[l] = "soon" THEN "soon"
         ELSE IF l \in rows \cup moved THEN "no" ELSE "yes"]
    /\ Goto(p, [stage |-> "fill", rows |-> rows])
    /\ UNCHANGED <<listing, pro, money, calls, moved, published, earned>>

ReindexFill(p) ==
    LET rows == request[p].rows IN
    /\ At(p, "fill")
    /\ index' = index \cup rows
    /\ heard' = [l \in Listing |->
         IF l \notin rows \/ heard[l] = "soon" THEN heard[l]
         ELSE IF l \in moved THEN "no" ELSE "yes"]
    /\ Done(p)
    /\ UNCHANGED <<listing, pro, money, calls, moved, published, earned>>

(***************************************************************************)
(* Boosts.                                                                 *)
(***************************************************************************)
Least(a, b) == IF a < b THEN a ELSE b

\* applyBoost: seven more days, and points counted from a score read earlier.
ApplyBoost(l, score) ==
    listing' = [listing EXCEPT
        ![l].boostScore = Least(score + BoostScoreGain, BoostScoreMax),
        ![l].boostUntil = "running"]

\* boost() reads the listing, then whether its owner has an active PRO plan.
Boost(p, l) ==
    /\ Free(p) /\ Exists(l)
    /\ Goto(p, [stage |-> "plan", listing |-> l, score |-> listing[l].boostScore])
    /\ UNCHANGED <<listing, pro, money, search, earned>>

IsProActive(p) ==
    LET r == request[p] IN
    /\ At(p, "plan")
    /\ IF r.listing \in pro
       THEN /\ Goto(p, [r EXCEPT !.stage = "boost"])
            /\ earned' = earned \cup {r.listing}
       ELSE /\ Goto(p, [stage |-> "invoice", listing |-> r.listing])
            /\ UNCHANGED earned
    /\ UNCHANGED <<listing, pro, money, search>>

BoostFree(p) ==
    LET r == request[p] IN
    /\ At(p, "boost") /\ Exists(r.listing)
    /\ ApplyBoost(r.listing, r.score)
    /\ Done(p)
    /\ UNCHANGED <<pro, money, search, earned>>

\* initiateBoostWithPayDunya: the invoice first, then its row; the owner gets
\* the page to pay on when both exist.
CreateInvoice(p) ==
    \E i \in Invoice :
        /\ At(p, "invoice")
        /\ invoice[i] = "none" /\ ListingOf[i] = request[p].listing
        /\ invoice' = [invoice EXCEPT ![i] = "created"]
        /\ Goto(p, [stage |-> "insert", invoice |-> i])
        /\ UNCHANGED <<listing, pro, payment, inserted, search, earned>>

InsertPayment(p) ==
    LET i == request[p].invoice IN
    /\ At(p, "insert") /\ Exists(ListingOf[i])
    /\ payment' = [payment EXCEPT ![i] = [status |-> "PENDING", paymentRef |-> i]]
    /\ inserted' = Append(inserted, i)
    /\ invoice' = [invoice EXCEPT ![i] = "open"]
    /\ Done(p)
    /\ UNCHANGED <<listing, pro, search, earned>>

\* findFirst(PENDING of the listing, newest): the token is not looked at.
LatestPending(l, row) ==
    \E k \in 1 .. Len(inserted) :
        LET Waits(n) == /\ ListingOf[inserted[n]] = l
                        /\ payment[inserted[n]].status = "PENDING"
        IN  /\ inserted[k] = row /\ Waits(k)
            /\ \A n \in k + 1 .. Len(inserted) : ~Waits(n)

\* A notification, for any invoice, at any time, any number of times.
HandleBoostWebhook(p, i) ==
    /\ Free(p) /\ invoice[i] # "none"
    /\ \E row \in Invoice :
         /\ LatestPending(ListingOf[i], row)
         /\ Goto(p, [stage |-> "confirm", row |-> row, invoice |-> i])
    /\ UNCHANGED <<listing, pro, money, search, earned>>

\* What PayDunya answers about the token; nothing is done while it is open.
ConfirmAnswer(p) ==
    LET i == request[p].invoice IN
    /\ At(p, "confirm")
    /\ \/ /\ invoice[i] = "completed"
          /\ Goto(p, [request[p] EXCEPT !.stage = "score"])
       \/ /\ invoice[i] = "failed"
          /\ Goto(p, [request[p] EXCEPT !.stage = "failed"])
       \/ /\ invoice[i] \in {"created", "open"}
          /\ Done(p)
    /\ UNCHANGED <<listing, pro, money, search, earned>>

ReadScore(p) ==
    LET r == request[p]
        l == ListingOf[r.invoice] IN
    /\ At(p, "score") /\ Exists(l)
    /\ Goto(p, [stage |-> "settle", row |-> r.row, invoice |-> r.invoice,
                score |-> listing[l].boostScore, left |-> {"row", "boost"}])
    /\ UNCHANGED <<listing, pro, money, search, earned>>

\* Promise.all: the two updates go out together and end in either order.
Settled(p, part) ==
    LET r == request[p] IN
    IF r.left = {part} THEN Done(p) ELSE Goto(p, [r EXCEPT !.left = @ \ {part}])

\* mutant: the row matched is confirmed, and keeps its own reference.
ConfirmMatched(p) ==
    LET r == request[p] IN
    /\ At(p, "settle") /\ "row" \in r.left
    /\ payment' = IF payment[r.row].status # "none"
                  THEN [payment EXCEPT ![r.row].status = "CONFIRMED"] ELSE payment
    /\ Settled(p, "row")
    /\ UNCHANGED <<listing, pro, inserted, invoice, search, earned>>
\* The row takes the token of the notification, which @unique refuses when
\* another row holds it.  The error ends the request, but not the update that
\* went out with it.
ConfirmPayment(p) ==
    LET r == request[p] IN
    /\ At(p, "settle") /\ "row" \in r.left
    /\ payment' =
         IF /\ payment[r.row].status # "none"
            /\ \A j \in Invoice \ {r.row} :
                 payment[j].status # "none" => payment[j].paymentRef # r.invoice
         THEN [payment EXCEPT ![r.row] = [status |-> "CONFIRMED",
                                          paymentRef |-> r.invoice]]
         ELSE payment
    /\ Settled(p, "row")
    /\ UNCHANGED <<listing, pro, inserted, invoice, search, earned>>

BoostPaid(p) ==
    LET r == request[p]
        l == ListingOf[r.invoice] IN
    /\ At(p, "settle") /\ "boost" \in r.left
    /\ IF Exists(l) THEN ApplyBoost(l, r.score) ELSE UNCHANGED listing
    /\ Settled(p, "boost")
    /\ UNCHANGED <<pro, money, search, earned>>

FailPayment(p) ==
    LET row == request[p].row IN
    /\ At(p, "failed") /\ payment[row].status # "none"
    /\ payment' = [payment EXCEPT ![row].status = "FAILED"]
    /\ Done(p)
    /\ UNCHANGED <<listing, pro, inserted, invoice, search, earned>>

(***************************************************************************)
(* The rest of the world.                                                  *)
(***************************************************************************)
\* A database error, a row deleted meanwhile, PayDunya out of reach, or a
\* restart, at any await.
Abort(p) ==
    /\ ~Free(p)
    /\ Done(p)
    /\ UNCHANGED <<listing, pro, money, search, earned>>

PayInvoice(i) ==
    \E s \in {"completed", "failed"} :
        /\ invoice[i] = "open"
        /\ invoice' = [invoice EXCEPT ![i] = s]
        /\ UNCHANGED <<listing, pro, payment, inserted, search, request, earned>>

\* The subscription of the owner starts or ends (AgencySubscription).
TurnPro(l) ==
    /\ pro' = IF l \in pro THEN pro \ {l} ELSE pro \cup {l}
    /\ UNCHANGED <<listing, money, search, request, earned>>

BoostEnds(l) ==
    /\ listing[l].boostUntil = "running"
    /\ listing' = [listing EXCEPT ![l].boostUntil = "over"]
    /\ UNCHANGED <<pro, money, search, request, earned>>

Next ==
    \/ \E p \in Proc, l \in Listing :
         \/ Create(p, l) \/ CheckMove(p, l) \/ CheckEdit(p, l)
         \/ ActivateListing(p, l) \/ SuspendListing(p, l) \/ RemoveListing(p, l)
         \/ WriteUntold(p, l) \/ Boost(p, l)
    \/ \E p \in Proc :
         \/ MoveListing(p) \/ Update(p)
         \/ ReindexRead(p) \/ ReindexClear(p) \/ ReindexFill(p)
         \/ IsProActive(p) \/ BoostFree(p) \/ CreateInvoice(p) \/ InsertPayment(p)
         \/ ConfirmAnswer(p) \/ ReadScore(p) \/ ConfirmPayment(p)
         \/ BoostPaid(p) \/ FailPayment(p) \/ Abort(p)
    \/ \E p \in Proc, i \in Invoice : HandleBoostWebhook(p, i)
    \/ \E i \in Invoice : PayInvoice(i)
    \/ \E l \in Listing : Arrive(l) \/ Lose(l) \/ TurnPro(l) \/ BoostEnds(l)

Spec == Init /\ [][Next]_vars

(***************************************************************************)
(* Properties.                                                             *)
(***************************************************************************)
\* Calls out of order, losses and rebuilds may leave a withdrawn listing
\* searchable, but never one that its owner has not shown to anybody: a
\* document exists only for a listing that has been ACTIVE.
OnlyPublishedIsSearchable == index \subseteq published

\* When the call of the last write of a listing was the last one to arrive,
\* and no rebuild worked from older rows, the index has the listing exactly if
\* it is ACTIVE: each handler tells Meilisearch what it has written.
IndexFollowsStatus ==
    \A l \in Listing :
        heard[l] = "yes" => (l \in index <=> listing[l].status = "ACTIVE")

\* A listing is boosted only after an invoice of its own was paid, or after its
\* owner was seen with an active PRO plan, whatever the notifications say and
\* whichever row they are matched with.
BoostIsEarned ==
    \A l \in Listing :
        listing[l].boostUntil # "never" =>
            \/ l \in earned
            \/ \E i \in Invoice : ListingOf[i] = l /\ invoice[i] = "completed"

\* Notifications are matched with the newest PENDING row, not with the row of
\* their token; still each CONFIRMED row names a paid invoice of its listing,
\* and no two rows name the same one.
ConfirmedRowsArePaid ==
    \A i \in Invoice :
        payment[i].status = "CONFIRMED" =>
            /\ invoice[payment[i].paymentRef] = "completed"
            /\ ListingOf[payment[i].paymentRef] = ListingOf[i]
            /\ \A j \in Invoice \ {i} :
                 payment[j].status = "CONFIRMED" =>
                     payment[j].paymentRef # payment[i].paymentRef

\* Nothing is boosted, and no row of a boost is confirmed, without an invoice that was paid for it.
BoostsAreEarned == BoostIsEarned /\ ConfirmedRowsArePaid

(***************************************************************************)
(* The invariant behind them: what is on its way to Meilisearch, and what  *)
(* a request has read, stays true of the rows until it arrives or writes.  *)
(***************************************************************************)
Active(l) == listing[l].status = "ACTIVE"
Says(call) == call = "index"

\* Nothing that may still bring a document was sent for an unpublished listing.
OnlyPublishedIsSent ==
    /\ OnlyPublishedIsSearchable
    /\ \A l \in Listing : Active(l) => l \in published
    /\ \A l \in Listing : \A k \in DOMAIN calls[l] : Says(calls[l][k]) => l \in published
    /\ \A p \in Proc : request[p].stage \in {"clear", "fill"} => request[p].rows \subseteq published

\* The last call under way, when nothing was written after it, says what the row says...
LastCallFollows ==
    \A l \in Listing :
        heard[l] = "soon" =>
            /\ calls[l] # <<>>
            /\ Says(calls[l][Len(calls[l])]) <=> Active(l)

\* ... and so do the rows a rebuild has read, but for those written since.
RebuildFollows ==
    \A p \in Proc :
        request[p].stage \in {"clear", "fill"} =>
            \A l \in Listing \ moved : l \in request[p].rows <=> Active(l)

\* The page to pay on is only known once the row is there: an invoice without a row
\* cannot be paid, and no two requests create the row of the same one.
UnbilledIsUnpaid ==
    \A p \in Proc :
        At(p, "insert") =>
            /\ invoice[request[p].invoice] = "created"
            /\ \A q \in Proc \ {p} :
                 At(q, "insert") => request[q].invoice # request[p].invoice

\* A request that will boost or confirm has seen the plan, or the paid invoice, of the
\* listing it will boost.
BoostIsFounded ==
    \A p \in Proc :
        LET r == request[p] IN
        /\ r.stage = "boost" => r.listing \in earned
        /\ r.stage \in {"confirm", "score", "settle"} => ListingOf[r.row] = ListingOf[r.invoice]
        /\ r.stage \in {"score", "settle"} => invoice[r.invoice] = "completed"

SearchInv == OnlyPublishedIsSent /\ IndexFollowsStatus /\ LastCallFollows /\ RebuildFollows
BoostInv == UnbilledIsUnpaid /\ BoostIsFounded /\ BoostsAreEarned
IInv == TypeOK /\ SearchInv /\ BoostInv

=============================================================================
