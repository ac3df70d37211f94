------------------------------- MODULE Alerts -------------------------------
(***************************************************************************)
(* Who is told of what, and what the browser shows of it.  An act that the *)
(* API has carried out starts one or more notices in memory: letters sent  *)
(* one after the other, and rows written for the people's inboxes, each    *)
(* followed by a live message to their tabs.  One tab is watched: its bell *)
(* (a list and a badge) and, for an administrator, the counters of what    *)
(* waits, all of them kept up to date by fetches and by live messages that *)
(* cross each other.  OneSignal is left out: the web application never     *)
(* registers with it, so its pushes have nobody to reach.                  *)
(***************************************************************************)
EXTENDS Integers, Sequences, FiniteSets

CONSTANTS Scripts,      \* [acts, who]: what happens in a behaviour, and whose tab is watched
          Unmailable,   \* people without a real address; everybody, without SMTP
          Listed,       \* how many rows a list of notifications holds
          Click,        \* read-alls the bell may have under way
          MaxFaults,    \* how many writes, letters, messages and calls fail
          MaxMounts     \* how often the tab is loaded

VARIABLES due,       \* the acts still to come
          past,      \* the acts carried out
          work,      \* the notices in the memory of the API
          told,      \* <<act, person>>: a letter has left or a row is written
          cut,       \* <<act, person>>: what a failure has cut off
          who,       \* whose tab is watched
          inbox,     \* their rows, the oldest first
          pending,   \* [Kinds -> what waits for an administrator]
          live,      \* the parts of the tab that have subscribed
          wire,      \* live messages on their way: <<act, type, part>>
          list, unread, open,   \* the bell
          fetch,     \* its first requests: those to be read, and what was read
          marking,   \* [Click -> "no", or who asked for the read-all, or that it is served]
          counter,   \* [Kinds -> Nat]
          asks,      \* [Kinds -> the refetches under way, each with the number it has read]
          astray,    \* history: something has crossed or been lost on the way to the bell
          crossed,   \* history: the same, the counters it concerns
          faults, mounts

notices   == <<due, past, work, told, cut, who, inbox, pending>>
bell      == <<list, unread, open, fetch, marking, astray>>
board     == <<counter, asks, crossed>>
alertVars == <<notices, live, wire, bell, board, faults, mounts>>

Acts == {"pay", "create", "confirm", "cancel", "refuse", "request", "approve", "reject", "terminate", "contract", "dispute",
         "resolve", "review", "askVisit", "assign", "start", "complete", "validate", "decline", "approveDecline",
         "filtered", "report", "broadcast", "price", "cancelPrice"}
RowTypes == {"PAYMENT_CONFIRMED", "PAYMENT_RECEIVED", "NEW_BOOKING", "BOOKING_CONFIRMED", "BOOKING_CANCELLED",
             "MONTHLY_REQUEST_CREATED", "MONTHLY_REQUEST_APPROVED", "MONTHLY_REQUEST_REJECTED", "LEASE_TERMINATED",
             "CONTRACT_READY", "REVIEW_RECEIVED", "VERIF_ASSIGNED", "VERIF_SCHEDULED", "VERIF_IN_PROGRESS",
             "VERIF_DONE", "VERIF_DECLINED", "VERIF_VALIDATED", "CONTACT_FILTER_ALERT", "LISTING_REPORTED",
             "VERIF_REQUESTED", "VERIF_DECLINE_REQUEST", "BOOKING_DISPUTED", "DISPUTE_RESOLVED", "ADMIN_BROADCAST",
             "PLATFORM_CONFIG_CHANGED", "PLATFORM_CONFIG_CHANGE_CANCELLED"}
People  == {"tenant", "landlord", "agency", "agent", "admin", "deputy"}
Admins  == {"admin", "deputy"}
NotRead == -1

ASSUME AlertsAssumption ==
  /\ \A s \in Scripts : s.acts \subseteq Acts
  /\ Unmailable \subseteq People /\ Listed \in Nat

----------------------------------------------------------------------------
\* The notices.  Whether the rows are awaited under a catch decides what a failed one takes along.

Notice(mails, rows) ==
  [mails |-> mails, rows |-> rows, awaited |-> FALSE, rowsFirst |-> FALSE, bulk |-> FALSE]
Awaited(notice) == [notice EXCEPT !.awaited = TRUE]
RowsFor(people, type) == people \X {type}

\* A row is only written for the people whose id the caller has passed.
Given(ids, rows) == {r \in rows : r[1] \in ids}

PaymentConfirmed ==
  Notice(<<"tenant", "landlord">>, {<<"tenant", "PAYMENT_CONFIRMED">>, <<"landlord", "PAYMENT_RECEIVED">>})
BookingCreated(ids) ==
  Notice(<<"tenant", "landlord">>, Given(ids, RowsFor({"landlord"}, "NEW_BOOKING")))
BookingConfirmed(ids) ==
  Notice(<<"tenant">>, Given(ids, RowsFor({"tenant"}, "BOOKING_CONFIRMED")))
BookingCancelled(ids) ==
  Notice(<<"tenant">>, Given(ids, RowsFor(IF "tenant" \in ids THEN {"tenant", "landlord"} ELSE {}, "BOOKING_CANCELLED")))
MonthlyRequestCreated(ids) ==
  Notice(<<"landlord">>, Given(ids, RowsFor({"landlord"}, "MONTHLY_REQUEST_CREATED")))
MonthlyRequestApproved(ids) ==
  Notice(<<"tenant">>, Given(ids, RowsFor({"tenant"}, "MONTHLY_REQUEST_APPROVED")))
RejectedToLandlord(ids) ==                       \* mutant: the recipient of MonthlyRequestCreated
  Notice(<<"landlord">>, Given(ids, RowsFor({"landlord"}, "MONTHLY_REQUEST_REJECTED")))
MonthlyRequestRejected(ids) ==
  Notice(<<"tenant">>, Given(ids, RowsFor({"tenant"}, "MONTHLY_REQUEST_REJECTED")))
LeaseTerminated(ids) ==
  Notice(<<"tenant", "landlord">>, Given(ids, RowsFor({"tenant", "landlord"}, "LEASE_TERMINATED")))
ContractReady(ids) ==
  Notice(<<"tenant">>, Given(ids, RowsFor({"tenant"}, "CONTRACT_READY")))
ReviewReceived       == Notice(<<>>, RowsFor({"landlord"}, "REVIEW_RECEIVED"))
VerifAssigned        == Notice(<<>>, RowsFor({"agent"}, "VERIF_ASSIGNED"))
VerifScheduled       == Notice(<<>>, RowsFor({"landlord"}, "VERIF_SCHEDULED"))
VerifInProgress      == Notice(<<>>, RowsFor({"landlord"}, "VERIF_IN_PROGRESS"))
VerifDone            == Notice(<<>>, RowsFor({"landlord"}, "VERIF_DONE"))
VerifDeclined        == Notice(<<>>, RowsFor({"landlord"}, "VERIF_DECLINED"))
VerifValidated       == Notice(<<>>, RowsFor({"landlord"}, "VERIF_VALIDATED"))
ContactFilterAlert   == Notice(<<>>, RowsFor(Admins, "CONTACT_FILTER_ALERT"))
AdminReport          == Notice(<<>>, RowsFor(Admins, "LISTING_REPORTED"))
AdminNewVerification == Notice(<<>>, RowsFor(Admins, "VERIF_REQUESTED"))
AdminDeclineRequest  == Notice(<<>>, RowsFor(Admins, "VERIF_DECLINE_REQUEST"))
DisputeReported      == Awaited(Notice(<<>>, RowsFor({"landlord"} \cup Admins, "BOOKING_DISPUTED")))
DisputeResolved      == Awaited(Notice(<<>>, RowsFor({"tenant", "landlord"}, "DISPUTE_RESOLVED")))
\* One insert for all the recipients.
Broadcast(segment)   == [Awaited(Notice(<<>>, RowsFor(segment, "ADMIN_BROADCAST"))) EXCEPT !.bulk = TRUE]
\* Owners, group by group of the same language: all the rows, then all the letters.
ConfigNotice(people, letters, type) == [Awaited(Notice(letters, RowsFor(people, type))) EXCEPT !.rowsFirst = TRUE]
ByLanguage(type)        == {ConfigNotice({"landlord"}, <<"landlord">>, type), ConfigNotice({"agency"}, <<"agency">>, type)}
PlatformConfigChanged   == ByLanguage("PLATFORM_CONFIG_CHANGED")
PlatformConfigCancelled == ByLanguage("PLATFORM_CONFIG_CHANGE_CANCELLED")

\* What each act starts, with the ids its caller passes.
Pair == {"tenant", "landlord"}
BookingNotices(a) ==
  CASE a = "pay"       -> {PaymentConfirmed}
    [] a = "create"    -> {BookingCreated({"tenant"})}
    [] a = "confirm"   -> {BookingConfirmed({"tenant"})}
    [] a \in {"cancel", "refuse"} -> {BookingCancelled({"tenant"})}
    [] a = "request"   -> {MonthlyRequestCreated(Pair)}
    [] a = "approve"   -> {MonthlyRequestApproved(Pair)}
    [] a = "reject"    -> {MonthlyRequestRejected(Pair)}
    [] a = "terminate" -> {LeaseTerminated(Pair)}
    [] a = "contract"  -> {ContractReady(Pair)}
    [] a = "dispute"   -> {DisputeReported}
    [] a = "resolve"   -> {DisputeResolved}
    [] a = "review"    -> {ReviewReceived}
    [] OTHER           -> {}
VisitNotices(a) ==
  CASE a = "askVisit"       -> {AdminNewVerification}
    [] a = "assign"         -> {VerifAssigned, VerifScheduled}
    [] a = "start"          -> {VerifInProgress}
    [] a = "complete"       -> {VerifDone}
    [] a = "validate"       -> {VerifValidated}
    [] a = "decline"        -> {AdminDeclineRequest}
    [] a = "approveDecline" -> {VerifDeclined}
    [] OTHER                -> {}
AdminNotices(a) ==
  CASE a = "report"      -> {AdminReport}
    [] a = "filtered"    -> {ContactFilterAlert}
    [] a = "broadcast"   -> {Broadcast(People)}
    [] a = "price"       -> PlatformConfigChanged
    [] a = "cancelPrice" -> PlatformConfigCancelled
    [] OTHER             -> {}
Notices(a) == BookingNotices(a) \cup VisitNotices(a) \cup AdminNotices(a)

----------------------------------------------------------------------------
\* What waits for an administrator, and the messages that make the tab count it again.
Kinds == {"VERIFICATIONS", "REPORTS", "DISPUTES"}
WaitsAs(a) == CASE a \in {"askVisit", "decline"} -> {"VERIFICATIONS"} [] a = "report" -> {"REPORTS"}
                [] a = "dispute" -> {"DISPUTES"} [] OTHER -> {}
RecountedRequestsOnly(type) ==                   \* mutant: VERIF_DECLINE_REQUEST forgotten
  CASE type = "LISTING_REPORTED" -> {"REPORTS"} [] type = "BOOKING_DISPUTED" -> {"DISPUTES"}
    [] type = "VERIF_REQUESTED" -> {"VERIFICATIONS"} [] OTHER -> {}
Recounted(type) ==
  CASE type = "LISTING_REPORTED" -> {"REPORTS"} [] type = "BOOKING_DISPUTED" -> {"DISPUTES"}
    [] type \in {"VERIF_REQUESTED", "VERIF_DECLINE_REQUEST"} -> {"VERIFICATIONS"} [] OTHER -> {}

Fault == faults < MaxFaults /\ faults' = faults + 1
Fine  == UNCHANGED faults

\* The handler of an act has written its own rows; its notices start.
Perform(a) ==
  /\ a \in due /\ due' = due \ {a} /\ past' = past \cup {a}
  /\ work' = work \cup {[act |-> a, todo |-> n] : n \in Notices(a)}
  /\ pending' = [k \in Kinds |-> IF k \in WaitsAs(a) THEN pending[k] \cup {a} ELSE pending[k]]
  /\ UNCHANGED <<told, cut, who, inbox, live, wire, bell, board, faults, mounts>>

\* The notice goes on with what is left of it.
GoesOn(w, rest) ==
  work' = (work \ {w}) \cup (IF rest.mails = <<>> /\ rest.rows = {} THEN {} ELSE {[w EXCEPT !.todo = rest]})

\* send: skipped without an address, a refusal is logged and swallowed.
SendLetter(w) ==
  /\ w.todo.mails # <<>> /\ (w.todo.rowsFirst => w.todo.rows = {})
  /\ GoesOn(w, [w.todo EXCEPT !.mails = Tail(@)])
  /\ LET to == <<w.act, Head(w.todo.mails)>>
     IN \/ to[2] \in Unmailable /\ Fine /\ UNCHANGED <<told, cut>>
        \/ to[2] \notin Unmailable /\ Fine /\ told' = told \cup {to} /\ UNCHANGED cut
        \/ to[2] \notin Unmailable /\ Fault /\ cut' = cut \cup {to} /\ UNCHANGED told
  /\ UNCHANGED <<due, past, who, inbox, pending, live, wire, bell, board, mounts>>

\* A live message that finds no subscriber is gone.  The bell does not miss it when its count is
\* still to be read.
Missed(part, type) ==
  /\ astray'  = (astray \/ (part = "bell" /\ "count" \notin fetch.left))
  /\ crossed' = IF part = "shell" THEN crossed \cup Recounted(type) ELSE crossed

Parts == {"bell", "shell"}
\* A row of the watched person enters their inbox, and a message leaves for each part of the tab.
Written(w, rows) ==
  /\ told' = told \cup {<<w.act, r[1]>> : r \in rows}
  /\ LET mine == {r[2] : r \in {r \in rows : r[1] = who}}
     IN /\ inbox' = IF mine = {} THEN inbox ELSE Append(inbox, [act |-> w.act, read |-> FALSE])
        /\ wire' = wire \cup {<<w.act, t, part>> : t \in mine, part \in live}
        /\ astray' = (astray \/ (mine # {} /\ "bell" \notin live /\ "count" \notin fetch.left))
        /\ crossed' = IF "shell" \in live THEN crossed ELSE crossed \cup UNION {Recounted(t) : t \in mine}
\* pushInApp, or one insert for everybody.
WriteRows(w) ==
  /\ w.todo.rowsFirst \/ w.todo.mails = <<>>
  /\ \E rows \in SUBSET w.todo.rows :
       /\ IF w.todo.bulk THEN rows = w.todo.rows ELSE Cardinality(rows) = 1
       /\ rows # {}
       /\ GoesOn(w, [w.todo EXCEPT !.rows = @ \ rows])
       /\ Written(w, rows)
  /\ UNCHANGED <<due, past, cut, who, pending, live, list, unread, open, fetch, marking, counter, asks, faults, mounts>>

\* A row cannot be written.  Where it is awaited, what is awaited after it is not done; elsewhere
\* nobody handles the rejection, the process exits, and all that it had in memory is lost.
Left(w) == {<<w.act, r[1]>> : r \in w.todo.rows}
           \cup {<<w.act, w.todo.mails[i]>> : i \in DOMAIN w.todo.mails}
LoseRow(w) ==
  /\ w.todo.rowsFirst \/ w.todo.mails = <<>>
  /\ Fault
  /\ \E r \in w.todo.rows :
       IF w.todo.awaited
         THEN /\ GoesOn(w, [w.todo EXCEPT !.mails = <<>>, !.rows = IF w.todo.bulk THEN {} ELSE @ \ {r}])
              /\ cut' = cut \cup (IF w.todo.bulk THEN Left(w) ELSE {<<w.act, r[1]>>})
         ELSE work' = {} /\ cut' = cut \cup UNION {Left(v) : v \in work}
  /\ UNCHANGED <<due, past, told, who, inbox, pending, live, wire, bell, board, mounts>>

----------------------------------------------------------------------------
\* The tab is loaded: the server seeds the counters, zero for a call that fails; the bell asks for
\* its list and its count; the two parts subscribe, each with a connection of its own.

NoCount == [k \in Kinds |-> 0]
Idle    == [c \in Click |-> "no"]
Waiting == [k \in Kinds |-> IF who \in Admins THEN Cardinality(pending[k]) ELSE 0]

Mount ==
  /\ mounts < MaxMounts /\ mounts' = mounts + 1
  /\ \/ counter' = Waiting /\ crossed' = {} /\ Fine
     \/ \E k \in Kinds : counter' = [Waiting EXCEPT ![k] = 0] /\ crossed' = {k} /\ who \in Admins /\ Fault
  /\ asks' = [k \in Kinds |-> <<>>] /\ live' = {} /\ wire' = {}
  /\ list' = <<>> /\ unread' = 0 /\ open' = FALSE /\ marking' = Idle /\ astray' = FALSE
  /\ fetch' = [on |-> TRUE, left |-> {"list", "count"}, list |-> <<>>, count |-> 0]
  /\ UNCHANGED notices

Subscribe(part) ==
  /\ mounts > 0 /\ part \notin live /\ live' = live \cup {part}
  /\ UNCHANGED <<notices, wire, bell, board, faults, mounts>>

Newest(rows) ==
  LET n == IF Len(rows) < Listed THEN Len(rows) ELSE Listed
  IN [i \in 1..n |-> rows[Len(rows) + 1 - i]]
UnreadRows(rows) == Cardinality({i \in DOMAIN rows : ~rows[i].read})
AllRead(rows) == [i \in DOMAIN rows |-> [rows[i] EXCEPT !.read = TRUE]]

\* The two requests are served in any order, and settle together.
FetchReads(part) ==
  /\ part \in fetch.left
  /\ fetch' = [fetch EXCEPT !.left = @ \ {part}, !.list = IF part = "list" THEN Newest(inbox) ELSE @,
                            !.count = IF part = "count" THEN UnreadRows(inbox) ELSE @]
  /\ UNCHANGED <<notices, live, wire, list, unread, open, marking, astray, board, faults, mounts>>
FetchSettles ==
  /\ fetch.on /\ fetch' = [on |-> FALSE, left |-> {}, list |-> <<>>, count |-> 0]
  /\ \/ fetch.left = {} /\ list' = fetch.list /\ unread' = fetch.count /\ Fine /\ UNCHANGED astray
     \/ Fault /\ astray' = TRUE /\ UNCHANGED <<list, unread>>
  /\ UNCHANGED <<notices, live, wire, open, marking, board, mounts>>

\* The bell's handler of a live message.
BellHears(m) ==
  /\ m \in wire /\ m[3] = "bell" /\ wire' = wire \ {m}
  /\ list' = LET all == <<[act |-> m[1], read |-> FALSE]>> \o list
             IN SubSeq(all, 1, IF Len(all) < Listed THEN Len(all) ELSE Listed)
  /\ unread' = unread + 1
  /\ astray' = (astray \/ fetch.on \/ marking # Idle)
  /\ UNCHANGED <<notices, live, open, fetch, marking, board, faults, mounts>>

\* The counters are asked for again: by a message, by an act of the administrator in this tab.
Ask(kinds) ==
  /\ asks'    = [k \in Kinds |-> IF k \in kinds THEN Append(asks[k], NotRead) ELSE asks[k]]
  /\ crossed' = crossed \cup {k \in kinds : asks[k] # <<>>}

ShellHears(m) ==
  /\ m \in wire /\ m[3] = "shell" /\ wire' = wire \ {m}
  /\ Ask(IF who \in Admins THEN Recounted(m[2]) ELSE {})
  /\ UNCHANGED <<notices, live, bell, counter, faults, mounts>>

LoseMessage(m) ==
  /\ m \in wire /\ wire' = wire \ {m} /\ Fault /\ Missed(m[3], m[2])
  /\ UNCHANGED <<notices, live, list, unread, open, fetch, marking, counter, asks, mounts>>

AskReads(k, i) ==
  /\ asks[k][i] = NotRead /\ asks' = [asks EXCEPT ![k][i] = Cardinality(pending[k])]
  /\ UNCHANGED <<notices, live, wire, bell, counter, crossed, faults, mounts>>
Without(s, i) == SubSeq(s, 1, i - 1) \o SubSeq(s, i + 1, Len(s))
AskSettles(k, i) ==
  /\ asks' = [asks EXCEPT ![k] = Without(@, i)]
  /\ \/ asks[k][i] # NotRead /\ counter' = [counter EXCEPT ![k] = asks[k][i]] /\ Fine /\ UNCHANGED crossed
     \/ Fault /\ crossed' = crossed \cup {k} /\ UNCHANGED counter
  /\ UNCHANGED <<notices, live, wire, bell, mounts>>

\* What waits is dealt with: by the administrator of this tab, or by another one.
Deal(a) ==
  /\ \E k \in Kinds : a \in pending[k]
  /\ pending' = [k \in Kinds |-> pending[k] \ {a}]
  /\ \/ who = "admin" /\ mounts > 0 /\ Ask(WaitsAs(a))
     \/ UNCHANGED <<asks, crossed>>
  /\ UNCHANGED <<due, past, work, told, cut, who, inbox, live, wire, bell, counter, faults, mounts>>

----------------------------------------------------------------------------
\* The person in front of the bell.

Asks(c, by) == marking[c] = "no" /\ marking' = [marking EXCEPT ![c] = by]

\* Opened on unread rows, it asks for read-all, whatever it has asked for already.
ToggleBell ==
  /\ mounts > 0 /\ open' = ~open
  /\ IF ~open /\ unread > 0 THEN \E c \in Click : Asks(c, "opened") ELSE UNCHANGED marking
  /\ UNCHANGED <<notices, live, wire, list, unread, fetch, astray, board, faults, mounts>>

MarkAllRead(c) ==
  /\ open /\ list # <<>> /\ Asks(c, "pressed")
  /\ UNCHANGED <<notices, live, wire, list, unread, open, fetch, astray, board, faults, mounts>>

ReadAllServed(c) ==
  /\ marking[c] \in {"opened", "pressed"} /\ marking' = [marking EXCEPT ![c] = "served"] /\ inbox' = AllRead(inbox)
  /\ UNCHANGED <<due, past, work, told, cut, who, pending, live, wire, list, unread, open, fetch, astray, board, faults, mounts>>

\* The answer; the button does not look whether it is a refusal.
ReadAllSettles(c) ==
  /\ marking[c] # "no" /\ marking' = [marking EXCEPT ![c] = "no"]
  /\ \/ marking[c] = "served" /\ unread' = 0 /\ list' = AllRead(list) /\ Fine /\ UNCHANGED astray
     \/ marking[c] = "pressed" /\ unread' = 0 /\ list' = AllRead(list) /\ Fault /\ astray' = TRUE
     \/ marking[c] \in {"opened", "served"} /\ Fault /\ UNCHANGED <<unread, list, astray>>
  /\ UNCHANGED <<notices, live, wire, open, fetch, board, mounts>>

RowRead(a) == inbox' = [i \in DOMAIN inbox |-> IF inbox[i].act = a THEN [inbox[i] EXCEPT !.read = TRUE] ELSE inbox[i]]
MarkOneCounting(i) ==                            \* mutant: the badge goes down at every click
  /\ open /\ RowRead(list[i].act) /\ list' = [list EXCEPT ![i].read = TRUE]
  /\ unread' = IF unread > 0 THEN unread - 1 ELSE 0
  /\ UNCHANGED <<due, past, work, told, cut, who, pending, live, wire, open, fetch, marking, astray, board, faults, mounts>>
MarkOne(i) ==
  /\ open /\ RowRead(list[i].act) /\ list' = [list EXCEPT ![i].read = TRUE]
  /\ UNCHANGED <<due, past, work, told, cut, who, pending, live, wire, unread, open, fetch, marking, astray, board, faults, mounts>>

\* The page of the notifications has rows of its own, and does not tell the bell.
ReadOnPage ==
  /\ mounts > 0
  /\ inbox' = AllRead(inbox) \/ \E i \in DOMAIN Newest(inbox) : RowRead(Newest(inbox)[i].act)
  /\ UNCHANGED <<due, past, work, told, cut, who, pending, live, wire, bell, board, faults, mounts>>

----------------------------------------------------------------------------
AlertRest ==
  /\ past = {} /\ work = {} /\ told = {} /\ cut = {} /\ inbox = <<>> /\ pending = [k \in Kinds |-> {}]
  /\ live = {} /\ wire = {} /\ list = <<>> /\ unread = 0 /\ open = FALSE /\ marking = Idle
  /\ fetch = [on |-> FALSE, left |-> {}, list |-> <<>>, count |-> 0]
  /\ counter = NoCount /\ asks = [k \in Kinds |-> <<>>] /\ astray = FALSE /\ crossed = {}
  /\ faults = 0 /\ mounts = 0
AlertInit == AlertRest /\ \E s \in Scripts : due = s.acts /\ who = s.who

AlertNext ==
  \/ \E a \in due : Perform(a)
  \/ \E w \in work : SendLetter(w) \/ WriteRows(w) \/ LoseRow(w)
  \/ Mount \/ FetchSettles \/ \E part \in fetch.left : FetchReads(part)
  \/ \E part \in Parts : Subscribe(part)
  \/ \E m \in wire : BellHears(m) \/ ShellHears(m) \/ LoseMessage(m)
  \/ \E k \in Kinds : \E i \in DOMAIN asks[k] : AskReads(k, i) \/ AskSettles(k, i)
  \/ \E a \in past : Deal(a)
  \/ ToggleBell \/ ReadOnPage
  \/ \E c \in Click : MarkAllRead(c) \/ ReadAllServed(c) \/ ReadAllSettles(c)
  \/ \E i \in DOMAIN list : MarkOne(i)

AlertSpec == AlertInit /\ [][AlertNext]_alertVars

----------------------------------------------------------------------------
\* Whom the act concerns, by what the service says of each notice: of a cancellation by the
\* tenant, the landlord too ("Bailleur notifie si c'est le locataire qui annule").
Concerned(a) ==
  CASE a \in {"create", "request", "review", "start", "complete", "validate", "approveDecline"} -> {"landlord"}
    [] a \in {"confirm", "refuse", "approve", "reject", "contract"} -> {"tenant"}
    [] a \in {"pay", "cancel", "terminate", "resolve"} -> Pair
    [] a = "assign"                          -> {"agent", "landlord"}
    [] a = "dispute"                         -> {"landlord"} \cup Admins
    [] a \in {"askVisit", "decline", "report", "filtered"} -> Admins
    [] a \in {"price", "cancelPrice"}        -> {"landlord", "agency"}
    [] OTHER                                 -> People

Ended(a) == \A w \in work : w.act # a

\* What the service says of a cancellation, its caller belies: it passes no landlordId, and
\* the notice has no letter for the landlord.  (A tenant who cancels tells the landlord, or a
\* failure has cut that off: the run of this property finds the contrary.)
LandlordHearsOfCancel ==
  "cancel" \in past /\ Ended("cancel") => <<"cancel", "landlord">> \in told \cup cut

\* Whom the calls leave out although the act concerns them: the landlord of a stay that its
\* tenant cancels.
LeftOut(a) == IF a = "cancel" THEN {"landlord"} ELSE {}

\* Once an act's notices have come to an end, everybody it concerns has been sent a letter or has
\* a row, unless a failure has cut just that off, but for two gaps: the landlord left out of a
\* cancellation, and an owner without an address, not told of a new stay, whose only notice to
\* them is a letter.
OtherIsTold ==
  \A a \in past : Ended(a) =>
    \A p \in Concerned(a) :
      <<a, p>> \in told \cup cut \/ p \in LeftOut(a) \/ (a = "create" /\ p \in Unmailable)

\* When the tab has heard everything, its badge shows at least as many notifications as the
\* inbox has unread, unless a live message was lost or crossed a request of the bell, or a
\* request failed.  (It may show more: nothing tells the bell what is read elsewhere.)
BadgeNeverHides ==
  mounts > 0 /\ ~fetch.on /\ ~astray /\ (\A m \in wire : m[3] # "bell") => unread >= UnreadRows(inbox)

\* An administrator's counters hide nothing that waits, once the notices are out and the requests
\* answered, unless a message, a row or an answer was lost or two requests of the same counter
\* overlapped.
CounterNeverHides ==
  mounts > 0 /\ who \in Admins =>
    \A k \in Kinds \ crossed :
      \/ asks[k] # <<>> \/ \E m \in wire : m[3] = "shell" /\ k \in Recounted(m[2])
      \/ \E a \in pending[k] : <<a, who>> \in cut \/ \E w \in work : w.act = a
      \/ counter[k] >= Cardinality(pending[k])

----------------------------------------------------------------------------
(***************************************************************************)
(* The invariant behind them.                                              *)
(***************************************************************************)
Todo     == [mails : Seq(People), rows : SUBSET (People \X RowTypes),
             awaited : BOOLEAN, rowsFirst : BOOLEAN, bulk : BOOLEAN]
InboxRow == [act : Acts, read : BOOLEAN]
Fetch    == [on : BOOLEAN, left : SUBSET {"list", "count"}, list : Seq(InboxRow), count : Nat]
Readings  == [Kinds -> Seq(Nat \cup {NotRead})]

AlertTypes ==
  /\ due \subseteq Acts /\ past \subseteq Acts /\ due \cap past = {}
  /\ work \subseteq [act : past, todo : Todo] /\ inbox \in Seq(InboxRow)
  /\ \A w \in work : IsFiniteSet(w.todo.rows)
  /\ \A k \in Kinds : \A a \in pending[k] : a \in past /\ k \in WaitsAs(a)
  /\ \A k \in Kinds : IsFiniteSet(pending[k])
  /\ wire \subseteq past \X RowTypes \X Parts /\ IsFiniteSet(wire) /\ live \subseteq Parts
  /\ fetch \in Fetch /\ unread \in Nat /\ marking \in [Click -> {"no", "opened", "pressed", "served"}]
  /\ counter \in [Kinds -> Nat] /\ asks \in Readings /\ crossed \subseteq Kinds

\* A person's row of an act is written once: what is to be written has not been announced.
RowsOnce ==
  /\ \A w \in work : \A r \in w.todo.rows : r[1] = who => \A part \in Parts : <<w.act, r[2], part>> \notin wire
  /\ \A v, w \in work : v.act = w.act /\ v # w => v.todo.rows \cap w.todo.rows = {}
  \* What waits for an administrator is announced as such.
  /\ \A w \in work : \A r \in w.todo.rows : r[1] \in Admins => WaitsAs(w.act) \subseteq Recounted(r[2])

\* Whoever is concerned has been told, or has a row, or the only letter, to come.  (The letters of
\* a notice whose rows are awaited may be left out; those of a new stay are not.)
Owed(a, p) == \E w \in work : w.act = a /\ \E r \in w.todo.rows : r[1] = p
Lettered(a, p) == \E w \in work : w.act = a /\ \E i \in DOMAIN w.todo.mails : w.todo.mails[i] = p
Notified(a) == Concerned(a) \ LeftOut(a)
ToldOrOwed ==
  /\ \A w \in work : w.todo.awaited => w.act # "create"
  /\ \A a \in past : \A p \in Notified(a) :
       <<a, p>> \in told \cup cut \/ Owed(a, p) \/ (a = "create" /\ (p \in Unmailable \/ Lettered(a, p)))

\* The badge, or the count that is to replace it, and the messages on their way to the bell.
Unheard == Cardinality({m \in wire : m[3] = "bell"})
SomeServed == \E c \in Click : marking[c] = "served"
BellFollows ==
  /\ fetch.left # {} => fetch.on
  /\ ~astray => IF fetch.on
       THEN /\ marking = Idle /\ unread = 0 /\ list = <<>>
            /\ "count" \in fetch.left \/ fetch.count + Unheard >= UnreadRows(inbox)
       ELSE /\ unread + Unheard >= UnreadRows(inbox)
            /\ SomeServed => Unheard >= UnreadRows(inbox)

\* What waits and has been announced; a counter, its answer under way, or a message to it.
Seen(k) == {a \in pending[k] : <<a, who>> \notin cut /\ ~Owed(a, who)}
Latest(k) == IF asks[k] = <<>> THEN counter[k] ELSE asks[k][1]
CountersFollow ==
  who \in Admins => \A k \in Kinds \ crossed :
    /\ Len(asks[k]) <= 1
    /\ \/ \E m \in wire : m[3] = "shell" /\ k \in Recounted(m[2])
       \/ Latest(k) = NotRead
       \/ Latest(k) >= Cardinality(Seen(k))

AlertsInv ==
  /\ AlertTypes /\ RowsOnce /\ ToldOrOwed /\ BellFollows /\ CountersFollow
  /\ OtherIsTold /\ BadgeNeverHides /\ CounterNeverHides
=============================================================================
