--------------------------- MODULE PlatformConfig ---------------------------
(***************************************************************************)
(* The tariffs of the platform: one row with the live prices, at most one  *)
(* scheduled change and the PIN; the requests that read it (any reader     *)
(* promotes a change whose notice is over) or that an admin confirms with  *)
(* the PIN or with a code sent by e-mail; the admin's page, which sends    *)
(* back every price of the form whichever was edited.                      *)
(***************************************************************************)
EXTENDS Naturals, Sequences, FiniteSets

CONSTANTS
    Admin,
    Field,        \* PRICING_FIELDS
    Price,        \* values a price may take
    DefaultPrice, \* the default of the columns
    Change,       \* changes that may be scheduled
    Otp,          \* codes that may be sent
    Pin,
    DefaultPin,
    Proc,         \* requests served at the same time
    None          \* a null

ASSUME ConfigAssumption ==
    /\ DefaultPrice \in Price
    /\ DefaultPin \in Pin
    /\ None \notin Change \cup [Field -> Price] \cup Pin \cup Otp

VARIABLES
    row,      \* the singleton: live prices, scheduled change with a price for every field,
              \* PIN; None before the first access
    elapsed,  \* the changes whose pendingEffectiveAt has passed
    codes,    \* the codes of each admin neither consumed nor expired, oldest first
    page,     \* espace/config of each admin: the configuration it shows
    request,  \* what each request still has to do
    told,     \* history: the fields announced for the scheduled change
    applied,  \* history: the scheduled changes that became live
    withdrawn,\* history: those that left the row otherwise
    uses,     \* history: how many requests each code has confirmed
    overtaken \* history: some request wrote over what another had written since it read

vars == <<row, elapsed, codes, page, request, told, applied, withdrawn, uses, overtaken>>
history == <<told, applied, withdrawn, overtaken>>

Prices == [Field -> Price]

Row == [live : Prices, change : Change \cup {None}, next : Prices \cup {None}, pin : Pin]

\* What the page shows: the live prices, which fill the form, and whether a banner
\* announces a scheduled change.
Shown == [live : Prices, banner : BOOLEAN]

Operation == {"getPricing", "getConfig", "updateConfig", "cancelPendingChange", "changePin"}

(***************************************************************************)
(* A request: who confirms it and how (a PIN typed, or a code), the prices *)
(* of the form and whether they are scheduled, and the row it has read.    *)
(***************************************************************************)
Request == [op : Operation, admin : Admin \cup {None}, confirm : Pin \cup Otp \cup {None},
            form : Prices \cup {None}, later : BOOLEAN,
            stage : {"find", "consume", "pin", "row", "create", "promote", "write"},
            for : {"pin", "row"},   \* create and promote happen inside this read
            read : Row \cup {None}]

ASSUME NullAssumption == None \notin Row \cup Request

TypeOK ==
    /\ row \in Row \cup {None}
    /\ row # None => (row.next = None <=> row.change = None)
    /\ elapsed \in SUBSET Change
    /\ codes \in [Admin -> Seq(Otp)]
    /\ page \in [Admin -> Shown \cup {None}]
    /\ request \in [Proc -> Request \cup {None}]
    /\ told \in SUBSET Field
    /\ applied \in SUBSET Change
    /\ withdrawn \in SUBSET Change
    /\ uses \in [Otp -> Nat]
    /\ overtaken \in BOOLEAN

DefaultRow == [live |-> [f \in Field |-> DefaultPrice], change |-> None, next |-> None,
               pin |-> DefaultPin]

Init ==
    /\ row = None
    /\ elapsed = {}
    /\ codes = [a \in Admin |-> <<>>]
    /\ page = [a \in Admin |-> None]
    /\ request = [p \in Proc |-> None]
    /\ told = {}
    /\ applied = {}
    /\ withdrawn = {}
    /\ uses = [o \in Otp |-> 0]
    /\ overtaken = FALSE

-----------------------------------------------------------------------------
(***************************************************************************)
(* Requests.                                                               *)
(***************************************************************************)

Enter(p, op, a, confirm, form, later) ==
    /\ request[p] = None
    /\ request' = [request EXCEPT ![p] =
         [op |-> op, admin |-> a, confirm |-> confirm, form |-> form, later |-> later,
          stage |-> IF confirm = None THEN "row" ELSE IF confirm \in Pin THEN "pin" ELSE "find",
          for |-> IF confirm \in Pin THEN "pin" ELSE "row", read |-> None]]
    /\ UNCHANGED <<row, elapsed, codes, page, uses, history>>

\* A booking, a subscription, a boost or a visit is priced.
GetPricing(p) == Enter(p, "getPricing", None, None, None, FALSE)

\* The page is opened or reloaded.
GetConfig(p, a) == Enter(p, "getConfig", a, None, None, FALSE)

\* The save button shows when the form differs from what was loaded.  The form holds
\* all the prices; the modal asks for a notice (30 days unless changed) or for none.
UpdateConfig(p, a, confirm, form, later) ==
    /\ page[a] # None
    /\ form # page[a].live
    /\ Enter(p, "updateConfig", a, confirm, form, later)

CancelPendingChange(p, a, confirm) ==
    /\ page[a] # None
    /\ page[a].banner
    /\ Enter(p, "cancelPendingChange", a, confirm, None, FALSE)

ChangePin(p, a, confirm) ==
    /\ page[a] # None
    /\ Enter(p, "changePin", a, confirm, None, FALSE)

Finish(p, r, shown) ==
    /\ request' = [request EXCEPT ![p] = None]
    /\ page' = IF r.admin # None /\ r.op # "changePin"
                 THEN [page EXCEPT ![r.admin] = [live |-> shown.live, banner |-> shown.change # None]]
                 ELSE page

Refuse(p) ==
    /\ request' = [request EXCEPT ![p] = None]
    /\ UNCHANGED page

ChangedFields(r, before) == {f \in Field : r.form[f] # before.live[f]}

\* Whether anything is left to write once the row is read.
NothingToDo(r, before) ==
    \/ r.op \in {"getPricing", "getConfig"}
    \/ r.op = "updateConfig" /\ ChangedFields(r, before) = {}
    \/ r.op = "cancelPendingChange" /\ before.change = None

\* What follows getOrCreateRow: the PIN is compared and the row is read again, or the
\* handler goes on with the row it got.
Proceed(p, r, got) ==
    IF r.for = "pin"
      THEN IF r.confirm = got.pin
             THEN /\ request' = [request EXCEPT ![p] = [r EXCEPT !.stage = "row", !.for = "row",
                                                             !.confirm = None, !.read = None]]
                  /\ UNCHANGED page
             ELSE Refuse(p)
      ELSE IF NothingToDo(r, got)
             THEN Finish(p, r, got)
             ELSE /\ request' = [request EXCEPT ![p] = [r EXCEPT !.stage = "write", !.read = got]]
                  /\ UNCHANGED page

-----------------------------------------------------------------------------
(***************************************************************************)
(* getOrCreateRow.                                                         *)
(***************************************************************************)

IsScheduled(got) == got.change # None            \* mutant: promoted before its date

IsDue(got) == got.change # None /\ got.change \in elapsed

ReadRow(p) ==
    LET r == request[p] IN
    /\ r # None
    /\ r.stage \in {"pin", "row"}
    /\ IF row = None
         THEN /\ request' = [request EXCEPT ![p].stage = "create"]
              /\ UNCHANGED page
         ELSE IF IsDue(row)
         THEN /\ request' = [request EXCEPT ![p].stage = "promote", ![p].read = row]
              /\ UNCHANGED page
         ELSE Proceed(p, r, row)
    /\ UNCHANGED <<row, elapsed, codes, uses, history>>

\* The singleton has a fixed id: a second insertion fails.
CreateRow(p) ==
    LET r == request[p] IN
    /\ r # None
    /\ r.stage = "create"
    /\ IF row # None
         THEN Refuse(p) /\ UNCHANGED row
         ELSE row' = DefaultRow /\ Proceed(p, r, DefaultRow)
    /\ UNCHANGED <<elapsed, codes, uses, history>>

\* What a request wrote over had changed since it read.
Overtaken(r) == row.live # r.read.live \/ row.change # r.read.change

\* The change that a write takes out of the row, if it is not the one applied.
Dropped(written, c) == {row.change} \ {None, c, written.change}

PromoteKeepingPending(p) ==                      \* mutant: pending* is not cleared
    LET r == request[p]
        promoted == [row EXCEPT !.live = r.read.next]
    IN
    /\ r # None
    /\ r.stage = "promote"
    /\ row' = promoted
    /\ applied' = applied \cup {r.read.change}
    /\ overtaken' = (overtaken \/ Overtaken(r))
    /\ Proceed(p, r, promoted)
    /\ withdrawn' = withdrawn \cup Dropped(promoted, r.read.change)
    /\ told' = {}
    /\ UNCHANGED <<elapsed, codes, uses>>

\* promoteIfDue: the live prices and the cleared change are written from the row read.
PromoteIfDue(p) ==
    LET r == request[p]
        promoted == [row EXCEPT !.live = r.read.next, !.change = None, !.next = None]
    IN
    /\ r # None
    /\ r.stage = "promote"
    /\ row' = promoted
    /\ applied' = applied \cup {r.read.change}
    /\ overtaken' = (overtaken \/ Overtaken(r))
    /\ Proceed(p, r, promoted)
    /\ withdrawn' = withdrawn \cup Dropped(promoted, r.read.change)
    /\ told' = {}
    /\ UNCHANGED <<elapsed, codes, uses>>

-----------------------------------------------------------------------------
(***************************************************************************)
(* Codes by e-mail.                                                        *)
(***************************************************************************)

Pending(a) == {codes[a][i] : i \in 1 .. Len(codes[a])}

Sent == {o \in Otp : uses[o] > 0 \/ \E a \in Admin : o \in Pending(a)}

RequestOtp(a, o) ==
    /\ page[a] # None
    /\ o \notin Sent
    /\ codes' = [codes EXCEPT ![a] = Append(@, o)]
    /\ UNCHANGED <<row, elapsed, page, request, uses, history>>

\* The latest code neither consumed nor expired is compared with the one typed.
FindOtp(p) ==
    LET r == request[p]
        found == codes[r.admin]
    IN
    /\ r # None
    /\ r.stage = "find"
    /\ IF found # <<>> /\ found[Len(found)] = r.confirm
         THEN /\ request' = [request EXCEPT ![p].stage = "consume"]
              /\ UNCHANGED page
         ELSE Refuse(p)
    /\ UNCHANGED <<row, elapsed, codes, uses, history>>

Without(s, o) == SelectSeq(s, LAMBDA x : x # o)

\* Another request has consumed the code since this one found it.
ConsumedMeanwhile(r) == uses[r.confirm] > 0 /\ r.confirm \notin Pending(r.admin)

Consume(p, left) ==
    LET r == request[p] IN
    /\ r # None
    /\ r.stage = "consume"
    /\ codes' = [codes EXCEPT ![r.admin] = left]
    /\ uses' = [uses EXCEPT ![r.confirm] = @ + 1]
    /\ overtaken' = (overtaken \/ ConsumedMeanwhile(r))
    /\ request' = [request EXCEPT ![p].stage = "row", ![p].confirm = None]
    /\ UNCHANGED <<row, elapsed, page, told, applied, withdrawn>>

ConsumeOtp(p) == Consume(p, Without(codes[request[p].admin], request[p].confirm))

\* Ten minutes pass; an older code expires first.
OtpExpires(a) ==
    /\ codes[a] # <<>>
    /\ codes' = [codes EXCEPT ![a] = Tail(@)]
    /\ UNCHANGED <<row, elapsed, page, request, uses, history>>

-----------------------------------------------------------------------------
(***************************************************************************)
(* The writes of the admin's requests.                                     *)
(***************************************************************************)

Respond(p, r, written) ==
    /\ row' = written
    /\ withdrawn' = withdrawn \cup Dropped(written, None)
    /\ overtaken' = (overtaken \/ Overtaken(r))
    /\ Finish(p, r, written)
    /\ UNCHANGED <<elapsed, codes, applied, uses>>

AtWrite(p, op) == request[p] # None /\ request[p].stage = "write" /\ request[p].op = op

ApplyBesidesPending(p) ==                        \* mutant: the scheduled change survives
    LET r == request[p] IN
    /\ AtWrite(p, "updateConfig")
    /\ ~r.later
    /\ Respond(p, r, [row EXCEPT !.live = r.form])
    /\ told' = {}

\* Without notice: the form becomes live and a scheduled change is dropped.
ApplyNow(p) ==
    LET r == request[p] IN
    /\ AtWrite(p, "updateConfig")
    /\ ~r.later
    /\ Respond(p, r, [row EXCEPT !.live = r.form, !.change = None, !.next = None])
    /\ told' = {}

\* With notice: every price of the form is scheduled, in place of an earlier change;
\* users are told of the fields that differ from the row read.
Schedule(p, c) ==
    LET r == request[p] IN
    /\ AtWrite(p, "updateConfig")
    /\ r.later
    /\ c \notin applied \cup withdrawn \cup {row.change}
    /\ Respond(p, r, [row EXCEPT !.change = c, !.next = r.form])
    /\ told' = ChangedFields(r, r.read)

WriteCancel(p) ==
    LET r == request[p] IN
    /\ AtWrite(p, "cancelPendingChange")
    /\ Respond(p, r, [row EXCEPT !.change = None, !.next = None])
    /\ told' = {}

\* Only the columns of the PIN are written.
WritePin(p, pin) ==
    /\ AtWrite(p, "changePin")
    /\ row' = [row EXCEPT !.pin = pin]
    /\ Finish(p, request[p], row)
    /\ UNCHANGED <<elapsed, codes, uses, history>>

\* An error of the database or of the mail server, a restart.
Abort(p) ==
    /\ request[p] # None
    /\ Refuse(p)
    /\ UNCHANGED <<row, elapsed, codes, uses, history>>

NoticeElapses ==
    /\ row # None
    /\ row.change # None
    /\ row.change \notin elapsed
    /\ elapsed' = elapsed \cup {row.change}
    /\ UNCHANGED <<row, codes, page, request, uses, history>>

AdminAsks(p, a) ==
    \/ GetConfig(p, a)
    \/ \E confirm \in Pin \cup Otp :
         \/ CancelPendingChange(p, a, confirm)
         \/ ChangePin(p, a, confirm)
         \/ \E form \in Prices, later \in BOOLEAN : UpdateConfig(p, a, confirm, form, later)

Serve(p) ==
    \/ GetPricing(p)
    \/ \E a \in Admin : AdminAsks(p, a)
    \/ FindOtp(p)
    \/ ConsumeOtp(p)
    \/ ReadRow(p)
    \/ CreateRow(p)
    \/ PromoteIfDue(p)
    \/ ApplyNow(p)
    \/ \E c \in Change : Schedule(p, c)
    \/ WriteCancel(p)
    \/ \E pin \in Pin : WritePin(p, pin)
    \/ Abort(p)

Next ==
    \/ \E p \in Proc : Serve(p)
    \/ \E a \in Admin : OtpExpires(a) \/ \E o \in Otp : RequestOtp(a, o)
    \/ NoticeElapses

Spec == Init /\ [][Next]_vars

-----------------------------------------------------------------------------
(***************************************************************************)
(* Safety.                                                                 *)
(***************************************************************************)

\* No scheduled change becomes live before its notice is over, whatever requests read
\* the prices meanwhile and however late they write (getOrCreateRow, promoteIfDue).
NoticeRespected == applied \subseteq elapsed

\* A change that was cancelled or replaced never becomes live, as long as no request
\* has written over another's write: cancelPendingChange and updateConfig promote what
\* is due before they look at what there is to cancel.
WithdrawnNeverApplies == ~overtaken => applied \cap withdrawn = {}

\* When a scheduled change becomes live, the prices that move are those its
\* notification announced, in the same proviso: nothing else has moved since, although
\* the change holds a value for every field.
AppliedAsTold ==
    [][\A c \in applied' \ applied :
          ~overtaken' => {f \in Field : row'.live[f] # row.live[f]} = told]_vars
=============================================================================
