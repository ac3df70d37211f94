------------------------------ MODULE Accounts ------------------------------
(***************************************************************************)
(* One person, two records: the identity kept by Clerk and the row of the  *)
(* table users.  Three writers create the row (the guard on the first      *)
(* authenticated request, the webhook user.created, the admin who opens an *)
(* account for an agent or an agency), and nobody waits for the others.    *)
(*                                                                         *)
(* Clerk delivers each event at least once and in no particular order; a   *)
(* request is served in steps between which any other may run.  The admin  *)
(* who calls AuthService is not one of the identities: no operation gives  *)
(* or takes the role ADMIN, so the test of his role never changes.  The    *)
(* dates of acceptance of the terms are written once and read by pages     *)
(* only; the phone number only lets activateBailleur refuse; the slug of   *)
(* an agency is a second unique column whose conflict fails the insert as  *)
(* that of the address does (Abort).                                       *)
(***************************************************************************)
EXTENDS Naturals

CONSTANTS
    Identity,    \* accounts that may exist at Clerk (clerkId)
    Mail,        \* mail addresses
    Placeholder, \* the address <clerkId>@clerk.local, different for each row
    None,        \* no account, no row
    MaxRows,     \* bound: rows created for one identity, one after another
    Proc         \* requests served at the same time

VARIABLES
    clerk,    \* [Identity -> the account at Clerk, or None]
    event,    \* webhook events Clerk has emitted
    users,    \* [Identity -> row with that clerkId, or None]
    created,  \* [Identity -> rows created so far]
    request   \* [Proc -> what the request served by p does next]

vars == <<clerk, event, users, created, request>>

(***************************************************************************)
(* Types.                                                                  *)
(***************************************************************************)
Staff == {"AGENT_TERRAIN", "PRO_AGENCE"}
Role == {"LOCATAIRE", "BAILLEUR"} \cup Staff

\* id tells the rows of one identity apart: an UPDATE is by id, and fails
\* when its row has been deleted, even if the person has a new one.
Row == [id : 1 .. MaxRows, email : Mail \cup {Placeholder}, named : BOOLEAN,
        roles : SUBSET Role, isSuspended : BOOLEAN, mustChangePassword : BOOLEAN]

\* An account that is not live has been closed: its tokens outlive it.
Account == [live : BOOLEAN, email : Mail, password : {"own", "temporary"},
            opener : {"user", "admin"}]

ASSUME AccountsAssumption ==
    /\ Placeholder \notin Mail
    /\ MaxRows \in Nat
    /\ None \notin Account

SelfOp == {"getMe", "updateMe", "changePassword", "activateBailleur", "sync"}
AdminOp == {"updateUser", "suspendUser", "deleteUser", "deactivateBailleur"}

Idle == [stage |-> "idle"]

\* A request remembers the id of the row it found, and what it writes from it.
Request ==
    {Idle}
    \cup [stage : {"guard", "create", "refind"}, who : Identity]
    \cup [stage : {"getMe", "updateMe", "changePassword", "setPassword", "clearFlag",
                   "pushRole"}, who : Identity, id : 1 .. MaxRows]
    \cup [stage : {"activateBailleur"}, who : Identity, id : 1 .. MaxRows,
          roles : SUBSET Role]
    \cup [stage : {"heal"}, who : Identity, id : 1 .. MaxRows, email : Mail]
    \cup [stage : {"sync", "insertSynced"}, who : Identity, named : BOOLEAN,
          email : Mail \cup {Placeholder}]
    \cup [stage : {"createUser"}, email : Mail, role : Staff]
    \cup [stage : {"insert"}, who : Identity, email : Mail, role : Staff]
    \cup [stage : {"updateUser", "deleteUser"}, who : Identity, id : 1 .. MaxRows]
    \cup [stage : {"suspendUser"}, who : Identity, id : 1 .. MaxRows,
          isSuspended : BOOLEAN]
    \cup [stage : {"deactivateBailleur"}, who : Identity, id : 1 .. MaxRows,
          roles : SUBSET Role]

Event == [type : {"user.created", "user.updated", "user.deleted"},
          who : Identity, email : Mail, acknowledged : BOOLEAN]

\* Every row keeps to its columns, whatever is written late.
TypeOK ==
    /\ clerk \in [Identity -> Account \cup {None}]
    /\ event \subseteq Event
    /\ users \in [Identity -> Row \cup {None}]
    /\ created \in [Identity -> 0 .. MaxRows]
    /\ request \in [Proc -> Request]

Init ==
    /\ clerk = [i \in Identity |-> None]
    /\ event = {}
    /\ users = [i \in Identity |-> None]
    /\ created = [i \in Identity |-> 0]
    /\ request = [p \in Proc |-> Idle]

(***************************************************************************)
(* The table users.                                                        *)
(***************************************************************************)
\* @unique on email: nobody else's row has it.
EmailFree(m, i) ==
    \A j \in Identity \ {i} : users[j] # None => users[j].email \notin {m} \cap Mail

CanInsert(i, m) == users[i] = None /\ EmailFree(m, i) /\ created[i] < MaxRows

NewRow(i, m, named, roles, mustChange) ==
    [id |-> created[i] + 1, email |-> m, named |-> named, roles |-> roles,
     isSuspended |-> FALSE, mustChangePassword |-> mustChange]

InsertRow(i, row) ==
    /\ users' = [users EXCEPT ![i] = row]
    /\ created' = [created EXCEPT ![i] = @ + 1]

\* UPDATE ... WHERE id: the row read earlier must still be there.
StillThere(p) ==
    users[request[p].who] # None /\ users[request[p].who].id = request[p].id

UpdateRow(i, row) ==
    /\ users' = [users EXCEPT ![i] = row]
    /\ UNCHANGED created

Goto(p, r) == request' = [request EXCEPT ![p] = r]
Free(p) == request[p] = Idle
At(p, stage) == request[p].stage = stage

(***************************************************************************)
(* Clerk: people open, change and close accounts; every change is told by  *)
(* an event, which carries the address of that moment.                     *)
(***************************************************************************)
Live(i) == clerk[i] # None /\ clerk[i].live

EmailAtClerk(m) == \E i \in Identity : Live(i) /\ clerk[i].email = m

Emit(type, i, m) ==
    event' = {e \in event : <<e.type, e.who, e.email>> # <<type, i, m>>}
             \cup {[type |-> type, who |-> i, email |-> m, acknowledged |-> FALSE]}

OpenAccount(i, m, password, opener) ==
    /\ clerk[i] = None
    /\ ~EmailAtClerk(m)
    /\ clerk' = [clerk EXCEPT ![i] = [live |-> TRUE, email |-> m,
                                      password |-> password, opener |-> opener]]
    /\ Emit("user.created", i, m)

SignUp(i, m) ==
    /\ OpenAccount(i, m, "own", "user")
    /\ UNCHANGED <<users, created, request>>

ChangeEmail(i, m) ==
    /\ Live(i) /\ ~EmailAtClerk(m)
    /\ clerk' = [clerk EXCEPT ![i].email = m]
    /\ Emit("user.updated", i, m)
    /\ UNCHANGED <<users, created, request>>

CloseAccount(i) ==
    /\ Live(i)
    /\ clerk' = [clerk EXCEPT ![i].live = FALSE]
    /\ Emit("user.deleted", i, clerk[i].email)
    /\ UNCHANGED <<users, created, request>>

(***************************************************************************)
(* The webhook.  Each event is one statement (an upsert by clerkId, an     *)
(* updateMany, a deleteMany); when the address is taken it throws, and     *)
(* Clerk will try again.  An acknowledged event may be delivered again.    *)
(* Every account is opened with an address (SignUpForm, createUser), so    *)
(* every event has one: what the handler does without is left out.         *)
(***************************************************************************)
FromClerk(row, m) == [row EXCEPT !.email = m, !.named = TRUE]

UserCreated(e) ==
    IF users[e.who] = None
    THEN /\ CanInsert(e.who, e.email)
         /\ InsertRow(e.who, NewRow(e.who, e.email, TRUE, {"LOCATAIRE"}, FALSE))
    ELSE /\ EmailFree(e.email, e.who)
         /\ UpdateRow(e.who, FromClerk(users[e.who], e.email))

UserUpdated(e) ==
    IF users[e.who] = None
    THEN UNCHANGED <<users, created>>
    ELSE /\ EmailFree(e.email, e.who)
         /\ UpdateRow(e.who, FromClerk(users[e.who], e.email))

UserDeleted(e) == UpdateRow(e.who, None)

HandleWebhook(e) ==
    /\ \/ e.type = "user.created" /\ UserCreated(e)
       \/ e.type = "user.updated" /\ UserUpdated(e)
       \/ e.type = "user.deleted" /\ UserDeleted(e)
    /\ event' = (event \ {e}) \cup {[e EXCEPT !.acknowledged = TRUE]}
    /\ UNCHANGED <<clerk, request>>

(***************************************************************************)
(* The guard of every authenticated request.                               *)
(***************************************************************************)
Call(p, i) ==
    /\ Free(p)
    /\ clerk[i] # None
    /\ Goto(p, [stage |-> "guard", who |-> i])
    /\ UNCHANGED <<clerk, event, users, created>>

\* The handler runs unless the row says suspended; @Roles(LOCATAIRE) and
\* syncUser go by the row found here.
Handler(op, i, row) ==
    CASE op = "sync" ->
           [stage |-> op, who |-> i, named |-> row.named, email |-> row.email]
      [] op = "activateBailleur" ->
           [stage |-> op, who |-> i, id |-> row.id, roles |-> row.roles]
      [] OTHER -> [stage |-> op, who |-> i, id |-> row.id]

Admit(p, row) ==
    \/ row.isSuspended /\ Goto(p, Idle)
    \/ ~row.isSuspended /\ \E op \in SelfOp : Goto(p, Handler(op, request[p].who, row))

FindUser(p) ==
    /\ At(p, "guard")
    /\ LET i == request[p].who IN
         IF users[i] # None THEN Admit(p, users[i])
         ELSE Goto(p, [request[p] EXCEPT !.stage = "create"])
    /\ UNCHANGED <<clerk, event, users, created>>

\* The webhook has not come yet: a row with placeholder data.
CreateUser(p) ==
    /\ At(p, "create")
    /\ LET i == request[p].who
           row == NewRow(i, Placeholder, FALSE, {"LOCATAIRE"}, FALSE) IN
         IF users[i] = None
         THEN /\ CanInsert(i, Placeholder) /\ InsertRow(i, row) /\ Admit(p, row)
         ELSE /\ Goto(p, [request[p] EXCEPT !.stage = "refind"])
              /\ UNCHANGED <<users, created>>
    /\ UNCHANGED <<clerk, event>>

\* Somebody else created it between the two statements.
FindAgain(p) ==
    /\ At(p, "refind")
    /\ LET i == request[p].who IN
         IF users[i] # None THEN Admit(p, users[i]) ELSE Goto(p, Idle)
    /\ UNCHANGED <<clerk, event, users, created>>

(***************************************************************************)
(* What people do with their own row: read it, then write it by id.        *)
(***************************************************************************)
Current(p) == users[request[p].who]

\* A handler reads its row again, by id: gone or nothing to do, or on to `next`.
ReadAgain(p, useful, next) ==
    /\ Goto(p, IF StillThere(p) /\ useful THEN next ELSE Idle)
    /\ UNCHANGED <<clerk, event, users, created>>

Onto(p, stage) == [stage |-> stage, who |-> request[p].who, id |-> request[p].id]

\* UPDATE by id at the end of a handler; it throws when the row is gone.
WriteRow(p, row) ==
    /\ IF StillThere(p) THEN UpdateRow(request[p].who, row) ELSE UNCHANGED <<users, created>>
    /\ Goto(p, Idle)
    /\ UNCHANGED <<clerk, event>>

\* A row without a name was created before Clerk's data came: ask Clerk.
GetMe(p) ==
    /\ At(p, "getMe")
    /\ LET i == request[p].who IN
         ReadAgain(p, ~Current(p).named /\ Live(i),
                   [stage |-> "heal", who |-> i, id |-> request[p].id,
                    email |-> clerk[i].email])

\* The catch leaves the row as it was when the address is somebody else's.
Heal(p) ==
    /\ At(p, "heal")
    /\ IF EmailFree(request[p].email, request[p].who)
       THEN WriteRow(p, FromClerk(Current(p), request[p].email))
       ELSE Goto(p, Idle) /\ UNCHANGED <<clerk, event, users, created>>

UpdateMe(p) ==
    /\ At(p, "updateMe")
    /\ WriteRow(p, [Current(p) EXCEPT !.named = TRUE])

\* mutant: the flag is cleared before Clerk is asked
ChangeFlagFirst(p) ==
    /\ At(p, "changePassword")
    /\ ReadAgain(p, Current(p).mustChangePassword, Onto(p, "clearFlag"))

\* Only for the temporary password of an account the admin opened.
ChangePassword(p) ==
    /\ At(p, "changePassword")
    /\ ReadAgain(p, Current(p).mustChangePassword, Onto(p, "setPassword"))

SetPassword(p) ==
    /\ At(p, "setPassword")
    /\ LET i == request[p].who IN
         IF Live(i)
         THEN clerk' = [clerk EXCEPT ![i].password = "own"] /\ Goto(p, Onto(p, "clearFlag"))
         ELSE Goto(p, Idle) /\ UNCHANGED clerk
    /\ UNCHANGED <<event, users, created>>

ClearFlag(p) ==
    /\ At(p, "clearFlag")
    /\ WriteRow(p, [Current(p) EXCEPT !.mustChangePassword = FALSE])

\* mutant: the role of the caller is not looked at
ActivateAnyone(p) ==
    /\ At(p, "activateBailleur")
    /\ \E phone \in BOOLEAN :
         ReadAgain(p, "BAILLEUR" \notin Current(p).roles /\ phone, Onto(p, "pushRole"))

\* Refused as well when the row has no phone number.
ActivateBailleur(p) ==
    /\ At(p, "activateBailleur")
    /\ \E phone \in BOOLEAN :
         ReadAgain(p, /\ "LOCATAIRE" \in request[p].roles
                      /\ "BAILLEUR" \notin Current(p).roles
                      /\ phone, Onto(p, "pushRole"))

PushRole(p) ==
    /\ At(p, "pushRole")
    /\ WriteRow(p, [Current(p) EXCEPT !.roles = @ \cup {"BAILLEUR"}])

\* The guard has made the row already, unless it was deleted since.
SyncUser(p) ==
    /\ At(p, "sync")
    /\ LET i == request[p].who IN
         Goto(p, IF users[i] # None \/ ~EmailFree(request[p].email, i) THEN Idle
                 ELSE [request[p] EXCEPT !.stage = "insertSynced"])
    /\ UNCHANGED <<clerk, event, users, created>>

InsertSynced(p) ==
    /\ At(p, "insertSynced")
    /\ LET i == request[p].who  m == request[p].email IN
         IF CanInsert(i, m)
         THEN InsertRow(i, NewRow(i, m, request[p].named, {"LOCATAIRE"}, FALSE))
         ELSE UNCHANGED <<users, created>>
    /\ Goto(p, Idle)
    /\ UNCHANGED <<clerk, event>>

(***************************************************************************)
(* The admin: accounts for agents and agencies, and what he does to others.*)
(***************************************************************************)
CreateStaff(p, m, role) ==
    /\ Free(p)
    /\ \A j \in Identity : users[j] # None => users[j].email # m
    /\ Goto(p, [stage |-> "createUser", email |-> m, role |-> role])
    /\ UNCHANGED <<clerk, event, users, created>>

\* Clerk refuses an address it knows; otherwise the account exists from here,
\* and Clerk will tell the webhook about it.
CreateAtClerk(p) ==
    /\ At(p, "createUser")
    /\ LET m == request[p].email IN
         \/ /\ EmailAtClerk(m)
            /\ Goto(p, Idle) /\ UNCHANGED <<clerk, event>>
         \/ \E i \in Identity :
              /\ OpenAccount(i, m, "temporary", "admin")
              /\ Goto(p, [stage |-> "insert", who |-> i, email |-> m,
                          role |-> request[p].role])
    /\ UNCHANGED <<users, created>>

\* When the webhook was first, the insert throws: the person is a tenant, and
\* nobody sends the password.
InsertStaff(p) ==
    /\ At(p, "insert")
    /\ LET i == request[p].who  m == request[p].email IN
         \/ /\ CanInsert(i, m)
            /\ InsertRow(i, NewRow(i, m, TRUE, {request[p].role}, TRUE))
         \/ /\ ~(users[i] = None /\ EmailFree(m, i))
            /\ UNCHANGED <<users, created>>
    /\ Goto(p, Idle)
    /\ UNCHANGED <<clerk, event>>

FindTarget(p, op, i) ==
    /\ Free(p)
    /\ users[i] # None
    /\ Goto(p, CASE op = "suspendUser" ->
                     [stage |-> op, who |-> i, id |-> users[i].id,
                      isSuspended |-> users[i].isSuspended]
              [] op = "deactivateBailleur" ->
                     [stage |-> op, who |-> i, id |-> users[i].id, roles |-> users[i].roles]
              [] OTHER -> [stage |-> op, who |-> i, id |-> users[i].id])
    /\ UNCHANGED <<clerk, event, users, created>>

UpdateUser(p) ==
    /\ At(p, "updateUser")
    /\ WriteRow(p, [Current(p) EXCEPT !.named = TRUE])

\* The negation of what was read, not of what is there.
SuspendUser(p) ==
    /\ At(p, "suspendUser")
    /\ WriteRow(p, [Current(p) EXCEPT !.isSuspended = ~request[p].isSuspended])

\* Clerk is not told: the person can still sign in.
DeleteUser(p) == At(p, "deleteUser") /\ WriteRow(p, None)

\* The roles are those read, less one.
DeactivateBailleur(p) ==
    /\ At(p, "deactivateBailleur")
    /\ WriteRow(p, [Current(p) EXCEPT !.roles = request[p].roles \ {"BAILLEUR"}])

\* A request may stop at any await: an error, a timeout, a restart.
Abort(p) ==
    /\ ~Free(p)
    /\ Goto(p, Idle)
    /\ UNCHANGED <<clerk, event, users, created>>

Step(p) ==
    \/ \E i \in Identity : Call(p, i) \/ \E op \in AdminOp : FindTarget(p, op, i)
    \/ FindUser(p) \/ CreateUser(p) \/ FindAgain(p)
    \/ GetMe(p) \/ Heal(p) \/ UpdateMe(p)
    \/ ChangePassword(p) \/ SetPassword(p) \/ ClearFlag(p)
    \/ ActivateBailleur(p) \/ PushRole(p)
    \/ SyncUser(p) \/ InsertSynced(p)
    \/ \E m \in Mail, role \in Staff : CreateStaff(p, m, role)
    \/ CreateAtClerk(p) \/ InsertStaff(p)
    \/ UpdateUser(p) \/ SuspendUser(p) \/ DeleteUser(p) \/ DeactivateBailleur(p)
    \/ Abort(p)

Next ==
    \/ \E p \in Proc : Step(p)
    \/ \E i \in Identity :
         \/ \E m \in Mail : SignUp(i, m) \/ ChangeEmail(i, m)
         \/ CloseAccount(i)
    \/ \E e \in event : HandleWebhook(e)

Spec == Init /\ [][Next]_vars

(***************************************************************************)
(* The inductive invariant: what the rows say of accounts and events, and  *)
(* what of it still holds for a request on its way to a write.             *)
(***************************************************************************)
OfStaff(roles) == \E role \in Staff : roles = {role}
OfPerson(roles) == "LOCATAIRE" \in roles /\ roles \cap Staff = {}

\* A row is of a tenant, maybe a landlord; or of staff, whose password is asked for
\* until it has been replaced.
RowIsFounded(i) ==
    /\ clerk[i] \in Account
    /\ users[i].id <= created[i]
    /\ \/ OfPerson(users[i].roles)
       \/ /\ OfStaff(users[i].roles)
          /\ clerk[i].opener = "admin"
          /\ ~users[i].mustChangePassword => clerk[i].password = "own"

RowsAreFounded == \A i \in Identity : users[i] # None => RowIsFounded(i)

ById == {"getMe", "updateMe", "changePassword", "setPassword", "clearFlag", "pushRole",
         "activateBailleur", "heal", "updateUser", "deleteUser", "suspendUser",
         "deactivateBailleur"}

\* As long as the row a request has read is there, it is of the kind the request saw.
KindIsKept(r) ==
    LET roles == users[r.who].roles IN
    /\ r.stage = "activateBailleur" /\ "LOCATAIRE" \in r.roles => OfPerson(roles)
    /\ r.stage = "pushRole" => OfPerson(roles)
    /\ r.stage = "deactivateBailleur" =>
         (OfPerson(roles) /\ OfPerson(r.roles)) \/ (OfStaff(roles) /\ r.roles = roles)

RequestIsFounded(r) ==
    /\ r.stage \notin {"idle", "createUser"} => clerk[r.who] \in Account
    /\ r.stage \in ById =>
         /\ r.id <= created[r.who]
         /\ users[r.who] # None /\ users[r.who].id = r.id => KindIsKept(r)
    /\ r.stage = "clearFlag" => clerk[r.who].password = "own"
    /\ r.stage = "insert" => clerk[r.who].opener = "admin"
    /\ r.stage \in {"sync", "insertSynced"} => created[r.who] >= 1

RequestsAreFounded == \A p \in Proc : RequestIsFounded(request[p])

EventsAreFounded == \A e \in event : clerk[e.who] \in Account

\* Before the first row of a person, and while it is a placeholder.
Awaited(i) ==
    \/ clerk[i] \in Account /\ created[i] = 0
    \/ users[i] # None /\ users[i].id = 1 /\ users[i].email = Placeholder

Announced(i) == \E e \in event : e.type = "user.created" /\ e.who = i /\ ~e.acknowledged

FirstRowIsAwaited == \A i \in Identity : Awaited(i) => Announced(i)

IInv ==
    /\ TypeOK
    /\ RowsAreFounded
    /\ RequestsAreFounded
    /\ EventsAreFounded
    /\ FirstRowIsAwaited

(***************************************************************************)
(* Properties.                                                             *)
(***************************************************************************)
\* The roles of agents and agencies are never mixed with those of tenants and
\* landlords, and belong to accounts the admin opened, whichever of the guard,
\* the webhook and the admin created the row, and whatever late writes follow.
StaffStaysApart ==
    \A i \in Identity :
        users[i] # None /\ users[i].roles \cap Staff # {} =>
            /\ \E role \in Staff : users[i].roles = {role}
            /\ clerk[i].opener = "admin"

\* An agent or an agency whose row no longer asks for a new password has
\* replaced at Clerk the one that was sent by mail: the two writes of
\* changePassword may be separated by a failure, but not that way round.
TemporaryPasswordReplaced ==
    \A i \in Identity :
        users[i] # None /\ users[i].roles \cap Staff # {}
            /\ ~users[i].mustChangePassword => clerk[i].password = "own"

\* The first row of a person has placeholder data only while the event that
\* brings the real address has not been acknowledged: the guard's insert and
\* the webhook's upsert may come in either order.
PlaceholderAwaitsEvent ==
    \A i \in Identity :
        users[i] # None /\ users[i].id = 1 /\ users[i].email = Placeholder =>
            Announced(i)
=============================================================================
