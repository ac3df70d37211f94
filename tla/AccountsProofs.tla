--------------------------- MODULE AccountsProofs ---------------------------
(***************************************************************************)
(* Proofs about Accounts, for any sets of identities, addresses and        *)
(* requests.  Every step does one of a few things to the rows of one       *)
(* identity (inserts one, updates it in place, deletes it) and to its      *)
(* account; what a request has read before survives each of them.          *)
(***************************************************************************)
EXTENDS Accounts, TLAPS

(***************************************************************************)
(* What never goes back: accounts stay open to the same opener, a password *)
(* of one's own stays one, rows are counted, and a row that is still there *)
(* is of the kind it was.                                                  *)
(***************************************************************************)
AccountsGrow ==
    \A i \in Identity : clerk[i] \in Account =>
        /\ clerk'[i] \in Account
        /\ clerk'[i].opener = clerk[i].opener
        /\ clerk[i].password = "own" => clerk'[i].password = "own"

RowsGrow ==
    \A i \in Identity :
        /\ created'[i] >= created[i]
        /\ users'[i] # None /\ users'[i].id <= created[i] =>
             /\ users[i] # None
             /\ users'[i].id = users[i].id
             /\ OfPerson(users[i].roles) => OfPerson(users'[i].roles)
             /\ OfStaff(users[i].roles) => users'[i].roles = users[i].roles

\* The members of the types a proof needs, without unfolding all kinds of requests.
LEMMA RequestFields ==
    ASSUME NEW r \in Request
    PROVE  /\ r.stage \notin {"idle", "createUser"} => r.who \in Identity
           /\ r.stage \in ById => r.id \in 1 .. MaxRows
           /\ r.stage \in {"activateBailleur", "deactivateBailleur"} => r.roles \in SUBSET Role
  BY DEF Request, Idle, ById

LEMMA KindsApart ==
    ASSUME NEW roles
    PROVE  ~(OfStaff(roles) /\ OfPerson(roles))
  BY DEF OfStaff, OfPerson, Staff

\* What a request has read survives the steps of the others.
LEMMA RequestsSurvive ==
    ASSUME TypeOK, TypeOK', NEW r \in Request, RequestIsFounded(r), AccountsGrow, RowsGrow
    PROVE  RequestIsFounded(r)'
<1> DEFINE i == r.who
<1>1. CASE r.stage \in {"idle", "createUser"}
  BY <1>1 DEF RequestIsFounded, ById
<1>2. CASE r.stage \notin {"idle", "createUser"}
  <2>1. i \in Identity /\ clerk[i] \in Account
    BY <1>2, RequestFields DEF RequestIsFounded
  <2>2. /\ clerk'[i] \in Account
        /\ clerk'[i].opener = clerk[i].opener
        /\ clerk[i].password = "own" => clerk'[i].password = "own"
    BY <2>1 DEF AccountsGrow
  <2>3. created'[i] >= created[i] /\ created[i] \in Nat /\ created'[i] \in Nat
    BY <2>1, AccountsAssumption DEF RowsGrow, TypeOK
  <2>4. CASE r.stage \in ById
    <3>1. r.id \in Nat /\ r.id <= created[i]
      BY <2>4, RequestFields, AccountsAssumption DEF RequestIsFounded
    <3>2. ASSUME users'[i] # None, users'[i].id = r.id
          PROVE  KindIsKept(r)'
      <4>1. /\ users[i] # None
            /\ users[i].id = r.id
            /\ OfPerson(users[i].roles) => OfPerson(users'[i].roles)
            /\ OfStaff(users[i].roles) => users'[i].roles = users[i].roles
        BY <2>1, <3>1, <3>2 DEF RowsGrow
      <4>2. KindIsKept(r)
        BY <2>4, <4>1 DEF RequestIsFounded
      <4> QED
        BY <4>1, <4>2 DEF KindIsKept
    <3>3. r.id <= created'[i]
      BY <2>3, <3>1
    <3> QED
      BY <1>2, <2>2, <2>3, <2>4, <3>2, <3>3 DEF RequestIsFounded, ById
  <2>5. CASE r.stage \notin ById
    <3>1. r.stage \in {"sync", "insertSynced"} => created'[i] >= 1
      BY <2>3 DEF RequestIsFounded
    <3> QED
      BY <1>2, <2>2, <2>5, <3>1 DEF RequestIsFounded, ById
  <2> QED
    BY <2>4, <2>5
<1> QED
  BY <1>1, <1>2

(***************************************************************************)
(* Types.                                                                  *)
(***************************************************************************)
LEMMA RequestKinds ==
    ASSUME NEW r \in Request
    PROVE  /\ r.stage \in {"guard", "create", "refind"} =>
                 r \in [stage : {"guard", "create", "refind"}, who : Identity]
           /\ r.stage = "heal" => r.email \in Mail
           /\ r.stage \in {"sync", "insertSynced"} =>
                 r \in [stage : {"sync", "insertSynced"}, who : Identity, named : BOOLEAN,
                        email : Mail \cup {Placeholder}]
           /\ r.stage = "createUser" => r.email \in Mail /\ r.role \in Staff
           /\ r.stage = "insert" => r.email \in Mail /\ r.role \in Staff
           /\ r.stage = "suspendUser" => r.isSuspended \in BOOLEAN
  BY DEF Request, Idle

\* The handler that starts with the row found is well formed.
LEMMA HandlerType ==
    ASSUME NEW op \in SelfOp, NEW i \in Identity, NEW row \in Row
    PROVE  Handler(op, i, row) \in Request
<1>1. CASE op = "sync"
  BY <1>1 DEF Handler, Request, Row
<1>2. CASE op = "activateBailleur"
  BY <1>2 DEF Handler, Request, Row
<1>3. CASE op \in SelfOp \ {"sync", "activateBailleur"}
  <2>1. Handler(op, i, row) = [stage |-> op, who |-> i, id |-> row.id]
    BY <1>3 DEF Handler, SelfOp
  <2>2. op \in {"getMe", "updateMe", "changePassword"} /\ row.id \in 1 .. MaxRows
    BY <1>3 DEF SelfOp, Row
  <2> QED
    BY <2>1, <2>2 DEF Request
<1> QED
  BY <1>1, <1>2, <1>3

LEMMA AdmitType ==
    ASSUME TypeOK, NEW p \in Proc, NEW row \in Row, request[p].who \in Identity, Admit(p, row)
    PROVE  request' \in [Proc -> Request]
<1>1. Idle \in Request
  BY DEF Request
<1>2. \A op \in SelfOp : Handler(op, request[p].who, row) \in Request
  BY HandlerType
<1> QED
  BY <1>1, <1>2 DEF Admit, Goto, TypeOK

\* An insertion and an UPDATE keep the table typed.
LEMMA InsertType ==
    ASSUME TypeOK, NEW i \in Identity, NEW m \in Mail \cup {Placeholder},
           NEW named \in BOOLEAN, NEW roles \in SUBSET Role, NEW must \in BOOLEAN,
           CanInsert(i, m), InsertRow(i, NewRow(i, m, named, roles, must))
    PROVE  users' \in [Identity -> Row \cup {None}] /\ created' \in [Identity -> 0 .. MaxRows]
<1>1. created[i] \in 0 .. MaxRows /\ created[i] < MaxRows /\ MaxRows \in Nat
  BY AccountsAssumption DEF TypeOK, CanInsert
<1>2. created[i] + 1 \in 1 .. MaxRows
  BY <1>1
<1>3. NewRow(i, m, named, roles, must) \in Row
  BY <1>2 DEF NewRow, Row
<1>4. users' \in [Identity -> Row \cup {None}]
  BY <1>3 DEF InsertRow, TypeOK
<1>5. created' \in [Identity -> 0 .. MaxRows]
  BY <1>1, <1>2 DEF InsertRow, TypeOK
<1> QED
  BY <1>4, <1>5

LEMMA WriteType ==
    ASSUME TypeOK, NEW p \in Proc, NEW row, WriteRow(p, row), request[p].who \in Identity,
           StillThere(p) => row \in Row \cup {None}
    PROVE  TypeOK'
<1>1. users' \in [Identity -> Row \cup {None}] /\ created' \in [Identity -> 0 .. MaxRows]
  BY DEF WriteRow, UpdateRow, TypeOK
<1>2. request' \in [Proc -> Request]
  <2>1. Idle \in Request
    BY DEF Request
  <2> QED
    BY <2>1 DEF WriteRow, Goto, TypeOK
<1> QED
  BY <1>1, <1>2 DEF WriteRow, TypeOK

LEMMA GotoType ==
    ASSUME TypeOK, NEW p \in Proc, NEW r \in Request, Goto(p, r)
    PROVE  request' \in [Proc -> Request]
  BY DEF TypeOK, Goto

LEMMA IdleType == Idle \in Request
  BY DEF Request

\* Clerk and its webhook.
LEMMA ClerkTypes ==
    ASSUME TypeOK, NEW i \in Identity, NEW m \in Mail
    PROVE  /\ SignUp(i, m) => TypeOK'
           /\ ChangeEmail(i, m) => TypeOK'
           /\ CloseAccount(i) => TypeOK'
           /\ \A opener \in {"user", "admin"}, password \in {"own", "temporary"} :
                OpenAccount(i, m, password, opener) =>
                    clerk' \in [Identity -> Account \cup {None}] /\ event' \subseteq Event
<1>1. ASSUME NEW type \in {"user.created", "user.updated", "user.deleted"}, NEW n \in Mail,
             Emit(type, i, n)
      PROVE  event' \subseteq Event
  <2>1. [type |-> type, who |-> i, email |-> n, acknowledged |-> FALSE] \in Event
    BY DEF Event
  <2>2. {e \in event : <<e.type, e.who, e.email>> # <<type, i, n>>} \subseteq event
    OBVIOUS
  <2> QED
    BY <1>1, <2>1, <2>2, Zenon DEF Emit, TypeOK
<1>2. ASSUME NEW opener \in {"user", "admin"}, NEW password \in {"own", "temporary"},
             OpenAccount(i, m, password, opener)
      PROVE  clerk' \in [Identity -> Account \cup {None}] /\ event' \subseteq Event
  <2>1. [live |-> TRUE, email |-> m, password |-> password, opener |-> opener] \in Account
    BY DEF Account
  <2> QED
    BY <1>1, <1>2, <2>1 DEF OpenAccount, TypeOK
<1>3. ASSUME SignUp(i, m) PROVE TypeOK'
  BY <1>2, <1>3 DEF SignUp, TypeOK
<1>4. ASSUME Live(i) PROVE clerk[i] \in Account
  BY <1>4 DEF Live, TypeOK
<1>5. ASSUME ChangeEmail(i, m) PROVE TypeOK'
  <2>1. [clerk[i] EXCEPT !.email = m] \in Account
    BY <1>4, <1>5 DEF ChangeEmail, Account
  <2>2. clerk' \in [Identity -> Account \cup {None}]
    BY <1>5, <2>1 DEF ChangeEmail, TypeOK
  <2> QED
    BY <1>1, <1>5, <2>2 DEF ChangeEmail, TypeOK
<1>6. ASSUME CloseAccount(i) PROVE TypeOK'
  <2>1. [clerk[i] EXCEPT !.live = FALSE] \in Account /\ clerk[i].email \in Mail
    BY <1>4, <1>6 DEF CloseAccount, Account
  <2>2. clerk' \in [Identity -> Account \cup {None}]
    BY <1>6, <2>1 DEF CloseAccount, TypeOK
  <2> QED
    BY <1>1, <1>6, <2>1, <2>2 DEF CloseAccount, TypeOK
<1> QED
  BY <1>2, <1>3, <1>5, <1>6

LEMMA WebhookType ==
    ASSUME TypeOK, NEW e \in event, HandleWebhook(e)
    PROVE  TypeOK'
<1>1. e \in Event /\ e.who \in Identity /\ e.email \in Mail
  BY DEF TypeOK, Event
<1>2. [e EXCEPT !.acknowledged = TRUE] \in Event
  BY <1>1 DEF Event
<1>3. event' \subseteq Event
  BY <1>2 DEF HandleWebhook, TypeOK
<1>4. ASSUME users[e.who] # None PROVE FromClerk(users[e.who], e.email) \in Row
  BY <1>1, <1>4 DEF TypeOK, FromClerk, Row
<1>5. users' \in [Identity -> Row \cup {None}] /\ created' \in [Identity -> 0 .. MaxRows]
  <2>1. CASE UserCreated(e)
    <3>1. {"LOCATAIRE"} \in SUBSET Role
      BY DEF Role
    <3>2. CASE users[e.who] = None
      BY <1>1, <2>1, <3>1, <3>2, InsertType DEF UserCreated
    <3>3. CASE users[e.who] # None
      BY <1>1, <1>4, <2>1, <3>3 DEF UserCreated, UpdateRow, TypeOK
    <3> QED
      BY <3>2, <3>3
  <2>2. CASE UserUpdated(e)
    BY <1>1, <1>4, <2>2 DEF UserUpdated, UpdateRow, TypeOK
  <2>3. CASE UserDeleted(e)
    BY <1>1, <2>3 DEF UserDeleted, UpdateRow, TypeOK
  <2> QED
    BY <2>1, <2>2, <2>3 DEF HandleWebhook
<1> QED
  BY <1>3, <1>5 DEF HandleWebhook, TypeOK

\* The guard.
LEMMA GuardTypes ==
    ASSUME TypeOK, NEW p \in Proc,
           \/ \E i \in Identity : Call(p, i)
           \/ FindUser(p) \/ CreateUser(p) \/ FindAgain(p)
    PROVE  TypeOK'
<1> DEFINE who == request[p].who
<1>1. ASSUME request[p].stage \in {"guard", "create", "refind"}
      PROVE  /\ who \in Identity
             /\ [request[p] EXCEPT !.stage = "create"] \in Request
             /\ [request[p] EXCEPT !.stage = "refind"] \in Request
  <2>1. request[p] \in [stage : {"guard", "create", "refind"}, who : Identity]
    BY <1>1, RequestKinds DEF TypeOK
  <2>2. \A stage \in {"create", "refind"} :
            [request[p] EXCEPT !.stage = stage] \in [stage : {"guard", "create", "refind"}, who : Identity]
    BY <2>1
  <2> QED
    BY <2>1, <2>2 DEF Request
<1>2. ASSUME NEW i \in Identity, Call(p, i) PROVE TypeOK'
  <2>1. [stage |-> "guard", who |-> i] \in Request
    BY DEF Request
  <2> QED
    BY <1>2, <2>1, GotoType DEF Call, TypeOK
<1>3. ASSUME FindUser(p) PROVE TypeOK'
  <2>1. who \in Identity /\ [request[p] EXCEPT !.stage = "create"] \in Request
    BY <1>1, <1>3 DEF FindUser, At
  <2>2. request' \in [Proc -> Request]
    <3>1. CASE users[who] # None
      <4>1. users[who] \in Row
        BY <2>1, <3>1 DEF TypeOK
      <4> QED
        BY <1>3, <2>1, <3>1, <4>1, AdmitType DEF FindUser
    <3>2. CASE users[who] = None
      BY <1>3, <2>1, <3>2, GotoType DEF FindUser
    <3> QED
      BY <3>1, <3>2
  <2> QED
    BY <1>3, <2>2 DEF FindUser, TypeOK
<1>4. ASSUME CreateUser(p) PROVE TypeOK'
  <2>1. who \in Identity /\ [request[p] EXCEPT !.stage = "refind"] \in Request
    BY <1>1, <1>4 DEF CreateUser, At
  <2>2. /\ request' \in [Proc -> Request]
        /\ users' \in [Identity -> Row \cup {None}]
        /\ created' \in [Identity -> 0 .. MaxRows]
    <3>1. CASE users[who] = None
      <4> DEFINE row == NewRow(who, Placeholder, FALSE, {"LOCATAIRE"}, FALSE)
      <4>1. CanInsert(who, Placeholder) /\ InsertRow(who, row) /\ Admit(p, row)
        BY <1>4, <3>1 DEF CreateUser
      <4>2. {"LOCATAIRE"} \in SUBSET Role
        BY DEF Role
      <4>3. /\ users' \in [Identity -> Row \cup {None}]
            /\ created' \in [Identity -> 0 .. MaxRows]
        BY <2>1, <4>1, <4>2, InsertType
      <4>4. created[who] + 1 \in 1 .. MaxRows
        BY <2>1, <4>1, AccountsAssumption DEF TypeOK, CanInsert
      <4>5. row \in Row
        BY <4>2, <4>4 DEF NewRow, Row
      <4>6. request' \in [Proc -> Request]
        BY <2>1, <4>1, <4>5, AdmitType
      <4> QED
        BY <4>3, <4>6
    <3>2. CASE users[who] # None
      <4>1. Goto(p, [request[p] EXCEPT !.stage = "refind"]) /\ UNCHANGED <<users, created>>
        BY <1>4, <3>2 DEF CreateUser
      <4> QED
        BY <2>1, <4>1, GotoType DEF TypeOK
    <3> QED
      BY <3>1, <3>2
  <2> QED
    BY <1>4, <2>2 DEF CreateUser, TypeOK
<1>5. ASSUME FindAgain(p) PROVE TypeOK'
  <2>1. who \in Identity
    BY <1>1, <1>5 DEF FindAgain, At
  <2>2. request' \in [Proc -> Request]
    <3>1. CASE users[who] # None
      <4>1. users[who] \in Row
        BY <2>1, <3>1 DEF TypeOK
      <4> QED
        BY <1>5, <2>1, <3>1, <4>1, AdmitType DEF FindAgain
    <3>2. CASE users[who] = None
      BY <1>5, <3>2, GotoType, IdleType DEF FindAgain
    <3> QED
      BY <3>1, <3>2
  <2> QED
    BY <1>5, <2>2 DEF FindAgain, TypeOK
<1> QED
  BY <1>2, <1>3, <1>4, <1>5

\* What people do with their own row.
LEMMA OwnTypes ==
    ASSUME TypeOK, NEW p \in Proc,
           \/ GetMe(p) \/ Heal(p) \/ UpdateMe(p)
           \/ ChangePassword(p) \/ SetPassword(p) \/ ClearFlag(p)
           \/ ActivateBailleur(p) \/ PushRole(p)
           \/ SyncUser(p) \/ InsertSynced(p)
    PROVE  TypeOK'
<1> DEFINE r == request[p]
<1> DEFINE i == request[p].who
<1>1. r \in Request
  BY DEF TypeOK
<1>2. ASSUME r.stage \in ById
      PROVE  /\ i \in Identity /\ r.id \in 1 .. MaxRows
             /\ StillThere(p) => Current(p) \in Row
             /\ \A stage \in {"setPassword", "clearFlag", "pushRole"} : Onto(p, stage) \in Request
  <2>1. i \in Identity /\ r.id \in 1 .. MaxRows
    BY <1>1, <1>2, RequestFields DEF ById
  <2>2. StillThere(p) => Current(p) \in Row
    BY <2>1 DEF StillThere, Current, TypeOK
  <2>3. \A stage \in {"setPassword", "clearFlag", "pushRole"} : Onto(p, stage) \in Request
    BY <2>1 DEF Onto, Request
  <2> QED
    BY <2>1, <2>2, <2>3
<1>3. ASSUME NEW useful, NEW next, ReadAgain(p, useful, next), useful => next \in Request
      PROVE  TypeOK'
  BY <1>3, IdleType DEF ReadAgain, Goto, TypeOK
<1>4. ASSUME GetMe(p) PROVE TypeOK'
  <2>1. i \in Identity /\ r.id \in 1 .. MaxRows
    BY <1>2, <1>4 DEF GetMe, At, ById
  <2>2. Live(i) => clerk[i].email \in Mail
    BY <2>1 DEF Live, TypeOK, Account
  <2>3. Live(i) => [stage |-> "heal", who |-> i, id |-> r.id, email |-> clerk[i].email] \in Request
    BY <2>1, <2>2 DEF Request
  <2> QED
    BY <1>3, <1>4, <2>3 DEF GetMe
<1>5. ASSUME Heal(p) PROVE TypeOK'
  <2>1. i \in Identity /\ r.email \in Mail /\ (StillThere(p) => Current(p) \in Row)
    BY <1>1, <1>2, <1>5, RequestKinds DEF Heal, At, ById
  <2>2. CASE EmailFree(r.email, i)
    <3>1. StillThere(p) => FromClerk(Current(p), r.email) \in Row
      BY <2>1 DEF FromClerk, Row
    <3> QED
      BY <1>5, <2>1, <2>2, <3>1, WriteType DEF Heal
  <2>3. CASE ~EmailFree(r.email, i)
    BY <1>5, <2>3, IdleType DEF Heal, Goto, TypeOK
  <2> QED
    BY <2>2, <2>3
<1>6. ASSUME UpdateMe(p) PROVE TypeOK'
  <2>1. i \in Identity /\ (StillThere(p) => Current(p) \in Row)
    BY <1>2, <1>6 DEF UpdateMe, At, ById
  <2>2. StillThere(p) => [Current(p) EXCEPT !.named = TRUE] \in Row
    BY <2>1 DEF Row
  <2> QED
    BY <1>6, <2>1, <2>2, WriteType DEF UpdateMe
<1>7. ASSUME ChangePassword(p) PROVE TypeOK'
  <2>1. Onto(p, "setPassword") \in Request
    BY <1>2, <1>7 DEF ChangePassword, At, ById
  <2> QED
    BY <1>3, <1>7, <2>1 DEF ChangePassword
<1>8. ASSUME SetPassword(p) PROVE TypeOK'
  <2>1. i \in Identity /\ Onto(p, "clearFlag") \in Request
    BY <1>2, <1>8 DEF SetPassword, At, ById
  <2>2. CASE Live(i)
    <3>1. clerk[i] \in Account
      BY <2>1, <2>2 DEF Live, TypeOK
    <3>2. [clerk[i] EXCEPT !.password = "own"] \in Account
      BY <3>1 DEF Account
    <3> QED
      BY <1>8, <2>1, <2>2, <3>2, GotoType DEF SetPassword, TypeOK
  <2>3. CASE ~Live(i)
    BY <1>8, <2>3, IdleType, GotoType DEF SetPassword, TypeOK
  <2> QED
    BY <2>2, <2>3
<1>9. ASSUME ClearFlag(p) PROVE TypeOK'
  <2>1. i \in Identity /\ (StillThere(p) => Current(p) \in Row)
    BY <1>2, <1>9 DEF ClearFlag, At, ById
  <2>2. StillThere(p) => [Current(p) EXCEPT !.mustChangePassword = FALSE] \in Row
    BY <2>1 DEF Row
  <2> QED
    BY <1>9, <2>1, <2>2, WriteType DEF ClearFlag
<1>10. ASSUME ActivateBailleur(p) PROVE TypeOK'
  <2>1. Onto(p, "pushRole") \in Request
    BY <1>2, <1>10 DEF ActivateBailleur, At, ById
  <2> QED
    BY <1>3, <1>10, <2>1 DEF ActivateBailleur
<1>11. ASSUME PushRole(p) PROVE TypeOK'
  <2>1. i \in Identity /\ (StillThere(p) => Current(p) \in Row)
    BY <1>2, <1>11 DEF PushRole, At, ById
  <2>2. StillThere(p) => [Current(p) EXCEPT !.roles = @ \cup {"BAILLEUR"}] \in Row
    BY <2>1 DEF Row, Role
  <2> QED
    BY <1>11, <2>1, <2>2, WriteType DEF PushRole
<1>12. ASSUME SyncUser(p) \/ InsertSynced(p)
       PROVE  r \in [stage : {"sync", "insertSynced"}, who : Identity, named : BOOLEAN,
                      email : Mail \cup {Placeholder}]
  BY <1>1, <1>12, RequestKinds DEF SyncUser, InsertSynced, At
<1>13. ASSUME SyncUser(p) PROVE TypeOK'
  <2>1. [r EXCEPT !.stage = "insertSynced"]
            \in [stage : {"sync", "insertSynced"}, who : Identity, named : BOOLEAN,
                email : Mail \cup {Placeholder}]
    BY <1>12, <1>13
  <2>2. [r EXCEPT !.stage = "insertSynced"] \in Request
    BY <2>1 DEF Request
  <2> QED
    BY <1>13, <2>2, IdleType DEF SyncUser, Goto, TypeOK
<1>14. ASSUME InsertSynced(p) PROVE TypeOK'
  <2>1. i \in Identity /\ r.named \in BOOLEAN /\ r.email \in Mail \cup {Placeholder}
    BY <1>12, <1>14
  <2>2. {"LOCATAIRE"} \in SUBSET Role
    BY DEF Role
  <2>3. /\ users' \in [Identity -> Row \cup {None}]
        /\ created' \in [Identity -> 0 .. MaxRows]
    <3>1. CASE CanInsert(i, r.email)
      BY <1>14, <2>1, <2>2, <3>1, InsertType DEF InsertSynced
    <3>2. CASE ~CanInsert(i, r.email)
      BY <1>14, <3>2 DEF InsertSynced, TypeOK
    <3> QED
      BY <3>1, <3>2
  <2>4. request' \in [Proc -> Request]
    BY <1>14, IdleType, GotoType DEF InsertSynced
  <2> QED
    BY <1>14, <2>3, <2>4 DEF InsertSynced, TypeOK
<1> QED
  BY <1>4, <1>5, <1>6, <1>7, <1>8, <1>9, <1>10, <1>11, <1>13, <1>14

\* What the admin does.
LEMMA AdminTypes ==
    ASSUME TypeOK, NEW p \in Proc,
           \/ \E i \in Identity, op \in AdminOp : FindTarget(p, op, i)
           \/ \E m \in Mail, role \in Staff : CreateStaff(p, m, role)
           \/ CreateAtClerk(p) \/ InsertStaff(p)
           \/ UpdateUser(p) \/ SuspendUser(p) \/ DeleteUser(p) \/ DeactivateBailleur(p)
    PROVE  TypeOK'
<1> DEFINE r == request[p]
<1> DEFINE i == request[p].who
<1>1. r \in Request
  BY DEF TypeOK
<1>2. ASSUME r.stage \in ById
      PROVE  i \in Identity /\ (StillThere(p) => Current(p) \in Row)
  <2>1. i \in Identity
    BY <1>1, <1>2, RequestFields DEF ById
  <2> QED
    BY <2>1 DEF StillThere, Current, TypeOK
<1>3. ASSUME NEW j \in Identity, NEW op \in AdminOp, FindTarget(p, op, j) PROVE TypeOK'
  <2>1. users[j] \in Row
    BY <1>3 DEF FindTarget, TypeOK
  <2>2. users[j].id \in 1 .. MaxRows /\ users[j].roles \in SUBSET Role /\ users[j].isSuspended \in BOOLEAN
    BY <2>1 DEF Row
  <2>3. CASE op = "suspendUser"
    <3>1. [stage |-> op, who |-> j, id |-> users[j].id, isSuspended |-> users[j].isSuspended] \in Request
      BY <2>2, <2>3 DEF Request
    <3> QED
      BY <1>3, <2>3, <3>1, GotoType DEF FindTarget, TypeOK
  <2>4. CASE op = "deactivateBailleur"
    <3>1. [stage |-> op, who |-> j, id |-> users[j].id, roles |-> users[j].roles] \in Request
      BY <2>2, <2>4 DEF Request
    <3> QED
      BY <1>3, <2>4, <3>1, GotoType DEF FindTarget, TypeOK
  <2>5. CASE op \in {"updateUser", "deleteUser"}
    <3>1. [stage |-> op, who |-> j, id |-> users[j].id] \in Request
      BY <2>2, <2>5 DEF Request
    <3> QED
      BY <1>3, <2>5, <3>1, GotoType DEF FindTarget, TypeOK
  <2> QED
    BY <2>3, <2>4, <2>5 DEF AdminOp
<1>4. ASSUME NEW m \in Mail, NEW role \in Staff, CreateStaff(p, m, role) PROVE TypeOK'
  <2>1. [stage |-> "createUser", email |-> m, role |-> role] \in Request
    BY DEF Request
  <2> QED
    BY <1>4, <2>1, GotoType DEF CreateStaff, TypeOK
<1>5. ASSUME CreateAtClerk(p) PROVE TypeOK'
  <2>1. r.email \in Mail /\ r.role \in Staff
    BY <1>1, <1>5, RequestKinds DEF CreateAtClerk, At
  <2>2. ASSUME NEW j \in Identity, OpenAccount(j, r.email, "temporary", "admin"),
               Goto(p, [stage |-> "insert", who |-> j, email |-> r.email, role |-> r.role]),
               UNCHANGED <<users, created>>
        PROVE  TypeOK'
    <3>1. [stage |-> "insert", who |-> j, email |-> r.email, role |-> r.role] \in Request
      BY <2>1 DEF Request
    <3>2. clerk' \in [Identity -> Account \cup {None}] /\ event' \subseteq Event
      BY <2>1, <2>2, ClerkTypes
    <3> QED
      BY <2>2, <3>1, <3>2, GotoType DEF TypeOK
  <2>3. CASE Goto(p, Idle) /\ UNCHANGED <<clerk, event, users, created>>
    BY <2>3, IdleType, GotoType DEF TypeOK
  <2> QED
    BY <1>5, <2>2, <2>3 DEF CreateAtClerk
<1>6. ASSUME InsertStaff(p) PROVE TypeOK'
  <2>1. i \in Identity /\ r.email \in Mail /\ r.role \in Staff
    BY <1>1, <1>6, RequestKinds, RequestFields DEF InsertStaff, At
  <2>2. {r.role} \in SUBSET Role
    BY <2>1 DEF Role
  <2>3. /\ users' \in [Identity -> Row \cup {None}]
        /\ created' \in [Identity -> 0 .. MaxRows]
    <3>1. CASE /\ CanInsert(i, r.email)
               /\ InsertRow(i, NewRow(i, r.email, TRUE, {r.role}, TRUE))
      BY <2>1, <2>2, <3>1, InsertType
    <3>2. CASE UNCHANGED <<users, created>>
      BY <3>2 DEF TypeOK
    <3> QED
      BY <1>6, <3>1, <3>2 DEF InsertStaff
  <2>4. request' \in [Proc -> Request]
    BY <1>6, IdleType, GotoType DEF InsertStaff
  <2> QED
    BY <1>6, <2>3, <2>4 DEF InsertStaff, TypeOK
<1>7. ASSUME UpdateUser(p) PROVE TypeOK'
  <2>1. StillThere(p) => [Current(p) EXCEPT !.named = TRUE] \in Row
    BY <1>2, <1>7 DEF UpdateUser, At, ById, Row
  <2> QED
    BY <1>2, <1>7, <2>1, WriteType DEF UpdateUser, At, ById
<1>8. ASSUME SuspendUser(p) PROVE TypeOK'
  <2>1. r.isSuspended \in BOOLEAN
    BY <1>1, <1>8, RequestKinds DEF SuspendUser, At
  <2>2. StillThere(p) => [Current(p) EXCEPT !.isSuspended = ~r.isSuspended] \in Row
    BY <1>2, <1>8, <2>1 DEF SuspendUser, At, ById, Row
  <2> QED
    BY <1>2, <1>8, <2>2, WriteType DEF SuspendUser, At, ById
<1>9. ASSUME DeleteUser(p) PROVE TypeOK'
  BY <1>2, <1>9, WriteType DEF DeleteUser, At, ById
<1>10. ASSUME DeactivateBailleur(p) PROVE TypeOK'
  <2>1. r.roles \in SUBSET Role
    BY <1>1, <1>10, RequestFields DEF DeactivateBailleur, At
  <2>2. StillThere(p) => [Current(p) EXCEPT !.roles = r.roles \ {"BAILLEUR"}] \in Row
    BY <1>2, <1>10, <2>1 DEF DeactivateBailleur, At, ById, Row
  <2> QED
    BY <1>2, <1>10, <2>2, WriteType DEF DeactivateBailleur, At, ById
<1> QED
  BY <1>3, <1>4, <1>5, <1>6, <1>7, <1>8, <1>9, <1>10

LEMMA TypeStep == TypeOK /\ [Next]_vars => TypeOK'
<1> SUFFICES ASSUME TypeOK, [Next]_vars PROVE TypeOK'
  OBVIOUS
<1>1. CASE UNCHANGED vars
  BY <1>1 DEF vars, TypeOK
<1>2. ASSUME NEW p \in Proc, Abort(p) PROVE TypeOK'
  BY <1>2, IdleType, GotoType DEF Abort, TypeOK
<1>3. ASSUME NEW p \in Proc, Step(p) PROVE TypeOK'
  BY <1>2, <1>3, GuardTypes, OwnTypes, AdminTypes DEF Step
<1>4. ASSUME NEW i \in Identity, CloseAccount(i) PROVE TypeOK'
  <2>1. clerk[i].email \in Mail
    BY <1>4 DEF CloseAccount, Live, TypeOK, Account
  <2> QED
    BY <1>4, <2>1, ClerkTypes
<1>5. ASSUME NEW i \in Identity, NEW m \in Mail, SignUp(i, m) \/ ChangeEmail(i, m) PROVE TypeOK'
  BY <1>5, ClerkTypes
<1>6. CASE Next
  BY <1>3, <1>4, <1>5, <1>6, WebhookType DEF Next
<1> QED
  BY <1>1, <1>6

\* Every variable keeps its type, for any sets of people, addresses and requests.
THEOREM TypeCorrect == Spec => []TypeOK
<1>1. Init => TypeOK
  BY AccountsAssumption, IdleType DEF Init, TypeOK
<1> QED
  BY <1>1, TypeStep, PTL DEF Spec

(***************************************************************************)
(* What each kind of write leaves of the invariant.                        *)
(***************************************************************************)
LEMMA RequestStays ==
    ASSUME IInv, TypeOK', AccountsGrow, RowsGrow, NEW q \in Proc, request'[q] = request[q]
    PROVE  RequestIsFounded(request[q])'
<1>1. PICK r \in Request : r = request[q]
  BY DEF IInv, TypeOK
<1>2. RequestIsFounded(r)
  BY <1>1 DEF IInv, RequestsAreFounded
<1>3. RequestIsFounded(r)'
  BY <1>2, RequestsSurvive DEF IInv
<1> QED
  BY <1>1, <1>3 DEF RequestIsFounded, KindIsKept

LEMMA RequestsFollow ==
    ASSUME IInv, TypeOK', NEW p \in Proc, \A q \in Proc \ {p} : request'[q] = request[q],
           AccountsGrow, RowsGrow, RequestIsFounded(request[p])'
    PROVE  RequestsAreFounded'
  BY RequestStays DEF RequestsAreFounded

LEMMA AccountsUnchanged == clerk' = clerk => AccountsGrow
  BY DEF AccountsGrow

LEMMA RowsUnchanged ==
    ASSUME IInv, AccountsGrow, UNCHANGED <<users, created>>
    PROVE  RowsGrow /\ RowsAreFounded'
<1>1. \A i \in Identity : created[i] >= created[i]
  BY AccountsAssumption DEF IInv, TypeOK
<1>2. RowsGrow
  BY <1>1 DEF RowsGrow
<1>3. ASSUME NEW i \in Identity, users'[i] # None PROVE RowIsFounded(i)'
  <2>1. RowIsFounded(i)
    BY <1>3 DEF IInv, RowsAreFounded
  <2> QED
    BY <2>1 DEF RowIsFounded, AccountsGrow
<1> QED
  BY <1>2, <1>3 DEF RowsAreFounded

\* A request that only reads, and then has something sound to do.
LEMMA StepKeeps ==
    ASSUME IInv, TypeOK', NEW p \in Proc, \A q \in Proc \ {p} : request'[q] = request[q],
           RequestIsFounded(request[p])', UNCHANGED <<clerk, event, users, created>>
    PROVE  IInv'
<1>1. AccountsGrow /\ RowsGrow /\ RowsAreFounded'
  BY AccountsUnchanged, RowsUnchanged
<1>2. RequestsAreFounded'
  BY <1>1, RequestsFollow
<1>3. EventsAreFounded' /\ FirstRowIsAwaited'
  BY DEF IInv, EventsAreFounded, FirstRowIsAwaited, Awaited, Announced
<1> QED
  BY <1>1, <1>2, <1>3 DEF IInv

LEMMA ReadKeeps ==
    ASSUME IInv, TypeOK', NEW p \in Proc, NEW r, Goto(p, r), RequestIsFounded(r),
           UNCHANGED <<clerk, event, users, created>>
    PROVE  IInv'
<1>1. request'[p] = r /\ \A q \in Proc \ {p} : request'[q] = request[q]
  BY DEF IInv, TypeOK, Goto
<1>2. RequestIsFounded(request[p])'
  BY <1>1 DEF RequestIsFounded, KindIsKept
<1> QED
  BY <1>1, <1>2, StepKeeps

LEMMA IdleIsFounded == RequestIsFounded(Idle)
  BY DEF RequestIsFounded, Idle, ById

\* An UPDATE or a DELETE that keeps the kind of the row.
KindKept(i, row) ==
    row # None =>
        /\ row.id = users[i].id
        /\ OfPerson(users[i].roles) => OfPerson(row.roles)
        /\ OfStaff(users[i].roles) =>
             /\ row.roles = users[i].roles
             /\ ~row.mustChangePassword => ~users[i].mustChangePassword \/ clerk[i].password = "own"

LEMMA RowUpdated ==
    ASSUME IInv, NEW i \in Identity, users[i] # None, NEW row, KindKept(i, row), UpdateRow(i, row),
           clerk' = clerk
    PROVE  RowsGrow /\ RowsAreFounded'
<1>1. /\ users'[i] = row
      /\ \A j \in Identity \ {i} : users'[j] = users[j]
      /\ created' = created
  BY DEF IInv, TypeOK, UpdateRow
<1>2. \A j \in Identity : created[j] >= created[j]
  BY AccountsAssumption DEF IInv, TypeOK
<1>3. RowsGrow
  BY <1>1, <1>2 DEF RowsGrow, KindKept
<1>4. ASSUME NEW j \in Identity, users'[j] # None PROVE RowIsFounded(j)'
  <2>1. CASE j = i
    <3>1. RowIsFounded(i)
      BY DEF IInv, RowsAreFounded
    <3> QED
      BY <1>1, <1>4, <2>1, <3>1 DEF RowIsFounded, KindKept
  <2>2. CASE j # i
    <3>1. users'[j] = users[j] /\ RowIsFounded(j)
      BY <1>1, <1>4, <2>2 DEF IInv, RowsAreFounded
    <3> QED
      BY <1>1, <3>1 DEF RowIsFounded
  <2> QED
    BY <2>1, <2>2
<1> QED
  BY <1>3, <1>4 DEF RowsAreFounded

\* The end of a handler that writes a row by id.
LEMMA WriteKeeps ==
    ASSUME IInv, TypeOK', NEW p \in Proc, NEW row, WriteRow(p, row),
           request[p].who \in Identity,
           StillThere(p) =>
               /\ KindKept(request[p].who, row)
               /\ row # None /\ row.email = Placeholder => Current(p).email = Placeholder
    PROVE  IInv'
<1> DEFINE i == request[p].who
<1>1. request'[p] = Idle /\ \A q \in Proc \ {p} : request'[q] = request[q]
  BY DEF IInv, TypeOK, WriteRow, Goto
<1>2. AccountsGrow /\ clerk' = clerk /\ event' = event
  BY AccountsUnchanged DEF WriteRow
<1>3. RowsGrow /\ RowsAreFounded'
  <2>1. CASE StillThere(p)
    BY <1>2, <2>1, RowUpdated DEF WriteRow, StillThere
  <2>2. CASE ~StillThere(p)
    BY <1>2, <2>2, RowsUnchanged DEF WriteRow
  <2> QED
    BY <2>1, <2>2
<1>4. RequestIsFounded(request[p])'
  BY <1>1, IdleIsFounded DEF RequestIsFounded, Idle, ById
<1>5. RequestsAreFounded'
  BY <1>1, <1>2, <1>3, <1>4, RequestsFollow
<1>6. EventsAreFounded'
  BY <1>2 DEF IInv, EventsAreFounded
<1>7. FirstRowIsAwaited'
  <2>1. ASSUME NEW j \in Identity, Awaited(j)' PROVE Awaited(j)
    <3>1. created' = created
      BY DEF WriteRow, UpdateRow
    <3>2. CASE users'[j] = users[j]
      BY <1>2, <2>1, <3>1, <3>2 DEF Awaited
    <3>3. CASE users'[j] # users[j]
      <4>1. StillThere(p) /\ j = i /\ users'[i] = row
        BY <3>3 DEF WriteRow, UpdateRow, IInv, TypeOK
      <4> QED
        BY <1>2, <2>1, <3>1, <4>1 DEF Awaited, KindKept, StillThere, Current
    <3> QED
      BY <3>2, <3>3
  <2>2. \A j \in Identity : Announced(j)' <=> Announced(j)
    BY <1>2 DEF Announced
  <2> QED
    BY <2>1, <2>2 DEF IInv, FirstRowIsAwaited
<1> QED
  BY <1>3, <1>5, <1>6, <1>7 DEF IInv

\* An insertion: the id of the row is one no request has seen.
LEMMA RowInserted ==
    ASSUME IInv, TypeOK', NEW i \in Identity, NEW m, NEW named, NEW roles, NEW must,
           CanInsert(i, m), InsertRow(i, NewRow(i, m, named, roles, must)),
           clerk' = clerk, clerk[i] \in Account,
           OfPerson(roles) \/ (OfStaff(roles) /\ clerk[i].opener = "admin" /\ must = TRUE)
    PROVE  /\ RowsGrow /\ RowsAreFounded'
           /\ \A j \in Identity : Awaited(j)' => Awaited(j) /\ (j = i => m = Placeholder)
<1> DEFINE row == NewRow(i, m, named, roles, must)
<1>1. /\ row.id = created[i] + 1 /\ row.email = m /\ row.roles = roles
      /\ row.mustChangePassword = must
  BY DEF NewRow
<1>2. /\ users'[i] = row /\ created'[i] = created[i] + 1
      /\ \A j \in Identity \ {i} : users'[j] = users[j] /\ created'[j] = created[j]
  BY DEF InsertRow, IInv, TypeOK
<1>3. \A j \in Identity : created[j] \in Nat
  BY AccountsAssumption DEF IInv, TypeOK
<1> HIDE DEF row
<1>4. RowsGrow
  <2>1. ASSUME NEW j \in Identity, users'[j] # None, users'[j].id <= created[j] PROVE j # i
    BY <1>1, <1>2, <1>3, <2>1
  <2>2. \A j \in Identity : created'[j] >= created[j]
    BY <1>2, <1>3
  <2> QED
    BY <1>2, <2>1, <2>2 DEF RowsGrow
<1>5. RowsAreFounded'
  <2> SUFFICES ASSUME NEW j \in Identity, users'[j] # None PROVE RowIsFounded(j)'
    BY DEF RowsAreFounded
  <2>1. CASE j = i
    BY <1>1, <1>2, <1>3, <2>1 DEF RowIsFounded
  <2>2. CASE j # i
    <3>1. users'[j] = users[j] /\ created'[j] = created[j] /\ RowIsFounded(j)
      BY <1>2, <2>2 DEF IInv, RowsAreFounded
    <3> QED
      BY <3>1 DEF RowIsFounded
  <2> QED
    BY <2>1, <2>2
<1>6. ASSUME NEW j \in Identity, Awaited(j)' PROVE Awaited(j) /\ (j = i => m = Placeholder)
  <2>1. CASE j = i
    <3>1. created[i] = 0 /\ m = Placeholder
      BY <1>1, <1>2, <1>3, <1>6, <2>1 DEF Awaited
    <3> QED
      BY <2>1, <3>1 DEF Awaited
  <2>2. CASE j # i
    BY <1>2, <1>6, <2>2 DEF Awaited
  <2> QED
    BY <2>1, <2>2
<1> QED
  BY <1>4, <1>5, <1>6

\* An insertion by a request: not the first row of a person that nobody announced.
LEMMA InsertKeeps ==
    ASSUME IInv, TypeOK', NEW p \in Proc, \A q \in Proc \ {p} : request'[q] = request[q],
           RequestIsFounded(request[p])', UNCHANGED <<clerk, event>>,
           NEW i \in Identity, NEW m, NEW named, NEW roles, NEW must,
           CanInsert(i, m), InsertRow(i, NewRow(i, m, named, roles, must)),
           clerk[i] \in Account,
           OfPerson(roles) \/ (OfStaff(roles) /\ clerk[i].opener = "admin" /\ must = TRUE)
    PROVE  IInv'
<1>1. AccountsGrow
  BY AccountsUnchanged
<1>2. RowsGrow /\ RowsAreFounded' /\ \A j \in Identity : Awaited(j)' => Awaited(j)
  BY RowInserted
<1>3. RequestsAreFounded'
  BY <1>1, <1>2, RequestsFollow
<1>4. EventsAreFounded' /\ \A j \in Identity : Announced(j)' <=> Announced(j)
  BY DEF IInv, EventsAreFounded, Announced
<1> QED
  BY <1>2, <1>3, <1>4 DEF IInv, FirstRowIsAwaited

\* The handler the guard lets through starts from a row of a known kind.
LEMMA AdmitFounded ==
    ASSUME IInv, NEW p \in Proc, NEW row \in Row, Admit(p, row),
           clerk'[request[p].who] \in Account, users'[request[p].who] = row,
           row.id <= created'[request[p].who], created'[request[p].who] \in Nat,
           OfPerson(row.roles) \/ OfStaff(row.roles)
    PROVE  /\ \A q \in Proc \ {p} : request'[q] = request[q]
           /\ RequestIsFounded(request[p])'
<1> DEFINE i == request[p].who
<1>1. row.id \in Nat /\ row.id >= 1
  BY AccountsAssumption DEF Row
<1>2. created'[i] >= 1
  BY <1>1
<1>3. ~("LOCATAIRE" \in row.roles /\ OfStaff(row.roles))
  BY DEF OfStaff, Staff
<1>4. CASE Goto(p, Idle)
  <2>1. request'[p] = Idle
    BY <1>4 DEF Goto, IInv, TypeOK
  <2> QED
    BY <1>4, <2>1 DEF Goto, IInv, TypeOK, RequestIsFounded, Idle, ById
<1>5. ASSUME NEW op \in SelfOp, Goto(p, Handler(op, i, row))
      PROVE  RequestIsFounded(request[p])'
  <2> DEFINE r == request'[p]
  <2>1. r = Handler(op, i, row)
    BY <1>5 DEF Goto, IInv, TypeOK
  <2>2. r.stage = op /\ r.who = i
    BY <2>1 DEF Handler, SelfOp
  <2>3. op # "sync" => r.id = row.id
    BY <2>1 DEF Handler, SelfOp
  <2>4. op = "activateBailleur" => r.roles = row.roles
    BY <2>1 DEF Handler, SelfOp
  <2> HIDE DEF r
  <2>5. op \notin {"clearFlag", "insert", "insertSynced", "idle", "createUser",
                   "pushRole", "deactivateBailleur"}
    BY DEF SelfOp
  <2>6. r.stage = "activateBailleur" /\ "LOCATAIRE" \in r.roles => OfPerson(users'[r.who].roles)
    BY <1>3, <2>2, <2>4
  <2>7. op = "sync" \/ (op \in ById /\ op # "sync")
    BY DEF SelfOp, ById
  <2>8. KindIsKept(request[p])'
    BY <2>2, <2>5, <2>6 DEF KindIsKept, r
  <2> QED
    BY <1>2, <2>2, <2>3, <2>5, <2>7, <2>8 DEF RequestIsFounded, ById, r
<1> QED
  BY <1>4, <1>5 DEF Admit, Goto, IInv, TypeOK

(***************************************************************************)
(* Invariance, one lemma for each group of actions.                        *)
(***************************************************************************)
\* What an event at Clerk leaves; only the event of a new account is awaited.
LEMMA EmitKeeps ==
    ASSUME IInv, NEW type, NEW i \in Identity, NEW m, Emit(type, i, m),
           UNCHANGED <<users, created>>, AccountsGrow,
           clerk'[i] \in Account, \A j \in Identity \ {i} : clerk'[j] = clerk[j],
           clerk[i] \in Account \/ type = "user.created"
    PROVE  RowsGrow /\ RowsAreFounded' /\ EventsAreFounded' /\ FirstRowIsAwaited'
<1> DEFINE new == [type |-> type, who |-> i, email |-> m, acknowledged |-> FALSE]
<1>1. RowsGrow /\ RowsAreFounded'
  BY RowsUnchanged
<1>2. /\ new \in event' /\ event' \subseteq event \cup {new}
      /\ \A e \in event : e.type # type \/ e.who # i => e \in event'
  BY DEF Emit
<1>3. new.type = type /\ new.who = i /\ new.acknowledged = FALSE
  OBVIOUS
<1> HIDE DEF new
<1>4. EventsAreFounded'
  <2>1. \A e \in event : clerk'[e.who] \in Account
    BY DEF IInv, EventsAreFounded, TypeOK, Event, AccountsGrow
  <2> QED
    BY <1>2, <1>3, <2>1 DEF EventsAreFounded
<1>5. ASSUME NEW j \in Identity, Awaited(j)' PROVE Announced(j)'
  <2>1. CASE j = i /\ type = "user.created"
    BY <1>2, <1>3, <2>1 DEF Announced
  <2>2. CASE j # i \/ type # "user.created"
    <3>1. Awaited(j)
      BY <1>5, <2>2 DEF Awaited
    <3>2. PICK e \in event : e.type = "user.created" /\ e.who = j /\ ~e.acknowledged
      BY <3>1 DEF IInv, FirstRowIsAwaited, Announced
    <3>3. e \in event'
      BY <1>2, <2>2, <3>2
    <3> QED
      BY <3>2, <3>3 DEF Announced
  <2> QED
    BY <2>1, <2>2
<1> QED
  BY <1>1, <1>4, <1>5 DEF FirstRowIsAwaited

LEMMA OpenKeeps ==
    ASSUME IInv, NEW i \in Identity, NEW m \in Mail, NEW password \in {"own", "temporary"},
           NEW opener \in {"user", "admin"}, OpenAccount(i, m, password, opener),
           UNCHANGED <<users, created>>
    PROVE  /\ AccountsGrow /\ RowsGrow /\ RowsAreFounded' /\ EventsAreFounded'
           /\ FirstRowIsAwaited'
           /\ clerk'[i] \in Account /\ clerk'[i].opener = opener
<1> DEFINE account == [live |-> TRUE, email |-> m, password |-> password, opener |-> opener]
<1>1. account \in Account /\ account.opener = opener
  BY DEF Account
<1> HIDE DEF account
<1>2. clerk'[i] = account /\ \A j \in Identity \ {i} : clerk'[j] = clerk[j]
  BY DEF OpenAccount, account, IInv, TypeOK
<1>3. clerk[i] \notin Account
  BY AccountsAssumption DEF OpenAccount
<1>4. AccountsGrow
  BY <1>2, <1>3 DEF AccountsGrow
<1> QED
  BY <1>1, <1>2, <1>4, EmitKeeps DEF OpenAccount

LEMMA ClerkKeeps ==
    ASSUME IInv, TypeOK', NEW i \in Identity,
           \/ \E m \in Mail : SignUp(i, m) \/ ChangeEmail(i, m)
           \/ CloseAccount(i)
    PROVE  IInv'
<1>1. ASSUME AccountsGrow, RowsGrow, request' = request PROVE RequestsAreFounded'
  BY <1>1, RequestStays DEF RequestsAreFounded
<1>2. ASSUME NEW m \in Mail, SignUp(i, m) PROVE IInv'
  <2>1. /\ AccountsGrow /\ RowsGrow /\ RowsAreFounded' /\ EventsAreFounded'
        /\ FirstRowIsAwaited'
    BY <1>2, OpenKeeps DEF SignUp
  <2> QED
    BY <1>1, <1>2, <2>1 DEF SignUp, IInv
<1>3. ASSUME NEW account, clerk[i] \in Account, account \in Account,
             account.opener = clerk[i].opener, account.password = clerk[i].password,
             clerk' = [clerk EXCEPT ![i] = account],
             NEW type, NEW m, Emit(type, i, m), UNCHANGED <<users, created, request>>
      PROVE  IInv'
  <2>1. clerk'[i] = account /\ \A j \in Identity \ {i} : clerk'[j] = clerk[j]
    BY <1>3 DEF IInv, TypeOK
  <2>2. AccountsGrow
    BY <1>3, <2>1 DEF AccountsGrow
  <2>3. RowsGrow /\ RowsAreFounded' /\ EventsAreFounded' /\ FirstRowIsAwaited'
    BY <1>3, <2>1, <2>2, EmitKeeps
  <2> QED
    BY <1>1, <1>3, <2>2, <2>3 DEF IInv
<1>4. Live(i) => clerk[i] \in Account
  BY DEF Live, IInv, TypeOK
<1>5. ASSUME NEW m \in Mail, ChangeEmail(i, m) PROVE IInv'
  <2> DEFINE account == [clerk[i] EXCEPT !.email = m]
  <2>1. /\ account \in Account /\ account.opener = clerk[i].opener
        /\ account.password = clerk[i].password
    BY <1>4, <1>5 DEF ChangeEmail, Account
  <2>2. clerk' = [clerk EXCEPT ![i] = account]
    BY <1>5 DEF ChangeEmail
  <2> QED
    BY <1>3, <1>4, <1>5, <2>1, <2>2 DEF ChangeEmail
<1>6. ASSUME CloseAccount(i) PROVE IInv'
  <2> DEFINE account == [clerk[i] EXCEPT !.live = FALSE]
  <2>1. /\ account \in Account /\ account.opener = clerk[i].opener
        /\ account.password = clerk[i].password
    BY <1>4, <1>6 DEF CloseAccount, Account
  <2>2. clerk' = [clerk EXCEPT ![i] = account]
    BY <1>6 DEF CloseAccount
  <2> QED
    BY <1>3, <1>4, <1>6, <2>1, <2>2 DEF CloseAccount
<1> QED
  BY <1>2, <1>5, <1>6

\* The event that is acknowledged is one its row no longer waits for.
LEMMA WebhookKeeps ==
    ASSUME IInv, TypeOK', NEW e \in event, HandleWebhook(e)
    PROVE  IInv'
<1> DEFINE i == e.who
<1>1. /\ i \in Identity /\ e.email \in Mail /\ e.email # Placeholder
      /\ clerk[i] \in Account
  BY AccountsAssumption DEF IInv, TypeOK, Event, EventsAreFounded
<1>2. AccountsGrow /\ clerk' = clerk /\ request' = request
  BY AccountsUnchanged DEF HandleWebhook
<1>3. ASSUME users[i] # None, UpdateRow(i, FromClerk(users[i], e.email))
      PROVE  /\ RowsGrow /\ RowsAreFounded'
             /\ \A j \in Identity : Awaited(j)' => Awaited(j) /\ j # i
  <2> DEFINE row == FromClerk(users[i], e.email)
  <2>1. users[i] \in Row /\ users[i].id >= 1 /\ users[i].id \in Nat
    BY <1>1, <1>3, AccountsAssumption DEF IInv, TypeOK, Row
  <2>2. /\ row.id = users[i].id /\ row.roles = users[i].roles /\ row.email = e.email
        /\ row.mustChangePassword = users[i].mustChangePassword
    BY <2>1 DEF FromClerk, Row
  <2>3. KindKept(i, row)
    BY <2>2 DEF KindKept
  <2>4. RowsGrow /\ RowsAreFounded'
    BY <1>1, <1>2, <1>3, <2>3, RowUpdated
  <2>5. /\ users'[i] = row /\ created' = created
        /\ \A j \in Identity \ {i} : users'[j] = users[j]
    BY <1>1, <1>3 DEF UpdateRow, IInv, TypeOK
  <2>6. RowIsFounded(i) /\ created[i] # 0
    BY <1>1, <1>3, <2>1, AccountsAssumption DEF IInv, TypeOK, RowsAreFounded, RowIsFounded
  <2>7. ~Awaited(i)'
    BY <1>1, <2>2, <2>5, <2>6 DEF Awaited
  <2> QED
    BY <1>2, <2>4, <2>5, <2>7 DEF Awaited
<1>4. ASSUME UNCHANGED <<users, created>>
      PROVE  RowsGrow /\ RowsAreFounded' /\ \A j \in Identity : Awaited(j)' => Awaited(j)
  BY <1>2, <1>4, RowsUnchanged DEF Awaited
<1>5. /\ RowsGrow /\ RowsAreFounded'
      /\ \A j \in Identity : Awaited(j)' => Awaited(j) /\ (e.type = "user.created" => j # i)
  <2>1. CASE e.type = "user.created" /\ UserCreated(e)
    <3>1. CASE users[i] = None
      <4>1. OfPerson({"LOCATAIRE"})
        BY DEF OfPerson, Staff
      <4> QED
        BY <1>1, <1>2, <2>1, <3>1, <4>1, RowInserted DEF UserCreated
    <3>2. CASE users[i] # None
      BY <1>3, <2>1, <3>2 DEF UserCreated
    <3> QED
      BY <3>1, <3>2
  <2>2. CASE e.type = "user.updated" /\ UserUpdated(e)
    BY <1>3, <1>4, <2>2 DEF UserUpdated
  <2>3. CASE e.type = "user.deleted" /\ UserDeleted(e)
    <3>1. CASE users[i] = None
      <4>1. UNCHANGED <<users, created>>
        BY <1>1, <2>3, <3>1 DEF UserDeleted, UpdateRow, IInv, TypeOK
      <4> QED
        BY <1>4, <2>3, <4>1
    <3>2. CASE users[i] # None
      <4>1. RowsGrow /\ RowsAreFounded'
        BY <1>1, <1>2, <2>3, <3>2, RowUpdated DEF UserDeleted, KindKept
      <4>2. /\ users'[i] = None /\ created' = created
            /\ \A j \in Identity \ {i} : users'[j] = users[j]
        BY <1>1, <2>3 DEF UserDeleted, UpdateRow, IInv, TypeOK
      <4> QED
        BY <1>2, <2>3, <4>1, <4>2 DEF Awaited
    <3> QED
      BY <3>1, <3>2
  <2> QED
    BY <2>1, <2>2, <2>3 DEF HandleWebhook
<1>6. event' = (event \ {e}) \cup {[e EXCEPT !.acknowledged = TRUE]}
  BY DEF HandleWebhook
<1>7. EventsAreFounded'
  <2>1. [e EXCEPT !.acknowledged = TRUE].who = i
    BY DEF IInv, TypeOK, Event
  <2> QED
    BY <1>1, <1>2, <1>6, <2>1 DEF IInv, EventsAreFounded
<1>8. ASSUME NEW j \in Identity, Awaited(j)' PROVE Announced(j)'
  <2>1. PICK d \in event : d.type = "user.created" /\ d.who = j /\ ~d.acknowledged
    BY <1>5, <1>8 DEF IInv, FirstRowIsAwaited, Announced
  <2>2. d # e
    BY <1>5, <1>8, <2>1
  <2> QED
    BY <1>6, <2>1, <2>2 DEF Announced
<1>9. RequestsAreFounded'
  BY <1>2, <1>5, RequestStays DEF RequestsAreFounded
<1> QED
  BY <1>5, <1>7, <1>8, <1>9 DEF IInv, FirstRowIsAwaited

\* The guard.
LEMMA GuardKeeps ==
    ASSUME IInv, TypeOK', NEW p \in Proc,
           \/ \E i \in Identity : Call(p, i)
           \/ FindUser(p) \/ CreateUser(p) \/ FindAgain(p)
    PROVE  IInv'
<1> DEFINE i == request[p].who
<1>1. RequestIsFounded(request[p]) /\ request[p] \in Request
  BY DEF IInv, RequestsAreFounded, TypeOK
<1>2. ASSUME request[p].stage \in {"guard", "create", "refind"}
      PROVE  i \in Identity /\ clerk[i] \in Account
  BY <1>1, <1>2, RequestFields DEF RequestIsFounded
<1>3. ASSUME i \in Identity, clerk[i] \in Account, users[i] # None, Admit(p, users[i]),
             UNCHANGED <<clerk, event, users, created>>
      PROVE  IInv'
  <2>1. users[i] \in Row /\ RowIsFounded(i) /\ created[i] \in Nat
    BY <1>3, AccountsAssumption DEF IInv, TypeOK, RowsAreFounded
  <2>2. /\ \A q \in Proc \ {p} : request'[q] = request[q]
        /\ RequestIsFounded(request[p])'
    BY <1>3, <2>1, AdmitFounded DEF RowIsFounded
  <2> QED
    BY <1>3, <2>2, StepKeeps
<1>4. ASSUME NEW j \in Identity, Call(p, j) PROVE IInv'
  <2> DEFINE r == [stage |-> "guard", who |-> j]
  <2>1. clerk[j] \in Account
    BY <1>4 DEF Call, IInv, TypeOK
  <2>2. RequestIsFounded(r)
    BY <2>1 DEF RequestIsFounded, ById
  <2> QED
    BY <1>4, <2>2, ReadKeeps DEF Call
<1>5. ASSUME NEW stage \in {"create", "refind"}, i \in Identity, clerk[i] \in Account,
             request[p].stage \in {"guard", "create"},
             Goto(p, [request[p] EXCEPT !.stage = stage]),
             UNCHANGED <<clerk, event, users, created>>
      PROVE  IInv'
  <2> DEFINE r == [request[p] EXCEPT !.stage = stage]
  <2>1. r.stage = stage /\ r.who = i
    BY <1>1, <1>5, RequestKinds
  <2> HIDE DEF r
  <2>2. RequestIsFounded(r)
    BY <1>5, <2>1 DEF RequestIsFounded, ById
  <2> QED
    BY <1>5, <2>2, ReadKeeps DEF r
<1>6. ASSUME FindUser(p) PROVE IInv'
  BY <1>2, <1>3, <1>5, <1>6 DEF FindUser, At
<1>7. ASSUME CreateUser(p) PROVE IInv'
  <2> DEFINE row == NewRow(i, Placeholder, FALSE, {"LOCATAIRE"}, FALSE)
  <2>1. i \in Identity /\ clerk[i] \in Account /\ request[p].stage = "create"
    BY <1>2, <1>7 DEF CreateUser, At
  <2>2. CASE users[i] = None
    <3>1. /\ CanInsert(i, Placeholder) /\ InsertRow(i, row) /\ Admit(p, row)
          /\ UNCHANGED <<clerk, event>>
      BY <1>7, <2>2 DEF CreateUser
    <3>2. OfPerson({"LOCATAIRE"})
      BY DEF OfPerson, Staff
    <3>3. /\ row.id = created[i] + 1 /\ row.roles = {"LOCATAIRE"}
          /\ created[i] \in 0 .. MaxRows
      BY <2>1 DEF NewRow, IInv, TypeOK
    <3>4. created'[i] = created[i] + 1 /\ users'[i] = row
      BY <2>1, <3>1 DEF InsertRow, IInv, TypeOK
    <3>5. row \in Row
      <4>1. created[i] + 1 \in 1 .. MaxRows /\ {"LOCATAIRE"} \in SUBSET Role
        BY <3>1, <3>3, AccountsAssumption DEF CanInsert, Role
      <4> QED
        BY <4>1 DEF NewRow, Row
    <3> HIDE DEF row
    <3>6. /\ \A q \in Proc \ {p} : request'[q] = request[q]
          /\ RequestIsFounded(request[p])'
      <4>1. row.id <= created'[i] /\ created'[i] \in Nat
        BY <3>3, <3>4, AccountsAssumption
      <4> QED
        BY <2>1, <3>1, <3>2, <3>3, <3>4, <3>5, <4>1, AdmitFounded
    <3> QED
      BY <2>1, <3>1, <3>2, <3>6, InsertKeeps DEF row
  <2>3. CASE users[i] # None
    BY <1>5, <1>7, <2>1, <2>3 DEF CreateUser
  <2> QED
    BY <2>2, <2>3
<1>8. ASSUME FindAgain(p) PROVE IInv'
  BY <1>2, <1>3, <1>8, ReadKeeps, IdleIsFounded DEF FindAgain, At
<1> QED
  BY <1>4, <1>6, <1>7, <1>8

\* What people do with their own row.
LEMMA OwnKeeps ==
    ASSUME IInv, TypeOK', NEW p \in Proc,
           \/ GetMe(p) \/ Heal(p) \/ UpdateMe(p)
           \/ ChangePassword(p) \/ SetPassword(p) \/ ClearFlag(p)
           \/ ActivateBailleur(p) \/ PushRole(p)
           \/ SyncUser(p) \/ InsertSynced(p)
    PROVE  IInv'
<1> DEFINE r == request[p]
<1> DEFINE i == request[p].who
<1>1. r \in Request /\ RequestIsFounded(r)
  BY DEF IInv, RequestsAreFounded, TypeOK
<1>2. ASSUME r.stage \in ById
      PROVE  /\ i \in Identity /\ clerk[i] \in Account /\ r.id <= created[i]
             /\ StillThere(p) => /\ Current(p) \in Row /\ Current(p) = users[i]
                                /\ users[i] # None /\ users[i].id = r.id
                                /\ RowIsFounded(i) /\ KindIsKept(r)
  <2>1. i \in Identity /\ clerk[i] \in Account /\ r.id <= created[i]
    BY <1>1, <1>2, RequestFields DEF RequestIsFounded, ById
  <2>2. ASSUME StillThere(p)
        PROVE  /\ Current(p) \in Row /\ Current(p) = users[i]
               /\ users[i] # None /\ users[i].id = r.id
               /\ RowIsFounded(i) /\ KindIsKept(r)
    BY <1>1, <1>2, <2>1, <2>2
       DEF StillThere, Current, IInv, TypeOK, RowsAreFounded, RequestIsFounded
  <2> QED
    BY <2>1, <2>2
<1>3. ASSUME NEW useful, NEW next, ReadAgain(p, useful, next),
             StillThere(p) /\ useful => RequestIsFounded(next)
      PROVE  IInv'
  BY <1>3, ReadKeeps, IdleIsFounded DEF ReadAgain
<1>4. ASSUME NEW stage \in {"setPassword", "clearFlag", "pushRole"}, r.stage \in ById,
             StillThere(p), stage = "clearFlag" => clerk[i].password = "own",
             stage = "pushRole" => OfPerson(users[i].roles)
      PROVE  RequestIsFounded(Onto(p, stage))
  <2> DEFINE next == Onto(p, stage)
  <2>1. next.stage = stage /\ next.who = i /\ next.id = r.id
    BY DEF Onto
  <2> HIDE DEF next
  <2>2. KindIsKept(next)
    BY <1>4, <2>1 DEF KindIsKept
  <2>3. RequestIsFounded(next)
    BY <1>2, <1>4, <2>1, <2>2 DEF RequestIsFounded, ById
  <2> QED
    BY <2>3 DEF next
<1>5. ASSUME GetMe(p) PROVE IInv'
  <2> DEFINE next == [stage |-> "heal", who |-> i, id |-> r.id, email |-> clerk[i].email]
  <2>1. r.stage \in ById
    BY <1>5 DEF GetMe, At, ById
  <2>2. KindIsKept(next)
    BY DEF KindIsKept
  <2>3. RequestIsFounded(next)
    BY <1>2, <2>1, <2>2 DEF RequestIsFounded, ById
  <2> QED
    BY <1>3, <1>5, <2>3 DEF GetMe
<1>6. ASSUME Heal(p) PROVE IInv'
  <2> DEFINE row == FromClerk(Current(p), r.email)
  <2>1. r.stage \in ById /\ r.email \in Mail
    BY <1>1, <1>6, RequestKinds DEF Heal, At, ById
  <2>2. StillThere(p) => KindKept(i, row) /\ row.email # Placeholder
    BY <1>2, <2>1, AccountsAssumption DEF KindKept, FromClerk, Row
  <2>3. CASE EmailFree(r.email, i)
    BY <1>2, <1>6, <2>1, <2>2, <2>3, WriteKeeps DEF Heal
  <2>4. CASE ~EmailFree(r.email, i)
    BY <1>6, <2>4, ReadKeeps, IdleIsFounded DEF Heal
  <2> QED
    BY <2>3, <2>4
<1>7. ASSUME UpdateMe(p) PROVE IInv'
  <2> DEFINE row == [Current(p) EXCEPT !.named = TRUE]
  <2>1. r.stage \in ById
    BY <1>7 DEF UpdateMe, At, ById
  <2>2. StillThere(p) => KindKept(i, row) /\ row.email = Current(p).email
    BY <1>2, <2>1 DEF KindKept, Row
  <2> QED
    BY <1>2, <1>7, <2>1, <2>2, WriteKeeps DEF UpdateMe
<1>8. ASSUME ChangePassword(p) PROVE IInv'
  <2>1. r.stage \in ById
    BY <1>8 DEF ChangePassword, At, ById
  <2>2. StillThere(p) => RequestIsFounded(Onto(p, "setPassword"))
    BY <1>4, <2>1
  <2> QED
    BY <1>3, <1>8, <2>2 DEF ChangePassword
<1>9. ASSUME SetPassword(p) PROVE IInv'
  <2>1. r.stage = "setPassword" /\ r.stage \in ById
    BY <1>9 DEF SetPassword, At, ById
  <2>2. CASE Live(i)
    <3> DEFINE account == [clerk[i] EXCEPT !.password = "own"]
    <3>1. /\ account \in Account /\ account.opener = clerk[i].opener
          /\ account.password = "own"
      BY <1>2, <2>1 DEF Account
    <3>2. /\ clerk' = [clerk EXCEPT ![i] = account] /\ Goto(p, Onto(p, "clearFlag"))
          /\ UNCHANGED <<event, users, created>>
      BY <1>9, <2>2 DEF SetPassword
    <3> HIDE DEF account
    <3>3. clerk'[i] = account /\ \A j \in Identity \ {i} : clerk'[j] = clerk[j]
      BY <1>2, <2>1, <3>2 DEF IInv, TypeOK
    <3>4. AccountsGrow
      BY <3>1, <3>3 DEF AccountsGrow
    <3>5. RowsGrow /\ RowsAreFounded'
      BY <3>2, <3>4, RowsUnchanged
    <3>6. /\ request'[p] = Onto(p, "clearFlag")
          /\ \A q \in Proc \ {p} : request'[q] = request[q]
      BY <3>2 DEF Goto, IInv, TypeOK
    <3>7. RequestIsFounded(request[p])'
      <4>1. /\ request'[p].stage = "clearFlag" /\ request'[p].who = i
            /\ request'[p].id = r.id
        BY <3>6 DEF Onto
      <4> QED
        BY <1>2, <2>1, <3>1, <3>2, <3>3, <4>1 DEF RequestIsFounded, KindIsKept, ById
    <3>8. RequestsAreFounded'
      BY <3>4, <3>5, <3>6, <3>7, RequestsFollow
    <3>9. EventsAreFounded' /\ FirstRowIsAwaited'
      <4>1. \A e \in event : clerk'[e.who] \in Account
        BY <3>4 DEF AccountsGrow, IInv, EventsAreFounded, TypeOK, Event
      <4>2. \A j \in Identity : Awaited(j)' => Awaited(j)
        BY <1>2, <2>1, <3>2, <3>3 DEF Awaited
      <4> QED
        BY <3>2, <4>1, <4>2 DEF IInv, EventsAreFounded, FirstRowIsAwaited, Announced
    <3> QED
      BY <3>5, <3>8, <3>9 DEF IInv
  <2>3. CASE ~Live(i)
    BY <1>9, <2>3, ReadKeeps, IdleIsFounded DEF SetPassword
  <2> QED
    BY <2>2, <2>3
<1>10. ASSUME ClearFlag(p) PROVE IInv'
  <2> DEFINE row == [Current(p) EXCEPT !.mustChangePassword = FALSE]
  <2>1. r.stage = "clearFlag" /\ r.stage \in ById
    BY <1>10 DEF ClearFlag, At, ById
  <2>2. clerk[i].password = "own"
    BY <1>1, <2>1 DEF RequestIsFounded
  <2>3. StillThere(p) => KindKept(i, row) /\ row.email = Current(p).email
    BY <1>2, <2>1, <2>2 DEF KindKept, Row
  <2> QED
    BY <1>2, <1>10, <2>1, <2>3, WriteKeeps DEF ClearFlag
<1>11. ASSUME ActivateBailleur(p) PROVE IInv'
  <2>1. r.stage = "activateBailleur" /\ r.stage \in ById
    BY <1>11 DEF ActivateBailleur, At, ById
  <2>2. StillThere(p) /\ "LOCATAIRE" \in r.roles => RequestIsFounded(Onto(p, "pushRole"))
    BY <1>2, <1>4, <2>1 DEF KindIsKept
  <2> QED
    BY <1>3, <1>11, <2>2 DEF ActivateBailleur
<1>12. ASSUME PushRole(p) PROVE IInv'
  <2> DEFINE row == [Current(p) EXCEPT !.roles = @ \cup {"BAILLEUR"}]
  <2>1. r.stage = "pushRole" /\ r.stage \in ById
    BY <1>12 DEF PushRole, At, ById
  <2>2. ASSUME StillThere(p) PROVE KindKept(i, row) /\ row.email = Current(p).email
    <3>1. /\ row.id = users[i].id /\ row.roles = users[i].roles \cup {"BAILLEUR"}
          /\ row.email = Current(p).email
      BY <1>2, <2>1, <2>2 DEF Row
    <3>2. OfPerson(users[i].roles)
      BY <1>2, <2>1, <2>2 DEF KindIsKept
    <3>3. OfPerson(row.roles) /\ ~OfStaff(users[i].roles)
      BY <3>1, <3>2, KindsApart DEF OfPerson, Staff
    <3> QED
      BY <3>1, <3>3 DEF KindKept
  <2> QED
    BY <1>2, <1>12, <2>1, <2>2, WriteKeeps DEF PushRole
<1>13. ASSUME r.stage \in {"sync", "insertSynced"}
       PROVE  i \in Identity /\ clerk[i] \in Account /\ created[i] >= 1
  BY <1>1, <1>13, RequestFields DEF RequestIsFounded
<1>14. ASSUME SyncUser(p) PROVE IInv'
  <2> DEFINE next == [r EXCEPT !.stage = "insertSynced"]
  <2>1. r.stage = "sync"
    BY <1>14 DEF SyncUser, At
  <2>2. next.stage = "insertSynced" /\ next.who = i
    BY <1>1, <2>1, RequestKinds
  <2> HIDE DEF next
  <2>3. RequestIsFounded(next)
    BY <1>13, <2>1, <2>2 DEF RequestIsFounded, ById
  <2> QED
    BY <1>14, <2>3, ReadKeeps, IdleIsFounded DEF SyncUser, next
<1>15. ASSUME InsertSynced(p) PROVE IInv'
  <2>1. r.stage = "insertSynced"
    BY <1>15 DEF InsertSynced, At
  <2>2. CASE CanInsert(i, r.email)
    <3>1. OfPerson({"LOCATAIRE"})
      BY DEF OfPerson, Staff
    <3>2. request'[p] = Idle /\ \A q \in Proc \ {p} : request'[q] = request[q]
      BY <1>15 DEF InsertSynced, Goto, IInv, TypeOK
    <3>3. RequestIsFounded(request[p])'
      BY <3>2 DEF RequestIsFounded, Idle, ById
    <3> QED
      BY <1>13, <1>15, <2>1, <2>2, <3>1, <3>2, <3>3, InsertKeeps DEF InsertSynced
  <2>3. CASE ~CanInsert(i, r.email)
    BY <1>15, <2>3, ReadKeeps, IdleIsFounded DEF InsertSynced
  <2> QED
    BY <2>2, <2>3
<1> QED
  BY <1>5, <1>6, <1>7, <1>8, <1>9, <1>10, <1>11, <1>12, <1>14, <1>15

\* What the admin does.
LEMMA AdminKeeps ==
    ASSUME IInv, TypeOK', NEW p \in Proc,
           \/ \E i \in Identity, op \in AdminOp : FindTarget(p, op, i)
           \/ \E m \in Mail, role \in Staff : CreateStaff(p, m, role)
           \/ CreateAtClerk(p) \/ InsertStaff(p)
           \/ UpdateUser(p) \/ SuspendUser(p) \/ DeleteUser(p) \/ DeactivateBailleur(p)
    PROVE  IInv'
<1> DEFINE r == request[p]
<1> DEFINE i == request[p].who
<1>1. r \in Request /\ RequestIsFounded(r)
  BY DEF IInv, RequestsAreFounded, TypeOK
<1>2. ASSUME r.stage \in ById
      PROVE  /\ i \in Identity
             /\ StillThere(p) => /\ Current(p) \in Row /\ Current(p) = users[i]
                                /\ KindIsKept(r)
  <2>1. i \in Identity
    BY <1>1, <1>2, RequestFields DEF RequestIsFounded, ById
  <2>2. ASSUME StillThere(p)
        PROVE  Current(p) \in Row /\ Current(p) = users[i] /\ KindIsKept(r)
    BY <1>1, <1>2, <2>1, <2>2 DEF StillThere, Current, IInv, TypeOK, RequestIsFounded
  <2> QED
    BY <2>1, <2>2
<1>3. ASSUME NEW j \in Identity, NEW op \in AdminOp, FindTarget(p, op, j) PROVE IInv'
  <2>1. users[j] # None /\ RowIsFounded(j)
    BY <1>3 DEF FindTarget, IInv, RowsAreFounded
  <2>2. CASE op = "suspendUser"
    <3> DEFINE next == [stage |-> op, who |-> j, id |-> users[j].id,
                        isSuspended |-> users[j].isSuspended]
    <3>1. RequestIsFounded(next)
      BY <2>1, <2>2 DEF RequestIsFounded, KindIsKept, RowIsFounded, ById
    <3> QED
      BY <1>3, <2>2, <3>1, ReadKeeps DEF FindTarget
  <2>3. CASE op = "deactivateBailleur"
    <3> DEFINE next == [stage |-> op, who |-> j, id |-> users[j].id, roles |-> users[j].roles]
    <3>1. next.stage = op /\ next.who = j /\ next.id = users[j].id /\ next.roles = users[j].roles
      OBVIOUS
    <3> HIDE DEF next
    <3>2. KindIsKept(next)
      BY <2>1, <2>3, <3>1 DEF KindIsKept, RowIsFounded
    <3>3. RequestIsFounded(next)
      BY <2>1, <2>3, <3>1, <3>2 DEF RequestIsFounded, RowIsFounded, ById
    <3> QED
      BY <1>3, <2>3, <3>3, ReadKeeps DEF FindTarget, next
  <2>4. CASE op \in {"updateUser", "deleteUser"}
    <3> DEFINE next == [stage |-> op, who |-> j, id |-> users[j].id]
    <3>1. RequestIsFounded(next)
      BY <2>1, <2>4 DEF RequestIsFounded, KindIsKept, RowIsFounded, ById
    <3> QED
      BY <1>3, <2>4, <3>1, ReadKeeps DEF FindTarget
  <2> QED
    BY <2>2, <2>3, <2>4 DEF AdminOp
<1>4. ASSUME NEW m \in Mail, NEW role \in Staff, CreateStaff(p, m, role) PROVE IInv'
  <2> DEFINE next == [stage |-> "createUser", email |-> m, role |-> role]
  <2>1. RequestIsFounded(next)
    BY DEF RequestIsFounded, ById
  <2> QED
    BY <1>4, <2>1, ReadKeeps DEF CreateStaff
<1>5. ASSUME CreateAtClerk(p) PROVE IInv'
  <2>1. r.email \in Mail
    BY <1>1, <1>5, RequestKinds DEF CreateAtClerk, At
  <2>2. ASSUME NEW j \in Identity, OpenAccount(j, r.email, "temporary", "admin"),
               Goto(p, [stage |-> "insert", who |-> j, email |-> r.email, role |-> r.role]),
               UNCHANGED <<users, created>>
        PROVE  IInv'
    <3>1. /\ AccountsGrow /\ RowsGrow /\ RowsAreFounded' /\ EventsAreFounded'
          /\ FirstRowIsAwaited'
          /\ clerk'[j] \in Account /\ clerk'[j].opener = "admin"
      BY <2>1, <2>2, OpenKeeps
    <3>2. /\ request'[p].stage = "insert" /\ request'[p].who = j
          /\ \A q \in Proc \ {p} : request'[q] = request[q]
      BY <2>2 DEF Goto, IInv, TypeOK
    <3>3. RequestIsFounded(request[p])'
      BY <3>1, <3>2 DEF RequestIsFounded, ById
    <3>4. RequestsAreFounded'
      BY <3>1, <3>2, <3>3, RequestsFollow
    <3> QED
      BY <3>1, <3>4 DEF IInv
  <2>3. CASE Goto(p, Idle) /\ UNCHANGED <<clerk, event, users, created>>
    BY <2>3, ReadKeeps, IdleIsFounded
  <2> QED
    BY <1>5, <2>2, <2>3 DEF CreateAtClerk
<1>6. ASSUME InsertStaff(p) PROVE IInv'
  <2>1. i \in Identity /\ r.role \in Staff /\ clerk[i] \in Account /\ clerk[i].opener = "admin"
    BY <1>1, <1>6, RequestFields, RequestKinds DEF InsertStaff, At, RequestIsFounded
  <2>2. CASE CanInsert(i, r.email) /\ InsertRow(i, NewRow(i, r.email, TRUE, {r.role}, TRUE))
    <3>1. OfStaff({r.role})
      BY <2>1 DEF OfStaff
    <3>2. request'[p] = Idle /\ \A q \in Proc \ {p} : request'[q] = request[q]
      BY <1>6 DEF InsertStaff, Goto, IInv, TypeOK
    <3>3. RequestIsFounded(request[p])'
      BY <3>2 DEF RequestIsFounded, Idle, ById
    <3>4. UNCHANGED <<clerk, event>>
      BY <1>6 DEF InsertStaff
    <3> QED
      BY <2>1, <2>2, <3>1, <3>2, <3>3, <3>4, InsertKeeps
  <2>3. CASE UNCHANGED <<users, created>>
    BY <1>6, <2>3, ReadKeeps, IdleIsFounded DEF InsertStaff
  <2> QED
    BY <1>6, <2>2, <2>3 DEF InsertStaff
<1>7. ASSUME UpdateUser(p) PROVE IInv'
  <2> DEFINE row == [Current(p) EXCEPT !.named = TRUE]
  <2>1. r.stage \in ById
    BY <1>7 DEF UpdateUser, At, ById
  <2>2. StillThere(p) => KindKept(i, row) /\ row.email = Current(p).email
    BY <1>2, <2>1 DEF KindKept, Row
  <2> QED
    BY <1>2, <1>7, <2>1, <2>2, WriteKeeps DEF UpdateUser
<1>8. ASSUME SuspendUser(p) PROVE IInv'
  <2> DEFINE row == [Current(p) EXCEPT !.isSuspended = ~r.isSuspended]
  <2>1. r.stage \in ById
    BY <1>8 DEF SuspendUser, At, ById
  <2>2. StillThere(p) => KindKept(i, row) /\ row.email = Current(p).email
    BY <1>2, <2>1 DEF KindKept, Row
  <2> QED
    BY <1>2, <1>8, <2>1, <2>2, WriteKeeps DEF SuspendUser
<1>9. ASSUME DeleteUser(p) PROVE IInv'
  <2>1. r.stage \in ById /\ KindKept(i, None)
    BY <1>9 DEF DeleteUser, At, ById, KindKept
  <2> QED
    BY <1>2, <1>9, <2>1, WriteKeeps DEF DeleteUser
<1>10. ASSUME DeactivateBailleur(p) PROVE IInv'
  <2> DEFINE row == [Current(p) EXCEPT !.roles = r.roles \ {"BAILLEUR"}]
  <2>1. r.stage = "deactivateBailleur" /\ r.stage \in ById
    BY <1>10 DEF DeactivateBailleur, At, ById
  <2>2. ASSUME StillThere(p) PROVE KindKept(i, row) /\ row.email = Current(p).email
    <3>1. /\ row.id = users[i].id /\ row.roles = r.roles \ {"BAILLEUR"}
          /\ row.email = Current(p).email
          /\ row.mustChangePassword = users[i].mustChangePassword
      BY <1>2, <2>1, <2>2 DEF Row
    <3>2. \/ OfPerson(users[i].roles) /\ OfPerson(r.roles)
          \/ OfStaff(users[i].roles) /\ r.roles = users[i].roles
      BY <1>2, <2>1, <2>2 DEF KindIsKept
    <3>3. CASE OfPerson(users[i].roles) /\ OfPerson(r.roles)
      <4>1. OfPerson(row.roles) /\ ~OfStaff(users[i].roles)
        BY <3>1, <3>3, KindsApart DEF OfPerson
      <4> QED
        BY <3>1, <4>1 DEF KindKept
    <3>4. CASE OfStaff(users[i].roles) /\ r.roles = users[i].roles
      <4>1. row.roles = users[i].roles /\ ~OfPerson(users[i].roles)
        BY <3>1, <3>4, KindsApart DEF OfStaff, Staff
      <4> QED
        BY <3>1, <4>1 DEF KindKept
    <3> QED
      BY <3>2, <3>3, <3>4
  <2> QED
    BY <1>2, <1>10, <2>1, <2>2, WriteKeeps DEF DeactivateBailleur
<1> QED
  BY <1>3, <1>4, <1>5, <1>6, <1>7, <1>8, <1>9, <1>10

LEMMA InvariantStep == IInv /\ [Next]_vars => IInv'
<1> SUFFICES ASSUME IInv, [Next]_vars PROVE IInv'
  OBVIOUS
<1>1. TypeOK'
  BY TypeStep DEF IInv
<1>2. CASE UNCHANGED vars
  <2>1. AccountsGrow /\ RowsGrow /\ RowsAreFounded'
    BY <1>2, AccountsUnchanged, RowsUnchanged DEF vars
  <2>2. RequestsAreFounded'
    BY <1>1, <1>2, <2>1, RequestStays DEF vars, RequestsAreFounded
  <2>3. EventsAreFounded' /\ FirstRowIsAwaited'
    BY <1>2 DEF vars, IInv, EventsAreFounded, FirstRowIsAwaited, Awaited, Announced
  <2> QED
    BY <1>1, <2>1, <2>2, <2>3 DEF IInv
<1>3. ASSUME NEW p \in Proc, Step(p) PROVE IInv'
  <2>1. ASSUME Abort(p) PROVE IInv'
    BY <1>1, <2>1, ReadKeeps, IdleIsFounded DEF Abort
  <2> QED
    BY <1>1, <1>3, <2>1, GuardKeeps, OwnKeeps, AdminKeeps DEF Step
<1>4. CASE Next
  BY <1>1, <1>3, <1>4, ClerkKeeps, WebhookKeeps DEF Next
<1> QED
  BY <1>2, <1>4

\* The rows stay founded on accounts, requests and events, whatever order the
\* guard, the webhook, the admin and the handlers run in.
THEOREM Invariance == Spec => []IInv
<1>1. Init => IInv
  <2>1. Init => TypeOK
    BY AccountsAssumption, IdleType DEF Init, TypeOK
  <2> QED
    BY <2>1, IdleIsFounded, AccountsAssumption
       DEF Init, IInv, RowsAreFounded, RequestsAreFounded, EventsAreFounded,
           FirstRowIsAwaited, Awaited
<1> QED
  BY <1>1, InvariantStep, PTL DEF Spec

(***************************************************************************)
(* The properties the run checks.                                          *)
(***************************************************************************)
\* The roles of agents and agencies are never mixed with the others, and belong
\* to accounts the admin opened: two requests of the admin and of the person,
\* each writing the roles it read, cannot produce anything else.
THEOREM StaffApart == Spec => []StaffStaysApart
<1>1. IInv => StaffStaysApart
  BY DEF IInv, RowsAreFounded, RowIsFounded, StaffStaysApart, OfPerson, OfStaff
<1> QED
  BY <1>1, Invariance, PTL

\* The row of an agent or an agency that no longer asks for a new password
\* belongs to an account whose temporary password has been replaced.
THEOREM PasswordReplaced == Spec => []TemporaryPasswordReplaced
<1>1. IInv => TemporaryPasswordReplaced
  BY DEF IInv, RowsAreFounded, RowIsFounded, TemporaryPasswordReplaced, OfPerson
<1> QED
  BY <1>1, Invariance, PTL

\* A person's first row has placeholder data only while Clerk still has to
\* deliver the event that brings the address.
THEOREM PlaceholderAwaited == Spec => []PlaceholderAwaitsEvent
<1>1. IInv => PlaceholderAwaitsEvent
  BY DEF IInv, FirstRowIsAwaited, Awaited, PlaceholderAwaitsEvent
<1> QED
  BY <1>1, Invariance, PTL
=============================================================================
