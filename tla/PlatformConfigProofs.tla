------------------------ MODULE PlatformConfigProofs ------------------------
(***************************************************************************)
(* Theorems about PlatformConfig: what notice and cancellation guarantee,  *)
(* for any number of admins, requests, fields and scheduled changes.       *)
(***************************************************************************)
EXTENDS PlatformConfig, TLAPS

USE ConfigAssumption, NullAssumption

(***************************************************************************)
(* The inductive invariant.  A change that has left the row never returns, *)
(* what a request read under the name of a change is what the row holds    *)
(* under that name, and the announcement matches the scheduled prices.     *)
(***************************************************************************)
Typed ==
    /\ row \in Row \cup {None}
    /\ row # None => (row.next = None <=> row.change = None)
    /\ request \in [Proc -> Request \cup {None}]
    /\ told \in SUBSET Field
    /\ overtaken \in BOOLEAN

Known == applied \cup withdrawn \cup (IF row = None THEN {} ELSE {row.change})

\* A request that is about to write has read a row.
ReadOK(r) ==
    /\ r.stage = "promote" =>
         /\ r.read \in Row
         /\ r.read.change \in elapsed
         /\ r.read.change # None
         /\ r.read.next \in Prices
    /\ r.stage = "write" =>
         /\ r.read \in Row
         /\ ~NothingToDo(r, r.read)
         /\ r.op = "updateConfig" => r.form \in Prices
    /\ r.stage \in {"promote", "write"} =>
         /\ row # None
         /\ r.read.change \in Known \cup {None}
         /\ r.read.change = None => r.read.next = None
         /\ r.read.change = row.change => r.read.next = row.next
    /\ r.op = "updateConfig" => r.form \in Prices

ChangesOnce ==
    ~overtaken => /\ applied \cap withdrawn = {}
                  /\ row # None => row.change \notin applied \cup withdrawn

ToldIsNext ==
    ~overtaken /\ row # None /\ row.change # None
        => told = {f \in Field : row.next[f] # row.live[f]}

IInv ==
    /\ Typed
    /\ applied \subseteq elapsed
    /\ None \notin applied \cup withdrawn
    /\ \A p \in Proc : request[p] # None => ReadOK(request[p])
    /\ ChangesOnce
    /\ ToldIsNext

\* Steps that leave the row and its history alone, and let no request read anything:
\* they keep, enter, advance or end requests that have not read the row.
LEMMA RowUntouched ==
    ASSUME IInv, NEW req \in [Proc -> Request \cup {None}], request' = req,
           UNCHANGED <<row, told, applied, withdrawn>>, elapsed \subseteq elapsed',
           overtaken' \in BOOLEAN, overtaken => overtaken',
           \A p \in Proc : req[p] # None => req[p] = request[p] \/ ReadOK(req[p])
    PROVE  IInv'
<1>1. Typed'
  BY DEF IInv, Typed
<1>2. ASSUME NEW p \in Proc, req[p] # None
      PROVE  ReadOK(request[p])'
  <2>1. ReadOK(req[p])
    BY <1>2 DEF IInv
  <2> QED BY <2>1 DEF ReadOK, Known, NothingToDo, ChangedFields
<1> QED BY <1>1, <1>2 DEF IInv, ChangesOnce, ToldIsNext

LEMMA EnterKeeps ==
    ASSUME IInv, NEW p \in Proc, NEW op \in Operation, NEW a \in Admin \cup {None},
           NEW confirm \in Pin \cup Otp \cup {None}, NEW form \in Prices \cup {None},
           NEW later \in BOOLEAN, op = "updateConfig" => form \in Prices,
           Enter(p, op, a, confirm, form, later)
    PROVE  IInv'
<1> DEFINE r == [op |-> op, admin |-> a, confirm |-> confirm, form |-> form, later |-> later,
          stage |-> IF confirm = None THEN "row" ELSE IF confirm \in Pin THEN "pin" ELSE "find",
          for |-> IF confirm \in Pin THEN "pin" ELSE "row", read |-> None]
           req == [request EXCEPT ![p] = r]
<1>1. r \in Request /\ r.stage \in {"row", "pin", "find"} /\ r.op = op /\ r.form = form
  BY DEF Request
<1> HIDE DEF r
<1>2. req \in [Proc -> Request \cup {None}]
  BY <1>1 DEF IInv, Typed
<1>3. ReadOK(r)
  BY <1>1 DEF ReadOK
<1>4. \A q \in Proc : req[q] = request[q] \/ req[q] = r
  BY DEF IInv, Typed
<1>5. request' = req /\ UNCHANGED <<row, elapsed, told, applied, withdrawn, overtaken>>
  BY DEF Enter, r, history
<1> HIDE DEF req
<1> QED BY <1>2, <1>3, <1>4, <1>5, RowUntouched DEF IInv, Typed

LEMMA AdminAsksKeeps ==
    ASSUME IInv, NEW p \in Proc, GetPricing(p) \/ \E a \in Admin : AdminAsks(p, a)
    PROVE  IInv'
<1> USE DEF Operation
<1>1. CASE GetPricing(p)
  <2>1. Enter(p, "getPricing", None, None, None, FALSE)
    BY <1>1 DEF GetPricing
  <2> QED BY <2>1, EnterKeeps
<1>2. ASSUME NEW a \in Admin, GetConfig(p, a)
      PROVE  IInv'
  <2>1. Enter(p, "getConfig", a, None, None, FALSE)
    BY <1>2 DEF GetConfig
  <2> QED BY <2>1, EnterKeeps
<1>3. ASSUME NEW a \in Admin, NEW confirm \in Pin \cup Otp, CancelPendingChange(p, a, confirm)
      PROVE  IInv'
  <2>1. Enter(p, "cancelPendingChange", a, confirm, None, FALSE)
    BY <1>3 DEF CancelPendingChange
  <2> QED BY <2>1, EnterKeeps
<1>4. ASSUME NEW a \in Admin, NEW confirm \in Pin \cup Otp, ChangePin(p, a, confirm)
      PROVE  IInv'
  <2>1. Enter(p, "changePin", a, confirm, None, FALSE)
    BY <1>4 DEF ChangePin
  <2> QED BY <2>1, EnterKeeps
<1>5. ASSUME NEW a \in Admin, NEW confirm \in Pin \cup Otp, NEW form \in Prices,
             NEW later \in BOOLEAN, UpdateConfig(p, a, confirm, form, later)
      PROVE  IInv'
  <2>1. Enter(p, "updateConfig", a, confirm, form, later)
    BY <1>5 DEF UpdateConfig
  <2> QED BY <2>1, EnterKeeps
<1> QED BY <1>1, <1>2, <1>3, <1>4, <1>5 DEF AdminAsks

\* A request that ends, or that goes on to another read.
LEMMA AdvanceKeeps ==
    ASSUME IInv, NEW p \in Proc, request[p] # None,
           NEW r \in Request \cup {None}, request' = [request EXCEPT ![p] = r],
           r # None => /\ r.stage \in {"consume", "row", "create", "pin", "find"}
                       /\ r.op = "updateConfig" => r.form \in Prices,
           UNCHANGED <<row, elapsed, told, applied, withdrawn>>,
           overtaken' \in BOOLEAN, overtaken => overtaken'
    PROVE  IInv'
<1> DEFINE req == [request EXCEPT ![p] = r]
<1>1. req \in [Proc -> Request \cup {None}]
  BY DEF IInv, Typed
<1>2. \A q \in Proc : req[q] = request[q] \/ req[q] = r
  BY DEF IInv, Typed
<1>3. r # None => ReadOK(r)
  BY DEF ReadOK
<1> HIDE DEF req
<1> QED BY <1>1, <1>2, <1>3, RowUntouched DEF req

LEMMA CodesKeep ==
    ASSUME IInv, NEW p \in Proc, FindOtp(p) \/ ConsumeOtp(p) \/ Abort(p)
    PROVE  IInv'
<1> USE DEF history
<1>1. request[p] \in Request /\ ReadOK(request[p])
  BY DEF IInv, Typed, FindOtp, ConsumeOtp, Consume, Abort
<1> DEFINE r == request[p]
           e == [r EXCEPT !.stage = "consume"]
           d == [r EXCEPT !.stage = "row", !.confirm = None]
<1>2. /\ e \in Request /\ e.stage = "consume" /\ e.op = r.op /\ e.form = r.form
      /\ d \in Request /\ d.stage = "row" /\ d.op = r.op /\ d.form = r.form
  BY <1>1 DEF Request
<1>3. r.op = "updateConfig" => r.form \in Prices
  BY <1>1 DEF ReadOK
<1>4. CASE Refuse(p) /\ UNCHANGED <<row, elapsed, told, applied, withdrawn, overtaken>>
  BY <1>1, <1>4, AdvanceKeeps DEF Refuse, IInv, Typed, FindOtp, Abort
<1>5. CASE /\ request' = [request EXCEPT ![p] = e]
           /\ UNCHANGED <<row, elapsed, told, applied, withdrawn, overtaken>>
  <2>1. e # None /\ request[p] # None
    BY <1>1, <1>2
  <2> HIDE DEF e
  <2> QED BY <1>1, <1>2, <1>3, <1>5, <2>1, AdvanceKeeps DEF IInv, Typed
<1>6. CASE ConsumeOtp(p)
  <2>1. request' = [request EXCEPT ![p] = d]
    BY <1>6 DEF ConsumeOtp, Consume
  <2>2. UNCHANGED <<row, elapsed, told, applied, withdrawn>> /\ overtaken' \in BOOLEAN
        /\ (overtaken => overtaken')
    BY <1>6 DEF ConsumeOtp, Consume, IInv, Typed
  <2> HIDE DEF d
  <2> QED BY <1>1, <1>2, <1>3, <1>6, <2>1, <2>2, AdvanceKeeps DEF ConsumeOtp, Consume
<1>7. FindOtp(p) => /\ UNCHANGED <<row, elapsed, told, applied, withdrawn, overtaken>>
                    /\ Refuse(p) \/ request' = [request EXCEPT ![p].stage = "consume"]
  BY DEF FindOtp
<1>8. Abort(p) => Refuse(p) /\ UNCHANGED <<row, elapsed, told, applied, withdrawn, overtaken>>
  BY DEF Abort
<1>9. [request EXCEPT ![p].stage = "consume"] = [request EXCEPT ![p] = e]
  BY <1>1 DEF IInv, Typed
<1> HIDE DEF e, d
<1> QED BY <1>4, <1>5, <1>6, <1>7, <1>8, <1>9

(***************************************************************************)
(* What follows getOrCreateRow, on the row as it is then.                  *)
(***************************************************************************)
LEMMA ProceedSteps ==
    ASSUME IInv, NEW p \in Proc, request[p] # None, NEW got \in Row,
           got.change = None => got.next = None,
           Proceed(p, request[p], got)
    PROVE  \E s \in Request \cup {None} :
             /\ request' = [request EXCEPT ![p] = s]
             /\ s # None => /\ s.op = "updateConfig" => s.form \in Prices
                            /\ \/ s.stage = "row"
                               \/ /\ s.stage = "write" /\ s.read = got
                                  /\ ~NothingToDo(s, got)
<1> DEFINE r == request[p]
           e == [r EXCEPT !.stage = "row", !.for = "row", !.confirm = None, !.read = None]
           w == [r EXCEPT !.stage = "write", !.read = got]
<1>1. r \in Request /\ (r.op = "updateConfig" => r.form \in Prices)
  BY DEF IInv, Typed, ReadOK
<1>2. /\ e \in Request /\ e.stage = "row" /\ e.op = r.op /\ e.form = r.form
      /\ w \in Request /\ w.stage = "write" /\ w.op = r.op /\ w.form = r.form /\ w.read = got
  BY <1>1 DEF Request
<1>3. NothingToDo(w, got) = NothingToDo(r, got)
  BY <1>2 DEF NothingToDo, ChangedFields
<1>4. \/ request' = [request EXCEPT ![p] = None]
      \/ request' = [request EXCEPT ![p] = e]
      \/ request' = [request EXCEPT ![p] = w] /\ ~NothingToDo(r, got)
  BY DEF Proceed, Refuse, Finish
<1> HIDE DEF e, w
<1> QED BY <1>1, <1>2, <1>3, <1>4

\* A step that may change the row, and lets one request read the new one.
LEMMA RowWritten ==
    ASSUME IInv, NEW p \in Proc, NEW s \in Request \cup {None},
           request' = [request EXCEPT ![p] = s],
           s # None => /\ s.op = "updateConfig" => s.form \in Prices
                       /\ \/ s.stage = "row"
                          \/ s.stage = "write" /\ s.read = row' /\ ~NothingToDo(s, s.read),
           row' \in Row, row'.next = None <=> row'.change = None,
           told' \in SUBSET Field, overtaken' \in BOOLEAN, overtaken => overtaken',
           elapsed' = elapsed, applied \subseteq applied', withdrawn \subseteq withdrawn',
           applied' \subseteq elapsed, None \notin applied' \cup withdrawn',
           row # None => row.change \in Known' \cup {None},
           \A q \in Proc : request[q] # None /\ request[q].stage \in {"promote", "write"} /\ q # p =>
               (request[q].read.change = row'.change => request[q].read.next = row'.next),
           ChangesOnce', ToldIsNext'
    PROVE  IInv'
<1>1. Typed'
  BY DEF IInv, Typed
<1>2. Known \subseteq Known' \cup {None}
  BY DEF Known
<1>3. ASSUME NEW q \in Proc, request'[q] # None
      PROVE  ReadOK(request[q])'
  <2>1. CASE q # p
    <3>1. request'[q] = request[q] /\ ReadOK(request[q])
      BY <1>3, <2>1 DEF IInv, Typed
    <3>2. row' # None
      OBVIOUS
    <3> QED BY <1>2, <1>3, <2>1, <3>1, <3>2 DEF ReadOK, NothingToDo, ChangedFields
  <2>2. CASE q = p
    <3>1. request'[q] = s
      BY <2>2 DEF IInv, Typed
    <3>2. row' # None
      OBVIOUS
    <3> QED BY <1>3, <3>1, <3>2 DEF ReadOK, Known, NothingToDo, ChangedFields
  <2> QED BY <2>1, <2>2
<1> QED BY <1>1, <1>3 DEF IInv

LEMMA ReadRowKeeps ==
    ASSUME IInv, NEW p \in Proc, ReadRow(p)
    PROVE  IInv'
<1> DEFINE r == request[p]
           u == [r EXCEPT !.stage = "create"]
           d == [r EXCEPT !.stage = "promote", !.read = row]
<1>1. r \in Request /\ r # None /\ ReadOK(r)
      /\ UNCHANGED <<row, elapsed, told, applied, withdrawn, overtaken>>
  BY DEF IInv, Typed, ReadRow, history
<1>2. CASE row = None
  <2>1. u \in Request /\ u.stage = "create" /\ u.op = r.op /\ u.form = r.form
    BY <1>1 DEF Request
  <2>2. request' = [request EXCEPT ![p] = u]
    BY <1>1, <1>2 DEF ReadRow, IInv, Typed
  <2> HIDE DEF u
  <2> QED BY <1>1, <2>1, <2>2, AdvanceKeeps DEF IInv, Typed, ReadOK
<1>3. CASE row # None /\ IsDue(row)
  <2>1. row \in Row /\ row.change # None /\ row.change \in elapsed /\ row.next \in Prices
    BY <1>3 DEF IInv, Typed, IsDue, Row
  <2>2. d \in Request /\ d.stage = "promote" /\ d.read = row /\ d.op = r.op /\ d.form = r.form
    BY <1>1, <2>1 DEF Request
  <2>3. request' = [request EXCEPT ![p] = d]
    BY <1>1, <1>3 DEF ReadRow, IInv, Typed
  <2> HIDE DEF d
  <2>4. ReadOK(d)
    BY <1>1, <1>3, <2>1, <2>2 DEF ReadOK, Known
  <2> DEFINE req == [request EXCEPT ![p] = d]
  <2>5. req \in [Proc -> Request \cup {None}] /\ \A q \in Proc : req[q] = request[q] \/ req[q] = d
    BY <2>2 DEF IInv, Typed
  <2> HIDE DEF req
  <2> QED BY <1>1, <2>3, <2>4, <2>5, RowUntouched DEF req, IInv, Typed
<1>4. CASE row # None /\ ~IsDue(row)
  <2>1. row \in Row /\ (row.change = None => row.next = None)
    BY <1>4 DEF IInv, Typed
  <2>2. Proceed(p, request[p], row)
    BY <1>4 DEF ReadRow
  <2>3. PICK s \in Request \cup {None} :
             /\ request' = [request EXCEPT ![p] = s]
             /\ s # None => /\ s.op = "updateConfig" => s.form \in Prices
                            /\ \/ s.stage = "row"
                               \/ /\ s.stage = "write" /\ s.read = row
                                  /\ ~NothingToDo(s, row)
    BY <1>1, <2>1, <2>2, ProceedSteps
  <2>4. s # None => ReadOK(s)
    BY <1>4, <2>1, <2>3 DEF ReadOK, Known
  <2> DEFINE req == [request EXCEPT ![p] = s]
  <2>5. req \in [Proc -> Request \cup {None}] /\ \A q \in Proc : req[q] = request[q] \/ req[q] = s
    BY DEF IInv, Typed
  <2> HIDE DEF req
  <2> QED BY <1>1, <2>3, <2>4, <2>5, RowUntouched DEF req, IInv, Typed
<1> QED BY <1>2, <1>3, <1>4

LEMMA CreateRowKeeps ==
    ASSUME IInv, NEW p \in Proc, CreateRow(p)
    PROVE  IInv'
<1>1. request[p] # None /\ UNCHANGED <<elapsed, told, applied, withdrawn, overtaken>>
  BY DEF CreateRow, history
<1>2. CASE row # None
  <2>1. request' = [request EXCEPT ![p] = None] /\ row' = row
    BY <1>2 DEF CreateRow, Refuse
  <2> QED BY <1>1, <2>1, AdvanceKeeps DEF IInv, Typed
<1>3. CASE row = None
  <2>1. row' = DefaultRow /\ Proceed(p, request[p], DefaultRow)
    BY <1>3 DEF CreateRow
  <2>2. DefaultRow \in Row /\ DefaultRow.change = None /\ DefaultRow.next = None
    BY DEF DefaultRow, Row, Prices
  <2> HIDE DEF DefaultRow
  <2>3. PICK s \in Request \cup {None} :
             /\ request' = [request EXCEPT ![p] = s]
             /\ s # None => /\ s.op = "updateConfig" => s.form \in Prices
                            /\ \/ s.stage = "row"
                               \/ /\ s.stage = "write" /\ s.read = DefaultRow
                                  /\ ~NothingToDo(s, DefaultRow)
    BY <1>1, <2>1, <2>2, ProceedSteps
  <2>4. \A q \in Proc : request[q] # None => request[q].stage \notin {"promote", "write"}
    BY <1>3 DEF IInv, ReadOK
  <2>5. ChangesOnce' /\ ToldIsNext'
    BY <1>1, <2>1, <2>2 DEF IInv, ChangesOnce, ToldIsNext
  <2> QED BY <1>1, <1>3, <2>1, <2>2, <2>3, <2>4, <2>5, RowWritten DEF IInv, Typed
<1> QED BY <1>2, <1>3

\* A write that leaves no scheduled change in the row.
LEMMA ChangeRemoved ==
    ASSUME IInv, NEW p \in Proc, row # None, NEW written \in Row, row' = written,
           written.change = None, written.next = None,
           NEW s \in Request \cup {None}, request' = [request EXCEPT ![p] = s],
           s # None => /\ s.op = "updateConfig" => s.form \in Prices
                       /\ \/ s.stage = "row"
                          \/ s.stage = "write" /\ s.read = written /\ ~NothingToDo(s, s.read),
           NEW c \in elapsed \cup {None}, c # None => c \in Known,
           applied' = applied \cup ({c} \ {None}), withdrawn' = withdrawn \cup Dropped(written, c),
           told' = {}, overtaken' \in BOOLEAN, overtaken => overtaken',
           ~overtaken' /\ c # None => c = row.change,
           elapsed' = elapsed
    PROVE  IInv'
<1>1. row.change \in Known' \cup {None} /\ applied' \subseteq elapsed
      /\ None \notin applied' \cup withdrawn'
  BY DEF IInv, Dropped, Known
<1>2. ChangesOnce' /\ ToldIsNext'
  BY DEF IInv, Dropped, ChangesOnce, ToldIsNext
<1>3. \A q \in Proc : request[q] # None /\ request[q].stage \in {"promote", "write"} =>
         (request[q].read.change = None => request[q].read.next = None)
  BY DEF IInv, ReadOK
<1>4. written # None
  OBVIOUS
<1> QED BY <1>1, <1>2, <1>3, <1>4, RowWritten

LEMMA PromoteIfDueKeeps ==
    ASSUME IInv, NEW p \in Proc, PromoteIfDue(p)
    PROVE  IInv' /\ request[p].read.change \in elapsed
<1> DEFINE r == request[p]
           promoted == [row EXCEPT !.live = r.read.next, !.change = None, !.next = None]
<1>1. /\ r # None /\ row # None /\ row \in Row /\ r.read.next \in Prices
      /\ r.read.change \in elapsed /\ r.read.change # None /\ r.read.change \in Known
  BY DEF IInv, Typed, PromoteIfDue, ReadOK
<1>2. promoted \in Row /\ promoted.change = None /\ promoted.next = None
  BY <1>1 DEF Row
<1>3. /\ row' = promoted /\ Proceed(p, r, promoted)
      /\ applied' = applied \cup {r.read.change}
      /\ withdrawn' = withdrawn \cup Dropped(promoted, r.read.change)
      /\ told' = {} /\ elapsed' = elapsed
      /\ overtaken' = (overtaken \/ Overtaken(r))
  BY DEF PromoteIfDue
<1>4. overtaken' \in BOOLEAN /\ (overtaken => overtaken')
      /\ (~overtaken' => r.read.change = row.change)
  BY <1>3 DEF Overtaken, IInv, Typed
<1> HIDE DEF promoted
<1>5. PICK s \in Request \cup {None} :
             /\ request' = [request EXCEPT ![p] = s]
             /\ s # None => /\ s.op = "updateConfig" => s.form \in Prices
                            /\ \/ s.stage = "row"
                               \/ /\ s.stage = "write" /\ s.read = promoted
                                  /\ ~NothingToDo(s, promoted)
  BY <1>1, <1>2, <1>3, ProceedSteps
<1>6. applied' = applied \cup ({r.read.change} \ {None})
  BY <1>1, <1>3
<1> QED BY <1>1, <1>2, <1>3, <1>4, <1>5, <1>6, ChangeRemoved

LEMMA RemovalKeeps ==
    ASSUME IInv, NEW p \in Proc, ApplyNow(p) \/ WriteCancel(p)
    PROVE  IInv'
<1> DEFINE r == request[p]
<1>1. /\ r # None /\ row # None /\ row \in Row /\ r.stage = "write"
      /\ r.op = "updateConfig" => r.form \in Prices
  BY DEF IInv, Typed, ApplyNow, WriteCancel, AtWrite, ReadOK
<1>2. PICK live \in Prices : row' = [row EXCEPT !.live = live, !.change = None, !.next = None]
                             /\ Respond(p, r, row')
  <2>1. CASE ApplyNow(p)
    BY <1>1, <2>1 DEF ApplyNow, Respond, AtWrite
  <2>2. CASE WriteCancel(p)
    <3>1. row.live \in Prices
      BY <1>1 DEF Row
    <3>2. [row EXCEPT !.change = None, !.next = None]
            = [row EXCEPT !.live = row.live, !.change = None, !.next = None]
      BY <1>1 DEF Row
    <3> QED BY <2>2, <3>1, <3>2 DEF WriteCancel, Respond
  <2> QED BY <2>1, <2>2
<1> DEFINE written == [row EXCEPT !.live = live, !.change = None, !.next = None]
<1>3. written \in Row /\ written.change = None /\ written.next = None
  BY <1>1 DEF Row
<1>4. /\ row' = written /\ withdrawn' = withdrawn \cup Dropped(written, None)
      /\ overtaken' = (overtaken \/ Overtaken(r)) /\ applied' = applied /\ elapsed' = elapsed
      /\ request' = [request EXCEPT ![p] = None] /\ told' = {}
  BY <1>2 DEF Respond, Finish, ApplyNow, WriteCancel
<1>5. overtaken' \in BOOLEAN /\ (overtaken => overtaken')
  BY <1>4 DEF Overtaken, IInv, Typed
<1> HIDE DEF written
<1>6. applied' = applied \cup ({None} \ {None})
  BY <1>4
<1> QED BY <1>1, <1>3, <1>4, <1>5, <1>6, ChangeRemoved

LEMMA ScheduleKeeps ==
    ASSUME IInv, NEW p \in Proc, NEW c \in Change, Schedule(p, c)
    PROVE  IInv'
<1> DEFINE r == request[p]
           written == [row EXCEPT !.change = c, !.next = r.form]
<1>1. /\ r # None /\ row # None /\ row \in Row /\ r.form \in Prices /\ c # None
      /\ c \notin applied \cup withdrawn \cup {row.change}
  BY DEF IInv, Typed, Schedule, AtWrite, ReadOK
<1>2. written \in Row /\ written.change = c /\ written.next = r.form /\ written.live = row.live
      /\ written.next # None
  <2>1. r.form # None /\ c \in Change \cup {None} /\ r.form \in Prices \cup {None}
    BY <1>1 DEF Prices
  <2>2. written.change = c /\ written.next = r.form /\ written.live = row.live
    BY <1>1 DEF Row
  <2>3. written \in Row
    BY <1>1, <2>1 DEF Row
  <2> QED BY <2>1, <2>2, <2>3
<1>3. /\ row' = written /\ withdrawn' = withdrawn \cup Dropped(written, None)
      /\ overtaken' = (overtaken \/ Overtaken(r)) /\ applied' = applied /\ elapsed' = elapsed
      /\ request' = [request EXCEPT ![p] = None] /\ told' = ChangedFields(r, r.read)
  BY DEF Respond, Finish, Schedule
<1>4. overtaken' \in BOOLEAN /\ (overtaken => overtaken')
      /\ (~overtaken' => ~overtaken /\ r.read.live = row.live)
  BY <1>3 DEF Overtaken, IInv, Typed
<1> HIDE DEF written
<1>5. row.change \in Known' \cup {None} /\ None \notin applied' \cup withdrawn'
  BY <1>1, <1>2, <1>3 DEF IInv, Dropped, Known
<1>6. ChangesOnce'
  BY <1>1, <1>2, <1>3, <1>4 DEF IInv, Dropped, ChangesOnce
<1>7. told' \in SUBSET Field /\ ToldIsNext'
  BY <1>1, <1>2, <1>3, <1>4 DEF ToldIsNext, ChangedFields
<1>8. \A q \in Proc : request[q] # None /\ request[q].stage \in {"promote", "write"} =>
         request[q].read.change # c
  BY <1>1 DEF IInv, ReadOK, Known
<1>9. applied \subseteq elapsed
  BY DEF IInv
<1> QED BY <1>1, <1>2, <1>3, <1>4, <1>5, <1>6, <1>7, <1>8, <1>9, RowWritten

LEMMA WritePinKeeps ==
    ASSUME IInv, NEW p \in Proc, NEW pin \in Pin, WritePin(p, pin)
    PROVE  IInv'
<1> DEFINE written == [row EXCEPT !.pin = pin]
<1>1. request[p] # None /\ row # None /\ row \in Row /\ (row.next = None <=> row.change = None)
  BY DEF IInv, Typed, WritePin, AtWrite, ReadOK
<1>2. written \in Row /\ written.change = row.change /\ written.next = row.next
      /\ written.live = row.live
  BY <1>1 DEF Row
<1>3. /\ row' = written /\ request' = [request EXCEPT ![p] = None]
      /\ UNCHANGED <<elapsed, told, applied, withdrawn, overtaken>>
  BY DEF WritePin, Finish, history
<1> HIDE DEF written
<1>4. ChangesOnce' /\ ToldIsNext'
  BY <1>1, <1>2, <1>3 DEF IInv, ChangesOnce, ToldIsNext
<1>5. \A q \in Proc : request[q] # None /\ request[q].stage \in {"promote", "write"} =>
         (request[q].read.change = row.change => request[q].read.next = row.next)
  BY DEF IInv, ReadOK
<1>6. row.change \in Known'
  BY <1>1, <1>2, <1>3 DEF Known
<1> QED BY <1>1, <1>2, <1>3, <1>4, <1>5, <1>6, RowWritten DEF IInv, Typed

LEMMA Invariance ==
    Init /\ [][Next]_vars => []IInv
<1>1. Init => IInv
  BY DEF Init, IInv, Typed, ChangesOnce, ToldIsNext
<1>2. ASSUME IInv, [Next]_vars
      PROVE  IInv'
  <2>1. ASSUME NEW p \in Proc, Serve(p)
        PROVE  IInv'
    BY <1>2, <2>1, AdminAsksKeeps, CodesKeep, ReadRowKeeps, CreateRowKeeps, PromoteIfDueKeeps,
       RemovalKeeps, ScheduleKeeps, WritePinKeeps DEF Serve
  <2>2. CASE /\ UNCHANGED <<row, request, told, applied, withdrawn, overtaken>>
             /\ elapsed \subseteq elapsed'
    BY <1>2, <2>2, RowUntouched DEF IInv, Typed
  <2> QED BY <1>2, <2>1, <2>2 DEF Next, OtpExpires, RequestOtp, NoticeElapses, vars, history
<1> QED BY <1>1, <1>2, PTL

-----------------------------------------------------------------------------
(***************************************************************************)
(* The theorems.                                                           *)
(***************************************************************************)

\* No scheduled change becomes live before its notice is over, even when requests
\* overwrite each other (getOrCreateRow, promoteIfDue).
THEOREM NoticeIsRespected == Spec => []NoticeRespected
<1>1. IInv => NoticeRespected
  BY DEF IInv, NoticeRespected
<1> QED BY <1>1, Invariance, PTL DEF Spec

\* A change cancelled or replaced never becomes live unless a request wrote over
\* another's write.
THEOREM WithdrawnStaysWithdrawn == Spec => []WithdrawnNeverApplies
<1>1. IInv => WithdrawnNeverApplies
  BY DEF IInv, ChangesOnce, WithdrawnNeverApplies
<1> QED BY <1>1, Invariance, PTL DEF Spec

\* The prices that move when a scheduled change becomes live are those announced,
\* under the same proviso.
THEOREM ChangeAppliesAsTold == Spec => AppliedAsTold
<1>1. ASSUME IInv, [Next]_vars
      PROVE  [\A c \in applied' \ applied :
                 ~overtaken' => {f \in Field : row'.live[f] # row.live[f]} = told]_vars
  <2>1. ASSUME NEW p \in Proc, PromoteIfDue(p), ~overtaken'
        PROVE  {f \in Field : row'.live[f] # row.live[f]} = told
    <3>1. /\ row \in Row /\ row # None /\ ~overtaken
          /\ request[p].read.change # None /\ request[p].read.next = row.next
          /\ row.change = request[p].read.change
      BY <1>1, <2>1 DEF PromoteIfDue, Overtaken, IInv, Typed, ReadOK
    <3>2. row'.live = row.next
      BY <2>1, <3>1 DEF PromoteIfDue, Row
    <3> QED BY <1>1, <3>1, <3>2 DEF IInv, ToldIsNext
  <2>2. CASE ~(\E p \in Proc : PromoteIfDue(p))
    <3>1. ASSUME NEW p \in Proc, NEW a \in Admin, AdminAsks(p, a)
          PROVE  applied' = applied
      BY <3>1 DEF AdminAsks, GetConfig, UpdateConfig, CancelPendingChange, ChangePin, Enter, history
    <3>2. ASSUME NEW p \in Proc, \/ FindOtp(p) \/ ConsumeOtp(p) \/ ReadRow(p) \/ CreateRow(p)
                                 \/ Abort(p) \/ GetPricing(p)
          PROVE  applied' = applied
      BY <3>2 DEF FindOtp, ConsumeOtp, Consume, ReadRow, CreateRow, Abort, GetPricing, Enter, history
    <3>3. ASSUME NEW p \in Proc, \/ ApplyNow(p) \/ WriteCancel(p) \/ \E c \in Change : Schedule(p, c)
                                 \/ \E pin \in Pin : WritePin(p, pin)
          PROVE  applied' = applied
      BY <3>3 DEF ApplyNow, WriteCancel, Schedule, Respond, WritePin, history
    <3>4. (\E a \in Admin : OtpExpires(a) \/ \E o \in Otp : RequestOtp(a, o)) \/ NoticeElapses
             \/ UNCHANGED vars => applied' = applied
      BY DEF OtpExpires, RequestOtp, NoticeElapses, vars, history
    <3> QED BY <1>1, <2>2, <3>1, <3>2, <3>3, <3>4 DEF Next, Serve
  <2> QED BY <2>1, <2>2
<1> QED BY <1>1, Invariance, PTL DEF Spec, AppliedAsTold
=============================================================================
