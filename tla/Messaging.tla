----------------------------- MODULE Messaging -----------------------------
(***************************************************************************)
(* The conversations about one listing: rooms between its owner and those  *)
(* who write to him, messages, read receipts, the recount of masked        *)
(* contact details; and MessagesShell, the page of a user, between the     *)
(* answers of the server and the events that Soketi pushes to it.          *)
(***************************************************************************)
EXTENDS Naturals, Sequences, FiniteSets, Orders

CONSTANTS
    Tenant,
    Owner,
    Viewer,   \* the users who read through a MessagesShell; the others only write to them
    Room,
    Bound,     \* the messages are 1 .. Bound, in the order of their rows
    AtOnce,   \* how many counts, or insertions of a room, may be in flight for a user
    Null      \* a null

User == Tenant \cup {Owner}
Message == 1 .. Bound

\* Contact details are masked when a text is stored; a voice message is an address.
Content == {"text", "masked", "voice"}

MessageRow == [room : Room, sender : User, content : Content, read : BOOLEAN, deleted : BOOLEAN]

\* A message posted by handleSend or sendVoice; id is that of the row once inserted.
Posting == [room : Room, content : Content, id : Message \cup {Null}]

ASSUME MessagingAssumption ==
    /\ Owner \notin Tenant
    /\ Viewer \subseteq User
    /\ {Bound, AtOnce} \subseteq Nat
    /\ Null \notin User \cup Room \cup Message \cup MessageRow \cup Posting

CIRCUMVENTION_ALERT_THRESHOLD == 3

VARIABLES
    tenantOf,   \* the tenant of each room, Null for a room not created
    message,
    creating,   \* createRoom: how many requests for a tenant found no room
    counting,   \* how many recounts of a sender's masked messages are to come
    shell,      \* the page of each viewer
    loads,      \* the runs of loadMessages
    marks,      \* the requests markRead that an event has caused
    events,     \* what Soketi has still to deliver
    posting,    \* the message of each viewer on its way to the server and back
    received,   \* history: the messages that reached the page of their reader
    missed,     \* history: those that could not, the page being open without them
    alerted,    \* history: the senders the admins have been told of
    miscounted  \* history: those of whom a recount failed or overlapped a write

messagingVars == <<tenantOf, message, creating, counting, shell, loads, marks, events, posting,
                   received, missed, alerted, miscounted>>

\* activeRoomId, messages, and whether the subscription to the room is in force.
Shell == [room : Room \cup {Null}, list : Seq(Message), joined : BOOLEAN]

\* A run of loadMessages fetches the room, shows it and then posts that it is read.
RoomLoad == [user : Viewer, room : Room, stage : {"fetch", "show", "read"}, seen : SUBSET Message]

Mark == [user : Viewer, room : Room]

Event == [to : Viewer, id : Message]

MessagingTypes ==
    /\ tenantOf \in [Room -> Tenant \cup {Null}]
    /\ message \in [Message -> MessageRow \cup {Null}]
    /\ creating \in [Tenant -> 0 .. AtOnce]
    /\ counting \in [User -> 0 .. AtOnce]
    /\ shell \in [Viewer -> Shell]
    /\ loads \subseteq RoomLoad
    /\ marks \subseteq Mark
    /\ events \subseteq Event
    /\ posting \in [Viewer -> Posting \cup {Null}]
    /\ received \cup missed \subseteq Message
    /\ alerted \cup miscounted \subseteq User

MessagingInit ==
    /\ tenantOf = [r \in Room |-> Null]
    /\ message = [m \in Message |-> Null]
    /\ creating = [t \in Tenant |-> 0]
    /\ counting = [u \in User |-> 0]
    /\ shell = [u \in Viewer |-> [room |-> Null, list |-> <<>>, joined |-> FALSE]]
    /\ loads = {}
    /\ marks = {}
    /\ events = {}
    /\ posting = [u \in Viewer |-> Null]
    /\ received = {}
    /\ missed = {}
    /\ alerted = {}
    /\ miscounted = {}

Stored == {m \in Message : message[m] # Null}

In(r) == {m \in Stored : message[m].room = r}

Participants(r) == {tenantOf[r], Owner}

Reader(r, sender) == CHOOSE u \in Participants(r) : u # sender

-----------------------------------------------------------------------------
(***************************************************************************)
(* Rooms.                                                                  *)
(***************************************************************************)

RoomsOf(t) == {r \in Room : tenantOf[r] = t}

\* createRoom, called by the tenant or by the owner: a room that exists is returned.
LookForRoom(t) ==
    /\ RoomsOf(t) = {}
    /\ creating[t] < AtOnce
    /\ creating' = [creating EXCEPT ![t] = @ + 1]
    /\ UNCHANGED <<tenantOf, message, counting, shell, loads, marks, events, posting,
                   received, missed, alerted, miscounted>>

InsertRoom(t, r) ==
    /\ creating[t] > 0
    /\ tenantOf[r] = Null
    /\ creating' = [creating EXCEPT ![t] = @ - 1]
    /\ tenantOf' = [tenantOf EXCEPT ![r] = t]
    /\ UNCHANGED <<message, counting, shell, loads, marks, events, posting,
                   received, missed, alerted, miscounted>>

-----------------------------------------------------------------------------
(***************************************************************************)
(* Messages at the server.                                                 *)
(***************************************************************************)

\* The writes that a recount in flight for u may or may not see.
Recount(u, content) ==
    /\ counting' = IF content = "masked" THEN [counting EXCEPT ![u] = @ + 1] ELSE counting
    /\ miscounted' = IF counting[u] > 0 THEN miscounted \cup {u} ELSE miscounted

Joined(u, r) == shell[u].room = r /\ shell[u].joined

\* Requests that will mark the room as read and can no longer show a new message.
Marking(u, r) ==
    \/ [user |-> u, room |-> r] \in marks
    \/ \E l \in loads : l.user = u /\ l.room = r /\ l.stage # "fetch"

\* The page of u is on the room, not yet subscribed, and has already fetched it.
Deaf(u, r) ==
    /\ shell[u].room = r
    /\ ~shell[u].joined
    /\ ~\E l \in loads : l.user = u /\ l.room = r /\ l.stage = "fetch"

\* sendMessage: the row is inserted, the room is told, a masked text is counted.
Store(m, r, u, content) ==
    LET reader == Reader(r, u) IN
    /\ m = Cardinality(Stored) + 1
    /\ m <= Bound
    /\ content = "masked" => counting[u] < AtOnce
    /\ message' = [message EXCEPT ![m] = [room |-> r, sender |-> u, content |-> content,
                                          read |-> FALSE, deleted |-> FALSE]]
    /\ events' = events \cup {[to |-> v, id |-> m] : v \in {x \in Viewer : Joined(x, r)}}
    /\ missed' = IF reader \in Viewer /\ ~Joined(reader, r) /\ (Marking(reader, r) \/ Deaf(reader, r))
                   THEN missed \cup {m} ELSE missed
    /\ Recount(u, content)

\* Another page sends: the contact card of the listing, or the conversation page.
SendMessage(u, r, m, content) ==
    /\ u \in Participants(r) \ Viewer
    /\ tenantOf[r] # Null
    /\ Store(m, r, u, content)
    /\ UNCHANGED <<tenantOf, creating, shell, loads, marks, posting, received, alerted>>

\* editMessage; a message deleted since it was looked up stays deleted.
EditWithout(u, m) ==                             \* mutant: an edit is not recounted
    /\ message[m] # Null
    /\ message[m].sender = u
    /\ ~message[m].deleted
    /\ message[m].content # "voice"
    /\ \E content \in {"text", "masked"} :
         /\ message' = [message EXCEPT ![m].content = content]
         /\ Recount(u, "text")
    /\ UNCHANGED <<tenantOf, creating, shell, loads, marks, events, posting, received, missed,
                   alerted>>

EditMessage(u, m) ==
    /\ message[m] # Null
    /\ message[m].sender = u
    /\ ~message[m].deleted
    /\ message[m].content # "voice"
    /\ \E content \in {"text", "masked"} :
         /\ content = "masked" => counting[u] < AtOnce
         /\ message' = [message EXCEPT ![m].content = content]
         /\ Recount(u, content)
    /\ UNCHANGED <<tenantOf, creating, shell, loads, marks, events, posting, received, missed,
                   alerted>>

DeleteMessage(u, m) ==
    /\ message[m] # Null
    /\ message[m].sender = u
    /\ message' = [message EXCEPT ![m].deleted = TRUE]
    /\ UNCHANGED <<tenantOf, creating, counting, shell, loads, marks, events, posting,
                   received, missed, alerted, miscounted>>

\* A deleted row keeps its content and counts.
Masked(u) == {m \in Stored : message[m].sender = u /\ message[m].content = "masked"}

\* logAndMaybeAlertCircumvention, some time after the write; all happens within a day.
CountMasked(u) ==
    LET count == Cardinality(Masked(u)) IN
    /\ counting[u] > 0
    /\ counting' = [counting EXCEPT ![u] = @ - 1]
    /\ alerted' = IF /\ count >= CIRCUMVENTION_ALERT_THRESHOLD
                     /\ count % CIRCUMVENTION_ALERT_THRESHOLD = 0
                    THEN alerted \cup {u} ELSE alerted
    /\ UNCHANGED <<tenantOf, message, creating, shell, loads, marks, events, posting,
                   received, missed, miscounted>>

\* The count throws, or the server stops before it.
CountFails(u) ==
    /\ counting[u] > 0
    /\ counting' = [counting EXCEPT ![u] = @ - 1]
    /\ miscounted' = miscounted \cup {u}
    /\ UNCHANGED <<tenantOf, message, creating, shell, loads, marks, events, posting,
                   received, missed, alerted>>

ReadEverywhere(u, r) == {m \in Stored : message[m].sender # u}  \* mutant: no room in the filter

\* markRead: the messages of the room by somebody else.
ToRead(u, r) == {m \in In(r) : message[m].sender # u}

Read(u, r) ==
    message' = [m \in Message |-> IF m \in ToRead(u, r) THEN [message[m] EXCEPT !.read = TRUE]
                                                        ELSE message[m]]

-----------------------------------------------------------------------------
(***************************************************************************)
(* MessagesShell.                                                          *)
(***************************************************************************)

\* The page unsubscribes: what Soketi had for it is dropped.  What is dropped while the
\* old room is being marked as read, or was already, will not be seen.
LeaveRoom(u) ==
    LET dropped == {e \in events : e.to = u} IN
    /\ events' = events \ dropped
    /\ missed' = missed \cup {m \in {e.id : e \in dropped} :
                                /\ message[m].sender # u
                                /\ message[m].read \/ Marking(u, message[m].room)}

\* A room is chosen in the list, or named by the address: its messages are loaded.
OpenRoom(u, r) ==
    /\ tenantOf[r] # Null
    /\ u \in Participants(r)
    /\ r # shell[u].room
    /\ shell' = [shell EXCEPT ![u] = [room |-> r, list |-> <<>>, joined |-> FALSE]]
    /\ loads' = loads \cup {[user |-> u, room |-> r, stage |-> "fetch", seen |-> {}]}
    /\ LeaveRoom(u)
    /\ UNCHANGED <<tenantOf, message, creating, counting, marks, posting, received, alerted,
                   miscounted>>

\* Back to the list, on a small screen; the messages are kept, unseen.
CloseRoom(u) ==
    /\ shell[u].room # Null
    /\ shell' = [shell EXCEPT ![u].room = Null, ![u].joined = FALSE]
    /\ LeaveRoom(u)
    /\ UNCHANGED <<tenantOf, message, creating, counting, loads, marks, posting, received, alerted,
                   miscounted>>

\* The subscription to the room is in force.
Join(u) ==
    /\ shell[u].room # Null
    /\ ~shell[u].joined
    /\ shell' = [shell EXCEPT ![u].joined = TRUE]
    /\ UNCHANGED <<tenantOf, message, creating, counting, loads, marks, events, posting,
                   received, missed, alerted, miscounted>>

\* findMessages; the fifty latest, more than the model has.
AnswerLoad(l) ==
    /\ l.stage = "fetch"
    /\ loads' = (loads \ {l}) \cup {[l EXCEPT !.stage = "show", !.seen = In(l.room)]}
    /\ UNCHANGED <<tenantOf, message, creating, counting, shell, marks, events, posting,
                   received, missed, alerted, miscounted>>

\* The answer replaces the messages of the page, whichever room it is on by now.
ShowLoad(l) ==
    /\ l.stage = "show"
    /\ shell' = [shell EXCEPT ![l.user].list = InOrder(l.seen)]
    /\ received' = received \cup {m \in l.seen : message[m].sender # l.user}
    /\ loads' = (loads \ {l}) \cup {[l EXCEPT !.stage = "read"]}
    /\ UNCHANGED <<tenantOf, message, creating, counting, marks, events, posting,
                   missed, alerted, miscounted>>

ReadLoad(l) ==
    /\ l.stage = "read"
    /\ Read(l.user, l.room)
    /\ loads' = loads \ {l}
    /\ UNCHANGED <<tenantOf, creating, counting, shell, marks, events, posting,
                   received, missed, alerted, miscounted>>

\* A request of the run fails, and its error is swallowed: nothing will fetch the room
\* again while the page stays on it.
LoadIsLost(l) ==
    /\ loads' = loads \ {l}
    /\ missed' = IF l.stage = "read" THEN missed
                   ELSE missed \cup {m \in In(l.room) \ received : message[m].sender # l.user}
    /\ UNCHANGED <<tenantOf, message, creating, counting, shell, marks, events, posting,
                   received, alerted, miscounted>>

Shown(u) == {shell[u].list[i] : i \in 1 .. Len(shell[u].list)}

\* The event new-message: somebody else's message is marked as read at once.
Deliver(e) ==
    LET r == message[e.id].room IN
    /\ events' = events \ {e}
    /\ shell' = IF e.id \in Shown(e.to) THEN shell
                  ELSE [shell EXCEPT ![e.to].list = Append(@, e.id)]
    /\ IF message[e.id].sender # e.to
         THEN /\ received' = received \cup {e.id}
              /\ marks' = marks \cup {[user |-> e.to, room |-> r]}
         ELSE UNCHANGED <<received, marks>>
    /\ UNCHANGED <<tenantOf, message, creating, counting, loads, posting,
                   missed, alerted, miscounted>>

\* The trigger fails, or the connection.
LoseEvent(e) ==
    /\ events' = events \ {e}
    /\ missed' = missed \cup ({e.id} \cap {m \in Stored : message[m].sender # e.to})
    /\ UNCHANGED <<tenantOf, message, creating, counting, shell, loads, marks, posting,
                   received, alerted, miscounted>>

MarkRead(k) ==
    /\ marks' = marks \ {k}
    /\ Read(k.user, k.room)
    /\ UNCHANGED <<tenantOf, creating, counting, shell, loads, events, posting,
                   received, missed, alerted, miscounted>>

LoseMark(k) ==
    /\ marks' = marks \ {k}
    /\ UNCHANGED <<tenantOf, message, creating, counting, shell, loads, events, posting,
                   received, missed, alerted, miscounted>>

\* handleSend and sendVoice; the flag "sending" lets one message go at a time.
HandleSend(u, content) ==
    /\ shell[u].room # Null
    /\ posting[u] = Null
    /\ posting' = [posting EXCEPT ![u] = [room |-> shell[u].room, content |-> content, id |-> Null]]
    /\ UNCHANGED <<tenantOf, message, creating, counting, shell, loads, marks, events,
                   received, missed, alerted, miscounted>>

ServeSend(u, m) ==
    LET p == posting[u] IN
    /\ p # Null
    /\ p.id = Null
    /\ Store(m, p.room, u, p.content)
    /\ posting' = [posting EXCEPT ![u].id = m]
    /\ UNCHANGED <<tenantOf, creating, shell, loads, marks, received, alerted>>

SendIsAnswered(u, shown) ==
    /\ posting[u] # Null
    /\ posting[u].id # Null
    /\ shell' = [shell EXCEPT ![u].list = shown]
    /\ posting' = [posting EXCEPT ![u] = Null]
    /\ UNCHANGED <<tenantOf, message, creating, counting, loads, marks, events,
                   received, missed, alerted, miscounted>>

AppendAnswer(u) == SendIsAnswered(u, Append(shell[u].list, posting[u].id))  \* mutant: as in ChatRoom

SendAnswered(u) ==
    LET id == posting[u].id IN
    SendIsAnswered(u, IF id \in Shown(u) THEN shell[u].list ELSE Append(shell[u].list, id))

\* An error before or after the insertion, or a reply to a message of another room,
\* which sendMessage refuses: the text is back in the field.
SendFails(u) ==
    /\ posting[u] # Null
    /\ posting' = [posting EXCEPT ![u] = Null]
    /\ UNCHANGED <<tenantOf, message, creating, counting, shell, loads, marks, events,
                   received, missed, alerted, miscounted>>

OnPage(u) ==
    \/ \E r \in Room : OpenRoom(u, r)
    \/ CloseRoom(u)
    \/ Join(u)
    \/ \E content \in Content : HandleSend(u, content)
    \/ \E m \in Message : ServeSend(u, m)
    \/ SendAnswered(u)
    \/ SendFails(u)

AtServer(u) ==
    \/ \E m \in Message : EditMessage(u, m) \/ DeleteMessage(u, m)
    \/ \E r \in Room, m \in Message, content \in Content : SendMessage(u, r, m, content)
    \/ CountMasked(u)
    \/ CountFails(u)

MessagingNext ==
    \/ \E t \in Tenant : LookForRoom(t) \/ \E r \in Room : InsertRoom(t, r)
    \/ \E u \in User : AtServer(u)
    \/ \E u \in Viewer : OnPage(u)
    \/ \E l \in loads : AnswerLoad(l) \/ ShowLoad(l) \/ ReadLoad(l) \/ LoadIsLost(l)
    \/ \E e \in events : Deliver(e) \/ LoseEvent(e)
    \/ \E k \in marks : MarkRead(k) \/ LoseMark(k)

MessagingSpec == MessagingInit /\ [][MessagingNext]_messagingVars

-----------------------------------------------------------------------------
(***************************************************************************)
(* Safety.                                                                 *)
(***************************************************************************)

\* No message is twice in the list of the page, whichever comes first of the answer to
\* its author, the event, and the answer of a load (handleSend, new-message).
NothingTwice ==
    \A u \in Viewer : \A i, j \in DOMAIN shell[u].list : shell[u].list[i] = shell[u].list[j] => i = j

\* An event or a run of loadMessages will show it.
OnItsWay(m, u) ==
    \/ [to |-> u, id |-> m] \in events
    \/ \E l \in loads :
          /\ l.user = u
          /\ l.room = message[m].room
          /\ l.stage = "fetch" \/ (l.stage = "show" /\ m \in l.seen)

\* A message marked as read has reached its reader's page, or is on its way there, but for
\* those that the page missed: lost by Soketi, dropped when the room was left, in a load
\* that failed, or inserted between the fetch and the subscription (markRead).
ReadWasReceived ==
    \A m \in Stored :
        LET reader == Reader(message[m].room, message[m].sender) IN
        reader \in Viewer /\ message[m].read =>
            (m \in received \cup missed) \/ OnItsWay(m, reader)

\* A sender with three masked messages has been reported to the admins once the recounts
\* are done, edits included, unless a recount failed or overlapped another write of his.
AlertedAtThree ==
    \A u \in User :
        (/\ counting[u] = 0
         /\ u \notin miscounted
         /\ Cardinality(Masked(u)) >= CIRCUMVENTION_ALERT_THRESHOLD) => u \in alerted

-----------------------------------------------------------------------------
(***************************************************************************)
(* The invariant behind them.                                              *)
(***************************************************************************)

\* An event is for a page on the room of its message, subscribed.
EventsFit ==
    \A e \in events :
        /\ message[e.id] # Null
        /\ shell[e.to].room = message[e.id].room
        /\ shell[e.to].joined

\* Messages are numbered without a gap; whoever sends to a room, has it on their page, loads
\* it or marks it, is one of its two.
TalksIn(u, r) == tenantOf[r] # Null /\ u \in Participants(r)

InTheirRooms ==
    /\ Stored = 1 .. Cardinality(Stored)
    /\ \A m \in Stored : TalksIn(message[m].sender, message[m].room)
    /\ \A u \in Viewer : shell[u].room # Null => TalksIn(u, shell[u].room)
    /\ \A u \in Viewer : posting[u] # Null => TalksIn(u, posting[u].room)
    /\ \A l \in loads : TalksIn(l.user, l.room) /\ l.seen \subseteq In(l.room)
    /\ \A k \in marks : TalksIn(k.user, k.room)

\* The message is read, or its room is about to be marked, or is on the page.
Due(m, u) ==
    LET r == message[m].room IN
    /\ message[m].sender # u
    /\ TalksIn(u, r)
    /\ message[m].read \/ Marking(u, r) \/ shell[u].room = r

Followed(m, u) == m \in received \cup missed \/ OnItsWay(m, u)

\* Such a message has been received or is on its way, unless it was missed.
Following == \A u \in Viewer : \A m \in Stored : Due(m, u) => Followed(m, u)

\* Three masked messages are reported, or their recount is still to come.
Reporting ==
    \A u \in User \ miscounted :
        Cardinality(Masked(u)) >= CIRCUMVENTION_ALERT_THRESHOLD =>
            \/ u \in alerted
            \/ counting[u] > 0 /\ Cardinality(Masked(u)) = CIRCUMVENTION_ALERT_THRESHOLD

MessagingInv ==
    /\ MessagingTypes /\ EventsFit /\ InTheirRooms /\ Following /\ Reporting
    /\ NothingTwice /\ ReadWasReceived /\ AlertedAtThree
=============================================================================
