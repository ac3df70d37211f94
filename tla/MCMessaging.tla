---------------------------- MODULE MCMessaging ----------------------------
(***************************************************************************)
(* Messaging for TLC: two tenants without a page of their own, the owner   *)
(* with MessagesShell, two rooms, three messages.                          *)
(***************************************************************************)
EXTENDS Messaging, TLC

MCViewer == {Owner}

\* One or two runs of loadMessages are in flight: a room is left once before it loads.
MCLoads == Cardinality(loads) <= 2

\* Nothing is promised of the alert after a recount failed or overlapped a write, and neither
\* changes what the page does.
MCPromised == miscounted = {}

\* A deletion only closes a message to edition: one is enough.
MCDeletions == Cardinality({m \in Stored : message[m].deleted}) <= 1

\* The page does not look at the content of a message, nor the recount at the page: the
\* contents vary, up to the third message that the alert needs, while the page is closed.
MCContents ==
    (message[3] # Null \/ \E m \in Stored : message[m].content # "text" \/ message[m].deleted)
        => loads \cup marks = {} /\ \A u \in Viewer : shell[u].room = Null /\ posting[u] = Null

\* The rooms are there before the first message.
MCRooms == Stored # {} => \A t \in Tenant : creating[t] = 0

\* The tenants are alike, and so are the rooms.
MCSymmetry == Permutations(Tenant) \cup Permutations(Room)
=============================================================================
