---------------------------- MODULE ChatConsumer ----------------------------
(***************************************************************************)
(* The WebSocket chat of src/app/ws/consumers.py: one ChatConsumer per     *)
(* connection, the Room and Message rows of src/app/chat/models.py that    *)
(* it writes, and the channel layer its members share.                     *)
(*                                                                         *)
(* A consumer handles one event at a time, but every await inside a        *)
(* handler lets the other consumers run: a handler is therefore split      *)
(* into one action per await, and pc[c] says which await connection c is   *)
(* waiting on.  The ordinal of a text on its connection identifies a       *)
(* message; text content, user names and timestamps are abstracted away.   *)
(***************************************************************************)
EXTENDS Integers, Sequences, FiniteSets, Functions

CONSTANTS
  Conns,        \* connections; a client that reconnects is another one
  Names,        \* the <name> of ws/chat/<name>/, any string
  GroupNames,   \* the names n for which chat_<n> is a legal group name
  Users,        \* primary keys of accounts
  NameOf,       \* Conns -> Names, the path of the connection
  UserOf,       \* Conns -> Users, the user_id claim of its token
  TextsOf,      \* bound: the non-blank texts a client sends, by connection
  MaxTexts,     \* the most it sends on any
  MaxRooms,     \* bound: no room is deleted after so many rooms were created
  MaxErased,    \* bound: messages deleted while their room and author stay
  Capacity,     \* what the channel layer keeps for a channel nobody reads
  Faults        \* the faults of the environment this instance admits

AllFaults == {"db", "commit", "layer", "kill", "expiry", "erase", "delete"}

ASSUME ConnsAssumption ==
  /\ NameOf \in [Conns -> Names]
  /\ UserOf \in [Conns -> Users]
  /\ GroupNames \subseteq Names

ASSUME BoundsAssumption ==
  /\ MaxTexts \in Nat
  /\ TextsOf \in [Conns -> 0..MaxTexts]
  /\ MaxRooms \in Nat
  /\ MaxErased \in Nat
  /\ Capacity \in Nat \ {0}
  /\ Faults \subseteq AllFaults

\* The k-th non-blank text of connection c.
Messages == Conns \X (1..MaxTexts)

VARIABLES
  pc,        \* pc[c]: the await connection c is suspended at
  rooms,     \* rooms[n]: primary key of the Room row named n, 0 if none
  lastRoom,  \* the last primary key the Room table gave out
  users,     \* the User rows that exist
  roomRef,   \* roomRef[c]: primary key in self.room, 0 before it is set
  texts,     \* texts[c]: number of the text being handled or last handled
  stored,    \* the Message rows that exist
  group,     \* group[n]: the channels in the channel-layer group chat_<n>
  inbox,     \* inbox[c]: broadcasts the layer holds for the channel of c
  seen,      \* seen[c]: messages sent down connection c, in order
  refused,   \* texts answered with "message not saved"
  \* History: what no process keeps but the properties talk about.
  sends,     \* number of group_sends so far
  sentAt,    \* sentAt[m]: the number of m's group_send, 0 before it
  audience,  \* audience[m]: connections open in m's room at that moment
  erased,    \* messages deleted while their room and author stayed
  dropped    \* dropped[n]: primary keys of the deleted rooms named n

goneVars  == <<erased, dropped>>
dbVars    == <<rooms, lastRoom, users, goneVars>>
layerVars == <<group, inbox>>
histVars  == <<sends, sentAt, audience>>
vars == <<pc, dbVars, roomRef, texts, stored, layerVars, seen, refused,
          histVars>>

(***************************************************************************)
(* Control points.                                                         *)
(***************************************************************************)
\* The client is connected and has been told so.
Open == {"open", "save", "send"}

\* The consumer has ended; only a clean end has run disconnect().
Ended == {"closed", "crashed"}

ControlPoints ==
  Open \cup Ended \cup
  {"new", "rejected", "room", "create", "again", "join", "accept", "leave"}

Goto(c, from, to) == pc[c] = from /\ pc' = [pc EXCEPT ![c] = to]

\* The message being handled by c.
Current(c) == <<c, texts[c]>>

\* The foreign keys of a row that c would insert now both resolve.
RefsResolve(c) ==
  /\ rooms[NameOf[c]] = roomRef[c]
  /\ UserOf[c] \in users

Init ==
  /\ pc = [c \in Conns |-> "new"]
  /\ rooms = [n \in Names |-> 0]
  /\ lastRoom = 0
  /\ users = Users
  /\ roomRef = [c \in Conns |-> 0]
  /\ texts = [c \in Conns |-> 0]
  /\ stored = {}
  /\ group = [n \in Names |-> {}]
  /\ inbox = [c \in Conns |-> <<>>]
  /\ seen = [c \in Conns |-> <<>>]
  /\ refused = {}
  /\ sends = 0
  /\ sentAt = [m \in Messages |-> 0]
  /\ audience = [m \in Messages |-> {}]
  /\ erased = {}
  /\ dropped = [n \in Names |-> {}]

(***************************************************************************)
(* connect().                                                              *)
(***************************************************************************)
\* JWTAuthMiddleware resolved no user: closed with 4001 before group_name is
\* set, so the disconnect() that follows has no group to leave.
ConnectRejected(c) ==
  /\ Goto(c, "new", "rejected")
  /\ UNCHANGED <<dbVars, roomRef, texts, stored, layerVars, seen, refused,
                 histVars>>

\* The token verifies and its user row exists.
ConnectAuthenticated(c) ==
  /\ Goto(c, "new", "room")
  /\ UserOf[c] \in users
  /\ UNCHANGED <<dbVars, roomRef, texts, stored, layerVars, seen, refused,
                 histVars>>

(***************************************************************************)
(* _get_or_create_room: get; if there is no such room INSERT; and if that  *)
(* meets the unique constraint on the name, get again.  One process runs   *)
(* these calls one after the other in one thread; connections of other     *)
(* processes and the commands that create or delete rooms come between the *)
(* statements.  Validators do not run on create().                         *)
(***************************************************************************)
\* Either get finds the room.
GetRoom(c) ==
  LET n == NameOf[c]
  IN /\ Goto(c, "room", "join") \/ Goto(c, "again", "join")
     /\ rooms[n] # 0
     /\ roomRef' = [roomRef EXCEPT ![c] = rooms[n]]
     /\ UNCHANGED <<dbVars, texts, stored, layerVars, seen, refused, histVars>>

\* The first get finds none; or the second, because the room whose name was
\* taken has been deleted meanwhile: the IntegrityError is raised again.
MissRoom(c) ==
  /\ Goto(c, "room", "create") \/ Goto(c, "again", "crashed")
  /\ rooms[NameOf[c]] = 0
  /\ UNCHANGED <<dbVars, roomRef, texts, stored, layerVars, seen, refused,
                 histVars>>

\* Slip: the table hands out the lowest free key, as SQLite may.
CreateRoomReusingKeys(c) ==
  LET n == NameOf[c]
      key == CHOOSE k \in 1..(lastRoom + 1) :
               /\ \A o \in Names : rooms[o] # k
               /\ \A j \in 1..(k - 1) : \E o \in Names : rooms[o] = j
  IN /\ Goto(c, "create", "join")
     /\ rooms[n] = 0
     /\ lastRoom' = IF key > lastRoom THEN key ELSE lastRoom
     /\ rooms' = [rooms EXCEPT ![n] = key]
     /\ roomRef' = [roomRef EXCEPT ![c] = key]
     /\ UNCHANGED <<users, goneVars, texts, stored, layerVars, seen, refused,
                    histVars>>

CreateRoom(c) ==
  LET n == NameOf[c]
  IN /\ Goto(c, "create", "join")
     /\ rooms[n] = 0
     /\ lastRoom' = lastRoom + 1
     /\ rooms' = [rooms EXCEPT ![n] = lastRoom + 1]
     /\ roomRef' = [roomRef EXCEPT ![c] = lastRoom + 1]
     /\ UNCHANGED <<users, goneVars, texts, stored, layerVars, seen, refused,
                    histVars>>

\* Slip: get and create by hand, without catching the IntegrityError.
NameTakenUncaught(c) ==
  /\ Goto(c, "create", "crashed")
  /\ rooms[NameOf[c]] # 0
  /\ UNCHANGED <<dbVars, roomRef, texts, stored, layerVars, seen, refused,
                 histVars>>

\* Somebody else's INSERT came first.
NameTaken(c) ==
  /\ Goto(c, "create", "again")
  /\ rooms[NameOf[c]] # 0
  /\ UNCHANGED <<dbVars, roomRef, texts, stored, layerVars, seen, refused,
                 histVars>>

\* An exception nobody catches in connect(): the consumer is torn down
\* without disconnect().  group_add raises TypeError for a bad group name.
ConnectFails(c) ==
  /\ \/ /\ \E at \in {"room", "create", "again"} : Goto(c, at, "crashed")
        /\ "db" \in Faults
     \/ /\ Goto(c, "join", "crashed")
        /\ NameOf[c] \notin GroupNames \/ "layer" \in Faults
  /\ UNCHANGED <<dbVars, roomRef, texts, stored, layerVars, seen, refused,
                 histVars>>

GroupAdd(c) ==
  /\ Goto(c, "join", "accept")
  /\ NameOf[c] \in GroupNames
  /\ group' = [group EXCEPT ![NameOf[c]] = @ \cup {c}]
  /\ UNCHANGED <<dbVars, roomRef, texts, stored, inbox, seen, refused, histVars>>

Accept(c) ==
  /\ Goto(c, "accept", "open")
  /\ UNCHANGED <<dbVars, roomRef, texts, stored, layerVars, seen, refused,
                 histVars>>

(***************************************************************************)
(* receive() and receive_json().  Bytes frames, blank texts and invalid    *)
(* JSON change no state (the last is answered with an error frame): they   *)
(* are stuttering steps.                                                   *)
(***************************************************************************)
\* Slip: buffered frames are handled newest first.
ReceiveNewestFirst(c) ==
  /\ Goto(c, "open", "save")
  /\ texts[c] # 1
  /\ texts' = [texts EXCEPT ![c] = IF @ = 0 THEN TextsOf[c] ELSE @ - 1]
  /\ UNCHANGED <<dbVars, roomRef, stored, layerVars, seen, refused, histVars>>

\* A JSON object with a non-blank text.
ReceiveText(c) ==
  /\ Goto(c, "open", "save")
  /\ texts[c] < TextsOf[c]
  /\ texts' = [texts EXCEPT ![c] = @ + 1]
  /\ UNCHANGED <<dbVars, roomRef, stored, layerVars, seen, refused, histVars>>

\* JSON that is not an object, or whose text is not a string: the
\* AttributeError is outside both try blocks.
ReceiveMalformed(c) ==
  /\ Goto(c, "open", "crashed")
  /\ UNCHANGED <<dbVars, roomRef, texts, stored, layerVars, seen, refused,
                 histVars>>

\* Slip: Message(...) without create().
SaveForgotten(c) ==
  /\ Goto(c, "save", "send")
  /\ RefsResolve(c)
  /\ UNCHANGED <<dbVars, roomRef, texts, stored, layerVars, seen, refused,
                 histVars>>

SaveMessage(c) ==
  /\ Goto(c, "save", "send")
  /\ RefsResolve(c)
  /\ stored' = stored \cup {Current(c)}
  /\ UNCHANGED <<dbVars, roomRef, texts, layerVars, seen, refused, histVars>>

\* Slip: the except branch lacks its return.
SaveFailsWithoutReturn(c) ==
  /\ Goto(c, "save", "send")
  /\ ~RefsResolve(c) \/ {"db", "commit"} \cap Faults # {}
  /\ refused' = refused \cup {Current(c)}
  /\ UNCHANGED <<dbVars, roomRef, texts, stored, layerVars, seen, histVars>>

\* Slip: the except branch sends no error frame.
SaveFailsSilently(c) ==
  /\ Goto(c, "save", "open")
  /\ ~RefsResolve(c) \/ "db" \in Faults
  /\ UNCHANGED <<dbVars, roomRef, texts, stored, layerVars, seen, refused,
                 histVars>>

\* The except branch: error frame, then return.  The insert failed because a
\* foreign key no longer resolves or the database is down; or ("commit") the
\* connection to the database broke after it had committed the row.
SaveFails(c) ==
  /\ Goto(c, "save", "open")
  /\ \/ /\ ~RefsResolve(c) \/ "db" \in Faults
        /\ stored' = stored
     \/ /\ RefsResolve(c) /\ "commit" \in Faults
        /\ stored' = stored \cup {Current(c)}
  /\ refused' = refused \cup {Current(c)}
  /\ UNCHANGED <<dbVars, roomRef, texts, layerVars, seen, histVars>>

\* A channel that already holds Capacity broadcasts loses one: the layer drops
\* the new one, or the reader's own buffer drops its oldest.
Push(q, m, dropNew) ==
  IF Len(q) < Capacity THEN Append(q, m)
  ELSE IF dropNew THEN q ELSE Append(Tail(q), m)

\* group_send: one push to every channel in to, in one step of the layer.
GroupSendTo(c, to) ==
  LET m == Current(c)
  IN /\ \E miss \in SUBSET to :
          inbox' = [d \in Conns |-> IF d \in to THEN Push(inbox[d], m, d \in miss)
                                               ELSE inbox[d]]
     /\ sends' = sends + 1
     /\ sentAt' = [sentAt EXCEPT ![m] = sends + 1]
     /\ audience' = [audience EXCEPT ![m] =
                       {d \in Conns : pc[d] \in Open /\ NameOf[d] = NameOf[c]}]
     /\ UNCHANGED <<dbVars, roomRef, texts, stored, group, refused>>

\* Slip: the author is left out.
GroupSendToOthers(c) ==
  /\ Goto(c, "send", "open")
  /\ GroupSendTo(c, group[NameOf[c]] \ {c})
  /\ UNCHANGED seen

\* Slip: the author is shown its message at once, and again by the group.
GroupSendWithEcho(c) ==
  /\ Goto(c, "send", "open")
  /\ GroupSendTo(c, group[NameOf[c]])
  /\ seen' = [seen EXCEPT ![c] = Append(@, Current(c))]

\* One push to every channel of the group, the author's included.
GroupSend(c) ==
  /\ Goto(c, "send", "open")
  /\ GroupSendTo(c, group[NameOf[c]])
  /\ UNCHANGED seen

\* Slip: an error of group_send is retried although the push was done.
GroupSendRetried(c) ==
  /\ "layer" \in Faults
  /\ pc[c] = "send"
  /\ GroupSendTo(c, group[NameOf[c]])
  /\ UNCHANGED <<pc, seen>>

\* group_send is outside the try block: the exception ends the consumer.
GroupSendFails(c) ==
  /\ "layer" \in Faults
  /\ Goto(c, "send", "crashed")
  /\ UNCHANGED <<dbVars, roomRef, texts, stored, layerVars, seen, refused,
                 histVars>>

(***************************************************************************)
(* chat_message(): the next broadcast of the channel goes down the socket. *)
(***************************************************************************)
\* Slip: a consumer waits with its own messages at the head of its channel.
ChatMessageOfOthers(c) ==
  /\ pc[c] = "open"
  /\ inbox[c] # <<>>
  /\ Head(inbox[c])[1] # c
  /\ seen' = [seen EXCEPT ![c] = Append(@, Head(inbox[c]))]
  /\ inbox' = [inbox EXCEPT ![c] = Tail(@)]
  /\ UNCHANGED <<pc, dbVars, roomRef, texts, stored, group, refused, histVars>>

ChatMessage(c) ==
  /\ pc[c] = "open"
  /\ inbox[c] # <<>>
  /\ seen' = [seen EXCEPT ![c] = Append(@, Head(inbox[c]))]
  /\ inbox' = [inbox EXCEPT ![c] = Tail(@)]
  /\ UNCHANGED <<pc, dbVars, roomRef, texts, stored, group, refused, histVars>>

(***************************************************************************)
(* disconnect(): runs when the client has left, after its earlier frames.  *)
(***************************************************************************)
Disconnect(c) ==
  /\ Goto(c, "open", "leave")
  /\ UNCHANGED <<dbVars, roomRef, texts, stored, layerVars, seen, refused,
                 histVars>>

\* A rejected connection has no group_name and skips group_discard.
DisconnectRejected(c) ==
  /\ Goto(c, "rejected", "closed")
  /\ UNCHANGED <<dbVars, roomRef, texts, stored, layerVars, seen, refused,
                 histVars>>

\* Slip: disconnect() does not leave the group.
GroupDiscardForgotten(c) ==
  /\ Goto(c, "leave", "closed")
  /\ UNCHANGED <<dbVars, roomRef, texts, stored, layerVars, seen, refused,
                 histVars>>

GroupDiscard(c) ==
  /\ Goto(c, "leave", "closed")
  /\ group' = [group EXCEPT ![NameOf[c]] = @ \ {c}]
  /\ UNCHANGED <<dbVars, roomRef, texts, stored, inbox, seen, refused, histVars>>

GroupDiscardFails(c) ==
  /\ "layer" \in Faults
  /\ Goto(c, "leave", "crashed")
  /\ UNCHANGED <<dbVars, roomRef, texts, stored, layerVars, seen, refused,
                 histVars>>

(***************************************************************************)
(* The environment.                                                        *)
(***************************************************************************)
\* The server process dies, or daphne cancels the consumer, at any await.
Kill(c) ==
  /\ "kill" \in Faults
  /\ pc[c] \notin Ended \cup {"new"}
  /\ pc' = [pc EXCEPT ![c] = "crashed"]
  /\ UNCHANGED <<dbVars, roomRef, texts, stored, layerVars, seen, refused,
                 histVars>>

\* A membership outlives group_expiry, which connect() alone renews.
ExpireMembership(c) ==
  /\ "expiry" \in Faults
  /\ c \in group[NameOf[c]]
  /\ group' = [group EXCEPT ![NameOf[c]] = @ \ {c}]
  /\ UNCHANGED <<pc, dbVars, roomRef, texts, stored, inbox, seen, refused,
                 histVars>>

\* seed_messages, flush_demo or the admin deletes messages whose room and
\* author stay.
DeleteMessages(some) ==
  /\ "erase" \in Faults
  /\ some # {}
  /\ Cardinality(erased \cup some) <= MaxErased
  /\ stored' = stored \ some
  /\ erased' = erased \cup some
  /\ UNCHANGED <<pc, rooms, lastRoom, users, dropped, roomRef, texts, layerVars,
                 seen, refused, histVars>>

\* flush_demo (after it deleted the messages, in a transaction of its own) or
\* the admin deletes a room; what messages it has by then cascade.
DeleteRoom(n) ==
  /\ "delete" \in Faults
  /\ rooms[n] # 0
  /\ lastRoom < MaxRooms
  /\ rooms' = [rooms EXCEPT ![n] = 0]
  /\ dropped' = [dropped EXCEPT ![n] = @ \cup {rooms[n]}]
  /\ stored' = {m \in stored : roomRef[m[1]] # rooms[n]}
  /\ UNCHANGED <<pc, lastRoom, users, erased, roomRef, texts, layerVars, seen,
                 refused, histVars>>

\* flush_demo or the admin deletes an account; its messages cascade.
DeleteUser(u) ==
  /\ "delete" \in Faults
  /\ u \in users
  /\ users' = users \ {u}
  /\ stored' = {m \in stored : UserOf[m[1]] # u}
  /\ UNCHANGED <<pc, rooms, lastRoom, goneVars, roomRef, texts, layerVars, seen,
                 refused, histVars>>

\* Every connection is over: nothing is left to do.
Quiet ==
  /\ \A c \in Conns : pc[c] \in Ended
  /\ UNCHANGED vars

(***************************************************************************)
(* Specification.  The server's own steps are fair: an await that can      *)
(* return does.  What clients send, when they come and go, and every fault *)
(* is left to chance.                                                      *)
(***************************************************************************)
Server(c) ==
  \/ GetRoom(c) \/ MissRoom(c) \/ CreateRoom(c) \/ NameTaken(c)
  \/ ConnectFails(c) \/ GroupAdd(c) \/ Accept(c)
  \/ SaveMessage(c) \/ SaveFails(c) \/ GroupSend(c) \/ GroupSendFails(c)
  \/ ChatMessage(c)
  \/ DisconnectRejected(c) \/ GroupDiscard(c) \/ GroupDiscardFails(c)

Client(c) ==
  \/ ConnectRejected(c) \/ ConnectAuthenticated(c)
  \/ ReceiveText(c) \/ ReceiveMalformed(c) \/ Disconnect(c)

Next ==
  \/ \E c \in Conns :
       Server(c) \/ Client(c) \/ Kill(c) \/ ExpireMembership(c)
  \/ \E some \in SUBSET stored : DeleteMessages(some)
  \/ \E n \in Names : DeleteRoom(n)
  \/ \E u \in Users : DeleteUser(u)
  \/ Quiet

Fair(c) == WF_vars(Server(c))
Fairness == \A c \in Conns : Fair(c)

Spec == Init /\ [][Next]_vars /\ Fairness

\* What the server owes a connection.
HasWork(c) ==
  \/ pc[c] \in {"rejected", "room", "create", "again", "join", "accept", "save",
                "send", "leave"}
  \/ pc[c] = "open" /\ inbox[c] # <<>>

\* Nothing in a consumer waits for anybody else: with work it has a next step.
ServersCanMove == \A c \in Conns : HasWork(c) => ENABLED <<Server(c)>>_vars

-----------------------------------------------------------------------------
(***************************************************************************)
(* Properties.                                                             *)
(***************************************************************************)
\* Every variable has its type.
TypeOK ==
  /\ pc \in [Conns -> ControlPoints]
  /\ rooms \in [Names -> Nat]
  /\ lastRoom \in Nat
  /\ users \subseteq Users
  /\ roomRef \in [Conns -> Nat]
  /\ texts \in [Conns -> 0..MaxTexts]
  /\ stored \subseteq Messages
  /\ group \in [Names -> SUBSET Conns]
  /\ inbox \in [Conns -> Seq(Messages)]
  /\ seen \in [Conns -> Seq(Messages)]
  /\ refused \subseteq Messages
  /\ sends \in Nat
  /\ sentAt \in [Messages -> Nat]
  /\ audience \in [Messages -> SUBSET Conns]
  /\ erased \subseteq Messages
  /\ dropped \in [Names -> SUBSET Nat]

\* What c has seen and what the layer still holds for it, in order.
Tape(c) == seen[c] \o inbox[c]

Increasing(s, number) ==
  \A i, j \in 1..Len(s) : i < j => number[s[i]] < number[s[j]]

\* Not in any group yet.
Outside == {"new", "rejected", "room", "create", "again", "join"}

\* Whoever is in the room, from before accept() until disconnect() has run,
\* is in the channel group (unless its membership expired), and nobody who
\* was never let in or who left cleanly is: only a consumer that crashed
\* leaves its channel behind.
MembersAreThoseInside ==
  \A c \in Conns :
    /\ pc[c] \in Open \cup {"accept", "leave"} =>
         c \in group[NameOf[c]] \/ "expiry" \in Faults
    /\ pc[c] \in Outside \cup {"closed"} =>
         \A n \in Names : c \notin group[n]

\* A frame a client is shown was written by someone in the same room, went
\* through group_send, and was not one its author was told is "not saved".
SeenIsGenuine ==
  \A c \in Conns : \A m \in Range(seen[c]) :
    /\ NameOf[m[1]] = NameOf[c]
    /\ sentAt[m] # 0
    /\ m \notin refused

\* What a client was shown is in the history that REST serves, unless the
\* message itself, its room or its author has been deleted: saving precedes
\* broadcasting.
SeenIsInHistory ==
  \A c \in Conns : \A m \in Range(seen[c]) :
    m \in stored \/ m \in erased \/ ~RefsResolve(m[1])

\* First connections that race to create one room all end up with the one row
\* of its name, and the race tears none of them down: unless a room of that
\* name was deleted meanwhile, or the database or the process failed.
RacersShareTheRoom ==
  \A c \in Conns :
    /\ roomRef[c] # 0 =>
         roomRef[c] = rooms[NameOf[c]] \/ roomRef[c] \in dropped[NameOf[c]]
    /\ pc[c] = "crashed" /\ roomRef[c] = 0 =>
         dropped[NameOf[c]] # {} \/ {"db", "kill"} \cap Faults # {}

\* All members see the messages of a room in one order, the order of the
\* group_sends, and none twice, although savers overtake each other between
\* the save and the broadcast.
SeenInSendOrder == \A c \in Conns : Increasing(seen[c], sentAt)

\* The texts of one connection are broadcast in the order they were sent.
SentInTextOrder ==
  \A c \in Conns : \A i, j \in 1..MaxTexts :
    i < j /\ sentAt[<<c, j>>] # 0 =>
      sentAt[<<c, i>>] < sentAt[<<c, j>>]

\* No row outlives the room or the account it refers to.
NoOrphanRows == \A m \in stored : RefsResolve(m[1])

\* schemas/asyncapi.yaml: every connected client of the room receives a copy
\* of every message posted to it.  Whoever was accepted when the message was
\* sent has seen it or will find it in its channel.
EveryoneConnectedGetsACopy ==
  \A m \in Messages : \A c \in audience[m] : m \in Range(Tape(c))

\* c is connected, but the room or the account it was accepted with is gone.
Stale(c) == pc[c] \in Open /\ ~RefsResolve(c)

\* A stale connection never recovers, not even when someone creates a room
\* of the same name again, and nothing it writes is stored.
StaleConnectionsStayMute ==
  [][\A c \in Conns : Stale(c) =>
       /\ ~RefsResolve(c)'
       /\ \A m \in stored' \ stored : m[1] # c]_vars

\* The comment in receive_json(): any database or channel-layer failure is
\* logged and handled.  Handling a text never ends the connection.
FailuresAreHandled ==
  [][\A c \in Conns : pc[c] \in {"save", "send"} => pc'[c] # "crashed"]_vars

\* A text is broadcast or its author is told that it was not saved, unless
\* the consumer crashes.
EveryTextIsAnswered ==
  \A c \in Conns, k \in 1..MaxTexts :
    pc[c] = "save" /\ texts[c] = k ~>
      sentAt[<<c, k>>] # 0 \/ <<c, k>> \in refused \/ pc[c] = "crashed"

\* A broadcast that is waiting for an open connection is shown to it, or is
\* pushed out by newer ones, unless the connection ends.
InboxDrains ==
  \A c \in Conns, m \in Messages :
    m \in Range(inbox[c]) /\ pc[c] \notin Ended ~>
      m \notin Range(inbox[c]) \/ pc[c] \in Ended

(***************************************************************************)
(* The inductive invariant behind the safety properties above.             *)
(***************************************************************************)
\* When self.room is set and texts are counted.
Lifecycle ==
  \A c \in Conns :
    /\ pc[c] \in {"new", "rejected", "room", "create", "again"} => roomRef[c] = 0
    /\ pc[c] \in Open \cup {"join", "accept", "leave"} => roomRef[c] # 0
    /\ roomRef[c] = 0 => texts[c] = 0
    /\ pc[c] \in {"join", "accept"} => texts[c] = 0
    /\ pc[c] \in {"save", "send"} => texts[c] # 0

\* A channel joins only the group of its own room.
GroupsByName == \A n \in Names : \A c \in group[n] : NameOf[c] = n

\* The text being handled, and those to come, are neither sent nor refused,
\* and no message is both.
TextsHandledOnce ==
  /\ \A c \in Conns, k \in 1..MaxTexts :
       \/ k > texts[c]
       \/ k = texts[c] /\ pc[c] \in {"save", "send"}
       => sentAt[<<c, k>>] = 0 /\ <<c, k>> \notin refused
  /\ \A m \in refused : sentAt[m] = 0
  /\ \A m \in Messages : sentAt[m] <= sends

\* Everything on its way to c, or arrived, was sent in its room.
TapeIsGenuine ==
  \A c \in Conns : \A m \in Range(seen[c]) \cup Range(inbox[c]) :
    NameOf[m[1]] = NameOf[c] /\ sentAt[m] # 0

\* What c has seen precedes what waits for it, and both are in send order.
TapeInSendOrder ==
  \A c \in Conns :
    /\ Increasing(seen[c], sentAt)
    /\ Increasing(inbox[c], sentAt)
    /\ \A m \in Range(seen[c]), w \in Range(inbox[c]) : sentAt[m] < sentAt[w]

\* Primary keys of rooms are given out once.
RoomKeysAreUnique ==
  /\ \A n \in Names : rooms[n] <= lastRoom
  /\ \A c \in Conns : roomRef[c] <= lastRoom
  /\ \A n, o \in Names : rooms[n] = rooms[o] /\ rooms[n] # 0 => n = o
  /\ \A c \in Conns, n \in Names :
       roomRef[c] # 0 /\ roomRef[c] = rooms[n] => n = NameOf[c]

\* An INSERT that met a taken name leaves a room to get, or it was deleted.
TakenOrDropped ==
  \A c \in Conns :
    pc[c] = "again" => rooms[NameOf[c]] # 0 \/ dropped[NameOf[c]] # {}

\* A message that was sent, or is about to be, was stored first.
SentWasStored ==
  \A m \in Messages :
    sentAt[m] # 0 \/ (pc[m[1]] = "send" /\ m = Current(m[1])) =>
      m \in stored \/ m \in erased \/ ~RefsResolve(m[1])

\* Rows come from texts that have been counted.
StoredWasCounted == \A m \in stored : m[2] <= texts[m[1]]

IInv ==
  /\ TypeOK /\ Lifecycle /\ GroupsByName /\ MembersAreThoseInside
  /\ TextsHandledOnce /\ SentInTextOrder /\ TapeIsGenuine /\ TapeInSendOrder
  /\ RoomKeysAreUnique /\ TakenOrDropped /\ RacersShareTheRoom
  /\ NoOrphanRows /\ SentWasStored /\ StoredWasCounted

(***************************************************************************)
(* Refinement: the consumers implement the broadcast of RoomBroadcast.  A  *)
(* connection joins with group_add; what the layer still holds for the     *)
(* channel of a consumer that has ended is nobody's.                       *)
(***************************************************************************)
Phase(c) ==
  IF pc[c] \in Ended THEN "gone"
  ELSE IF pc[c] \in Open \cup {"accept", "leave"} THEN "in" ELSE "out"

Broadcast == INSTANCE RoomBroadcast WITH
  RoomOf <- NameOf,
  AuthorOf <- [m \in Messages |-> m[1]],
  phase <- [c \in Conns |-> Phase(c)],
  due <- [c \in Conns |-> IF pc[c] \in Ended THEN <<>> ELSE inbox[c]],
  posts <- sends,
  at <- sentAt

\* Every step of the chat is a step of the broadcast or changes nothing of it.
BroadcastSpec == Broadcast!Spec

=============================================================================
