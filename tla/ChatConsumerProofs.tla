------------------------- MODULE ChatConsumerProofs -------------------------
(***************************************************************************)
(* Theorems about ChatConsumer for every set of connections, every number  *)
(* of texts and every combination of faults.                               *)
(***************************************************************************)
EXTENDS ChatConsumer, FiniteSetTheorems, TLAPS

(***************************************************************************)
(* The actions that change nothing but a control point, and the split of   *)
(* Next that every step proof below follows.                               *)
(***************************************************************************)
Moves(c) ==
  \/ ConnectRejected(c) \/ ConnectAuthenticated(c) \/ MissRoom(c) \/ NameTaken(c)
  \/ ConnectFails(c) \/ Accept(c) \/ ReceiveMalformed(c) \/ GroupSendFails(c)
  \/ Disconnect(c) \/ DisconnectRejected(c) \/ GroupDiscardFails(c) \/ Kill(c)

\* A connection that gets its room, found or created.
Enters(c) == GetRoom(c) \/ CreateRoom(c)

\* Rows go away.
Clears == (\E some \in SUBSET stored : DeleteMessages(some))
          \/ \E n \in Names : DeleteRoom(n)

\* Where a move can lead.
MovesTo(c, to) ==
  \/ to = "crashed" /\ pc[c] \notin Ended \cup {"new"}
  \/ pc[c] = "new" /\ to \in {"rejected", "room"}
  \/ pc[c] = "room" /\ to = "create" /\ rooms[NameOf[c]] = 0
  \/ pc[c] = "create" /\ to = "again" /\ rooms[NameOf[c]] # 0
  \/ pc[c] = "accept" /\ to = "open"
  \/ pc[c] = "open" /\ to = "leave"
  \/ pc[c] = "rejected" /\ to = "closed"

\* A move changes the control point of its connection and nothing else.
LEMMA MovesOnlyPc ==
  ASSUME NEW c \in Conns, Moves(c)
  PROVE  /\ UNCHANGED <<rooms, lastRoom, users, roomRef, texts, stored, group,
                        inbox, seen, refused, sends, sentAt, audience, erased, dropped>>
         /\ \E to \in ControlPoints :
              MovesTo(c, to) /\ pc' = [pc EXCEPT ![c] = to]
BY DEF Moves, ConnectRejected, ConnectAuthenticated, MissRoom, NameTaken,
       ConnectFails, Accept,
       ReceiveMalformed, GroupSendFails, Disconnect, DisconnectRejected,
       GroupDiscardFails, Kill, Goto, ControlPoints, Open, Ended, MovesTo,
       dbVars, goneVars, layerVars, histVars

\* Who enters holds the row of its name, which was there or is new.
Entered(c) ==
  LET n == NameOf[c]
  IN /\ UNCHANGED <<users, texts, stored, group, inbox, seen, refused, sends,
                    sentAt, audience, erased, dropped>>
     /\ pc[c] \in {"room", "create", "again"}
     /\ pc' = [pc EXCEPT ![c] = "join"]
     /\ \/ /\ rooms[n] # 0
           /\ roomRef' = [roomRef EXCEPT ![c] = rooms[n]]
           /\ UNCHANGED <<rooms, lastRoom>>
        \/ /\ rooms[n] = 0
           /\ roomRef' = [roomRef EXCEPT ![c] = lastRoom + 1]
           /\ rooms' = [rooms EXCEPT ![n] = lastRoom + 1]
           /\ lastRoom' = lastRoom + 1

LEMMA EntersFacts ==
  ASSUME NEW c \in Conns, Enters(c)
  PROVE  Entered(c)
BY DEF Enters, GetRoom, CreateRoom, Entered, Goto, dbVars, goneVars, layerVars, histVars

\* The same, row by row.
LEMMA EntersRows ==
  ASSUME rooms \in [Names -> Nat], roomRef \in [Conns -> Nat], lastRoom \in Nat,
         pc \in [Conns -> ControlPoints], NEW c \in Conns, Entered(c)
  PROVE  LET n == NameOf[c] IN
         /\ pc' \in [Conns -> ControlPoints] /\ pc'[c] = "join"
         /\ rooms' \in [Names -> Nat] /\ roomRef' \in [Conns -> Nat]
         /\ roomRef'[c] = rooms'[n] /\ n \in Names
         /\ \A d \in Conns \ {c} : roomRef'[d] = roomRef[d] /\ pc'[d] = pc[d]
         /\ \A o \in Names \ {n} : rooms'[o] = rooms[o]
         /\ \/ rooms[n] # 0 /\ rooms'[n] = rooms[n] /\ lastRoom' = lastRoom
            \/ /\ rooms[n] = 0 /\ rooms'[n] = lastRoom + 1
               /\ lastRoom' = lastRoom + 1 /\ lastRoom' \in Nat
<1>1. lastRoom + 1 \in Nat /\ NameOf[c] \in Names /\ "join" \in ControlPoints
  BY ConnsAssumption DEF ControlPoints
<1>2. CASE rooms[NameOf[c]] # 0
  BY <1>1, <1>2 DEF Entered
<1>3. CASE rooms[NameOf[c]] = 0
  BY <1>1, <1>3 DEF Entered
<1> QED BY <1>2, <1>3

\* What a deletion of messages or of a room does.
Cleared ==
  /\ UNCHANGED <<pc, lastRoom, users, roomRef, texts, group, inbox, seen, refused,
                 sends, sentAt, audience>>
  /\ stored' \subseteq stored
  /\ erased' \subseteq Messages
  /\ rooms' \in [Names -> Nat] /\ dropped' \in [Names -> SUBSET Nat]
  /\ \A n \in Names :
       \/ rooms'[n] = rooms[n] /\ dropped'[n] = dropped[n]
       \/ /\ rooms[n] # 0 /\ rooms'[n] = 0
          /\ dropped'[n] = dropped[n] \cup {rooms[n]}
          /\ \A m \in stored' : roomRef[m[1]] # rooms[n]

LEMMA ClearsFacts ==
  ASSUME rooms \in [Names -> Nat], dropped \in [Names -> SUBSET Nat],
         stored \subseteq Messages, erased \subseteq Messages, Clears
  PROVE  Cleared
<1> USE DEF dbVars, goneVars, layerVars, histVars
<1>1. ASSUME NEW some \in SUBSET stored, DeleteMessages(some)
      PROVE  /\ UNCHANGED <<pc, rooms, lastRoom, users, roomRef, texts, group, inbox,
                            seen, refused, sends, sentAt, audience, dropped>>
             /\ stored' \subseteq stored /\ erased' \subseteq Messages
  BY <1>1 DEF DeleteMessages
<1>2. ASSUME NEW n \in Names, DeleteRoom(n)
      PROVE  /\ UNCHANGED <<pc, lastRoom, users, roomRef, texts, group, inbox,
                            seen, refused, sends, sentAt, audience, erased>>
             /\ stored' = {m \in stored : roomRef[m[1]] # rooms[n]}
             /\ rooms[n] # 0 /\ rooms' = [rooms EXCEPT ![n] = 0]
             /\ dropped' = [dropped EXCEPT ![n] = @ \cup {rooms[n]}]
  BY <1>2 DEF DeleteRoom
<1>3. CASE \E some \in SUBSET stored : DeleteMessages(some)
  BY <1>1, <1>3 DEF Cleared
<1>4. ASSUME NEW n \in Names, DeleteRoom(n)
      PROVE  /\ rooms' \in [Names -> Nat] /\ dropped' \in [Names -> SUBSET Nat]
             /\ rooms'[n] = 0 /\ dropped'[n] = dropped[n] \cup {rooms[n]}
             /\ \A o \in Names \ {n} : rooms'[o] = rooms[o] /\ dropped'[o] = dropped[o]
  <2>1. rooms[n] \in Nat /\ dropped[n] \cup {rooms[n]} \in SUBSET Nat
    OBVIOUS
  <2>2. /\ rooms' = [rooms EXCEPT ![n] = 0]
        /\ dropped' = [dropped EXCEPT ![n] = dropped[n] \cup {rooms[n]}]
    BY <1>2, <1>4
  <2> QED BY <2>1, <2>2
<1>5. CASE \E n \in Names : DeleteRoom(n)
  BY <1>2, <1>4, <1>5 DEF Cleared
<1> QED BY <1>3, <1>5 DEF Clears

LEMMA PushIsSeq ==
  ASSUME NEW q \in Seq(Messages), NEW m \in Messages, NEW b \in BOOLEAN
  PROVE  Push(q, m, b) \in Seq(Messages)
<1>1. Len(q) \in Nat /\ Append(q, m) \in Seq(Messages)
  OBVIOUS
<1>2. CASE Len(q) < Capacity
  BY <1>1, <1>2 DEF Push
<1>3. CASE ~(Len(q) < Capacity)
  <2>1. q # <<>>
    BY <1>3, BoundsAssumption
  <2>2. Append(Tail(q), m) \in Seq(Messages)
    BY <2>1
  <2> QED BY <1>3, <2>2 DEF Push
<1> QED BY <1>2, <1>3

-----------------------------------------------------------------------------
(***************************************************************************)
(* Type correctness.  A message is a pair of a connection and the number   *)
(* of one of its texts, so the type of what is stored rests on a text      *)
(* having been counted by the time it is handled.                          *)
(***************************************************************************)
TypeInv == TypeOK /\ Lifecycle

LEMMA CurrentIsMessage ==
  ASSUME TypeInv, NEW c \in Conns, pc[c] \in {"save", "send"}
  PROVE  Current(c) \in Messages
BY BoundsAssumption DEF TypeInv, TypeOK, Lifecycle, Current, Messages

LEMMA TypeInit == Init => TypeInv
BY ConnsAssumption, BoundsAssumption
   DEF Init, TypeInv, TypeOK, Lifecycle, ControlPoints, Open, Ended

LEMMA TypeStep == TypeInv /\ [Next]_vars => TypeOK'
<1> SUFFICES ASSUME TypeInv, TypeOK, [Next]_vars PROVE TypeOK'
  BY DEF TypeInv
<1> USE ConnsAssumption, BoundsAssumption
    DEF TypeOK, Goto, dbVars, goneVars, layerVars, histVars
<1>1. ASSUME NEW c \in Conns, Moves(c) PROVE TypeOK'
  <2>1. /\ UNCHANGED <<rooms, lastRoom, users, roomRef, texts, stored, group,
                       inbox, seen, refused, sends, sentAt, audience, erased, dropped>>
        /\ \E to \in ControlPoints :
             MovesTo(c, to) /\ pc' = [pc EXCEPT ![c] = to]
    BY <1>1, MovesOnlyPc
  <2> QED BY <2>1
<1>2. ASSUME NEW c \in Conns, Enters(c) PROVE TypeOK'
  <2>1. Entered(c)
    BY <1>2, EntersFacts
  <2>2. /\ pc' \in [Conns -> ControlPoints] /\ rooms' \in [Names -> Nat]
        /\ roomRef' \in [Conns -> Nat] /\ lastRoom' \in Nat
    BY <2>1, EntersRows
  <2> QED BY <2>1, <2>2 DEF Entered
<1>3. ASSUME NEW c \in Conns, GroupAdd(c) PROVE TypeOK'
  BY <1>3 DEF GroupAdd, ControlPoints
<1>4. ASSUME NEW c \in Conns, ReceiveText(c) PROVE TypeOK'
  BY <1>4 DEF ReceiveText, ControlPoints, Open
<1>5. ASSUME NEW c \in Conns, SaveMessage(c) PROVE TypeOK'
  <2>1. Current(c) \in Messages
    BY <1>5, CurrentIsMessage DEF SaveMessage
  <2> QED BY <1>5, <2>1 DEF SaveMessage, ControlPoints, Open
<1>6. ASSUME NEW c \in Conns, SaveFails(c) PROVE TypeOK'
  <2>1. Current(c) \in Messages
    BY <1>6, CurrentIsMessage DEF SaveFails
  <2> QED BY <1>6, <2>1 DEF SaveFails, ControlPoints, Open
<1>7. ASSUME NEW c \in Conns, GroupSend(c) PROVE TypeOK'
  <2>1. Current(c) \in Messages
    BY <1>7, CurrentIsMessage DEF GroupSend
  <2>2. PICK miss \in SUBSET group[NameOf[c]] :
          inbox' = [d \in Conns |-> IF d \in group[NameOf[c]]
                                   THEN Push(inbox[d], Current(c), d \in miss)
                                   ELSE inbox[d]]
    BY <1>7 DEF GroupSend, GroupSendTo
  <2>3. ASSUME NEW d \in Conns
        PROVE  Push(inbox[d], Current(c), d \in miss) \in Seq(Messages)
    <3>1. inbox[d] \in Seq(Messages) /\ (d \in miss) \in BOOLEAN
      OBVIOUS
    <3> QED BY <2>1, <3>1, PushIsSeq
  <2>4. inbox' \in [Conns -> Seq(Messages)]
    BY <2>2, <2>3
  <2> QED BY <1>7, <2>1, <2>4 DEF GroupSend, GroupSendTo, ControlPoints, Open
<1>8. ASSUME NEW c \in Conns, ChatMessage(c) PROVE TypeOK'
  <2>1. /\ Head(inbox[c]) \in Messages
        /\ Tail(inbox[c]) \in Seq(Messages)
    BY <1>8 DEF ChatMessage
  <2> QED BY <1>8, <2>1 DEF ChatMessage
<1>9. ASSUME NEW c \in Conns, GroupDiscard(c) PROVE TypeOK'
  BY <1>9 DEF GroupDiscard, ControlPoints, Ended
<1>10. ASSUME NEW c \in Conns, ExpireMembership(c) PROVE TypeOK'
  BY <1>10 DEF ExpireMembership
<1>11. ASSUME Clears PROVE TypeOK'
  <2>1. Cleared
    BY <1>11, ClearsFacts
  <2> QED BY <2>1 DEF Cleared
<1>12. ASSUME NEW u \in Users, DeleteUser(u) PROVE TypeOK'
  BY <1>12 DEF DeleteUser
<1>13. UNCHANGED vars => TypeOK'
  BY DEF vars
<1> QED
  BY <1>1, <1>2, <1>3, <1>4, <1>5, <1>6, <1>7, <1>8, <1>9, <1>10, <1>11,
     <1>12, <1>13 DEF Next, Server, Client, Moves, Enters, Clears, Quiet

LEMMA LifecycleStep == TypeInv /\ [Next]_vars => Lifecycle'
<1> SUFFICES ASSUME TypeOK, Lifecycle, [Next]_vars PROVE Lifecycle'
  BY DEF TypeInv
<1> USE DEF Lifecycle, TypeOK, Open, Goto, dbVars, goneVars, layerVars, histVars
<1>1. ASSUME NEW c \in Conns, Moves(c) PROVE Lifecycle'
  BY <1>1, MovesOnlyPc DEF MovesTo
<1>2. ASSUME NEW c \in Conns, Enters(c) PROVE Lifecycle'
  BY <1>2, ConnsAssumption DEF Enters, GetRoom, CreateRoom
<1>3. ASSUME NEW c \in Conns, GroupAdd(c) PROVE Lifecycle'
  BY <1>3 DEF GroupAdd
<1>4. ASSUME NEW c \in Conns, ReceiveText(c) PROVE Lifecycle'
  BY <1>4, BoundsAssumption DEF ReceiveText
<1>5. ASSUME NEW c \in Conns, SaveMessage(c) PROVE Lifecycle'
  BY <1>5 DEF SaveMessage
<1>6. ASSUME NEW c \in Conns, SaveFails(c) PROVE Lifecycle'
  BY <1>6 DEF SaveFails
<1>7. ASSUME NEW c \in Conns, GroupSend(c) PROVE Lifecycle'
  BY <1>7 DEF GroupSend, GroupSendTo
<1>8. ASSUME NEW c \in Conns, ChatMessage(c) PROVE Lifecycle'
  BY <1>8 DEF ChatMessage
<1>9. ASSUME NEW c \in Conns, GroupDiscard(c) PROVE Lifecycle'
  BY <1>9 DEF GroupDiscard
<1>10. ASSUME NEW c \in Conns, ExpireMembership(c) PROVE Lifecycle'
  BY <1>10 DEF ExpireMembership
<1>11. ASSUME Clears PROVE Lifecycle'
  BY <1>11 DEF Clears, DeleteMessages, DeleteRoom
<1>12. ASSUME NEW u \in Users, DeleteUser(u) PROVE Lifecycle'
  BY <1>12 DEF DeleteUser
<1>13. UNCHANGED vars => Lifecycle'
  BY DEF vars
<1> QED
  BY <1>1, <1>2, <1>3, <1>4, <1>5, <1>6, <1>7, <1>8, <1>9, <1>10, <1>11,
     <1>12, <1>13 DEF Next, Server, Client, Moves, Enters, Clears, Quiet

\* Every variable keeps its type.
THEOREM TypeCorrect == Spec => []TypeOK
<1>1. TypeInv /\ [Next]_vars => TypeInv'
  BY TypeStep, LifecycleStep DEF TypeInv
<1>2. TypeInv => TypeOK
  BY DEF TypeInv
<1> QED
  BY <1>1, <1>2, TypeInit, PTL DEF Spec

-----------------------------------------------------------------------------
(***************************************************************************)
(* The groups of the channel layer.                                        *)
(***************************************************************************)
LEMMA GroupsByNameStep == IInv /\ [Next]_vars => GroupsByName'
<1> SUFFICES ASSUME TypeOK, GroupsByName, [Next]_vars PROVE GroupsByName'
  BY DEF IInv
<1> USE ConnsAssumption DEF TypeOK, Open, Ended, Goto, dbVars, goneVars, layerVars, histVars, GroupsByName
<1>1. ASSUME NEW c \in Conns, Moves(c) PROVE GroupsByName'
  BY <1>1, MovesOnlyPc DEF MovesTo
<1>2. ASSUME NEW c \in Conns, Enters(c) PROVE GroupsByName'
  BY <1>2 DEF Enters, GetRoom, CreateRoom
<1>3. ASSUME NEW c \in Conns, GroupAdd(c) PROVE GroupsByName'
  BY <1>3 DEF GroupAdd
<1>4. ASSUME NEW c \in Conns, ReceiveText(c) PROVE GroupsByName'
  BY <1>4 DEF ReceiveText
<1>5. ASSUME NEW c \in Conns, SaveMessage(c) PROVE GroupsByName'
  BY <1>5 DEF SaveMessage
<1>6. ASSUME NEW c \in Conns, SaveFails(c) PROVE GroupsByName'
  BY <1>6 DEF SaveFails
<1>7. ASSUME NEW c \in Conns, GroupSend(c) PROVE GroupsByName'
  BY <1>7 DEF GroupSend, GroupSendTo
<1>8. ASSUME NEW c \in Conns, ChatMessage(c) PROVE GroupsByName'
  BY <1>8 DEF ChatMessage
<1>9. ASSUME NEW c \in Conns, GroupDiscard(c) PROVE GroupsByName'
  BY <1>9 DEF GroupDiscard
<1>10. ASSUME NEW c \in Conns, ExpireMembership(c) PROVE GroupsByName'
  BY <1>10 DEF ExpireMembership
<1>11. ASSUME Clears PROVE GroupsByName'
  BY <1>11 DEF Clears, DeleteMessages, DeleteRoom
<1>12. ASSUME NEW u \in Users, DeleteUser(u) PROVE GroupsByName'
  BY <1>12 DEF DeleteUser
<1>13. UNCHANGED vars => GroupsByName'
  BY DEF vars
<1> QED
  BY <1>1, <1>2, <1>3, <1>4, <1>5, <1>6, <1>7, <1>8, <1>9, <1>10, <1>11,
     <1>12, <1>13 DEF Next, Server, Client, Moves, Enters, Clears, Quiet

LEMMA MembersStep == IInv /\ [Next]_vars => MembersAreThoseInside'
<1> SUFFICES ASSUME TypeOK, GroupsByName, MembersAreThoseInside, [Next]_vars PROVE MembersAreThoseInside'
  BY DEF IInv
<1> USE ConnsAssumption DEF TypeOK, Open, Ended, Goto, dbVars, goneVars, layerVars, histVars, GroupsByName, MembersAreThoseInside, Outside
<1>1. ASSUME NEW c \in Conns, Moves(c) PROVE MembersAreThoseInside'
  BY <1>1, MovesOnlyPc DEF MovesTo
<1>2. ASSUME NEW c \in Conns, Enters(c) PROVE MembersAreThoseInside'
  BY <1>2 DEF Enters, GetRoom, CreateRoom
<1>3. ASSUME NEW c \in Conns, GroupAdd(c) PROVE MembersAreThoseInside'
  BY <1>3 DEF GroupAdd
<1>4. ASSUME NEW c \in Conns, ReceiveText(c) PROVE MembersAreThoseInside'
  BY <1>4 DEF ReceiveText
<1>5. ASSUME NEW c \in Conns, SaveMessage(c) PROVE MembersAreThoseInside'
  BY <1>5 DEF SaveMessage
<1>6. ASSUME NEW c \in Conns, SaveFails(c) PROVE MembersAreThoseInside'
  BY <1>6 DEF SaveFails
<1>7. ASSUME NEW c \in Conns, GroupSend(c) PROVE MembersAreThoseInside'
  BY <1>7 DEF GroupSend, GroupSendTo
<1>8. ASSUME NEW c \in Conns, ChatMessage(c) PROVE MembersAreThoseInside'
  BY <1>8 DEF ChatMessage
<1>9. ASSUME NEW c \in Conns, GroupDiscard(c) PROVE MembersAreThoseInside'
  BY <1>9 DEF GroupDiscard
<1>10. ASSUME NEW c \in Conns, ExpireMembership(c) PROVE MembersAreThoseInside'
  BY <1>10 DEF ExpireMembership
<1>11. ASSUME Clears PROVE MembersAreThoseInside'
  BY <1>11 DEF Clears, DeleteMessages, DeleteRoom
<1>12. ASSUME NEW u \in Users, DeleteUser(u) PROVE MembersAreThoseInside'
  BY <1>12 DEF DeleteUser
<1>13. UNCHANGED vars => MembersAreThoseInside'
  BY DEF vars
<1> QED
  BY <1>1, <1>2, <1>3, <1>4, <1>5, <1>6, <1>7, <1>8, <1>9, <1>10, <1>11,
     <1>12, <1>13 DEF Next, Server, Client, Moves, Enters, Clears, Quiet

-----------------------------------------------------------------------------
(***************************************************************************)
(* Rooms, rows and the connections that refer to them.                     *)
(***************************************************************************)
LEMMA RoomKeysStep == IInv /\ [Next]_vars => RoomKeysAreUnique'
<1> SUFFICES ASSUME TypeOK, Lifecycle, RoomKeysAreUnique, [Next]_vars PROVE RoomKeysAreUnique'
  BY DEF IInv
<1> USE ConnsAssumption DEF TypeOK, Open, Ended, Goto, dbVars, goneVars, layerVars, histVars, Lifecycle, RoomKeysAreUnique
<1>1. ASSUME NEW c \in Conns, Moves(c) PROVE RoomKeysAreUnique'
  BY <1>1, MovesOnlyPc DEF MovesTo
<1>2. ASSUME NEW c \in Conns, Enters(c) PROVE RoomKeysAreUnique'
  <2>1. Entered(c)
    BY <1>2, EntersFacts
  <2> DEFINE n == NameOf[c]
  <2>2. /\ roomRef'[c] = rooms'[n] /\ n \in Names
        /\ \A d \in Conns \ {c} : roomRef'[d] = roomRef[d]
        /\ \A o \in Names \ {n} : rooms'[o] = rooms[o]
        /\ \/ rooms[n] # 0 /\ rooms'[n] = rooms[n] /\ lastRoom' = lastRoom
           \/ rooms'[n] = lastRoom + 1 /\ lastRoom' = lastRoom + 1
    BY <2>1, EntersRows
  <2>3. /\ \A o \in Names : rooms[o] \in Nat /\ rooms[o] <= lastRoom
        /\ \A d \in Conns : roomRef[d] \in Nat /\ roomRef[d] <= lastRoom
        /\ lastRoom \in Nat
    OBVIOUS
  <2>4. \A o \in Names : rooms'[o] <= lastRoom'
    BY <2>2, <2>3
  <2>5. ASSUME NEW d \in Conns PROVE roomRef'[d] <= lastRoom'
    <3>1. CASE d = c
      BY <2>2, <2>4, <3>1
    <3>2. CASE d # c
      BY <2>2, <2>3, <3>2
    <3> QED BY <3>1, <3>2
  <2>6. ASSUME NEW o \in Names, NEW p \in Names, rooms'[o] = rooms'[p], rooms'[o] # 0
        PROVE  o = p
    <3>1. CASE o # n /\ p # n
      BY <2>2, <2>6, <3>1
    <3>2. CASE rooms[n] # 0 /\ rooms'[n] = rooms[n]
      BY <2>2, <2>6, <3>2
    <3>3. CASE rooms'[n] = lastRoom + 1
      BY <2>2, <2>3, <2>6, <3>1, <3>3
    <3> QED BY <2>2, <3>1, <3>2, <3>3
  <2>7. ASSUME NEW d \in Conns, NEW o \in Names, roomRef'[d] # 0, roomRef'[d] = rooms'[o]
        PROVE  o = NameOf[d]
    <3>1. CASE d = c
      BY <2>2, <2>6, <2>7, <3>1
    <3>2. CASE d # c /\ o # n
      BY <2>2, <2>7, <3>2
    <3>3. CASE d # c /\ o = n
      BY <2>2, <2>3, <2>7, <3>3
    <3> QED BY <3>1, <3>2, <3>3
  <2> QED BY <2>4, <2>5, <2>6, <2>7
<1>3. ASSUME NEW c \in Conns, GroupAdd(c) PROVE RoomKeysAreUnique'
  BY <1>3 DEF GroupAdd
<1>4. ASSUME NEW c \in Conns, ReceiveText(c) PROVE RoomKeysAreUnique'
  BY <1>4 DEF ReceiveText
<1>5. ASSUME NEW c \in Conns, SaveMessage(c) PROVE RoomKeysAreUnique'
  BY <1>5 DEF SaveMessage
<1>6. ASSUME NEW c \in Conns, SaveFails(c) PROVE RoomKeysAreUnique'
  BY <1>6 DEF SaveFails
<1>7. ASSUME NEW c \in Conns, GroupSend(c) PROVE RoomKeysAreUnique'
  BY <1>7 DEF GroupSend, GroupSendTo
<1>8. ASSUME NEW c \in Conns, ChatMessage(c) PROVE RoomKeysAreUnique'
  BY <1>8 DEF ChatMessage
<1>9. ASSUME NEW c \in Conns, GroupDiscard(c) PROVE RoomKeysAreUnique'
  BY <1>9 DEF GroupDiscard
<1>10. ASSUME NEW c \in Conns, ExpireMembership(c) PROVE RoomKeysAreUnique'
  BY <1>10 DEF ExpireMembership
<1>11. ASSUME Clears PROVE RoomKeysAreUnique'
  <2>1. Cleared
    BY <1>11, ClearsFacts
  <2>2. /\ \A n \in Names : rooms'[n] = rooms[n] \/ rooms'[n] = 0
        /\ roomRef' = roomRef /\ lastRoom' = lastRoom
    BY <2>1 DEF Cleared
  <2>3. /\ \A n \in Names : rooms'[n] <= lastRoom
        /\ \A c \in Conns : roomRef'[c] <= lastRoom
    <3>1. ASSUME NEW n \in Names PROVE rooms'[n] <= lastRoom
      <4>1. rooms[n] <= lastRoom /\ lastRoom \in Nat
        OBVIOUS
      <4> QED BY ONLY <2>2, <4>1, n \in Names
    <3> QED BY <2>2, <3>1
  <2>4. \A n, o \in Names : rooms'[n] = rooms'[o] /\ rooms'[n] # 0 => n = o
    BY <2>2
  <2>5. \A c \in Conns, n \in Names :
          roomRef'[c] # 0 /\ roomRef'[c] = rooms'[n] => n = NameOf[c]
    BY <2>2
  <2> QED BY <2>2, <2>3, <2>4, <2>5
<1>12. ASSUME NEW u \in Users, DeleteUser(u) PROVE RoomKeysAreUnique'
  BY <1>12 DEF DeleteUser
<1>13. UNCHANGED vars => RoomKeysAreUnique'
  BY DEF vars
<1> QED
  BY <1>1, <1>2, <1>3, <1>4, <1>5, <1>6, <1>7, <1>8, <1>9, <1>10, <1>11,
     <1>12, <1>13 DEF Next, Server, Client, Moves, Enters, Clears, Quiet

LEMMA TakenOrDroppedStep == IInv /\ [Next]_vars => TakenOrDropped'
<1> SUFFICES ASSUME TypeOK, TakenOrDropped, [Next]_vars PROVE TakenOrDropped'
  BY DEF IInv
<1> USE ConnsAssumption DEF TypeOK, Open, Ended, Goto, dbVars, goneVars, layerVars, histVars, TakenOrDropped
<1>1. ASSUME NEW c \in Conns, Moves(c) PROVE TakenOrDropped'
  BY <1>1, MovesOnlyPc DEF MovesTo
<1>2. ASSUME NEW c \in Conns, Enters(c) PROVE TakenOrDropped'
  BY <1>2 DEF Enters, GetRoom, CreateRoom
<1>3. ASSUME NEW c \in Conns, GroupAdd(c) PROVE TakenOrDropped'
  BY <1>3 DEF GroupAdd
<1>4. ASSUME NEW c \in Conns, ReceiveText(c) PROVE TakenOrDropped'
  BY <1>4 DEF ReceiveText
<1>5. ASSUME NEW c \in Conns, SaveMessage(c) PROVE TakenOrDropped'
  BY <1>5 DEF SaveMessage
<1>6. ASSUME NEW c \in Conns, SaveFails(c) PROVE TakenOrDropped'
  BY <1>6 DEF SaveFails
<1>7. ASSUME NEW c \in Conns, GroupSend(c) PROVE TakenOrDropped'
  BY <1>7 DEF GroupSend, GroupSendTo
<1>8. ASSUME NEW c \in Conns, ChatMessage(c) PROVE TakenOrDropped'
  BY <1>8 DEF ChatMessage
<1>9. ASSUME NEW c \in Conns, GroupDiscard(c) PROVE TakenOrDropped'
  BY <1>9 DEF GroupDiscard
<1>10. ASSUME NEW c \in Conns, ExpireMembership(c) PROVE TakenOrDropped'
  BY <1>10 DEF ExpireMembership
<1>11. ASSUME Clears PROVE TakenOrDropped'
  <2>1. Cleared
    BY <1>11, ClearsFacts
  <2>2. /\ \A n \in Names : \/ rooms'[n] = rooms[n] /\ dropped'[n] = dropped[n]
                           \/ rooms[n] \in dropped'[n]
        /\ pc' = pc
    BY <2>1 DEF Cleared
  <2>3. \A d \in Conns : NameOf[d] \in Names
    OBVIOUS
  <2> QED BY <2>2, <2>3
<1>12. ASSUME NEW u \in Users, DeleteUser(u) PROVE TakenOrDropped'
  BY <1>12 DEF DeleteUser
<1>13. UNCHANGED vars => TakenOrDropped'
  BY DEF vars
<1> QED
  BY <1>1, <1>2, <1>3, <1>4, <1>5, <1>6, <1>7, <1>8, <1>9, <1>10, <1>11,
     <1>12, <1>13 DEF Next, Server, Client, Moves, Enters, Clears, Quiet

LEMMA RacersStep == IInv /\ [Next]_vars => RacersShareTheRoom'
<1> SUFFICES ASSUME TypeOK, Lifecycle, TakenOrDropped, RacersShareTheRoom, [Next]_vars PROVE RacersShareTheRoom'
  BY DEF IInv
<1> USE ConnsAssumption DEF TypeOK, Open, Ended, Goto, dbVars, goneVars, layerVars, histVars, Lifecycle, TakenOrDropped, RacersShareTheRoom
<1>1. ASSUME NEW c \in Conns, Moves(c) PROVE RacersShareTheRoom'
  BY <1>1 DEF Moves, ConnectRejected, ConnectAuthenticated, MissRoom, NameTaken,
     ConnectFails, Accept, ReceiveMalformed, GroupSendFails, Disconnect,
     DisconnectRejected, GroupDiscardFails, Kill
<1>2. ASSUME NEW c \in Conns, Enters(c) PROVE RacersShareTheRoom'
  <2>1. Entered(c)
    BY <1>2, EntersFacts
  <2> DEFINE n == NameOf[c]
  <2>2. /\ roomRef'[c] = rooms'[n] /\ n \in Names /\ pc'[c] = "join"
        /\ \A d \in Conns \ {c} : roomRef'[d] = roomRef[d] /\ pc'[d] = pc[d]
        /\ \A o \in Names \ {n} : rooms'[o] = rooms[o]
        /\ rooms[n] # 0 => rooms'[n] = rooms[n]
        /\ dropped' = dropped
    BY <2>1, EntersRows DEF Entered
  <2> QED BY <2>2
<1>3. ASSUME NEW c \in Conns, GroupAdd(c) PROVE RacersShareTheRoom'
  BY <1>3 DEF GroupAdd
<1>4. ASSUME NEW c \in Conns, ReceiveText(c) PROVE RacersShareTheRoom'
  BY <1>4 DEF ReceiveText
<1>5. ASSUME NEW c \in Conns, SaveMessage(c) PROVE RacersShareTheRoom'
  BY <1>5 DEF SaveMessage
<1>6. ASSUME NEW c \in Conns, SaveFails(c) PROVE RacersShareTheRoom'
  BY <1>6 DEF SaveFails
<1>7. ASSUME NEW c \in Conns, GroupSend(c) PROVE RacersShareTheRoom'
  BY <1>7 DEF GroupSend, GroupSendTo
<1>8. ASSUME NEW c \in Conns, ChatMessage(c) PROVE RacersShareTheRoom'
  BY <1>8 DEF ChatMessage
<1>9. ASSUME NEW c \in Conns, GroupDiscard(c) PROVE RacersShareTheRoom'
  BY <1>9 DEF GroupDiscard
<1>10. ASSUME NEW c \in Conns, ExpireMembership(c) PROVE RacersShareTheRoom'
  BY <1>10 DEF ExpireMembership
<1>11. ASSUME Clears PROVE RacersShareTheRoom'
  <2>1. Cleared
    BY <1>11, ClearsFacts
  <2>2. /\ \A n \in Names : \/ rooms'[n] = rooms[n] /\ dropped'[n] = dropped[n]
                           \/ dropped'[n] = dropped[n] \cup {rooms[n]}
        /\ pc' = pc /\ roomRef' = roomRef
    BY <2>1 DEF Cleared
  <2>3. \A d \in Conns : NameOf[d] \in Names
    OBVIOUS
  <2> QED BY <2>2, <2>3
<1>12. ASSUME NEW u \in Users, DeleteUser(u) PROVE RacersShareTheRoom'
  BY <1>12 DEF DeleteUser
<1>13. UNCHANGED vars => RacersShareTheRoom'
  BY DEF vars
<1> QED
  BY <1>1, <1>2, <1>3, <1>4, <1>5, <1>6, <1>7, <1>8, <1>9, <1>10, <1>11,
     <1>12, <1>13 DEF Next, Server, Client, Moves, Enters, Clears, Quiet

LEMMA NoOrphanRowsStep == IInv /\ [Next]_vars => NoOrphanRows'
<1> SUFFICES ASSUME TypeOK, Lifecycle, RoomKeysAreUnique, StoredWasCounted, NoOrphanRows, [Next]_vars PROVE NoOrphanRows'
  BY DEF IInv
<1> USE ConnsAssumption, BoundsAssumption DEF TypeOK, Open, Ended, Goto, dbVars, goneVars, layerVars, histVars, Lifecycle, RoomKeysAreUnique, StoredWasCounted, NoOrphanRows, RefsResolve, Current, Messages
<1>1. ASSUME NEW c \in Conns, Moves(c) PROVE NoOrphanRows'
  BY <1>1, MovesOnlyPc DEF MovesTo
<1>2. ASSUME NEW c \in Conns, Enters(c) PROVE NoOrphanRows'
  <2>1. Entered(c)
    BY <1>2, EntersFacts
  <2>2. /\ \A d \in Conns \ {c} : roomRef'[d] = roomRef[d]
        /\ \A o \in Names : rooms[o] # 0 => rooms'[o] = rooms[o]
        /\ stored' = stored /\ users' = users
    BY <2>1, EntersRows DEF Entered
  <2>3. pc[c] \in {"room", "create", "again"} /\ texts[c] = 0
    BY <2>1 DEF Entered
  <2>4. ASSUME NEW m \in stored PROVE m[1] # c /\ m[1] \in Conns /\ roomRef[m[1]] # 0
    BY <2>3
  <2> QED BY <2>2, <2>4
<1>3. ASSUME NEW c \in Conns, GroupAdd(c) PROVE NoOrphanRows'
  BY <1>3 DEF GroupAdd
<1>4. ASSUME NEW c \in Conns, ReceiveText(c) PROVE NoOrphanRows'
  BY <1>4 DEF ReceiveText
<1>5. ASSUME NEW c \in Conns, SaveMessage(c) PROVE NoOrphanRows'
  BY <1>5 DEF SaveMessage
<1>6. ASSUME NEW c \in Conns, SaveFails(c) PROVE NoOrphanRows'
  BY <1>6 DEF SaveFails
<1>7. ASSUME NEW c \in Conns, GroupSend(c) PROVE NoOrphanRows'
  BY <1>7 DEF GroupSend, GroupSendTo
<1>8. ASSUME NEW c \in Conns, ChatMessage(c) PROVE NoOrphanRows'
  BY <1>8 DEF ChatMessage
<1>9. ASSUME NEW c \in Conns, GroupDiscard(c) PROVE NoOrphanRows'
  BY <1>9 DEF GroupDiscard
<1>10. ASSUME NEW c \in Conns, ExpireMembership(c) PROVE NoOrphanRows'
  BY <1>10 DEF ExpireMembership
<1>11. ASSUME Clears PROVE NoOrphanRows'
  <2>1. Cleared
    BY <1>11, ClearsFacts
  <2> QED BY <2>1 DEF Cleared
<1>12. ASSUME NEW u \in Users, DeleteUser(u) PROVE NoOrphanRows'
  BY <1>12 DEF DeleteUser
<1>13. UNCHANGED vars => NoOrphanRows'
  BY DEF vars
<1> QED
  BY <1>1, <1>2, <1>3, <1>4, <1>5, <1>6, <1>7, <1>8, <1>9, <1>10, <1>11,
     <1>12, <1>13 DEF Next, Server, Client, Moves, Enters, Clears, Quiet

LEMMA StoredWasCountedStep == IInv /\ [Next]_vars => StoredWasCounted'
<1> SUFFICES ASSUME TypeOK, StoredWasCounted, [Next]_vars PROVE StoredWasCounted'
  BY DEF IInv
<1> USE BoundsAssumption DEF TypeOK, Open, Ended, Goto, dbVars, goneVars, layerVars, histVars, StoredWasCounted, Current, Messages
<1>1. ASSUME NEW c \in Conns, Moves(c) PROVE StoredWasCounted'
  BY <1>1, MovesOnlyPc DEF MovesTo
<1>2. ASSUME NEW c \in Conns, Enters(c) PROVE StoredWasCounted'
  BY <1>2 DEF Enters, GetRoom, CreateRoom
<1>3. ASSUME NEW c \in Conns, GroupAdd(c) PROVE StoredWasCounted'
  BY <1>3 DEF GroupAdd
<1>4. ASSUME NEW c \in Conns, ReceiveText(c) PROVE StoredWasCounted'
  BY <1>4 DEF ReceiveText
<1>5. ASSUME NEW c \in Conns, SaveMessage(c) PROVE StoredWasCounted'
  BY <1>5 DEF SaveMessage
<1>6. ASSUME NEW c \in Conns, SaveFails(c) PROVE StoredWasCounted'
  BY <1>6 DEF SaveFails
<1>7. ASSUME NEW c \in Conns, GroupSend(c) PROVE StoredWasCounted'
  BY <1>7 DEF GroupSend, GroupSendTo
<1>8. ASSUME NEW c \in Conns, ChatMessage(c) PROVE StoredWasCounted'
  BY <1>8 DEF ChatMessage
<1>9. ASSUME NEW c \in Conns, GroupDiscard(c) PROVE StoredWasCounted'
  BY <1>9 DEF GroupDiscard
<1>10. ASSUME NEW c \in Conns, ExpireMembership(c) PROVE StoredWasCounted'
  BY <1>10 DEF ExpireMembership
<1>11. ASSUME Clears PROVE StoredWasCounted'
  BY <1>11 DEF Clears, DeleteMessages, DeleteRoom
<1>12. ASSUME NEW u \in Users, DeleteUser(u) PROVE StoredWasCounted'
  BY <1>12 DEF DeleteUser
<1>13. UNCHANGED vars => StoredWasCounted'
  BY DEF vars
<1> QED
  BY <1>1, <1>2, <1>3, <1>4, <1>5, <1>6, <1>7, <1>8, <1>9, <1>10, <1>11,
     <1>12, <1>13 DEF Next, Server, Client, Moves, Enters, Clears, Quiet

\* A message that was sent, or is about to be, has a room.
LEMMA SentHasRoom ==
  ASSUME TypeOK, Lifecycle, TextsHandledOnce, NEW m \in Messages,
         sentAt[m] # 0 \/ (pc[m[1]] = "send" /\ m = Current(m[1]))
  PROVE  roomRef[m[1]] # 0
<1>1. PICK c \in Conns, k \in 1..MaxTexts : m = <<c, k>>
  BY DEF Messages
<1>2. CASE sentAt[m] # 0
  <2>1. ~(k > texts[c])
    BY <1>1, <1>2 DEF TextsHandledOnce
  <2> QED BY <1>1, <2>1, BoundsAssumption DEF Lifecycle, TypeOK
<1>3. CASE pc[c] = "send"
  BY <1>1, <1>3 DEF Lifecycle, Open
<1> QED BY <1>1, <1>2, <1>3

LEMMA SentWasStoredStep == IInv /\ [Next]_vars => SentWasStored'
<1> SUFFICES ASSUME TypeOK, Lifecycle, RoomKeysAreUnique, NoOrphanRows, TextsHandledOnce, SentWasStored, [Next]_vars PROVE SentWasStored'
  BY DEF IInv
<1> USE ConnsAssumption, BoundsAssumption DEF TypeOK, Open, Ended, Goto, dbVars, goneVars, layerVars, histVars, Lifecycle, RoomKeysAreUnique, NoOrphanRows, TextsHandledOnce, SentWasStored, RefsResolve, Current, Messages
<1>1. ASSUME NEW c \in Conns, Moves(c) PROVE SentWasStored'
  <2>1. /\ UNCHANGED <<rooms, users, roomRef, texts, stored, sentAt, erased>>
        /\ \A d \in Conns : pc'[d] = "send" => pc[d] = "send"
    BY <1>1, MovesOnlyPc DEF MovesTo
  <2> QED BY <2>1
<1>2. ASSUME NEW c \in Conns, Enters(c) PROVE SentWasStored'
  <2>1. SUFFICES ASSUME NEW m \in Messages,
                        sentAt[m] # 0 \/ (pc'[m[1]] = "send" /\ m = Current(m[1])')
                 PROVE  m \in stored \/ m \in erased \/ ~RefsResolve(m[1])'
    BY <1>2 DEF Enters, GetRoom, CreateRoom
  <2>2. sentAt[m] # 0 \/ (pc[m[1]] = "send" /\ m = Current(m[1]))
    BY <1>2, <2>1 DEF Enters, GetRoom, CreateRoom
  <2>3. roomRef[m[1]] # 0 /\ m[1] \in Conns
    BY <2>2, SentHasRoom
  <2>4. m[1] # c
    BY <1>2, <2>3 DEF Enters, GetRoom, CreateRoom
  <2>5. m \in stored \/ m \in erased \/ ~RefsResolve(m[1])
    BY <2>2
  <2>6. /\ roomRef'[m[1]] = roomRef[m[1]] /\ roomRef[m[1]] <= lastRoom
        /\ users' = users
    BY <1>2, <2>3, <2>4 DEF Enters, GetRoom, CreateRoom
  <2>7. \/ rooms'[NameOf[m[1]]] = rooms[NameOf[m[1]]]
        \/ rooms'[NameOf[m[1]]] = lastRoom + 1
    <3>1. NameOf[m[1]] \in Names
      BY <2>3, ConnsAssumption
    <3>2. rooms' = rooms \/ rooms' = [rooms EXCEPT ![NameOf[c]] = lastRoom + 1]
      BY <1>2 DEF Enters, GetRoom, CreateRoom
    <3> QED BY <3>1, <3>2
  <2>8. roomRef[m[1]] \in Nat /\ lastRoom \in Nat
    BY <2>3
  <2>9. ASSUME ~RefsResolve(m[1]) PROVE ~RefsResolve(m[1])'
    <3> HIDE DEF TypeOK, Lifecycle, RoomKeysAreUnique, NoOrphanRows, TextsHandledOnce, SentWasStored, Messages
    <3> QED BY <2>6, <2>7, <2>8, <2>9
  <2> QED BY <2>5, <2>9
<1>3. ASSUME NEW c \in Conns, GroupAdd(c) PROVE SentWasStored'
  BY <1>3 DEF GroupAdd
<1>4. ASSUME NEW c \in Conns, ReceiveText(c) PROVE SentWasStored'
  BY <1>4 DEF ReceiveText
<1>5. ASSUME NEW c \in Conns, SaveMessage(c) PROVE SentWasStored'
  BY <1>5 DEF SaveMessage
<1>6. ASSUME NEW c \in Conns, SaveFails(c) PROVE SentWasStored'
  BY <1>6 DEF SaveFails
<1>7. ASSUME NEW c \in Conns, GroupSend(c) PROVE SentWasStored'
  <2>1. /\ sentAt' = [sentAt EXCEPT ![Current(c)] = sends + 1]
        /\ pc[c] = "send" /\ pc' = [pc EXCEPT ![c] = "open"]
        /\ UNCHANGED <<rooms, users, roomRef, texts, stored, erased>>
    BY <1>7 DEF GroupSend, GroupSendTo
  <2>2. SUFFICES ASSUME NEW m \in Messages,
                        sentAt'[m] # 0 \/ (pc'[m[1]] = "send" /\ m = Current(m[1])')
                 PROVE  m \in stored \/ m \in erased \/ ~RefsResolve(m[1])
    BY <2>1
  <2>3. CASE m = Current(c)
    BY <2>1, <2>3
  <2>4. CASE m # Current(c)
    BY <2>1, <2>2, <2>4
  <2> QED BY <2>3, <2>4
<1>8. ASSUME NEW c \in Conns, ChatMessage(c) PROVE SentWasStored'
  BY <1>8 DEF ChatMessage
<1>9. ASSUME NEW c \in Conns, GroupDiscard(c) PROVE SentWasStored'
  BY <1>9 DEF GroupDiscard
<1>10. ASSUME NEW c \in Conns, ExpireMembership(c) PROVE SentWasStored'
  BY <1>10 DEF ExpireMembership
<1>11. ASSUME Clears PROVE SentWasStored'
  <2>0. CASE \E some \in SUBSET stored : DeleteMessages(some)
    BY <2>0 DEF DeleteMessages
  <2> SUFFICES ASSUME NEW n \in Names, DeleteRoom(n) PROVE SentWasStored'
    BY <1>11, <2>0 DEF Clears
  <2>1. /\ UNCHANGED <<pc, roomRef, texts, sentAt, users, erased>>
        /\ rooms' = [rooms EXCEPT ![n] = 0] /\ rooms[n] # 0
        /\ stored' = {m \in stored : roomRef[m[1]] # rooms[n]}
    BY DEF DeleteRoom
  <2>2. SUFFICES ASSUME NEW m \in Messages,
                        sentAt[m] # 0 \/ (pc[m[1]] = "send" /\ m = Current(m[1]))
                 PROVE  m \in stored' \/ m \in erased \/ ~RefsResolve(m[1])'
    BY <2>1
  <2>3. roomRef[m[1]] # 0 /\ m[1] \in Conns
    BY <2>2, SentHasRoom
  <2>4. CASE m \in stored'
    BY <2>4
  <2>5. CASE m \in stored /\ m \notin stored'
    BY <2>1, <2>3, <2>5
  <2>6. CASE m \in erased \/ ~RefsResolve(m[1])
    BY <2>1, <2>3, <2>6
  <2> QED BY <2>2, <2>4, <2>5, <2>6
<1>12. ASSUME NEW u \in Users, DeleteUser(u) PROVE SentWasStored'
  BY <1>12 DEF DeleteUser
<1>13. UNCHANGED vars => SentWasStored'
  BY DEF vars
<1> QED
  BY <1>1, <1>2, <1>3, <1>4, <1>5, <1>6, <1>7, <1>8, <1>9, <1>10, <1>11,
     <1>12, <1>13 DEF Next, Server, Client, Moves, Enters, Clears, Quiet

LEMMA TextsHandledOnceStep == IInv /\ [Next]_vars => TextsHandledOnce'
<1> SUFFICES ASSUME TypeOK, Lifecycle, TextsHandledOnce, [Next]_vars PROVE TextsHandledOnce'
  BY DEF IInv
<1>0. sends \in Nat /\ \A o \in Messages : sentAt[o] \in Nat /\ sentAt[o] <= sends
  BY DEF TypeOK, TextsHandledOnce
<1> USE BoundsAssumption DEF TypeOK, Open, Ended, Goto, dbVars, goneVars, layerVars, histVars, Lifecycle, TextsHandledOnce, Current, Messages
<1>1. ASSUME NEW c \in Conns, Moves(c) PROVE TextsHandledOnce'
  <2>1. UNCHANGED <<texts, refused, sends, sentAt>>
    BY <1>1, MovesOnlyPc
  <2>2. \A d \in Conns : pc'[d] \in {"save", "send"} => pc[d] \in {"save", "send"}
    BY <1>1, MovesOnlyPc DEF MovesTo
  <2> QED BY <2>1, <2>2
<1>2. ASSUME NEW c \in Conns, Enters(c) PROVE TextsHandledOnce'
  BY <1>2 DEF Enters, GetRoom, CreateRoom
<1>3. ASSUME NEW c \in Conns, GroupAdd(c) PROVE TextsHandledOnce'
  BY <1>3 DEF GroupAdd
<1>4. ASSUME NEW c \in Conns, ReceiveText(c) PROVE TextsHandledOnce'
  BY <1>4 DEF ReceiveText
<1>5. ASSUME NEW c \in Conns, SaveMessage(c) PROVE TextsHandledOnce'
  <2>1. /\ pc[c] = "save" /\ UNCHANGED <<texts, refused, sends, sentAt>>
        /\ pc' = [pc EXCEPT ![c] = "send"]
    BY <1>5 DEF SaveMessage
  <2>2. \A d \in Conns : pc'[d] \in {"save", "send"} => pc[d] \in {"save", "send"}
    BY <2>1
  <2> QED BY <2>1, <2>2
<1>6. ASSUME NEW c \in Conns, SaveFails(c) PROVE TextsHandledOnce'
  <2>1. /\ pc[c] = "save" /\ pc' = [pc EXCEPT ![c] = "open"]
        /\ refused' = refused \cup {<<c, texts[c]>>}
        /\ UNCHANGED <<texts, sends, sentAt>>
    BY <1>6 DEF SaveFails
  <2>2. texts[c] \in 1..MaxTexts /\ sentAt[<<c, texts[c]>>] = 0
    BY <2>1
  <2>3. \A d \in Conns : pc'[d] \in {"save", "send"} => d # c /\ pc'[d] = pc[d]
    BY <2>1
  <2>4. \A m \in refused' : sentAt'[m] = 0
    BY <2>1, <2>2
  <2>5. \A m \in Messages : sentAt'[m] <= sends'
    BY <2>1
  <2>6. ASSUME NEW d \in Conns, NEW k \in 1..MaxTexts,
               k > texts[d] \/ (k = texts[d] /\ pc'[d] \in {"save", "send"})
        PROVE  sentAt[<<d, k>>] = 0 /\ <<d, k>> \notin refused'
    <3>1. sentAt[<<d, k>>] = 0 /\ <<d, k>> \notin refused
      BY <2>3, <2>6
    <3>2. <<d, k>> # <<c, texts[c]>>
      BY <2>2, <2>3, <2>6
    <3> QED BY <2>1, <3>1, <3>2
  <2> QED BY <2>1, <2>4, <2>5, <2>6
<1>7. ASSUME NEW c \in Conns, GroupSend(c) PROVE TextsHandledOnce'
  <2> DEFINE m == <<c, texts[c]>>
  <2>1. /\ pc[c] = "send" /\ pc' = [pc EXCEPT ![c] = "open"]
        /\ sends' = sends + 1 /\ sentAt' = [sentAt EXCEPT ![m] = sends + 1]
        /\ UNCHANGED <<texts, refused>>
    BY <1>7 DEF GroupSend, GroupSendTo
  <2>2. m \in Messages /\ m \notin refused
    <3>1. texts[c] \in 1..MaxTexts
      BY <2>1
    <3> QED BY <2>1, <3>1
  <2>3. \A d \in Conns : pc'[d] \in {"save", "send"} => d # c /\ pc'[d] = pc[d]
    BY <2>1
  <2>4. \A o \in Messages \ {m} : sentAt'[o] = sentAt[o]
    BY <2>1
  <2>5. \A o \in refused : sentAt'[o] = 0
    <3>1. \A o \in refused : o \in Messages \ {m} /\ sentAt[o] = 0
      BY <2>2
    <3> QED BY <2>4, <3>1
  <2>6. ASSUME NEW o \in Messages PROVE sentAt'[o] <= sends'
    <3>1. sentAt[o] \in Nat /\ sentAt[o] <= sends /\ sends \in Nat
      <4>1. o \in Messages
        BY <2>6
      <4> HIDE DEF Messages
      <4> QED BY ONLY <1>0, <4>1
    <3>2. sentAt'[o] \in {sentAt[o], sends + 1} /\ sends' = sends + 1
      BY <2>1
    <3> QED BY ONLY <3>1, <3>2
  <2>7. ASSUME NEW d \in Conns, NEW k \in 1..MaxTexts,
               k > texts[d] \/ (k = texts[d] /\ pc'[d] \in {"save", "send"})
        PROVE  sentAt'[<<d, k>>] = 0 /\ <<d, k>> \notin refused
    <3>1. sentAt[<<d, k>>] = 0 /\ <<d, k>> \notin refused
      BY <2>3, <2>7
    <3>2. <<d, k>> # m /\ <<d, k>> \in Messages
      BY <2>3, <2>7
    <3> QED BY <2>4, <3>1, <3>2
  <2> HIDE DEF m
  <2> QED BY <2>1, <2>5, <2>6, <2>7
<1>8. ASSUME NEW c \in Conns, ChatMessage(c) PROVE TextsHandledOnce'
  BY <1>8 DEF ChatMessage
<1>9. ASSUME NEW c \in Conns, GroupDiscard(c) PROVE TextsHandledOnce'
  BY <1>9 DEF GroupDiscard
<1>10. ASSUME NEW c \in Conns, ExpireMembership(c) PROVE TextsHandledOnce'
  BY <1>10 DEF ExpireMembership
<1>11. ASSUME Clears PROVE TextsHandledOnce'
  <2>1. Cleared
    BY <1>11, ClearsFacts
  <2> QED BY <2>1 DEF Cleared
<1>12. ASSUME NEW u \in Users, DeleteUser(u) PROVE TextsHandledOnce'
  BY <1>12 DEF DeleteUser
<1>13. UNCHANGED vars => TextsHandledOnce'
  BY DEF vars
<1> QED
  BY <1>1, <1>2, <1>3, <1>4, <1>5, <1>6, <1>7, <1>8, <1>9, <1>10, <1>11,
     <1>12, <1>13 DEF Next, Server, Client, Moves, Enters, Clears, Quiet

LEMMA SentInTextOrderStep == IInv /\ [Next]_vars => SentInTextOrder'
<1> SUFFICES ASSUME TypeOK, Lifecycle, TextsHandledOnce, SentInTextOrder, [Next]_vars PROVE SentInTextOrder'
  BY DEF IInv
<1> USE BoundsAssumption DEF TypeOK, Open, Ended, Goto, dbVars, goneVars, layerVars, histVars, Lifecycle, TextsHandledOnce, SentInTextOrder, Current, Messages
<1>1. ASSUME NEW c \in Conns, Moves(c) PROVE SentInTextOrder'
  BY <1>1, MovesOnlyPc DEF MovesTo
<1>2. ASSUME NEW c \in Conns, Enters(c) PROVE SentInTextOrder'
  BY <1>2 DEF Enters, GetRoom, CreateRoom
<1>3. ASSUME NEW c \in Conns, GroupAdd(c) PROVE SentInTextOrder'
  BY <1>3 DEF GroupAdd
<1>4. ASSUME NEW c \in Conns, ReceiveText(c) PROVE SentInTextOrder'
  BY <1>4 DEF ReceiveText
<1>5. ASSUME NEW c \in Conns, SaveMessage(c) PROVE SentInTextOrder'
  BY <1>5 DEF SaveMessage
<1>6. ASSUME NEW c \in Conns, SaveFails(c) PROVE SentInTextOrder'
  BY <1>6 DEF SaveFails
<1>7. ASSUME NEW c \in Conns, GroupSend(c) PROVE SentInTextOrder'
  <2>1. /\ sentAt' = [sentAt EXCEPT ![<<c, texts[c]>>] = sends + 1]
        /\ pc[c] = "send"
    BY <1>7 DEF GroupSend, GroupSendTo
  <2>2. SUFFICES ASSUME NEW d \in Conns, NEW i \in 1..MaxTexts,
                        NEW j \in 1..MaxTexts, i < j, sentAt'[<<d, j>>] # 0
                 PROVE  sentAt'[<<d, i>>] < sentAt'[<<d, j>>]
    OBVIOUS
  <2>3. <<d, i>> \in Messages /\ <<d, j>> \in Messages
    OBVIOUS
  <2>4. CASE <<d, j>> = <<c, texts[c]>>
    BY <2>1, <2>2, <2>3, <2>4
  <2>5. CASE <<d, j>> # <<c, texts[c]>>
    <3>1. sentAt[<<d, j>>] # 0
      BY <2>1, <2>2, <2>3, <2>5
    <3>2. <<d, i>> # <<c, texts[c]>>
      BY <2>2, <3>1
    <3> QED BY <2>1, <2>2, <2>3, <2>5, <3>1, <3>2
  <2> QED BY <2>4, <2>5
<1>8. ASSUME NEW c \in Conns, ChatMessage(c) PROVE SentInTextOrder'
  BY <1>8 DEF ChatMessage
<1>9. ASSUME NEW c \in Conns, GroupDiscard(c) PROVE SentInTextOrder'
  BY <1>9 DEF GroupDiscard
<1>10. ASSUME NEW c \in Conns, ExpireMembership(c) PROVE SentInTextOrder'
  BY <1>10 DEF ExpireMembership
<1>11. ASSUME Clears PROVE SentInTextOrder'
  BY <1>11 DEF Clears, DeleteMessages, DeleteRoom
<1>12. ASSUME NEW u \in Users, DeleteUser(u) PROVE SentInTextOrder'
  BY <1>12 DEF DeleteUser
<1>13. UNCHANGED vars => SentInTextOrder'
  BY DEF vars
<1> QED
  BY <1>1, <1>2, <1>3, <1>4, <1>5, <1>6, <1>7, <1>8, <1>9, <1>10, <1>11,
     <1>12, <1>13 DEF Next, Server, Client, Moves, Enters, Clears, Quiet

-----------------------------------------------------------------------------
(***************************************************************************)
(* What travels from the group to the socket.                              *)
(***************************************************************************)
LEMMA RangeOfAppend ==
  ASSUME NEW q \in Seq(Messages), NEW m \in Messages
  PROVE  Range(Append(q, m)) = Range(q) \cup {m}
<1>1. /\ DOMAIN q = 1..Len(q) /\ Len(q) \in Nat
      /\ DOMAIN Append(q, m) = 1..(Len(q) + 1)
      /\ \A i \in 1..Len(q) : Append(q, m)[i] = q[i]
      /\ Append(q, m)[Len(q) + 1] = m
  OBVIOUS
<1>2. 1..(Len(q) + 1) = (1..Len(q)) \cup {Len(q) + 1}
  BY <1>1
<1> QED BY <1>1, <1>2, Zenon DEF Range

LEMMA RangeOfTail ==
  ASSUME NEW q \in Seq(Messages), q # <<>>
  PROVE  /\ Head(q) \in Range(q)
         /\ Range(Tail(q)) \subseteq Range(q)
         /\ Tail(q) \in Seq(Messages)
BY DEF Range

LEMMA RangeOfPush ==
  ASSUME NEW q \in Seq(Messages), NEW m \in Messages, NEW b \in BOOLEAN
  PROVE  Range(Push(q, m, b)) \subseteq Range(q) \cup {m}
<1>1. CASE Len(q) < Capacity
  BY <1>1, RangeOfAppend DEF Push
<1>2. CASE ~(Len(q) < Capacity)
  <2>1. q # <<>>
    BY <1>2, BoundsAssumption
  <2>2. /\ Tail(q) \in Seq(Messages)
        /\ Range(Tail(q)) \subseteq Range(q)
    BY <2>1, RangeOfTail
  <2>3. Range(Append(Tail(q), m)) = Range(Tail(q)) \cup {m}
    BY <2>2, RangeOfAppend
  <2> QED BY <1>2, <2>2, <2>3 DEF Push
<1> QED BY <1>1, <1>2

LEMMA IncreasingAppend ==
  ASSUME NEW q \in Seq(Messages), NEW m \in Messages,
         NEW f \in [Messages -> Nat], Increasing(q, f),
         \A w \in Range(q) : f[w] < f[m]
  PROVE  Increasing(Append(q, m), f)
<1> SUFFICES ASSUME NEW i \in 1..Len(Append(q, m)),
                    NEW j \in 1..Len(Append(q, m)), i < j
             PROVE  f[Append(q, m)[i]] < f[Append(q, m)[j]]
  BY DEF Increasing
<1>1. i \in 1..Len(q) /\ Append(q, m)[i] = q[i]
  <2>1. Len(q) \in Nat /\ Len(Append(q, m)) = Len(q) + 1
    OBVIOUS
  <2>2. i \in 1..Len(q)
    BY ONLY <2>1, i \in 1..Len(Append(q, m)), j \in 1..Len(Append(q, m)), i < j
  <2> QED BY <2>2
<1>2. CASE j \in 1..Len(q)
  <2>1. Append(q, m)[j] = q[j]
    BY <1>2
  <2>2. f[q[i]] < f[q[j]]
    BY <1>1, <1>2 DEF Increasing
  <2> QED BY ONLY <1>1, <2>1, <2>2
<1>3. CASE j = Len(q) + 1
  <2>1. Append(q, m)[j] = m
    BY <1>3
  <2>2. q[i] \in Range(q)
    BY <1>1 DEF Range
  <2>3. f[q[i]] < f[m]
    BY <2>2
  <2> QED BY ONLY <1>1, <2>1, <2>3
<1>4. j \in 1..Len(q) \/ j = Len(q) + 1
  <2>1. Len(q) \in Nat /\ Len(Append(q, m)) = Len(q) + 1
    OBVIOUS
  <2> QED BY ONLY <2>1, j \in 1..Len(Append(q, m))
<1> QED BY <1>2, <1>3, <1>4

LEMMA IncreasingTail ==
  ASSUME NEW q \in Seq(Messages), q # <<>>,
         NEW f \in [Messages -> Nat], Increasing(q, f)
  PROVE  /\ Increasing(Tail(q), f)
         /\ \A w \in Range(Tail(q)) : f[Head(q)] < f[w]
<1>1. /\ Len(q) \in Nat /\ Len(q) >= 1
      /\ Len(Tail(q)) = Len(q) - 1
      /\ \A i \in 1..Len(Tail(q)) : Tail(q)[i] = q[i + 1]
      /\ DOMAIN Tail(q) = 1..Len(Tail(q))
  OBVIOUS
<1>2. Increasing(Tail(q), f)
  BY <1>1 DEF Increasing
<1>3. \A w \in Range(Tail(q)) : f[Head(q)] < f[w]
  <2> SUFFICES ASSUME NEW i \in 1..Len(Tail(q))
               PROVE  f[Head(q)] < f[Tail(q)[i]]
    BY <1>1 DEF Range
  <2> QED BY <1>1 DEF Increasing
<1> QED BY <1>2, <1>3

LEMMA IncreasingPush ==
  ASSUME NEW q \in Seq(Messages), NEW m \in Messages, NEW b \in BOOLEAN,
         NEW f \in [Messages -> Nat], Increasing(q, f),
         \A w \in Range(q) : f[w] < f[m]
  PROVE  Increasing(Push(q, m, b), f)
<1>1. CASE Len(q) < Capacity
  BY <1>1, IncreasingAppend DEF Push
<1>2. CASE ~(Len(q) < Capacity)
  <2>1. q # <<>>
    BY <1>2, BoundsAssumption
  <2>2. Increasing(Append(Tail(q), m), f)
    <3>1. /\ Tail(q) \in Seq(Messages) /\ Increasing(Tail(q), f)
          /\ \A w \in Range(Tail(q)) : f[w] < f[m]
      BY <2>1, IncreasingTail, RangeOfTail
    <3> QED BY <3>1, IncreasingAppend
  <2> QED BY <1>2, <2>2 DEF Push
<1> QED BY <1>1, <1>2

\* Numbers given to other messages do not disturb an order.
LEMMA IncreasingElsewhere ==
  ASSUME NEW q \in Seq(Messages),
         NEW f \in [Messages -> Nat], NEW g \in [Messages -> Nat],
         \A w \in Range(q) : f[w] = g[w], Increasing(q, f)
  PROVE  Increasing(q, g)
<1>1. \A i \in 1..Len(q) : q[i] \in Range(q)
  BY DEF Range
<1> QED BY <1>1 DEF Increasing

\* Only a group_send and a delivery touch what travels.
LEMMA TapeSteps ==
  ASSUME [Next]_vars
  PROVE  \/ UNCHANGED <<inbox, seen, sentAt, sends, audience>>
         \/ \E c \in Conns : GroupSend(c)
         \/ \E c \in Conns : ChatMessage(c)
BY DEF Next, Server, Client, vars, dbVars, goneVars, layerVars, histVars,
       ConnectRejected, ConnectAuthenticated, GetRoom, MissRoom,
       CreateRoom, NameTaken, ConnectFails,
       GroupAdd, Accept, ReceiveText, ReceiveMalformed, SaveMessage, SaveFails,
       GroupSendFails, Disconnect, DisconnectRejected, GroupDiscard,
       GroupDiscardFails, Kill, ExpireMembership, DeleteMessages, DeleteRoom, DeleteUser, Quiet

\* A group_send numbers a message that is on no tape, and pushes it last.
LEMMA GroupSendFacts ==
  ASSUME IInv, NEW c \in Conns, GroupSend(c)
  PROVE  /\ Current(c) \in Messages
         /\ sentAt[Current(c)] = 0
         /\ sentAt' = [sentAt EXCEPT ![Current(c)] = sends + 1]
         /\ seen' = seen
         /\ \E miss \in SUBSET group[NameOf[c]] :
              inbox' = [d \in Conns |-> IF d \in group[NameOf[c]]
                                   THEN Push(inbox[d], Current(c), d \in miss)
                                   ELSE inbox[d]]
<1>1. pc[c] = "send"
  BY DEF GroupSend, Goto
<1>2. Current(c) \in Messages
  BY <1>1, CurrentIsMessage DEF IInv, TypeInv
<1>3. sentAt[Current(c)] = 0
  BY <1>1, <1>2, BoundsAssumption
     DEF IInv, TextsHandledOnce, TypeOK, Messages, Current
<1> QED BY <1>2, <1>3 DEF GroupSend, GroupSendTo

LEMMA TapeIsGenuineStep == IInv /\ [Next]_vars => TapeIsGenuine'
<1> SUFFICES ASSUME IInv, [Next]_vars PROVE TapeIsGenuine'
  OBVIOUS
<1> USE DEF TapeIsGenuine
<1>1. TypeOK /\ TapeIsGenuine /\ GroupsByName
  BY DEF IInv
<1>2. CASE UNCHANGED <<inbox, seen, sentAt, sends, audience>>
  BY <1>1, <1>2
<1>3. ASSUME NEW c \in Conns, GroupSend(c) PROVE TapeIsGenuine'
  <2> DEFINE m == Current(c)
  <2>1. /\ m \in Messages /\ sentAt' = [sentAt EXCEPT ![m] = sends + 1]
        /\ seen' = seen
    BY <1>3, GroupSendFacts
  <2>2. PICK miss \in SUBSET group[NameOf[c]] :
          inbox' = [d \in Conns |-> IF d \in group[NameOf[c]]
                                   THEN Push(inbox[d], m, d \in miss)
                                   ELSE inbox[d]]
    BY <1>3, GroupSendFacts
  <2>3. m[1] = c
    BY DEF Current
  <2>4. /\ sends \in Nat /\ sentAt \in [Messages -> Nat]
        /\ inbox \in [Conns -> Seq(Messages)] /\ seen \in [Conns -> Seq(Messages)]
    BY <1>1 DEF TypeOK
  <2>5. ASSUME NEW d \in Conns
        PROVE  /\ Range(inbox[d]') \subseteq Range(inbox[d]) \cup {m}
               /\ m \in Range(inbox[d]') =>
                    m \in Range(inbox[d]) \/ NameOf[c] = NameOf[d]
    <3>1. CASE d \in group[NameOf[c]]
      <4>1. inbox[d] \in Seq(Messages) /\ (d \in miss) \in BOOLEAN
        BY <2>4
      <4>2. Range(Push(inbox[d], m, d \in miss)) \subseteq Range(inbox[d]) \cup {m}
        BY <4>1, <2>1, RangeOfPush
      <4>3. NameOf[d] = NameOf[c]
        BY <1>1, <3>1, ConnsAssumption DEF GroupsByName
      <4> QED BY <2>2, <3>1, <4>2, <4>3
    <3>2. CASE d \notin group[NameOf[c]]
      BY <2>2, <3>2
    <3> QED BY <3>1, <3>2
  <2>6. \A w \in Messages : sentAt[w] # 0 \/ w = m => sentAt'[w] # 0
    BY <2>1, <2>4
  <2>7. ASSUME NEW d \in Conns, NEW w \in Range(seen[d]) \cup Range(inbox[d])
        PROVE  w \in Messages
    BY <2>4 DEF Range
  <2> QED BY <1>1, <2>1, <2>3, <2>5, <2>6, <2>7
<1>4. ASSUME NEW c \in Conns, ChatMessage(c) PROVE TapeIsGenuine'
  <2>1. /\ inbox[c] \in Seq(Messages) /\ inbox[c] # <<>>
        /\ seen[c] \in Seq(Messages)
        /\ seen' = [seen EXCEPT ![c] = Append(@, Head(inbox[c]))]
        /\ inbox' = [inbox EXCEPT ![c] = Tail(@)]
        /\ sentAt' = sentAt
    BY <1>1, <1>4 DEF TypeOK, ChatMessage, histVars
  <2>2. /\ Head(inbox[c]) \in Range(inbox[c])
        /\ Range(Tail(inbox[c])) \subseteq Range(inbox[c])
    BY <2>1, RangeOfTail
  <2>3. Head(inbox[c]) \in Messages
    BY <2>1
  <2>4. Range(Append(seen[c], Head(inbox[c]))) = Range(seen[c]) \cup {Head(inbox[c])}
    BY <2>1, <2>3, RangeOfAppend
  <2>5. ASSUME NEW d \in Conns
        PROVE  Range(seen[d]') \cup Range(inbox[d]')
                 \subseteq Range(seen[d]) \cup Range(inbox[d])
    <3>1. CASE d = c
      BY <1>1, <2>1, <2>2, <2>4, <3>1 DEF TypeOK
    <3>2. CASE d # c
      BY <1>1, <2>1, <3>2 DEF TypeOK
    <3> QED BY <3>1, <3>2
  <2> QED BY <1>1, <2>1, <2>5
<1> QED BY <1>2, <1>3, <1>4, TapeSteps

LEMMA TapeInSendOrderStep == IInv /\ [Next]_vars => TapeInSendOrder'
<1> SUFFICES ASSUME IInv, [Next]_vars PROVE TapeInSendOrder'
  OBVIOUS
<1>1. /\ inbox \in [Conns -> Seq(Messages)] /\ seen \in [Conns -> Seq(Messages)]
      /\ sends \in Nat /\ sentAt \in [Messages -> Nat]
      /\ TapeInSendOrder /\ TapeIsGenuine
      /\ \A w \in Messages : sentAt[w] <= sends
  BY DEF IInv, TypeOK, TextsHandledOnce
<1>2. CASE UNCHANGED <<inbox, seen, sentAt, sends, audience>>
  BY <1>1, <1>2 DEF TapeInSendOrder
<1>3. ASSUME NEW c \in Conns, GroupSend(c) PROVE TapeInSendOrder'
  <2> DEFINE m == Current(c)
  <2>1. /\ m \in Messages /\ sentAt[m] = 0
        /\ sentAt' = [sentAt EXCEPT ![m] = sends + 1]
        /\ seen' = seen
    BY <1>3, GroupSendFacts
  <2>2. PICK miss \in SUBSET group[NameOf[c]] :
          inbox' = [d \in Conns |-> IF d \in group[NameOf[c]]
                                   THEN Push(inbox[d], m, d \in miss)
                                   ELSE inbox[d]]
    BY <1>3, GroupSendFacts
  <2>3. /\ sentAt' \in [Messages -> Nat] /\ sentAt'[m] = sends + 1
        /\ \A w \in Messages \ {m} : sentAt'[w] = sentAt[w]
    BY <1>1, <2>1
  <2>4. ASSUME NEW d \in Conns, NEW w \in Range(seen[d]) \cup Range(inbox[d])
        PROVE  /\ w \in Messages /\ sentAt'[w] = sentAt[w]
               /\ sentAt'[w] < sentAt'[m]
    <3>1. w \in Messages
      BY <1>1 DEF Range
    <3>2. w # m
      BY <1>1, <2>1 DEF TapeIsGenuine
    <3>3. sentAt'[w] = sentAt[w] /\ sentAt[w] <= sends /\ sentAt[w] \in Nat
      BY <1>1, <2>3, <3>1, <3>2
    <3> QED BY <1>1, <2>3, <3>1, <3>3
  <2>5. ASSUME NEW d \in Conns
        PROVE  /\ Increasing(seen[d], sentAt)' 
               /\ Increasing(inbox[d], sentAt)'
               /\ \A w \in Range(seen[d]'), v \in Range(inbox[d]') :
                    sentAt'[w] < sentAt'[v]
    <3> DEFINE q == inbox[d]
    <3>1. /\ Increasing(seen[d], sentAt') /\ Increasing(q, sentAt')
      <4>1. Increasing(seen[d], sentAt) /\ Increasing(q, sentAt)
        BY <1>1 DEF TapeInSendOrder
      <4>2. /\ \A w \in Range(seen[d]) : sentAt[w] = sentAt'[w]
            /\ \A w \in Range(q) : sentAt[w] = sentAt'[w]
        BY <2>4
      <4> QED BY <1>1, <2>3, <4>1, <4>2, IncreasingElsewhere
    <3>2. \A w \in Range(seen[d]), v \in Range(q) \cup {m} :
            sentAt'[w] < sentAt'[v]
      BY <1>1, <2>4 DEF TapeInSendOrder
    <3>3. CASE d \in group[NameOf[c]]
      <4>1. inbox'[d] = Push(q, m, d \in miss) /\ (d \in miss) \in BOOLEAN
        <5> DEFINE drop == d \in miss
        <5>1. inbox'[d] = Push(inbox[d], m, drop)
          BY <2>2, <3>3
        <5> QED BY <5>1
      <4>2. q \in Seq(Messages) /\ \A w \in Range(q) : sentAt'[w] < sentAt'[m]
        <5>1. inbox \in [Conns -> Seq(Messages)]
          BY <1>1
        <5> QED BY <2>4, <5>1
      <4>3. Increasing(inbox'[d], sentAt')
        <5> DEFINE f == sentAt'
                   drop == d \in miss
        <5>1. /\ q \in Seq(Messages) /\ m \in Messages /\ drop \in BOOLEAN
              /\ f \in [Messages -> Nat] /\ Increasing(q, f)
              /\ \A w \in Range(q) : f[w] < f[m]
          BY <2>1, <2>3, <3>1, <4>1, <4>2
        <5>2. inbox'[d] = Push(q, m, drop)
          BY <4>1
        <5> HIDE DEF f, drop, q, m
        <5>3. Increasing(Push(q, m, drop), f)
          BY ONLY <5>1, IncreasingPush
        <5> QED BY ONLY <5>2, <5>3 DEF f
      <4>4. Range(inbox'[d]) \subseteq Range(q) \cup {m}
        BY <2>1, <4>1, <4>2, RangeOfPush
      <4> QED BY <2>1, <3>1, <3>2, <4>3, <4>4
    <3>4. CASE d \notin group[NameOf[c]]
      BY <2>1, <2>2, <3>1, <3>2, <3>4
    <3> QED BY <3>3, <3>4
  <2> QED BY <2>5 DEF TapeInSendOrder
<1>4. ASSUME NEW c \in Conns, ChatMessage(c) PROVE TapeInSendOrder'
  <2> DEFINE q == inbox[c]
             h == Head(inbox[c])
  <2>1. /\ q \in Seq(Messages) /\ q # <<>> /\ seen[c] \in Seq(Messages)
        /\ seen' = [seen EXCEPT ![c] = Append(@, h)]
        /\ inbox' = [inbox EXCEPT ![c] = Tail(@)]
        /\ sentAt' = sentAt
    BY <1>1, <1>4 DEF ChatMessage, histVars
  <2>2. h \in Messages /\ h \in Range(q) /\ Range(Tail(q)) \subseteq Range(q)
    BY <2>1, RangeOfTail
  <2>3. /\ Increasing(seen[c], sentAt) /\ Increasing(q, sentAt)
        /\ \A w \in Range(seen[c]), v \in Range(q) : sentAt[w] < sentAt[v]
    BY <1>1 DEF TapeInSendOrder
  <2>4. Increasing(Tail(q), sentAt) /\ \A w \in Range(Tail(q)) : sentAt[h] < sentAt[w]
    BY <1>1, <2>1, <2>3, IncreasingTail
  <2>5. Increasing(Append(seen[c], h), sentAt)
    BY <1>1, <2>1, <2>2, <2>3, IncreasingAppend
  <2>6. Range(Append(seen[c], h)) = Range(seen[c]) \cup {h}
    BY <2>1, <2>2, RangeOfAppend
  <2>7. \A w \in Range(Append(seen[c], h)), v \in Range(Tail(q)) :
          sentAt[w] < sentAt[v]
    BY <2>2, <2>3, <2>4, <2>6
  <2>8. ASSUME NEW d \in Conns
        PROVE  /\ Increasing(seen'[d], sentAt)
               /\ Increasing(inbox'[d], sentAt)
               /\ \A w \in Range(seen'[d]), v \in Range(inbox'[d]) :
                    sentAt[w] < sentAt[v]
    <3>1. CASE d = c
      BY <1>1, <2>1, <2>4, <2>5, <2>7, <3>1
    <3>2. CASE d # c
      BY <1>1, <2>1, <3>2 DEF TapeInSendOrder
    <3> QED BY <3>1, <3>2
  <2> QED BY <2>1, <2>8 DEF TapeInSendOrder
<1> QED BY <1>2, <1>3, <1>4, TapeSteps

-----------------------------------------------------------------------------
(***************************************************************************)
(* The theorems.                                                           *)
(***************************************************************************)
LEMMA IInvInit == Init => IInv
<1> SUFFICES ASSUME Init PROVE IInv
  OBVIOUS
<1>1. TypeOK /\ Lifecycle
  BY TypeInit DEF TypeInv
<1>2. TapeIsGenuine /\ TapeInSendOrder
  BY DEF Init, TapeIsGenuine, TapeInSendOrder, Increasing, Range
<1>3. GroupsByName /\ MembersAreThoseInside
  BY ConnsAssumption DEF Init, GroupsByName, MembersAreThoseInside, Open
<1>4. TextsHandledOnce /\ SentInTextOrder
  BY BoundsAssumption DEF Init, TextsHandledOnce, SentInTextOrder, Messages
<1>5. RoomKeysAreUnique /\ TakenOrDropped /\ RacersShareTheRoom
  BY ConnsAssumption DEF Init, RoomKeysAreUnique, TakenOrDropped, RacersShareTheRoom
<1>6. NoOrphanRows /\ SentWasStored /\ StoredWasCounted
  BY DEF Init, NoOrphanRows, SentWasStored, StoredWasCounted, Messages
<1> QED BY <1>1, <1>2, <1>3, <1>4, <1>5, <1>6 DEF IInv

\* The invariant is inductive: it holds in every reachable state.
THEOREM Invariance == Spec => []IInv
<1>1. IInv /\ [Next]_vars => IInv'
  <2> SUFFICES ASSUME IInv, [Next]_vars PROVE IInv'
    OBVIOUS
  <2>1. TypeOK' /\ Lifecycle'
    BY TypeStep, LifecycleStep DEF IInv, TypeInv
  <2>2. GroupsByName' /\ MembersAreThoseInside'
    BY GroupsByNameStep, MembersStep
  <2>3. TextsHandledOnce' /\ SentInTextOrder'
    BY TextsHandledOnceStep, SentInTextOrderStep
  <2>4. TapeIsGenuine' /\ TapeInSendOrder'
    BY TapeIsGenuineStep, TapeInSendOrderStep
  <2>5. RoomKeysAreUnique' /\ NoOrphanRows' /\ SentWasStored' /\ StoredWasCounted'
    BY RoomKeysStep, NoOrphanRowsStep, SentWasStoredStep, StoredWasCountedStep
  <2>6. TakenOrDropped' /\ RacersShareTheRoom'
    BY TakenOrDroppedStep, RacersStep
  <2> QED BY <2>1, <2>2, <2>3, <2>4, <2>5, <2>6 DEF IInv
<1> QED BY <1>1, IInvInit, PTL DEF Spec

\* Whatever faults occur, a channel is in the group of its room exactly while
\* its consumer is in the room, but for crashes and expiry.
THEOREM Membership == Spec => []MembersAreThoseInside
<1>1. IInv => MembersAreThoseInside
  BY DEF IInv
<1> QED BY <1>1, Invariance, PTL

\* A message is shown only in its room, only after it was broadcast, and never
\* if its author was told that it was not saved.
THEOREM Genuine == Spec => []SeenIsGenuine
<1>1. IInv => SeenIsGenuine
  <2> SUFFICES ASSUME IInv, NEW c \in Conns, NEW m \in Range(seen[c])
               PROVE  NameOf[m[1]] = NameOf[c] /\ sentAt[m] # 0 /\ m \notin refused
    BY DEF SeenIsGenuine
  <2> QED BY DEF IInv, TapeIsGenuine, TextsHandledOnce
<1> QED BY <1>1, Invariance, PTL

\* All connections are shown messages in the order of the group_sends.
THEOREM SendOrder == Spec => []SeenInSendOrder
<1>1. IInv => SeenInSendOrder
  BY DEF IInv, TapeInSendOrder, SeenInSendOrder
<1> QED BY <1>1, Invariance, PTL

\* The texts of a connection are broadcast in the order they were sent.
THEOREM TextOrder == Spec => []SentInTextOrder
<1>1. IInv => SentInTextOrder
  BY DEF IInv
<1> QED BY <1>1, Invariance, PTL

\* A message anyone was shown is stored, unless somebody deleted it or its room
\* or its author.
THEOREM InHistory == Spec => []SeenIsInHistory
<1>1. IInv => SeenIsInHistory
  <2> SUFFICES ASSUME IInv, NEW c \in Conns, NEW m \in Range(seen[c])
               PROVE  m \in stored \/ m \in erased \/ ~RefsResolve(m[1])
    BY DEF SeenIsInHistory
  <2>1. m \in Messages
    BY DEF IInv, TypeOK, Range
  <2> QED BY <2>1 DEF IInv, TapeIsGenuine, SentWasStored
<1> QED BY <1>1, Invariance, PTL

\* However many first connections race to create one room, all hold its one
\* row, and none loses its connection over it, unless rooms are deleted.
THEOREM OneRoom == Spec => []RacersShareTheRoom
<1>1. IInv => RacersShareTheRoom
  BY DEF IInv
<1> QED BY <1>1, Invariance, PTL

\* No message row refers to a room or an account that does not exist.
THEOREM NoOrphans == Spec => []NoOrphanRows
<1>1. IInv => NoOrphanRows
  BY DEF IInv
<1> QED BY <1>1, Invariance, PTL

\* The account or room of a stale connection does not come back for it.
LEMMA StaleStep ==
  ASSUME IInv, [Next]_vars, NEW s \in Conns, Stale(s)
  PROVE  ~RefsResolve(s)' /\ \A m \in stored' \ stored : m[1] # s
<1> DEFINE Mute == ~RefsResolve(s)' /\ \A m \in stored' \ stored : m[1] # s
<1> USE ConnsAssumption
    DEF Stale, RefsResolve, Goto, Open, Current, dbVars, goneVars, layerVars, histVars
<1>0. /\ TypeOK /\ roomRef[s] # 0 /\ roomRef[s] <= lastRoom
      /\ pc[s] \in Open /\ ~RefsResolve(s)
  BY DEF IInv, Lifecycle, RoomKeysAreUnique
<1>1. ASSUME NEW c \in Conns, Moves(c) PROVE Mute
  BY <1>0, <1>1, MovesOnlyPc
<1>2. ASSUME NEW c \in Conns, Enters(c) PROVE Mute
  <2>1. Entered(c)
    BY <1>2, EntersFacts
  <2> QED BY <1>0, <2>1 DEF Entered, TypeOK
<1>3. ASSUME NEW c \in Conns, GroupAdd(c) PROVE Mute
  BY <1>0, <1>3 DEF GroupAdd, TypeOK
<1>4. ASSUME NEW c \in Conns, ReceiveText(c) PROVE Mute
  BY <1>0, <1>4 DEF ReceiveText, TypeOK
<1>5. ASSUME NEW c \in Conns, SaveMessage(c) PROVE Mute
  BY <1>0, <1>5 DEF SaveMessage, TypeOK
<1>6. ASSUME NEW c \in Conns, SaveFails(c) PROVE Mute
  BY <1>0, <1>6 DEF SaveFails, TypeOK
<1>7. ASSUME NEW c \in Conns, GroupSend(c) PROVE Mute
  BY <1>0, <1>7 DEF GroupSend, GroupSendTo, TypeOK
<1>8. ASSUME NEW c \in Conns, ChatMessage(c) PROVE Mute
  BY <1>0, <1>8 DEF ChatMessage, TypeOK
<1>9. ASSUME NEW c \in Conns, GroupDiscard(c) PROVE Mute
  BY <1>0, <1>9 DEF GroupDiscard, TypeOK
<1>10. ASSUME NEW c \in Conns, ExpireMembership(c) PROVE Mute
  BY <1>0, <1>10 DEF ExpireMembership, TypeOK
<1>11. ASSUME Clears PROVE Mute
  <2>1. Cleared
    BY <1>0, <1>11, ClearsFacts DEF TypeOK
  <2> QED BY <1>0, <2>1 DEF Cleared, TypeOK
<1>12. ASSUME NEW u \in Users, DeleteUser(u) PROVE Mute
  BY <1>0, <1>12 DEF DeleteUser, TypeOK
<1>13. UNCHANGED vars => Mute
  BY <1>0 DEF vars
<1> QED
  BY <1>1, <1>2, <1>3, <1>4, <1>5, <1>6, <1>7, <1>8, <1>9, <1>10, <1>11,
     <1>12, <1>13 DEF Next, Server, Client, Moves, Enters, Clears, Quiet

\* A connection whose room or account was deleted stays mute to its end.
THEOREM StaleIsForever == Spec => StaleConnectionsStayMute
<1>1. IInv /\ [Next]_vars =>
        [\A c \in Conns : Stale(c) =>
           /\ ~RefsResolve(c)'
           /\ \A m \in stored' \ stored : m[1] # c]_vars
  BY StaleStep
<1> QED BY <1>1, Invariance, PTL DEF Spec, StaleConnectionsStayMute

-----------------------------------------------------------------------------
(***************************************************************************)
(* Copies.  No channel can overflow before there have been more broadcasts *)
(* than it has room for.                                                   *)
(***************************************************************************)
Sent == {m \in Messages : sentAt[m] # 0}

CopyInv ==
  /\ \A c \in Conns : Len(inbox[c]) <= sends
  /\ IsFiniteSet(Messages) => sends = Cardinality(Sent)
  /\ sends <= Capacity /\ "expiry" \notin Faults => EveryoneConnectedGetsACopy

\* What c has seen or will find.
LEMMA RangeOfTape ==
  ASSUME NEW p \in Seq(Messages), NEW q \in Seq(Messages)
  PROVE  Range(p \o q) = Range(p) \cup Range(q)
<1>1. /\ Len(p) \in Nat /\ Len(q) \in Nat
      /\ DOMAIN p = 1..Len(p) /\ DOMAIN q = 1..Len(q)
      /\ DOMAIN (p \o q) = 1..(Len(p) + Len(q))
      /\ \A i \in 1..Len(p) : (p \o q)[i] = p[i]
      /\ \A i \in 1..Len(q) : (p \o q)[Len(p) + i] = q[i]
  OBVIOUS
<1>2. ASSUME NEW i \in 1..(Len(p) + Len(q))
      PROVE  (p \o q)[i] \in Range(p) \cup Range(q)
  <2>1. CASE i \in 1..Len(p)
    BY <1>1, <2>1 DEF Range
  <2>2. CASE i \notin 1..Len(p)
    <3>1. i - Len(p) \in 1..Len(q) /\ i = Len(p) + (i - Len(p))
      BY <1>1, <2>2
    <3> QED BY <1>1, <3>1 DEF Range
  <2> QED BY <2>1, <2>2
<1>3. ASSUME NEW i \in 1..Len(p) PROVE p[i] \in Range(p \o q)
  <2>1. i \in 1..(Len(p) + Len(q))
    BY <1>1
  <2> QED BY <1>1, <2>1 DEF Range
<1>4. ASSUME NEW i \in 1..Len(q) PROVE q[i] \in Range(p \o q)
  <2>1. Len(p) + i \in 1..(Len(p) + Len(q))
    BY <1>1
  <2> QED BY <1>1, <2>1 DEF Range
<1>5. Range(p \o q) \subseteq Range(p) \cup Range(q)
  BY <1>1, <1>2 DEF Range
<1>6. Range(p) \cup Range(q) \subseteq Range(p \o q)
  BY <1>1, <1>3, <1>4 DEF Range
<1> QED BY <1>5, <1>6

LEMMA CopyInit == Init => CopyInv
<1> SUFFICES ASSUME Init PROVE CopyInv
  OBVIOUS
<1>1. Sent = {} /\ Cardinality({}) = 0
  BY FS_EmptySet DEF Init, Sent
<1>2. \A c \in Conns : Len(inbox[c]) <= 0
  BY DEF Init
<1> QED BY <1>1, <1>2 DEF Init, CopyInv, EveryoneConnectedGetsACopy

\* A group_send while there is room reaches the whole audience.
LEMMA CopySent ==
  ASSUME IInv, CopyInv, NEW c \in Conns, GroupSend(c)
  PROVE  CopyInv'
<1> DEFINE m == Current(c)
           to == group[NameOf[c]]
<1>0. /\ sends \in Nat /\ sentAt \in [Messages -> Nat]
      /\ inbox \in [Conns -> Seq(Messages)] /\ seen \in [Conns -> Seq(Messages)]
      /\ audience \in [Messages -> SUBSET Conns]
      /\ \A d \in Conns : Len(inbox[d]) \in Nat /\ Len(inbox[d]) <= sends
  BY DEF IInv, TypeOK, CopyInv
<1>1. /\ m \in Messages /\ sentAt[m] = 0
      /\ sentAt' = [sentAt EXCEPT ![m] = sends + 1]
      /\ seen' = seen
  BY GroupSendFacts
<1>2. PICK miss \in SUBSET to :
        inbox' = [d \in Conns |-> IF d \in to THEN Push(inbox[d], m, d \in miss)
                                             ELSE inbox[d]]
  BY GroupSendFacts
<1>3. /\ sends' = sends + 1
      /\ audience' = [audience EXCEPT ![m] =
                        {d \in Conns : pc[d] \in Open /\ NameOf[d] = NameOf[c]}]
  BY DEF GroupSend, GroupSendTo
<1> HIDE DEF m, to
<1>4. ASSUME NEW d \in Conns
      PROVE  /\ inbox'[d] \in Seq(Messages)
             /\ Len(inbox'[d]) <= sends'
             /\ sends < Capacity =>
                  Range(inbox'[d]) = Range(inbox[d]) \cup (IF d \in to THEN {m} ELSE {})
  <2>1. CASE d \notin to
    BY <1>0, <1>2, <1>3, <2>1
  <2>2. CASE d \in to /\ Len(inbox[d]) < Capacity
    <3>1. inbox'[d] = Append(inbox[d], m)
      BY <1>2, <2>2 DEF Push
    <3>2. Len(Append(inbox[d], m)) = Len(inbox[d]) + 1
      BY <1>0
    <3>3. Range(Append(inbox[d], m)) = Range(inbox[d]) \cup {m}
      BY <1>0, <1>1, RangeOfAppend
    <3>4. Append(inbox[d], m) \in Seq(Messages)
      BY <1>0, <1>1
    <3>5. Len(inbox[d]) + 1 <= sends + 1
      BY <1>0
    <3> QED BY <1>3, <2>2, <3>1, <3>2, <3>3, <3>4, <3>5
  <2>3. CASE d \in to /\ ~(Len(inbox[d]) < Capacity)
    <3>1. ~(sends < Capacity)
      BY <1>0, <2>3, BoundsAssumption
    <3>2. inbox[d] # <<>>
      BY <2>3, BoundsAssumption
    <3>3. inbox'[d] \in {inbox[d], Append(Tail(inbox[d]), m)}
      BY <1>2, <2>3 DEF Push
    <3>4. /\ Append(Tail(inbox[d]), m) \in Seq(Messages)
          /\ Len(Append(Tail(inbox[d]), m)) = Len(inbox[d])
      BY <1>0, <1>1, <3>2
    <3>5. Len(inbox[d]) <= sends + 1
      BY <1>0
    <3> QED BY <1>0, <1>3, <3>1, <3>3, <3>4, <3>5
  <2> QED BY <2>1, <2>2, <2>3
<1>5. ASSUME IsFiniteSet(Messages) PROVE sends' = Cardinality(Sent')
  <2>1. Sent' = Sent \cup {m}
    BY <1>0, <1>1 DEF Sent
  <2>2. m \notin Sent /\ IsFiniteSet(Sent) /\ sends = Cardinality(Sent)
    BY <1>1, <1>5, FS_Subset DEF Sent, CopyInv
  <2> QED BY <1>3, <2>1, <2>2, FS_AddElement
<1>6. ASSUME sends' <= Capacity, "expiry" \notin Faults
      PROVE  EveryoneConnectedGetsACopy'
  <2>1. sends < Capacity /\ EveryoneConnectedGetsACopy
    BY <1>0, <1>3, <1>6, BoundsAssumption DEF CopyInv
  <2> SUFFICES ASSUME NEW w \in Messages, NEW d \in audience'[w]
               PROVE  w \in Range(Tape(d)')
    BY DEF EveryoneConnectedGetsACopy
  <2>2. d \in Conns
    BY <1>0, <1>1, <1>3
  <2>3. Range(Tape(d)') = Range(seen[d]) \cup Range(inbox'[d])
    BY <1>0, <1>1, <1>4, <2>2, RangeOfTape DEF Tape
  <2>4. CASE w = m
    <3>1. d \in to
      BY <1>0, <1>1, <1>3, <1>6, <2>4 DEF IInv, MembersAreThoseInside, to
    <3> QED BY <1>4, <2>1, <2>2, <2>3, <2>4, <3>1
  <2>5. CASE w # m
    <3>1. d \in audience[w]
      BY <1>0, <1>1, <1>3, <2>5
    <3>2. w \in Range(Tape(d))
      BY <2>1, <3>1 DEF EveryoneConnectedGetsACopy
    <3>3. Range(Tape(d)) = Range(seen[d]) \cup Range(inbox[d])
      BY <1>0, <2>2, RangeOfTape DEF Tape
    <3> QED BY <1>4, <2>1, <2>2, <2>3, <3>2, <3>3
  <2> QED BY <2>4, <2>5
<1> QED BY <1>4, <1>5, <1>6 DEF CopyInv

\* A delivery moves a message along the tape.
LEMMA CopyDelivered ==
  ASSUME IInv, CopyInv, NEW c \in Conns, ChatMessage(c)
  PROVE  CopyInv'
<1>1. /\ inbox \in [Conns -> Seq(Messages)] /\ seen \in [Conns -> Seq(Messages)]
      /\ audience \in [Messages -> SUBSET Conns] /\ sends \in Nat
      /\ inbox[c] # <<>>
      /\ seen' = [seen EXCEPT ![c] = Append(@, Head(inbox[c]))]
      /\ inbox' = [inbox EXCEPT ![c] = Tail(@)]
      /\ UNCHANGED <<sends, sentAt, audience>>
  BY DEF IInv, TypeOK, ChatMessage, histVars
<1>2. ASSUME NEW d \in Conns
      PROVE  /\ Len(inbox'[d]) <= sends
             /\ Tape(d)' = Tape(d)
  <2>1. CASE d # c
    BY <1>1, <2>1 DEF Tape, CopyInv
  <2>2. CASE d = c
    <3> DEFINE q == inbox[c]
               p == seen[c]
    <3>1. q \in Seq(Messages) /\ p \in Seq(Messages) /\ q # <<>>
      BY <1>1
    <3>2. inbox'[c] = Tail(q) /\ seen'[c] = Append(p, Head(q)) /\ Len(q) <= sends
      BY <1>1 DEF CopyInv
    <3> HIDE DEF p, q
    <3>3. Len(Tail(q)) = Len(q) - 1 /\ Len(q) \in Nat
      BY <3>1
    <3>4. Append(p, Head(q)) \o Tail(q) = p \o q
      BY <3>1
    <3> QED BY <1>1, <2>2, <3>2, <3>3, <3>4 DEF Tape, p, q
  <2> QED BY <2>1, <2>2
<1>3. Sent' = Sent
  BY <1>1 DEF Sent
<1>4. EveryoneConnectedGetsACopy => EveryoneConnectedGetsACopy'
  BY <1>1, <1>2 DEF EveryoneConnectedGetsACopy
<1> QED BY <1>1, <1>2, <1>3, <1>4 DEF CopyInv

LEMMA CopyStep == IInv /\ CopyInv /\ [Next]_vars => CopyInv'
<1> SUFFICES ASSUME IInv, CopyInv, [Next]_vars PROVE CopyInv'
  OBVIOUS
<1>1. CASE UNCHANGED <<inbox, seen, sentAt, sends, audience>>
  BY <1>1 DEF CopyInv, Sent, EveryoneConnectedGetsACopy, Tape
<1> QED BY <1>1, CopySent, CopyDelivered, TapeSteps

\* Until there have been more broadcasts than a channel holds, everybody who
\* was connected when a message was sent has it or will get it, unless
\* memberships expire: whatever else fails, and however little is read.
THEOREM CopiesWhileThereIsRoom ==
  Spec => [](sends <= Capacity /\ "expiry" \notin Faults => EveryoneConnectedGetsACopy)
<1>1. CopyInv => (sends <= Capacity /\ "expiry" \notin Faults => EveryoneConnectedGetsACopy)
  BY DEF CopyInv
<1> QED BY <1>1, CopyInit, CopyStep, Invariance, PTL DEF Spec

\* Channels that can hold all messages there will be lose none.
THEOREM CopiesForEveryone ==
  ASSUME IsFiniteSet(Messages), Cardinality(Messages) <= Capacity,
         "expiry" \notin Faults
  PROVE  Spec => []EveryoneConnectedGetsACopy
<1>1. IInv /\ CopyInv => EveryoneConnectedGetsACopy
  <2> SUFFICES ASSUME IInv, CopyInv PROVE sends <= Capacity
    BY DEF CopyInv
  <2>1. Sent \in SUBSET Messages
    BY DEF Sent
  <2>2. Cardinality(Sent) <= Cardinality(Messages)
    BY <2>1, FS_Subset
  <2>3. Cardinality(Messages) \in Nat
    BY FS_CardinalityType
  <2>4. sends \in Nat /\ sends = Cardinality(Sent)
    BY DEF IInv, TypeOK, CopyInv
  <2> QED BY <2>2, <2>3, <2>4, BoundsAssumption
<1> QED BY <1>1, CopyInit, CopyStep, Invariance, PTL DEF Spec

-----------------------------------------------------------------------------
(***************************************************************************)
(* Progress, as long as consumers with work have a next step: the steps that*)
(* every text and every message in a channel takes.                        *)
(***************************************************************************)
\* Who moves a connection.
LEMMA OthersElsewhere ==
  ASSUME TypeOK, NEW c \in Conns, [Next]_vars
  PROVE  \/ Server(c) \/ Client(c) \/ Kill(c)
         \/ pc'[c] = pc[c] /\ texts'[c] = texts[c]
<1> USE DEF TypeOK, Goto, dbVars, goneVars, layerVars, histVars
<1>1. ASSUME NEW d \in Conns, d # c, Server(d)
      PROVE  pc'[c] = pc[c] /\ texts'[c] = texts[c]
  BY <1>1 DEF Server, GetRoom, MissRoom, CreateRoom, NameTaken, ConnectFails, GroupAdd, Accept, SaveMessage,
     SaveFails, GroupSend, GroupSendTo, GroupSendFails, ChatMessage,
     DisconnectRejected, GroupDiscard, GroupDiscardFails
<1>2. ASSUME NEW d \in Conns, d # c, Client(d) \/ Kill(d)
      PROVE  pc'[c] = pc[c] /\ texts'[c] = texts[c]
  BY <1>2 DEF Client, Kill, ConnectRejected, ConnectAuthenticated, ReceiveText,
     ReceiveMalformed, Disconnect
<1>3. ASSUME NEW d \in Conns, ExpireMembership(d)
      PROVE  pc'[c] = pc[c] /\ texts'[c] = texts[c]
  BY <1>3 DEF ExpireMembership
<1>4. ASSUME Clears
      PROVE  pc'[c] = pc[c] /\ texts'[c] = texts[c]
  BY <1>4 DEF Clears, DeleteMessages, DeleteRoom
<1>5. ASSUME NEW u \in Users, DeleteUser(u)
      PROVE  pc'[c] = pc[c] /\ texts'[c] = texts[c]
  BY <1>5 DEF DeleteUser
<1>6. UNCHANGED vars => pc'[c] = pc[c] /\ texts'[c] = texts[c]
  BY DEF vars
<1> QED BY <1>1, <1>2, <1>3, <1>4, <1>5, <1>6 DEF Next, Clears, Quiet

\* A text that is being saved goes on to its broadcast, or is refused.
LEMMA SaveLeadsOn ==
  ASSUME IInv, NEW c \in Conns, NEW k \in 1..MaxTexts, pc[c] = "save", texts[c] = k,
         Server(c) \/ Client(c) \/ Kill(c)
  PROVE  \/ pc'[c] = "send" /\ texts'[c] = k
         \/ <<c, k>> \in refused' \/ pc'[c] = "crashed"
BY DEF IInv, TypeOK, Goto, Current, Server, GetRoom, MissRoom, CreateRoom, NameTaken, ConnectFails, GroupAdd, Accept,
   SaveMessage, SaveFails, GroupSend, GroupSendFails, ChatMessage, DisconnectRejected,
   GroupDiscard, GroupDiscardFails, Client, Kill, ConnectRejected,
   ConnectAuthenticated, ReceiveText, ReceiveMalformed, Disconnect

\* A text that is being broadcast is broadcast, or its consumer dies.
LEMMA SendLeadsOn ==
  ASSUME IInv, NEW c \in Conns, NEW k \in 1..MaxTexts, pc[c] = "send", texts[c] = k,
         Server(c) \/ Client(c) \/ Kill(c)
  PROVE  sentAt'[<<c, k>>] # 0 \/ pc'[c] = "crashed"
<1>1. <<c, k>> \in Messages
  BY DEF Messages
<1> QED
BY <1>1 DEF IInv, TypeOK, Goto, Current, Server, GetRoom, MissRoom, CreateRoom, NameTaken, ConnectFails, GroupAdd, Accept,
   SaveMessage, SaveFails, GroupSend, GroupSendTo, GroupSendFails, ChatMessage, DisconnectRejected,
   GroupDiscard, GroupDiscardFails, Client, Kill, ConnectRejected,
   ConnectAuthenticated, ReceiveText, ReceiveMalformed, Disconnect

\* Every text that a consumer has begun to save is broadcast, or its author is
\* told that it was not saved, or the consumer dies: as long as a consumer with
\* work has a next step, no order of faults and no other consumer can hold a text
\* back.  The two steps it needs are taken by the consumer itself.
THEOREM Answered == Spec /\ []ServersCanMove => EveryTextIsAnswered
<1> SUFFICES ASSUME NEW c \in Conns, NEW k \in 1..MaxTexts
             PROVE  Spec /\ []ServersCanMove =>
                      (pc[c] = "save" /\ texts[c] = k ~>
                         sentAt[<<c, k>>] # 0 \/ <<c, k>> \in refused \/ pc[c] = "crashed")
  BY DEF EveryTextIsAnswered
<1> DEFINE P == pc[c] = "save" /\ texts[c] = k
           R == pc[c] = "send" /\ texts[c] = k
           Q == sentAt[<<c, k>>] # 0 \/ <<c, k>> \in refused \/ pc[c] = "crashed"
<1>1. IInv /\ P /\ [Next]_vars => P' \/ R' \/ Q'
  BY OthersElsewhere, SaveLeadsOn DEF IInv
<1>2. IInv /\ P /\ <<Server(c)>>_vars => R' \/ Q'
  BY SaveLeadsOn
<1>3. IInv /\ R /\ [Next]_vars => R' \/ Q'
  BY OthersElsewhere, SendLeadsOn DEF IInv
<1>4. IInv /\ R /\ <<Server(c)>>_vars => Q'
  BY SendLeadsOn
<1>5. ServersCanMove /\ (P \/ R) => ENABLED <<Server(c)>>_vars
  BY DEF ServersCanMove, HasWork
<1>6. Fairness => Fair(c)
  BY DEF Fairness
<1> HIDE DEF P, Q, R
<1>7. Spec /\ []ServersCanMove => (P ~> Q)
  BY <1>1, <1>2, <1>3, <1>4, <1>5, <1>6, Invariance, PTL DEF Spec, Fair
<1> QED BY <1>7 DEF P, Q

\* Channels never hold more than their capacity, and nothing for a consumer
\* that has not joined the group.
QueueInv ==
  \A c \in Conns :
    /\ Len(inbox[c]) <= Capacity
    /\ pc[c] \in Outside => inbox[c] = <<>>

LEMMA QueueInit == Init => QueueInv
BY BoundsAssumption DEF Init, QueueInv

\* Push keeps what is there in place, or drops the oldest and moves the rest up.
LEMMA PushFacts ==
  ASSUME NEW q \in Seq(Messages), Len(q) <= Capacity, NEW m \in Messages, NEW b \in BOOLEAN
  PROVE  /\ Push(q, m, b) \in Seq(Messages)
         /\ Len(Push(q, m, b)) <= Capacity
         /\ \/ /\ Len(q) <= Len(Push(q, m, b))
               /\ \A i \in 1..Len(q) : Push(q, m, b)[i] = q[i]
            \/ /\ q # <<>>
               /\ Len(Push(q, m, b)) = Len(q)
               /\ \A i \in 2..Len(q) : Push(q, m, b)[i - 1] = q[i]
               /\ Push(q, m, b)[Len(q)] = m
<1>1. Len(q) \in Nat /\ Capacity \in Nat \ {0}
  BY BoundsAssumption
<1>2. CASE Len(q) < Capacity
  BY <1>1, <1>2 DEF Push
<1>3. CASE ~(Len(q) < Capacity)
  <2>1. q # <<>>
    BY <1>1, <1>3
  <2> DEFINE t == Append(Tail(q), m)
  <2>2. /\ t \in Seq(Messages) /\ Len(t) = Len(q)
        /\ \A i \in 2..Len(q) : t[i - 1] = q[i]
        /\ t[Len(q)] = m
    BY <2>1
  <2> HIDE DEF t
  <2>3. Push(q, m, b) = q \/ Push(q, m, b) = t
    BY <1>3 DEF Push, t
  <2> QED BY <1>1, <1>3, <2>1, <2>2, <2>3
<1> QED BY <1>2, <1>3

\* A group_send pushes to members of the group, and they have joined.
LEMMA GroupSendPushes ==
  ASSUME IInv, NEW c \in Conns, NEW d \in Conns, GroupSend(d)
  PROVE  \/ inbox'[c] = inbox[c]
         \/ /\ pc[c] \notin Outside
            /\ \E b \in BOOLEAN : inbox'[c] = Push(inbox[c], Current(d), b)
<1>1. PICK miss \in SUBSET group[NameOf[d]] :
        inbox' = [e \in Conns |-> IF e \in group[NameOf[d]]
                                 THEN Push(inbox[e], Current(d), e \in miss)
                                 ELSE inbox[e]]
  BY GroupSendFacts
<1>2. CASE c \notin group[NameOf[d]]
  BY <1>1, <1>2
<1>3. CASE c \in group[NameOf[d]]
  <2>1. pc[c] \notin Outside
    BY <1>3, ConnsAssumption DEF IInv, MembersAreThoseInside
  <2>2. (c \in miss) \in BOOLEAN /\ inbox'[c] = Push(inbox[c], Current(d), c \in miss)
    BY <1>1, <1>3
  <2> QED BY <2>1, <2>2
<1> QED BY <1>2, <1>3

LEMMA QueueStep == IInv /\ QueueInv /\ [Next]_vars => QueueInv'
<1> SUFFICES ASSUME IInv, QueueInv, [Next]_vars, NEW c \in Conns
             PROVE  /\ Len(inbox'[c]) <= Capacity
                    /\ pc'[c] \in Outside => inbox'[c] = <<>>
  BY DEF QueueInv
<1> DEFINE Early == {"new", "rejected", "room", "create", "again", "join"}
<1>0. /\ TypeOK
      /\ inbox[c] \in Seq(Messages) /\ Len(inbox[c]) \in Nat /\ Len(inbox[c]) <= Capacity
      /\ pc[c] \in Early => inbox[c] = <<>>
  BY DEF IInv, TypeOK, QueueInv, Outside
<1>1. pc'[c] \in Early => pc[c] \in Early
  <2>1. CASE Server(c) \/ Client(c) \/ Kill(c)
    BY <1>0, <2>1 DEF TypeOK, Goto, Server, GetRoom, MissRoom, CreateRoom, NameTaken, ConnectFails, GroupAdd, Accept,
       SaveMessage, SaveFails, GroupSend, GroupSendFails, ChatMessage, DisconnectRejected,
       GroupDiscard, GroupDiscardFails, Client, Kill, ConnectRejected,
       ConnectAuthenticated, ReceiveText, ReceiveMalformed, Disconnect
  <2> QED BY <1>0, <2>1, OthersElsewhere
<1>2. CASE inbox'[c] = inbox[c]
  BY <1>0, <1>1, <1>2 DEF Outside
<1>3. ASSUME NEW d \in Conns, GroupSend(d), inbox'[c] # inbox[c]
      PROVE  Len(inbox'[c]) <= Capacity /\ pc[c] \notin Early
  <2>1. pc[c] \notin Early /\ \E b \in BOOLEAN : inbox'[c] = Push(inbox[c], Current(d), b)
    BY <1>3, GroupSendPushes DEF Outside
  <2>2. Current(d) \in Messages
    BY <1>3, GroupSendFacts
  <2> QED BY <1>0, <2>1, <2>2, PushFacts
<1>4. ASSUME NEW d \in Conns, ChatMessage(d), inbox'[c] # inbox[c]
      PROVE  Len(inbox'[c]) <= Capacity /\ pc[c] \notin Early
  <2>1. d = c /\ pc[c] = "open" /\ inbox[c] # <<>> /\ inbox'[c] = Tail(inbox[c])
    BY <1>0, <1>4 DEF ChatMessage, TypeOK
  <2>2. Len(Tail(inbox[c])) = Len(inbox[c]) - 1 /\ Capacity \in Nat
    BY <1>0, <2>1, BoundsAssumption
  <2> QED BY <1>0, <2>1, <2>2
<1> QED BY <1>1, <1>2, <1>3, <1>4, TapeSteps DEF Outside

\* How far c is from its next delivery, unless a text comes in.
Stage(c) == IF pc[c] = "save" THEN 2 ELSE IF pc[c] \in {"send", "accept"} THEN 1 ELSE 0

\* While c has something to deliver, it delivers, comes closer to it, is sent
\* another text or ends.
LEMMA StageFalls ==
  ASSUME IInv, QueueInv, [Next]_vars,
         NEW c \in Conns, inbox[c] # <<>>, pc[c] \notin Ended
  PROVE  \/ pc'[c] \in Ended
         \/ texts'[c] > texts[c]
         \/ /\ texts'[c] = texts[c]
            /\ Stage(c)' <= Stage(c)
            /\ Server(c) => ChatMessage(c) \/ Stage(c)' < Stage(c)
<1> USE DEF Stage
<1>0. /\ TypeOK /\ texts[c] \in 0..MaxTexts
      /\ pc[c] \in Open \cup {"accept", "leave"}
  BY DEF IInv, TypeOK, QueueInv, ControlPoints, Outside
<1> USE DEF TypeOK, Goto, Open, Ended
<1>1. CASE Server(c)
  <2>1. /\ texts'[c] = texts[c]
        /\ \/ ChatMessage(c) /\ pc'[c] = pc[c]
           \/ pc'[c] \in Ended
           \/ pc[c] = "save" /\ pc'[c] \in {"send", "open"}
           \/ pc[c] \in {"send", "accept"} /\ pc'[c] = "open"
    BY <1>0, <1>1 DEF Server, GetRoom, MissRoom, CreateRoom, NameTaken, ConnectFails, GroupAdd, Accept,
       SaveMessage, SaveFails, GroupSend, GroupSendTo, GroupSendFails, ChatMessage,
       DisconnectRejected, GroupDiscard, GroupDiscardFails
  <2> QED BY <1>0, <2>1
<1>2. CASE (Client(c) \/ Kill(c)) /\ ~Server(c)
  BY <1>0, <1>2 DEF Client, Kill, ConnectRejected, ConnectAuthenticated, ReceiveText,
     ReceiveMalformed, Disconnect
<1>3. CASE pc'[c] = pc[c] /\ texts'[c] = texts[c] /\ ~Server(c)
  BY <1>0, <1>3
<1> QED BY <1>0, <1>1, <1>2, <1>3, OthersElsewhere

\* A message in a channel leaves it or moves up, and a delivery moves it up.
LEMMA MessageMovesUp ==
  ASSUME IInv, QueueInv, [Next]_vars, NEW c \in Conns,
         NEW i \in 1..Len(inbox[c])
  PROVE  \/ inbox[c][i] \notin Range(inbox'[c])
         \/ \E j \in 1..Len(inbox'[c]) :
              /\ inbox'[c][j] = inbox[c][i]
              /\ j <= i
              /\ ChatMessage(c) => j < i
<1> DEFINE m == inbox[c][i]
           q == inbox[c]
<1>0. /\ TypeOK /\ q \in Seq(Messages) /\ Len(q) \in Nat /\ Len(q) <= Capacity
      /\ m \in Messages /\ sentAt[m] # 0 /\ sentAt \in [Messages -> Nat]
      /\ \A j \in 1..Len(q) : j # i => q[j] # m
  <2>1. q \in Seq(Messages) /\ sentAt \in [Messages -> Nat]
    BY DEF IInv, TypeOK
  <2>2. m \in Range(q)
    BY <2>1 DEF Range
  <2>3. ASSUME NEW j \in 1..Len(q), j # i PROVE q[j] # m
    <3>1. Increasing(q, sentAt) /\ i \in Nat /\ j \in Nat /\ Len(q) \in Nat
      BY <2>1 DEF IInv, TapeInSendOrder
    <3>2. i < j \/ j < i
      BY <2>3, <3>1
    <3>3. sentAt[q[i]] < sentAt[q[j]] \/ sentAt[q[j]] < sentAt[q[i]]
      BY <3>1, <3>2 DEF Increasing
    <3>4. q[i] \in Messages /\ q[j] \in Messages
      BY <2>1
    <3> QED BY <2>1, <3>3, <3>4
  <2> QED BY <2>1, <2>2, <2>3 DEF IInv, TypeOK, QueueInv, TapeIsGenuine
<1>1. CASE inbox'[c] = q
  <2>1. ~ChatMessage(c)
    <3>1. Len(Tail(q)) = Len(q) - 1
      BY <1>0
    <3> QED BY <1>0, <1>1, <3>1 DEF ChatMessage, TypeOK
  <2> QED BY <1>0, <1>1, <2>1
<1>2. ASSUME NEW d \in Conns, GroupSend(d), inbox'[c] # q
      PROVE  m \in Range(inbox'[c]) =>
               ~ChatMessage(c) /\ \E j \in 1..Len(inbox'[c]) : inbox'[c][j] = m /\ j <= i
  <2>1. PICK b \in BOOLEAN : inbox'[c] = Push(q, Current(d), b)
    BY <1>2, GroupSendPushes
  <2>2. Current(d) \in Messages /\ Current(d) # m /\ seen' = seen
    BY <1>0, <1>2, GroupSendFacts
  <2>3. ~ChatMessage(c)
    <3>1. Append(seen[c], Head(q)) # seen[c]
      <4>1. Len(Append(seen[c], Head(q))) = Len(seen[c]) + 1 /\ Len(seen[c]) \in Nat
        BY <1>0 DEF TypeOK
      <4> QED BY <4>1
    <3> QED BY <1>0, <2>2, <3>1 DEF ChatMessage, TypeOK
  <2> HIDE DEF q, m
  <2>4. \/ /\ Len(q) <= Len(inbox'[c])
           /\ \A j \in 1..Len(q) : inbox'[c][j] = q[j]
        \/ /\ Len(inbox'[c]) = Len(q)
           /\ \A j \in 2..Len(q) : inbox'[c][j - 1] = q[j]
           /\ inbox'[c][Len(q)] = Current(d)
    <3> DEFINE r == Push(q, Current(d), b)
    <3>1. \/ /\ Len(q) <= Len(r)
             /\ \A j \in 1..Len(q) : r[j] = q[j]
          \/ /\ Len(r) = Len(q)
             /\ \A j \in 2..Len(q) : r[j - 1] = q[j]
             /\ r[Len(q)] = Current(d)
      BY <1>0, <2>2, PushFacts
    <3> HIDE DEF r
    <3>2. inbox'[c] = r
      BY <2>1 DEF r
    <3> QED BY <3>1, <3>2
  <2>5. inbox'[c] \in Seq(Messages)
    BY <1>0, <2>1, <2>2, PushFacts
  <2>6. q[i] = m /\ i \in 1..Len(q)
    BY DEF q, m
  <2>7. CASE /\ Len(q) <= Len(inbox'[c])
             /\ \A j \in 1..Len(q) : inbox'[c][j] = q[j]
    <3>1. i \in 1..Len(inbox'[c]) /\ i <= i
      BY <1>0, <2>5, <2>6, <2>7
    <3> QED BY <2>3, <2>6, <2>7, <3>1
  <2>8. CASE /\ Len(inbox'[c]) = Len(q)
             /\ \A j \in 2..Len(q) : inbox'[c][j - 1] = q[j]
             /\ inbox'[c][Len(q)] = Current(d)
    <3>1. CASE i = 1
      <4>1. ASSUME NEW j \in 1..Len(inbox'[c]) PROVE inbox'[c][j] # m
        <5>1. CASE j = Len(q)
          BY <2>2, <2>8, <5>1
        <5>2. CASE j # Len(q)
          <6>1. j + 1 \in 2..Len(q) /\ (j + 1) - 1 = j /\ j + 1 # i
            BY <1>0, <2>8, <3>1, <5>2
          <6> QED BY <1>0, <2>8, <6>1
        <5> QED BY <5>1, <5>2
      <4> QED BY <2>5, <4>1 DEF Range
    <3>2. CASE i # 1
      <4>1. i \in 2..Len(q) /\ i - 1 \in 1..Len(inbox'[c]) /\ i - 1 <= i
        BY <1>0, <2>6, <2>8, <3>2
      <4> QED BY <2>3, <2>6, <2>8, <4>1
    <3> QED BY <3>1, <3>2
  <2> QED BY <2>4, <2>7, <2>8
<1>3. ASSUME NEW d \in Conns, ChatMessage(d), inbox'[c] # q
      PROVE  m \in Range(inbox'[c]) =>
               \E j \in 1..Len(inbox'[c]) : inbox'[c][j] = m /\ j < i
  <2>1. inbox'[c] = Tail(q) /\ q # <<>>
    BY <1>0, <1>3 DEF ChatMessage, TypeOK
  <2> HIDE DEF q, m
  <2>2. /\ Tail(q) \in Seq(Messages) /\ Len(Tail(q)) = Len(q) - 1
        /\ \A j \in 1..(Len(q) - 1) : Tail(q)[j] = q[j + 1]
    BY <1>0, <2>1
  <2>3. ASSUME m \in Range(Tail(q))
        PROVE  \E j \in 1..Len(Tail(q)) : Tail(q)[j] = m /\ j < i
    <3>1. PICK j \in 1..Len(Tail(q)) : Tail(q)[j] = m
      BY <2>2, <2>3 DEF Range
    <3>2. j + 1 \in 1..Len(q) /\ q[j + 1] = m /\ j < j + 1
      BY <1>0, <2>2, <3>1
    <3>3. j + 1 = i
      BY <1>0, <3>2
    <3> QED BY <3>1, <3>2, <3>3
  <2> QED BY <2>1, <2>3
<1> QED BY <1>0, <1>1, <1>2, <1>3, TapeSteps

\* m is the i-th message due to c, which has sent t texts.
Waits(c, m, i, t) ==
  /\ pc[c] \notin Ended
  /\ i \in 1..Len(inbox[c]) /\ inbox[c][i] = m
  /\ texts[c] = t

\* m has been delivered or dropped, has moved up, another text has come in, or
\* c has ended.
MovedOn(c, m, i, t) ==
  \/ m \notin Range(inbox[c])
  \/ \E j \in 1..Len(inbox[c]) : inbox[c][j] = m /\ j < i
  \/ texts[c] > t
  \/ pc[c] \in Ended

\* Whoever waits moves on.
MovesOn(c, m, i, t) == Waits(c, m, i, t) ~> MovedOn(c, m, i, t)

\* A message waits, with no more between it and the next delivery than before,
\* until it moves on.
LEMMA WaitsStep ==
  ASSUME IInv, QueueInv, NEW c \in Conns, NEW m \in Messages, NEW i \in Nat, NEW t \in Nat,
         NEW k \in Nat, Waits(c, m, i, t) /\ Stage(c) < k + 1, [Next]_vars
  PROVE  \/ MovedOn(c, m, i, t)'
         \/ (Waits(c, m, i, t) /\ Stage(c) < k + 1)' /\ (Server(c) => Stage(c)' < k)
<1> SUFFICES ASSUME ~MovedOn(c, m, i, t)'
             PROVE  (Waits(c, m, i, t) /\ Stage(c) < k + 1)' /\ (Server(c) => Stage(c)' < k)
  OBVIOUS
<1>1. i \in 1..Len(inbox[c]) /\ inbox[c][i] = m /\ inbox[c] # <<>> /\ pc[c] \notin Ended
  BY DEF Waits
<1>2. PICK j \in 1..Len(inbox'[c]) :
        inbox'[c][j] = m /\ j <= i /\ (ChatMessage(c) => j < i)
  BY <1>1, MessageMovesUp DEF MovedOn
<1>3. j = i /\ ~ChatMessage(c)
  BY <1>2 DEF MovedOn
<1>4. /\ texts'[c] = texts[c] /\ pc'[c] \notin Ended
      /\ Stage(c)' <= Stage(c)
      /\ Server(c) => Stage(c)' < Stage(c)
  BY <1>1, <1>3, StageFalls DEF MovedOn, Waits
<1>5. Stage(c) \in Nat /\ Stage(c)' \in Nat
  BY DEF Stage
<1> QED BY <1>2, <1>3, <1>4, <1>5 DEF Waits

\* No channel ever holds more than its capacity, and a consumer that has not
\* joined its group has nothing in it: group_add comes before accept.
THEOREM ChannelsHold == Spec => []QueueInv
BY QueueInit, QueueStep, Invariance, PTL DEF Spec

\* No message gets stuck in a channel: wherever it stands, and however many
\* texts its consumer has been sent, it is delivered, dropped or moves up, or
\* its consumer is sent another text or ends.
THEOREM MessagesMoveOn ==
  ASSUME NEW c \in Conns, NEW m \in Messages, NEW i \in Nat, NEW t \in Nat
  PROVE  Spec /\ []ServersCanMove => MovesOn(c, m, i, t)
<1> DEFINE Near(k) == Waits(c, m, i, t) /\ Stage(c) < k
           F(k) == Spec /\ []ServersCanMove => (Near(k) ~> MovedOn(c, m, i, t))
<1>1. F(0)
  <2>1. ~Near(0)
    BY DEF Stage
  <2> HIDE DEF Near
  <2> QED BY <2>1, PTL
<1>2. ASSUME NEW k \in Nat PROVE F(k) => F(k + 1)
  <2> DEFINE Here == Near(k + 1)
             Less == Near(k)
  <2>1. IInv /\ QueueInv /\ Here /\ [Next]_vars => Here' \/ MovedOn(c, m, i, t)'
    BY WaitsStep
  <2>2. IInv /\ QueueInv /\ Here /\ <<Server(c)>>_vars => Less' \/ MovedOn(c, m, i, t)'
    <3>1. Server(c) => Next
      BY DEF Next
    <3> QED BY <3>1, WaitsStep
  <2>3. ServersCanMove /\ IInv /\ QueueInv /\ Here => ENABLED <<Server(c)>>_vars
    <3> SUFFICES ASSUME IInv, QueueInv, Here PROVE HasWork(c)
      BY DEF ServersCanMove
    <3>1. inbox[c] # <<>> /\ pc[c] \notin Ended /\ pc[c] \in ControlPoints
      BY DEF Waits, IInv, TypeOK
    <3> QED BY <3>1 DEF QueueInv, HasWork, ControlPoints, Open, Ended, Outside
  <2>4. Fairness => Fair(c)
    BY DEF Fairness
  <2> HIDE DEF Near
  <2> QED
    BY <2>1, <2>2, <2>3, <2>4, ChannelsHold, Invariance, PTL DEF Spec, Fair
<1>3. F(3)
  <2> HIDE DEF F
  <2> QED BY <1>1, <1>2
<1>4. Waits(c, m, i, t) => Near(3)
  BY DEF Stage
<1> HIDE DEF Near
<1> QED BY <1>3, <1>4, PTL DEF MovesOn

=============================================================================
