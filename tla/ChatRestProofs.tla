--------------------------- MODULE ChatRestProofs ---------------------------
(***************************************************************************)
(* The invariant of ChatRest for every number of clients, writers and      *)
(* messages, what follows from it for pages and reactions, and that the    *)
(* views implement the atomic set of IdempotentSet.                        *)
(***************************************************************************)
EXTENDS ChatRest, FiniteSetTheorems, TLAPS

Points == {"auth", "target", "get", "insert", "again", "remove",
           "room", "page", "reactions"} \cup Ended

(***************************************************************************)
(* What steps have in common.                                              *)
(***************************************************************************)
LEMMA GotoType ==
  ASSUME TypeOK, NEW r \in Requests, NEW from, NEW to \in Points, Goto(r, from, to)
  PROVE  /\ pc' \in [Requests -> Points]
         /\ pc'[r] = to
         /\ \A q \in Requests : q # r => pc'[q] = pc[q]
BY DEF TypeOK, Goto, Points

\* What is left of a request whose answer is lost: its operation.
Lost(r, status) ==
  /\ r \in Posts \cup Deletes
  /\ pc[r] \in {"insert", "remove"}
  /\ pc' = [pc EXCEPT ![r] = status]
  /\ SetRows(rows')
  /\ \/ r \in Posts /\ rows' = rows \cup {KeyOf[r]} /\ RefsResolve(KeyOf[r])
     \/ r \in Deletes /\ rows' = rows \ {KeyOf[r]}
  /\ UNCHANGED <<users, messages, ever, stale, writeVars, readVars>>

LEMMA LoseAnswerDoes ==
  ASSUME NEW r \in Requests, LoseAnswer(r)
  PROVE  \E status \in {"500", "killed"} : Lost(r, status)
<1>1. PICK status \in {"500", "killed"} :
        \/ /\ r \in Posts /\ KeyOf[r] \notin rows /\ RefsResolve(KeyOf[r])
           /\ Goto(r, "insert", status)
           /\ SetRows(rows \cup {KeyOf[r]})
        \/ /\ r \in Deletes
           /\ Goto(r, "remove", status)
           /\ SetRows(rows \ {KeyOf[r]})
  BY DEF LoseAnswer
<1>2. UNCHANGED <<users, messages, ever, stale, writeVars, readVars>>
  BY DEF LoseAnswer
<1>3. /\ r \in Posts \cup Deletes
      /\ pc[r] \in {"insert", "remove"}
      /\ pc' = [pc EXCEPT ![r] = status]
  BY <1>1 DEF Goto
<1>4. \/ /\ r \in Posts /\ rows' = rows \cup {KeyOf[r]} /\ RefsResolve(KeyOf[r])
         /\ SetRows(rows')
      \/ r \in Deletes /\ rows' = rows \ {KeyOf[r]} /\ SetRows(rows')
  BY <1>1 DEF SetRows
<1> QED BY <1>2, <1>3, <1>4 DEF Lost

\* The request of nobody else moves.
LEMMA LoseAnswerMoves ==
  ASSUME TypeOK, NEW r \in Requests, LoseAnswer(r)
  PROVE  /\ pc' \in [Requests -> Points]
         /\ \A g \in Readers : pc'[g] = pc[g]
         /\ \A q \in Requests : pc'[q] = pc[q] \/ pc'[q] \in {"500", "killed"}
<1>1. PICK status \in {"500", "killed"} : Lost(r, status)
  BY LoseAnswerDoes
<1>2. r \in Posts \cup Deletes /\ pc' = [pc EXCEPT ![r] = status]
  BY <1>1 DEF Lost
<1> QED BY <1>1, <1>2, RequestsAssumption DEF TypeOK, Points, Ended, Requests

\* The queries and answers of posts and deletes.
LEMMA StatusesAreUsed ==
  ASSUME TypeOK, NEW r \in Requests
  PROVE  /\ Authenticate(r) \/ FindRoom(r) => pc' \in [Requests -> Points]
         /\ FindTarget(r) \/ Get(r) \/ Insert(r) \/ GetAgain(r) => pc' \in [Requests -> Points]
         /\ RemoveReaction(r) \/ LoadPage(r) \/ Reply(r) \/ Kill(r) => pc' \in [Requests -> Points]
<1>1. \A from, to : to \in Points /\ Goto(r, from, to) => pc' \in [Requests -> Points]
  BY GotoType
<1>2. \A x \in Ended : x \in Points
  BY DEF Points
<1>3. Authenticate(r) => pc' \in [Requests -> Points]
  BY <1>1, <1>2 DEF Authenticate, AfterAuth, Points, Ended
<1>4. FindRoom(r) => pc' \in [Requests -> Points]
  BY <1>1, <1>2 DEF FindRoom, Points, Ended
<1>5. FindTarget(r) => pc' \in [Requests -> Points]
  BY <1>1, <1>2 DEF FindTarget, Points, Ended
<1>6. Get(r) \/ Insert(r) \/ GetAgain(r) \/ RemoveReaction(r) => pc' \in [Requests -> Points]
  BY <1>1, <1>2 DEF Get, Insert, GetAgain, RemoveReaction, Points, Ended
<1>7. LoadPage(r) \/ Reply(r) => pc' \in [Requests -> Points]
  BY <1>1, <1>2 DEF LoadPage, Reply, Points, Ended
<1>8. Kill(r) => pc' \in [Requests -> Points]
  BY DEF Kill, TypeOK, Points, Ended
<1> QED BY <1>3, <1>4, <1>5, <1>6, <1>7, <1>8

\* Writing rows keeps what is noted of them tight.
LEMMA SetRowsTypes ==
  ASSUME TypeOK, NEW new \in SUBSET Keys, SetRows(new)
  PROVE  /\ rows' = new
         /\ kept' \in [Readers -> SUBSET Keys]
         /\ seen' \in [Readers -> SUBSET Keys]
BY DEF TypeOK, SetRows

\* A deletion of messages and accounts only takes rows away.
LEMMA CascadeShrinks ==
  ASSUME NEW gone, NEW by, DeleteCascade(gone, by)
  PROVE  /\ messages' = messages \ gone
         /\ rows' \subseteq rows
         /\ SetRows(rows')
         /\ \A k \in rows' : k = Room \/ (k.user \notin by /\ \A m \in gone : m.id # k.message)
         /\ Room \in rows => Room \in rows'
BY DEF DeleteCascade, SetRows

(***************************************************************************)
(* Types.                                                                  *)
(***************************************************************************)
RowTypes ==
  /\ rows \subseteq Keys /\ IsFiniteSet(rows)
  /\ kept \in [Readers -> SUBSET Keys]
  /\ seen \in [Readers -> SUBSET Keys]
  /\ \A g \in Readers : IsFiniteSet(seen[g])

DataTypes ==
  /\ users \subseteq Users
  /\ messages \subseteq Message /\ ever \subseteq Message
  /\ IsFiniteSet(messages)

WriteTypes ==
  /\ draft \in [Writers -> [step : {"idle", "stamped", "drawn"},
                            id : Ids \cup {0}, stamp : Nat]]
  /\ lastId \in Ids \cup {0}
  /\ now \in Nat

ReadTypes ==
  /\ cursor \in [Readers -> Ids \cup {Top}]
  /\ page \in [Readers -> SUBSET Message]
  /\ \A g \in Readers :
       reply[g] \subseteq [message : Ids, emoji : Emojis, count : Nat, me : BOOLEAN]
  /\ DOMAIN reply = Readers
  /\ shown \in [Readers -> SUBSET Ids]
  /\ start \in [Readers -> SUBSET Message]

LEMMA TypeParts ==
  TypeOK <=> /\ RowTypes /\ DataTypes /\ WriteTypes /\ ReadTypes
             /\ pc \in [Requests -> Points]
             /\ stale \subseteq Readers \cup Writers
BY DEF TypeOK, RowTypes, DataTypes, WriteTypes, ReadTypes, Points

LEMMA RowTypesStep == TypeOK /\ [Next]_vars => RowTypes'
<1> SUFFICES ASSUME TypeOK, [Next]_vars PROVE RowTypes'
  OBVIOUS
<1>0. RowTypes
  BY TypeParts
<1>1. ASSUME NEW new \in SUBSET Keys, IsFiniteSet(new), SetRows(new) PROVE RowTypes'
  <2>1. \A g \in Readers : IsFiniteSet(seen[g] \cup new) /\ IsFiniteSet({})
    BY <1>0, <1>1, FS_Union, FS_EmptySet DEF RowTypes
  <2>2. \A g \in Readers : IsFiniteSet(seen'[g])
    BY <1>1, <2>1 DEF SetRows
  <2> QED BY <1>1, <2>2, SetRowsTypes DEF RowTypes
<1>2. ASSUME NEW new \in SUBSET rows, SetRows(new) PROVE RowTypes'
  <2>1. IsFiniteSet(new) /\ new \in SUBSET Keys
    BY <1>0, <1>2, FS_Subset DEF RowTypes
  <2> QED BY <1>1, <1>2, <2>1
<1>3. ASSUME UNCHANGED rowVars PROVE RowTypes'
  BY <1>0, <1>3 DEF RowTypes, rowVars
<1> USE DEF dbVars
<1>4. ASSUME NEW r \in Posts, Add(r) PROVE RowTypes'
  <2>1. CASE Authenticate(r)
    BY <1>0, <2>1 DEF Authenticate, RowTypes
  <2>2. CASE Insert(r)
    <3>1. CASE SetRows(rows \cup {KeyOf[r]})
      <4>1. IsFiniteSet(rows \cup {KeyOf[r]}) /\ rows \cup {KeyOf[r]} \in SUBSET Keys
        BY <1>0, FS_AddElement, RequestsAssumption DEF RowTypes
      <4> QED BY <3>1, <4>1, <1>1
    <3>2. CASE UNCHANGED rowVars
      BY <1>3, <3>2
    <3> QED BY <2>2, <3>1, <3>2 DEF Insert
  <2>3. CASE FindTarget(r) \/ Get(r) \/ GetAgain(r)
    BY <1>3, <2>3 DEF FindTarget, Get, GetAgain
  <2> QED BY <1>4, <2>1, <2>2, <2>3 DEF Add
<1>5. ASSUME NEW r \in Deletes, Remove(r) PROVE RowTypes'
  <2>1. CASE Authenticate(r)
    BY <1>0, <2>1 DEF Authenticate, RowTypes
  <2>2. CASE RemoveReaction(r)
    BY <1>2, <2>2 DEF RemoveReaction
  <2> QED BY <1>5, <2>1, <2>2 DEF Remove
<1>6. ASSUME NEW g \in Readers, Read(g) PROVE RowTypes'
  <2>1. CASE Authenticate(g)
    BY <1>0, <2>1 DEF Authenticate, RowTypes
  <2>2. CASE Reply(g)
    BY <1>0, <2>2, FS_EmptySet DEF Reply, RowTypes
  <2>3. CASE FindRoom(g) \/ LoadPage(g)
    BY <1>3, <2>3 DEF FindRoom, LoadPage
  <2> QED BY <1>6, <2>1, <2>2, <2>3 DEF Read
<1>7. ASSUME NEW w \in Writers, Write(w) PROVE RowTypes'
  BY <1>3, <1>7 DEF Write, Stamp, DrawId, Commit
<1>8. CASE Disturb
  <2>1. CASE DeleteMessages
    BY <1>2, <2>1, CascadeShrinks DEF DeleteMessages
  <2>2. CASE DeleteRoom
    BY <1>2, <2>2 DEF DeleteRoom
  <2>3. ASSUME NEW u \in Users, DeleteUser(u) PROVE RowTypes'
    BY <1>2, <2>3, CascadeShrinks DEF DeleteUser
  <2>4. ASSUME NEW r \in Requests, Kill(r) PROVE RowTypes'
    BY <1>3, <2>4 DEF Kill
  <2>5. ASSUME NEW r \in Requests, LoseAnswer(r) PROVE RowTypes'
    <3>1. PICK status \in {"500", "killed"} : Lost(r, status)
      BY <2>5, LoseAnswerDoes
    <3>2. SetRows(rows') /\ r \in Posts \cup Deletes
      BY <3>1 DEF Lost
    <3>3. CASE rows' = rows \cup {KeyOf[r]}
      <4>1. IsFiniteSet(rows \cup {KeyOf[r]}) /\ rows \cup {KeyOf[r]} \in SUBSET Keys
        BY <1>0, <3>2, FS_AddElement, RequestsAssumption DEF RowTypes
      <4> QED BY <1>1, <3>2, <3>3, <4>1
    <3>4. CASE rows' = rows \ {KeyOf[r]}
      BY <1>2, <3>2, <3>4
    <3> QED BY <3>1, <3>3, <3>4 DEF Lost
  <2> QED BY <1>8, <2>1, <2>2, <2>3, <2>4, <2>5 DEF Disturb
<1>9. CASE UNCHANGED vars
  BY <1>3, <1>9 DEF vars, rowVars
<1> QED BY <1>4, <1>5, <1>6, <1>7, <1>8, <1>9 DEF Next

LEMMA DataTypesStep == IInv /\ [Next]_vars => DataTypes'
<1> SUFFICES ASSUME IInv, [Next]_vars PROVE DataTypes'
  OBVIOUS
<1>0. DataTypes /\ WriteTypes
  BY TypeParts DEF IInv
<1> USE DEF dbVars
<1>1. ASSUME NEW gone, messages' = messages \ gone, users' \subseteq users, UNCHANGED ever
      PROVE  DataTypes'
  <2>1. IsFiniteSet(messages')
    BY <1>0, <1>1, FS_Subset DEF DataTypes
  <2> QED BY <1>0, <1>1, <2>1 DEF DataTypes
<1>2. ASSUME UNCHANGED <<users, messages, ever>> PROVE DataTypes'
  BY <1>0, <1>2 DEF DataTypes
<1>3. ASSUME NEW r \in Posts, Add(r) PROVE DataTypes'
  BY <1>2, <1>3 DEF Add, Authenticate, FindTarget, Get, Insert, GetAgain
<1>4. ASSUME NEW r \in Deletes, Remove(r) PROVE DataTypes'
  BY <1>2, <1>4 DEF Remove, Authenticate, RemoveReaction
<1>5. ASSUME NEW g \in Readers, Read(g) PROVE DataTypes'
  BY <1>2, <1>5 DEF Read, Authenticate, FindRoom, LoadPage, Reply
<1>6. ASSUME NEW w \in Writers, Stamp(w) \/ DrawId(w) PROVE DataTypes'
  BY <1>2, <1>6 DEF Stamp, DrawId
<1>7. ASSUME NEW w \in Writers, Commit(w) PROVE DataTypes'
  <2> DEFINE m == [id |-> draft[w].id, stamp |-> draft[w].stamp, sender |-> SenderOf[w]]
  <2>1. m \in Message
    <3>1. draft[w].id \in 1..lastId /\ lastId \in Nat
      BY <1>0, <1>7 DEF Commit, IInv, IdsAreCounted, WriteTypes, Ids
    <3>2. draft[w].id # 0 /\ draft[w].id \in Ids \cup {0} /\ draft[w].stamp \in Nat
      BY <1>0, <3>1 DEF WriteTypes
    <3> QED BY <3>2, ChatDataAssumption DEF Message
  <2>2. CASE UNCHANGED <<messages, ever>>
    BY <1>2, <1>7, <2>2 DEF Commit
  <2>3. CASE messages' = messages \cup {m} /\ ever' = ever \cup {m}
    <3>1. IsFiniteSet(messages')
      BY <1>0, <2>3, FS_AddElement DEF DataTypes
    <3> QED BY <1>0, <1>7, <2>1, <2>3, <3>1 DEF DataTypes, Commit
  <2> QED BY <1>7, <2>2, <2>3 DEF Commit
<1>8. CASE Disturb
  <2>1. CASE DeleteMessages
    BY <1>1, <2>1 DEF DeleteMessages, DeleteCascade
  <2>2. CASE DeleteRoom
    <3>1. messages' = messages \ messages
      BY <2>2 DEF DeleteRoom
    <3> QED BY <1>1, <2>2, <3>1 DEF DeleteRoom
  <2>3. ASSUME NEW u \in Users, DeleteUser(u) PROVE DataTypes'
    BY <1>1, <2>3 DEF DeleteUser, DeleteCascade
  <2>4. ASSUME NEW r \in Requests, Kill(r) PROVE DataTypes'
    BY <1>2, <2>4 DEF Kill
  <2>5. ASSUME NEW r \in Requests, LoseAnswer(r) PROVE DataTypes'
    BY <1>2, <2>5 DEF LoseAnswer
  <2> QED BY <1>8, <2>1, <2>2, <2>3, <2>4, <2>5 DEF Disturb
<1>9. CASE UNCHANGED vars
  BY <1>2, <1>9 DEF vars
<1> QED BY <1>3, <1>4, <1>5, <1>6, <1>7, <1>8, <1>9 DEF Next, Write

LEMMA WriteTypesStep == TypeOK /\ [Next]_vars => WriteTypes'
<1> SUFFICES ASSUME TypeOK, [Next]_vars PROVE WriteTypes'
  OBVIOUS
<1>0. WriteTypes
  BY TypeParts
<1>1. ASSUME UNCHANGED writeVars PROVE WriteTypes'
  BY <1>0, <1>1 DEF WriteTypes, writeVars
<1>2. ASSUME NEW w \in Writers, Stamp(w) PROVE WriteTypes'
  BY <1>0, <1>2 DEF Stamp, WriteTypes
<1>3. ASSUME NEW w \in Writers, DrawId(w) PROVE WriteTypes'
  <2>1. lastId + 1 \in Ids
    BY <1>0, <1>3, ChatDataAssumption DEF WriteTypes, DrawId, Ids
  <2> QED BY <1>0, <1>3, <2>1 DEF DrawId, WriteTypes
<1>4. ASSUME NEW w \in Writers, Commit(w) PROVE WriteTypes'
  BY <1>0, <1>4 DEF Commit, WriteTypes, NoDraft
<1>5. ASSUME NEW r \in Posts, Add(r) PROVE WriteTypes'
  BY <1>1, <1>5 DEF Add, Authenticate, FindTarget, Get, Insert, GetAgain
<1>6. ASSUME NEW r \in Deletes, Remove(r) PROVE WriteTypes'
  BY <1>1, <1>6 DEF Remove, Authenticate, RemoveReaction
<1>7. ASSUME NEW g \in Readers, Read(g) PROVE WriteTypes'
  BY <1>1, <1>7 DEF Read, Authenticate, FindRoom, LoadPage, Reply
<1>8. CASE Disturb
  BY <1>1, <1>8 DEF Disturb, DeleteMessages, DeleteRoom, DeleteUser, Kill, LoseAnswer
<1>9. CASE UNCHANGED vars
  BY <1>1, <1>9 DEF vars, writeVars
<1> QED BY <1>2, <1>3, <1>4, <1>5, <1>6, <1>7, <1>8, <1>9 DEF Next, Write

LEMMA ReadTypesStep == TypeOK /\ [Next]_vars => ReadTypes'
<1> SUFFICES ASSUME TypeOK, [Next]_vars PROVE ReadTypes'
  OBVIOUS
<1>0. ReadTypes /\ DataTypes /\ RowTypes
  BY TypeParts
<1>1. ASSUME UNCHANGED readVars PROVE ReadTypes'
  BY <1>0, <1>1 DEF ReadTypes, readVars
<1>2. ASSUME NEW g \in Readers, LoadPage(g) PROVE ReadTypes'
  <2>1. UNCHANGED <<cursor, reply, shown>>
    BY <1>2 DEF LoadPage
  <2>2. CASE UNCHANGED <<page, start>>
    BY <1>0, <2>1, <2>2 DEF ReadTypes
  <2>3. ASSUME NEW P \in Pages(Before(g), PageSize(g)),
               page' = [page EXCEPT ![g] = P],
               start' = [start EXCEPT ![g] = IF cursor[g] = Top THEN InRoom(g) ELSE @]
        PROVE  ReadTypes'
    <3>1. P \in SUBSET Message /\ InRoom(g) \in SUBSET Message
      BY <1>0, <2>3 DEF Pages, Before, InRoom, DataTypes
    <3>2. page' \in [Readers -> SUBSET Message] /\ start' \in [Readers -> SUBSET Message]
      BY <1>0, <2>3, <3>1 DEF ReadTypes
    <3> QED BY <1>0, <2>1, <3>2 DEF ReadTypes
  <2> QED BY <1>2, <2>2, <2>3 DEF LoadPage
<1>3. ASSUME NEW g \in Readers, Reply(g) PROVE ReadTypes'
  <2>1. page[g] \subseteq Message
    BY <1>0 DEF ReadTypes
  <2>2. ASSUME NEW m \in page[g]
        PROVE  Aggregates(m, UserOf[g]) \subseteq
                 [message : Ids, emoji : Emojis, count : Nat, me : BOOLEAN]
    <3> DEFINE on == {k \in rows \ {Room} : k.message = m.id}
               of(e) == {k \in on : k.emoji = e}
    <3>1. \A e : IsFiniteSet(of(e)) /\ Cardinality(of(e)) \in Nat
      BY <1>0, FS_Subset, FS_CardinalityType DEF RowTypes
    <3>2. m.id \in Ids
      BY <2>1 DEF Message
    <3>3. \A k \in on : k.emoji \in Emojis
      BY <1>0 DEF RowTypes, Keys, Reactions
    <3> DEFINE me(e) == \E k \in of(e) : k.user = UserOf[g]
    <3>4. \A e : me(e) \in BOOLEAN
      OBVIOUS
    <3>5. Aggregates(m, UserOf[g]) =
            {[message |-> m.id, emoji |-> e, count |-> Cardinality(of(e)), me |-> me(e)] :
               e \in {k.emoji : k \in on}}
      BY DEF Aggregates
    <3> HIDE DEF of, me
    <3>6. ASSUME NEW e \in {k.emoji : k \in on}
          PROVE  [message |-> m.id, emoji |-> e, count |-> Cardinality(of(e)), me |-> me(e)] \in
                   [message : Ids, emoji : Emojis, count : Nat, me : BOOLEAN]
      BY <3>1, <3>2, <3>3, <3>4
    <3> HIDE DEF on
    <3> QED BY <3>5, <3>6
  <2>3. UNION {Aggregates(m, UserOf[g]) : m \in page[g]} \subseteq
          [message : Ids, emoji : Emojis, count : Nat, me : BOOLEAN]
    BY <2>2
  <2>4. /\ DOMAIN reply' = Readers
        /\ \A h \in Readers : reply'[h] \subseteq
             [message : Ids, emoji : Emojis, count : Nat, me : BOOLEAN]
    <3> DEFINE new == UNION {Aggregates(m, UserOf[g]) : m \in page[g]}
    <3> HIDE DEF new
    <3>1. reply' = [reply EXCEPT ![g] = new]
      BY <1>3 DEF Reply, new
    <3>2. new \subseteq [message : Ids, emoji : Emojis, count : Nat, me : BOOLEAN]
      BY <2>3 DEF new
    <3> QED BY <1>0, <3>1, <3>2 DEF ReadTypes
  <2>5. {m.id : m \in page[g]} \subseteq Ids
    BY <2>1 DEF Message
  <2>6. shown' \in [Readers -> SUBSET Ids]
    BY <1>0, <1>3, <2>5 DEF Reply, ReadTypes
  <2>7. cursor' \in [Readers -> Ids \cup {Top}]
    BY <1>0, <1>3, <2>5 DEF Reply, ReadTypes
  <2> QED BY <1>0, <1>3, <2>4, <2>6, <2>7 DEF Reply, ReadTypes
<1>4. ASSUME NEW g \in Readers, Authenticate(g) \/ FindRoom(g) PROVE ReadTypes'
  BY <1>1, <1>4 DEF Authenticate, FindRoom
<1>5. ASSUME NEW r \in Posts, Add(r) PROVE ReadTypes'
  BY <1>1, <1>5 DEF Add, Authenticate, FindTarget, Get, Insert, GetAgain
<1>6. ASSUME NEW r \in Deletes, Remove(r) PROVE ReadTypes'
  BY <1>1, <1>6 DEF Remove, Authenticate, RemoveReaction
<1>7. ASSUME NEW w \in Writers, Write(w) PROVE ReadTypes'
  BY <1>1, <1>7 DEF Write, Stamp, DrawId, Commit
<1>8. CASE Disturb
  BY <1>1, <1>8 DEF Disturb, DeleteMessages, DeleteRoom, DeleteUser, Kill, LoseAnswer
<1>9. CASE UNCHANGED vars
  BY <1>1, <1>9 DEF vars, readVars
<1> QED BY <1>2, <1>3, <1>4, <1>5, <1>6, <1>7, <1>8, <1>9 DEF Next, Read

LEMMA TypeStep == IInv /\ [Next]_vars => TypeOK'
<1> SUFFICES ASSUME IInv, [Next]_vars PROVE TypeOK'
  OBVIOUS
<1>1. TypeOK
  BY DEF IInv
<1>2. pc' \in [Requests -> Points]
  <2>1. ASSUME NEW r \in Posts, Add(r) PROVE pc' \in [Requests -> Points]
    BY <1>1, <2>1, StatusesAreUsed DEF Add, Requests
  <2>2. ASSUME NEW r \in Deletes, Remove(r) PROVE pc' \in [Requests -> Points]
    BY <1>1, <2>2, StatusesAreUsed DEF Remove, Requests
  <2>3. ASSUME NEW g \in Readers, Read(g) PROVE pc' \in [Requests -> Points]
    BY <1>1, <2>3, StatusesAreUsed DEF Read, Requests
  <2>4. ASSUME NEW r \in Requests, Kill(r) PROVE pc' \in [Requests -> Points]
    BY <1>1, <2>4, StatusesAreUsed
  <2>9. ASSUME NEW r \in Requests, LoseAnswer(r) PROVE pc' \in [Requests -> Points]
    BY <1>1, <2>9, LoseAnswerMoves
  <2>5. ASSUME UNCHANGED pc PROVE pc' \in [Requests -> Points]
    BY <1>1, <2>5 DEF TypeOK, Points
  <2>6. ASSUME NEW w \in Writers, Write(w) PROVE UNCHANGED pc
    BY <2>6 DEF Write, Stamp, DrawId, Commit
  <2>7. CASE Disturb
    BY <2>4, <2>5, <2>7, <2>9 DEF Disturb, DeleteMessages, DeleteRoom, DeleteUser
  <2>8. CASE UNCHANGED vars
    BY <2>5, <2>8 DEF vars
  <2> QED BY <2>1, <2>2, <2>3, <2>5, <2>6, <2>7, <2>8 DEF Next
<1>3. stale' \subseteq Readers \cup Writers
  <2>1. stale \subseteq Readers \cup Writers
    BY <1>1 DEF TypeOK
  <2>2. ASSUME NEW r \in Posts, Add(r) PROVE UNCHANGED stale
    BY <2>2 DEF Add, Authenticate, FindTarget, Get, Insert, GetAgain
  <2>3. ASSUME NEW r \in Deletes, Remove(r) PROVE UNCHANGED stale
    BY <2>3 DEF Remove, Authenticate, RemoveReaction
  <2>4. ASSUME NEW g \in Readers, Read(g) PROVE stale' \subseteq stale
    BY <2>4 DEF Read, Authenticate, FindRoom, LoadPage, Reply
  <2>5. ASSUME NEW w \in Writers, Write(w) PROVE stale' \subseteq stale
    BY <2>5 DEF Write, Stamp, DrawId, Commit
  <2>6. CASE Disturb
    BY <2>1, <2>6 DEF Disturb, DeleteMessages, DeleteRoom, DeleteUser, Kill, LoseAnswer
  <2> QED BY <2>1, <2>2, <2>3, <2>4, <2>5, <2>6 DEF Next, vars
<1>4. RowTypes' /\ DataTypes' /\ WriteTypes' /\ ReadTypes'
  BY <1>1, RowTypesStep, DataTypesStep, WriteTypesStep, ReadTypesStep
<1> QED
  BY <1>2, <1>3, <1>4
  DEF TypeOK, RowTypes, DataTypes, WriteTypes, ReadTypes, Points

-----------------------------------------------------------------------------
(***************************************************************************)
(* The shape of a step, for the parts of the invariant about data.         *)
(***************************************************************************)
\* Requests only add a row whose references resolve, or take rows away.
RowStep ==
  /\ UNCHANGED <<users, messages, ever, writeVars>>
  /\ \/ rows' \subseteq rows /\ (Room \in rows => Room \in rows')
     \/ \E r \in Posts : rows' = rows \cup {KeyOf[r]} /\ RefsResolve(KeyOf[r])

LEMMA RequestSteps ==
  ASSUME TypeOK
  PROVE  /\ \A r \in Posts : Add(r) => RowStep
         /\ \A r \in Deletes : Remove(r) => RowStep
         /\ \A g \in Readers : Read(g) => RowStep
         /\ \A r \in Requests : Kill(r) \/ LoseAnswer(r) => RowStep
<1> USE DEF dbVars, rowVars, writeVars, SetRows
<1>1. ASSUME NEW r \in Posts, Add(r) PROVE RowStep
  BY <1>1 DEF Add, Authenticate, FindTarget, Get, Insert, GetAgain, RowStep
<1>2. ASSUME NEW r \in Deletes, Remove(r) PROVE RowStep
  BY <1>2, RequestsAssumption DEF Remove, Authenticate, RemoveReaction, RowStep
<1>3. ASSUME NEW g \in Readers, Read(g) PROVE RowStep
  BY <1>3 DEF Read, Authenticate, FindRoom, LoadPage, Reply, RowStep
<1>4. ASSUME NEW r \in Requests, Kill(r) PROVE RowStep
  BY <1>4 DEF Kill, RowStep
<1>5. ASSUME NEW r \in Requests, LoseAnswer(r) PROVE RowStep
  <2>1. PICK status \in {"500", "killed"} : Lost(r, status)
    BY <1>5, LoseAnswerDoes
  <2> QED BY <2>1, RequestsAssumption DEF Lost, RowStep
<1> QED BY <1>1, <1>2, <1>3, <1>4, <1>5

LEMMA NothingDanglesStep == IInv /\ [Next]_vars => NothingDangles'
<1> SUFFICES ASSUME IInv, [Next]_vars PROVE NothingDangles'
  OBVIOUS
<1>0. TypeOK /\ NothingDangles
  BY DEF IInv
<1>1. ASSUME RowStep PROVE NothingDangles'
  <2>1. \A k : RefsResolve(k)' <=> RefsResolve(k)
    BY <1>1 DEF RowStep, RefsResolve, HasMessage
  <2>2. \A k \in rows' : RefsResolve(k)
    BY <1>0, <1>1 DEF RowStep, NothingDangles
  <2>3. \A m \in messages : Room \in rows' /\ m.sender \in users
    BY <1>0, <1>1 DEF RowStep, NothingDangles
  <2> QED BY <1>1, <2>1, <2>2, <2>3 DEF RowStep, NothingDangles
<1>2. ASSUME UNCHANGED <<rows, users, messages>> PROVE NothingDangles'
  BY <1>0, <1>2 DEF NothingDangles, RefsResolve, HasMessage
<1>3. ASSUME NEW w \in Writers, Write(w) PROVE NothingDangles'
  <2>1. CASE Stamp(w) \/ DrawId(w)
    BY <1>2, <2>1 DEF Stamp, DrawId, dbVars, rowVars
  <2>2. CASE Commit(w)
    <3> DEFINE m == [id |-> draft[w].id, stamp |-> draft[w].stamp, sender |-> SenderOf[w]]
    <3>1. CASE messages' = messages
      BY <1>2, <2>2, <3>1 DEF Commit, rowVars
    <3>2. CASE w \notin stale /\ SenderOf[w] \in users /\ messages' = messages \cup {m}
      <4>1. Room \in rows
        BY <2>2, <3>2 DEF Commit, IInv, RoomIsHeld
      <4>2. UNCHANGED <<rows, users>>
        BY <2>2 DEF Commit, rowVars
      <4>3. \A k \in rows : RefsResolve(k)'
        BY <1>0, <3>2, <4>2 DEF NothingDangles, RefsResolve, HasMessage
      <4>4. \A x \in messages' : x.sender \in users
        BY <1>0, <3>2 DEF NothingDangles
      <4> QED BY <4>1, <4>2, <4>3, <4>4 DEF NothingDangles
    <3> QED BY <2>2, <3>1, <3>2 DEF Commit
  <2> QED BY <1>3, <2>1, <2>2 DEF Write
<1>4. CASE Disturb
  <2>1. CASE DeleteMessages
    <3>1. /\ messages' = {} /\ UNCHANGED users
          /\ \A k \in rows' : k = Room \/ (k \in rows /\ \A m \in messages : m.id # k.message)
      BY <2>1 DEF DeleteMessages, DeleteCascade, SetRows
    <3>2. \A k \in rows' : k = Room
      BY <1>0, <3>1 DEF NothingDangles, RefsResolve, HasMessage
    <3> QED BY <3>1, <3>2 DEF NothingDangles, RefsResolve
  <2>2. CASE DeleteRoom
    BY <2>2 DEF DeleteRoom, SetRows, NothingDangles
  <2>3. ASSUME NEW u \in Users, DeleteUser(u) PROVE NothingDangles'
    <3> DEFINE gone == {m \in messages : m.sender = u}
    <3>1. /\ users' = users \ {u} /\ messages' = messages \ gone
          /\ rows' \subseteq rows
          /\ \A k \in rows' : k = Room \/ (k.user # u /\ \A m \in gone : m.id # k.message)
          /\ Room \in rows => Room \in rows'
      BY <2>3, CascadeShrinks DEF DeleteUser
    <3>2. ASSUME NEW k \in rows', k # Room PROVE RefsResolve(k)'
      <4>1. k.user \in users' /\ HasMessage(k.message)
        BY <1>0, <3>1, <3>2 DEF NothingDangles, RefsResolve
      <4>2. HasMessage(k.message)'
        BY <3>1, <3>2, <4>1 DEF HasMessage
      <4> QED BY <4>1, <4>2 DEF RefsResolve
    <3>3. \A m \in messages' : Room \in rows' /\ m.sender \in users'
      BY <1>0, <3>1 DEF NothingDangles
    <3> QED BY <3>2, <3>3 DEF NothingDangles, RefsResolve
  <2>4. ASSUME NEW r \in Requests, Kill(r) PROVE NothingDangles'
    BY <1>0, <1>1, <2>4, RequestSteps
  <2>5. ASSUME NEW r \in Requests, LoseAnswer(r) PROVE NothingDangles'
    BY <1>0, <1>1, <2>5, RequestSteps
  <2> QED BY <1>4, <2>1, <2>2, <2>3, <2>4, <2>5 DEF Disturb
<1>5. CASE UNCHANGED vars
  BY <1>2, <1>5 DEF vars
<1> QED BY <1>0, <1>1, <1>3, <1>4, <1>5, RequestSteps DEF Next

LEMMA RoomIsHeldStep == IInv /\ [Next]_vars => RoomIsHeld'
<1> SUFFICES ASSUME IInv, [Next]_vars PROVE RoomIsHeld'
  OBVIOUS
<1>0. TypeOK /\ RoomIsHeld /\ WriteTypes
  BY TypeParts DEF IInv
<1>1. ASSUME UNCHANGED draft, stale \cap Writers \subseteq stale', Room \in rows => Room \in rows'
      PROVE  RoomIsHeld'
  BY <1>0, <1>1 DEF RoomIsHeld
<1>2. ASSUME NEW r \in Posts, Add(r) PROVE RoomIsHeld'
  <2>1. UNCHANGED <<draft, stale>>
    BY <1>2 DEF Add, Authenticate, FindTarget, Get, Insert, GetAgain, writeVars
  <2>2. Room \in rows => Room \in rows'
    BY <1>0, <1>2, RequestSteps DEF RowStep
  <2> QED BY <1>1, <2>1, <2>2
<1>3. ASSUME NEW r \in Deletes, Remove(r) PROVE RoomIsHeld'
  <2>1. UNCHANGED <<draft, stale>>
    BY <1>3 DEF Remove, Authenticate, RemoveReaction, writeVars
  <2>2. Room \in rows => Room \in rows'
    BY <1>0, <1>3, RequestSteps DEF RowStep
  <2> QED BY <1>1, <2>1, <2>2
<1>4. ASSUME NEW g \in Readers, Read(g) PROVE RoomIsHeld'
  <2>1. UNCHANGED draft /\ stale \cap Writers \subseteq stale'
    BY <1>4, RequestsAssumption
    DEF Read, Authenticate, FindRoom, LoadPage, Reply, writeVars
  <2>2. Room \in rows => Room \in rows'
    BY <1>0, <1>4, RequestSteps DEF RowStep
  <2> QED BY <1>1, <2>1, <2>2
<1>5. ASSUME NEW w \in Writers, Write(w) PROVE RoomIsHeld'
  <2>1. CASE Stamp(w)
    BY <1>0, <2>1 DEF Stamp, RoomIsHeld, WriteTypes, dbVars, rowVars
  <2>2. CASE DrawId(w)
    BY <1>0, <2>2 DEF DrawId, RoomIsHeld, WriteTypes, dbVars, rowVars
  <2>3. CASE Commit(w)
    BY <1>0, <2>3 DEF Commit, RoomIsHeld, WriteTypes, NoDraft, rowVars
  <2> QED BY <1>5, <2>1, <2>2, <2>3 DEF Write
<1>6. CASE Disturb
  <2>1. CASE DeleteMessages
    BY <1>1, <2>1, CascadeShrinks DEF DeleteMessages, writeVars
  <2>2. CASE DeleteRoom
    BY <1>0, <2>2 DEF DeleteRoom, RoomIsHeld, WriteTypes, writeVars
  <2>3. ASSUME NEW u \in Users, DeleteUser(u) PROVE RoomIsHeld'
    BY <1>1, <2>3, CascadeShrinks DEF DeleteUser, writeVars
  <2>4. ASSUME NEW r \in Requests, Kill(r) PROVE RoomIsHeld'
    BY <1>1, <2>4 DEF Kill, writeVars, dbVars, rowVars
  <2>5. ASSUME NEW r \in Requests, LoseAnswer(r) PROVE RoomIsHeld'
    <3>1. UNCHANGED <<draft, stale>>
      BY <2>5 DEF LoseAnswer, writeVars
    <3>2. Room \in rows => Room \in rows'
      BY <1>0, <2>5, RequestSteps DEF RowStep
    <3> QED BY <1>1, <3>1, <3>2
  <2> QED BY <1>6, <2>1, <2>2, <2>3, <2>4, <2>5 DEF Disturb
<1>7. CASE UNCHANGED vars
  BY <1>1, <1>7 DEF vars
<1> QED BY <1>2, <1>3, <1>4, <1>5, <1>6, <1>7 DEF Next

\* Steps that write no message.
LEMMA IdsAreCountedKept ==
  ASSUME IInv, messages' \subseteq messages, UNCHANGED <<ever, writeVars>>,
         \A g \in Readers : start'[g] \subseteq ever /\ page'[g] \subseteq ever
  PROVE  IdsAreCounted'
BY DEF IInv, IdsAreCounted, writeVars

LEMMA IdsAreCountedStep == IInv /\ [Next]_vars => IdsAreCounted'
<1> SUFFICES ASSUME IInv, [Next]_vars PROVE IdsAreCounted'
  OBVIOUS
<1>0. TypeOK /\ IdsAreCounted /\ WriteTypes /\ ReadTypes
  BY TypeParts DEF IInv
<1>1. ASSUME messages' \subseteq messages, UNCHANGED <<ever, writeVars, start, page>>
      PROVE  IdsAreCounted'
  <2>1. \A g \in Readers : start'[g] \subseteq ever /\ page'[g] \subseteq ever
    BY <1>0, <1>1 DEF IdsAreCounted
  <2> QED BY <1>1, <2>1, IdsAreCountedKept
<1>2. ASSUME NEW r \in Posts, Add(r) PROVE IdsAreCounted'
  BY <1>1, <1>2
  DEF Add, Authenticate, FindTarget, Get, Insert, GetAgain, dbVars, readVars
<1>3. ASSUME NEW r \in Deletes, Remove(r) PROVE IdsAreCounted'
  BY <1>1, <1>3 DEF Remove, Authenticate, RemoveReaction, dbVars, readVars
<1>4. ASSUME NEW g \in Readers, Authenticate(g) \/ FindRoom(g) \/ Reply(g)
      PROVE  IdsAreCounted'
  BY <1>1, <1>4 DEF Authenticate, FindRoom, Reply, dbVars, readVars
<1>5. ASSUME NEW g \in Readers, LoadPage(g) PROVE IdsAreCounted'
  <2>1. messages' = messages /\ UNCHANGED <<ever, writeVars>>
    BY <1>5 DEF LoadPage, dbVars
  <2>2. InRoom(g) \subseteq ever
    BY <1>0 DEF InRoom, IdsAreCounted
  <2>3. \A P \in Pages(Before(g), PageSize(g)) : P \subseteq ever
    BY <2>2 DEF Pages, Before
  <2>4. \A h \in Readers : start'[h] \subseteq ever /\ page'[h] \subseteq ever
    BY <1>0, <1>5, <2>2, <2>3 DEF LoadPage, IdsAreCounted, ReadTypes
  <2> QED BY <2>1, <2>4, IdsAreCountedKept
<1>6. ASSUME NEW w \in Writers, Stamp(w) PROVE IdsAreCounted'
  <2>1. UNCHANGED <<messages, ever, lastId, start, page>>
    BY <1>6 DEF Stamp, dbVars, readVars
  <2>2. \A v \in Writers : draft'[v].step = "drawn" =>
          draft[v].step = "drawn" /\ draft'[v].id = draft[v].id
    BY <1>0, <1>6 DEF Stamp, WriteTypes
  <2> QED BY <1>0, <2>1, <2>2 DEF IdsAreCounted
<1>7. ASSUME NEW w \in Writers, DrawId(w) PROVE IdsAreCounted'
  <2>1. UNCHANGED <<messages, ever, start, page>> /\ lastId' = lastId + 1
    BY <1>7 DEF DrawId, dbVars, readVars
  <2>2. draft'[w].id = lastId + 1 /\ \A v \in Writers \ {w} : draft'[v] = draft[v]
    BY <1>0, <1>7 DEF DrawId, WriteTypes
  <2>3. lastId \in Nat /\ \A m \in ever : m.id \in Nat /\ m.id <= lastId
    BY <1>0, TypeParts DEF IdsAreCounted, WriteTypes, DataTypes, Message, Ids
  <2>4. \A v \in Writers \ {w} : draft[v].step = "drawn" => draft[v].id \in 1..lastId
    BY <1>0 DEF IdsAreCounted
  <2>5. ASSUME NEW v \in Writers, draft'[v].step = "drawn"
        PROVE  /\ draft'[v].id \in 1..lastId'
               /\ \A m \in ever : m.id # draft'[v].id
               /\ \A x \in Writers :
                    draft'[x].step = "drawn" /\ draft'[x].id = draft'[v].id => x = v
    <3>1. CASE v = w
      BY <2>1, <2>2, <2>3, <2>4, <3>1
    <3>2. CASE v # w
      BY <1>0, <2>1, <2>2, <2>3, <2>4, <2>5, <3>2 DEF IdsAreCounted
    <3> QED BY <3>1, <3>2
  <2> QED BY <1>0, <2>1, <2>3, <2>5 DEF IdsAreCounted
<1>8. ASSUME NEW w \in Writers, Commit(w) PROVE IdsAreCounted'
  <2> DEFINE m == [id |-> draft[w].id, stamp |-> draft[w].stamp, sender |-> SenderOf[w]]
  <2>1. UNCHANGED <<lastId, start, page>> /\ draft[w].step = "drawn"
    BY <1>8 DEF Commit, readVars
  <2>2. \A v \in Writers : draft'[v].step = "drawn" => v # w /\ draft'[v] = draft[v]
    BY <1>0, <1>8 DEF Commit, WriteTypes, NoDraft
  <2>3. m.id \in 1..lastId /\ \A x \in ever : x.id # m.id
    BY <1>0, <2>1 DEF IdsAreCounted
  <2>4. CASE UNCHANGED <<messages, ever>>
    BY <1>0, <2>1, <2>2, <2>4 DEF IdsAreCounted
  <2>5. CASE messages' = messages \cup {m} /\ ever' = ever \cup {m}
    <3>1. \A a, b \in ever' : a.id = b.id => a = b
      BY <1>0, <2>3, <2>5 DEF IdsAreCounted
    <3>2. \A x \in ever' : x.id <= lastId
      BY <1>0, <2>3, <2>5 DEF IdsAreCounted
    <3>3. ASSUME NEW v \in Writers, draft'[v].step = "drawn"
          PROVE  /\ draft'[v].id \in 1..lastId
                 /\ \A x \in ever' : x.id # draft'[v].id
                 /\ \A x \in Writers :
                      draft'[x].step = "drawn" /\ draft'[x].id = draft'[v].id => x = v
      BY <1>0, <2>1, <2>2, <2>5, <3>3 DEF IdsAreCounted
    <3>4. messages' \subseteq ever'
      BY <1>0, <2>5 DEF IdsAreCounted
    <3>5. \A g \in Readers : start[g] \subseteq ever' /\ page[g] \subseteq ever'
      BY <1>0, <2>5 DEF IdsAreCounted
    <3> QED BY <2>1, <3>1, <3>2, <3>3, <3>4, <3>5 DEF IdsAreCounted
  <2> QED BY <1>8, <2>4, <2>5 DEF Commit
<1>9. CASE Disturb
  <2>1. CASE DeleteMessages
    BY <1>1, <2>1, CascadeShrinks DEF DeleteMessages, readVars
  <2>2. CASE DeleteRoom
    BY <1>1, <2>2 DEF DeleteRoom, readVars
  <2>3. ASSUME NEW u \in Users, DeleteUser(u) PROVE IdsAreCounted'
    BY <1>1, <2>3, CascadeShrinks DEF DeleteUser, readVars
  <2>4. ASSUME NEW r \in Requests, Kill(r) PROVE IdsAreCounted'
    BY <1>1, <2>4 DEF Kill, readVars, dbVars
  <2>5. ASSUME NEW r \in Requests, LoseAnswer(r) PROVE IdsAreCounted'
    BY <1>1, <2>5 DEF LoseAnswer, readVars
  <2> QED BY <1>9, <2>1, <2>2, <2>3, <2>4, <2>5 DEF Disturb
<1>10. CASE UNCHANGED vars
  BY <1>1, <1>10 DEF vars, writeVars
<1> QED BY <1>2, <1>3, <1>4, <1>5, <1>6, <1>7, <1>8, <1>9, <1>10 DEF Next, Read, Write

LEMMA WatchIsTightStep == IInv /\ [Next]_vars => WatchIsTight'
<1> SUFFICES ASSUME IInv, [Next]_vars PROVE WatchIsTight'
  OBVIOUS
<1>0. TypeOK /\ WatchIsTight
  BY DEF IInv
<1>1. ASSUME \A g \in Readers : pc'[g] = pc[g] \/ ~Reading(g)',
             UNCHANGED rowVars \/ SetRows(rows')
      PROVE  WatchIsTight'
  <2> SUFFICES ASSUME NEW g \in Readers, Reading(g)'
               PROVE  kept'[g] \subseteq rows' /\ rows' \subseteq seen'[g]
    BY DEF WatchIsTight
  <2>1. Reading(g)
    BY <1>1 DEF Reading
  <2>2. kept[g] \subseteq rows /\ rows \subseteq seen[g]
    BY <1>0, <2>1 DEF WatchIsTight
  <2>3. CASE UNCHANGED rowVars
    BY <2>2, <2>3 DEF rowVars
  <2>4. CASE SetRows(rows')
    BY <2>1, <2>4 DEF SetRows
  <2> QED BY <1>1, <2>3, <2>4
<1>2. ASSUME NEW r \in Posts \cup Deletes, NEW from, NEW to, Goto(r, from, to)
      PROVE  \A g \in Readers : pc'[g] = pc[g]
  BY <1>0, <1>2, RequestsAssumption DEF TypeOK, Goto
<1>3. ASSUME NEW r \in Requests, Authenticate(r) PROVE WatchIsTight'
  <2>1. \A g \in Readers : g # r /\ Reading(g)' => Reading(g)
    BY <1>0, <1>3 DEF Authenticate, Goto, TypeOK, Reading
  <2>2. /\ \A g \in Readers \ {r} : kept'[g] = kept[g] /\ seen'[g] = seen[g]
        /\ r \in Readers => kept'[r] = rows /\ seen'[r] = rows
        /\ rows' = rows
    BY <1>3 DEF Authenticate
  <2>3. ASSUME NEW g \in Readers, Reading(g)'
        PROVE  kept'[g] \subseteq rows' /\ rows' \subseteq seen'[g]
    BY <1>0, <2>1, <2>2, <2>3 DEF WatchIsTight
  <2> QED BY <2>3 DEF WatchIsTight
<1>4. ASSUME NEW r \in Posts, Add(r) PROVE WatchIsTight'
  <2>1. CASE Authenticate(r)
    BY <1>3, <2>1 DEF Requests
  <2>2. CASE Insert(r)
    <3>1. \A g \in Readers : pc'[g] = pc[g]
      BY <1>2, <2>2 DEF Insert
    <3>2. UNCHANGED rowVars \/ SetRows(rows')
      BY <2>2 DEF Insert, SetRows
    <3> QED BY <1>1, <3>1, <3>2
  <2>3. CASE FindTarget(r) \/ Get(r) \/ GetAgain(r)
    <3>1. \A g \in Readers : pc'[g] = pc[g]
      BY <1>2, <2>3 DEF FindTarget, Get, GetAgain
    <3>2. UNCHANGED rowVars
      BY <2>3 DEF FindTarget, Get, GetAgain, dbVars
    <3> QED BY <1>1, <3>1, <3>2
  <2> QED BY <1>4, <2>1, <2>2, <2>3 DEF Add
<1>5. ASSUME NEW r \in Deletes, Remove(r) PROVE WatchIsTight'
  <2>1. CASE Authenticate(r)
    BY <1>3, <2>1 DEF Requests
  <2>2. CASE RemoveReaction(r)
    <3>1. \A g \in Readers : pc'[g] = pc[g]
      BY <1>2, <2>2 DEF RemoveReaction
    <3>2. SetRows(rows')
      BY <2>2 DEF RemoveReaction, SetRows
    <3> QED BY <1>1, <3>1, <3>2
  <2> QED BY <1>5, <2>1, <2>2 DEF Remove
<1>6. ASSUME NEW g \in Readers, Read(g) PROVE WatchIsTight'
  <2>1. CASE Authenticate(g)
    BY <1>3, <2>1 DEF Requests
  <2>2. CASE FindRoom(g) \/ LoadPage(g)
    <3>1. UNCHANGED rowVars
      BY <2>2 DEF FindRoom, LoadPage, dbVars
    <3>2. \A h \in Readers : Reading(h)' => Reading(h)
      <4>1. \A h \in Readers \ {g} : pc'[h] = pc[h]
        BY <1>0, <2>2 DEF FindRoom, LoadPage, Goto, TypeOK, Requests
      <4>2. Reading(g)
        BY <2>2 DEF FindRoom, LoadPage, Goto, Reading
      <4> QED BY <4>1, <4>2 DEF Reading
    <3> QED BY <1>0, <3>1, <3>2 DEF WatchIsTight, rowVars
  <2>3. CASE Reply(g)
    <3>1. /\ rows' = rows
          /\ \A h \in Readers \ {g} : kept'[h] = kept[h] /\ seen'[h] = seen[h] /\ pc'[h] = pc[h]
          /\ ~Reading(g)'
      BY <1>0, <2>3 DEF Reply, Goto, TypeOK, Reading, Requests
    <3>2. ASSUME NEW h \in Readers, Reading(h)'
          PROVE  kept'[h] \subseteq rows' /\ rows' \subseteq seen'[h]
      BY <1>0, <3>1, <3>2 DEF WatchIsTight, Reading
    <3> QED BY <3>2 DEF WatchIsTight
  <2> QED BY <1>6, <2>1, <2>2, <2>3 DEF Read
<1>7. ASSUME NEW w \in Writers, Write(w) PROVE WatchIsTight'
  BY <1>1, <1>7 DEF Write, Stamp, DrawId, Commit, dbVars
<1>8. CASE Disturb
  <2>1. CASE DeleteMessages
    BY <1>1, <2>1, CascadeShrinks DEF DeleteMessages
  <2>2. CASE DeleteRoom
    <3>1. SetRows(rows') /\ UNCHANGED pc
      BY <2>2 DEF DeleteRoom, SetRows
    <3> QED BY <1>1, <3>1
  <2>3. ASSUME NEW u \in Users, DeleteUser(u) PROVE WatchIsTight'
    BY <1>1, <2>3, CascadeShrinks DEF DeleteUser
  <2>4. ASSUME NEW r \in Requests, Kill(r) PROVE WatchIsTight'
    <3>1. \A g \in Readers : pc'[g] = pc[g] \/ ~Reading(g)'
      BY <1>0, <2>4 DEF Kill, TypeOK, Reading
    <3> QED BY <1>1, <2>4, <3>1 DEF Kill, dbVars
  <2>5. ASSUME NEW r \in Requests, LoseAnswer(r) PROVE WatchIsTight'
    <3>1. PICK status \in {"500", "killed"} : Lost(r, status)
      BY <2>5, LoseAnswerDoes
    <3>2. SetRows(rows')
      BY <3>1 DEF Lost
    <3> QED BY <1>0, <1>1, <2>5, <3>2, LoseAnswerMoves
  <2> QED BY <1>8, <2>1, <2>2, <2>3, <2>4, <2>5 DEF Disturb
<1>9. CASE UNCHANGED vars
  BY <1>1, <1>9 DEF vars, rowVars
<1> QED BY <1>4, <1>5, <1>6, <1>7, <1>8, <1>9 DEF Next

(***************************************************************************)
(* Paging keeps up with the messages a client began with.                  *)
(***************************************************************************)
WalkOf(g) ==
  /\ g \in stale => start[g] \cap messages = {}
  /\ Ordered /\ PageSize(g) > 0 =>
       \A m \in start[g] \cap messages :
         /\ m.id >= cursor[g] => m.id \in shown[g]
         /\ pc[g] = "reactions" /\ m.id < cursor[g] =>
              m \in page[g] \/ (page[g] # {} /\ \A p \in page[g] : m.id < p.id)
         /\ pc[g] = "200" => m.id \in shown[g]

\* Steps that are not about the page of g, whatever they do to the messages.
LEMMA WalkQuiet ==
  ASSUME IInv, NEW g \in Readers,
         cursor'[g] = cursor[g], page'[g] = page[g], shown'[g] = shown[g], start'[g] = start[g],
         ever \subseteq ever',
         \A m \in start[g] \cap messages' : m \in messages,
         g \in stale' => g \in stale \/ messages' = {},
         pc'[g] \in {"reactions", "200"} => pc[g] = pc'[g]
  PROVE  WalkOf(g)'
<1>1. Ordered' => Ordered
  BY DEF Ordered
<1>2. WalkOf(g)
  BY DEF IInv, WalkKeepsUp, WalkOf
<1>3. PageSize(g)' = PageSize(g)
  BY DEF PageSize
<1>4. g \in stale' => start'[g] \cap messages' = {}
  BY <1>2 DEF WalkOf
<1>5. ASSUME Ordered', PageSize(g) > 0, NEW m \in start'[g] \cap messages'
      PROVE  /\ m.id >= cursor'[g] => m.id \in shown'[g]
             /\ pc'[g] = "reactions" /\ m.id < cursor'[g] =>
                  m \in page'[g] \/ (page'[g] # {} /\ \A p \in page'[g] : m.id < p.id)
             /\ pc'[g] = "200" => m.id \in shown'[g]
  BY <1>1, <1>2, <1>5 DEF WalkOf
<1> QED BY <1>3, <1>4, <1>5 DEF WalkOf

LEMMA WalkLoad ==
  ASSUME IInv, NEW g \in Readers, LoadPage(g) PROVE WalkOf(g)'
<1>0. /\ TypeOK /\ DataTypes /\ ReadTypes /\ IdsAreCounted /\ WalkOf(g)
  BY TypeParts DEF IInv, WalkKeepsUp, WalkOf
<1>1. UNCHANGED <<messages, ever, stale, cursor, shown>>
  BY DEF LoadPage, dbVars
<1>2. (PageSize(g)' = PageSize(g)) /\ (Ordered' <=> Ordered)
  BY <1>1 DEF PageSize, Ordered
<1>3. \A m \in messages : m.id \in Ids /\ m \in ever
  BY <1>0 DEF DataTypes, Message, IdsAreCounted
<1>4. CASE PageSize(g) < 0
  <2>0. PageSize(g) \in Int
    BY ChatDataAssumption DEF PageSize
  <2>1. pc'[g] = "500" /\ page'[g] = page[g] /\ start'[g] = start[g]
    BY <1>0, <1>4, <2>0 DEF LoadPage, Goto, TypeOK, Requests
  <2>2. cursor'[g] = cursor[g] /\ shown'[g] = shown[g] /\ ever \subseteq ever'
    BY <1>1
  <2>3. \A m \in start[g] \cap messages' : m \in messages
    BY <1>1
  <2>4. (g \in stale' => g \in stale) /\ ~(pc'[g] \in {"reactions", "200"})
    BY <1>1, <2>1
  <2> QED BY <2>1, <2>2, <2>3, <2>4, WalkQuiet
<1>5. CASE ~(PageSize(g) < 0)
  <2>1. PICK P \in Pages(Before(g), PageSize(g)) :
          /\ page' = [page EXCEPT ![g] = P]
          /\ start' = [start EXCEPT ![g] = IF cursor[g] = Top THEN InRoom(g) ELSE @]
          /\ Goto(g, "page", "reactions")
    BY <1>5 DEF LoadPage
  <2>2. /\ page'[g] = P /\ pc'[g] = "reactions"
        /\ start'[g] = IF cursor[g] = Top THEN InRoom(g) ELSE start[g]
    BY <1>0, <2>1 DEF ReadTypes, TypeOK, Goto, Requests
  <2>3. g \in stale => start'[g] \cap messages = {}
    BY <1>0, <2>2 DEF WalkOf, InRoom
  <2>4. ASSUME Ordered, PageSize(g) > 0, NEW m \in start'[g] \cap messages
        PROVE  /\ m.id >= cursor[g] => m.id \in shown[g]
               /\ m.id < cursor[g] => m \in P \/ (P # {} /\ \A p \in P : m.id < p.id)
    <3>1. m.id >= cursor[g] => m.id \in shown[g]
      <4>1. CASE cursor[g] = Top
        BY <1>3, <4>1, ChatDataAssumption DEF Ids, Top
      <4>2. CASE cursor[g] # Top
        BY <1>0, <2>2, <2>4, <4>2 DEF WalkOf
      <4> QED BY <4>1, <4>2
    <3>2. ASSUME m.id < cursor[g], m \notin P
          PROVE  P # {} /\ \A p \in P : m.id < p.id
      <4>1. m \in Before(g) /\ Before(g) \subseteq messages
        BY <2>3, <2>4, <3>2 DEF Before, InRoom
      <4>2. /\ P \subseteq Before(g)
            /\ Cardinality(P) = (IF PageSize(g) < Cardinality(Before(g))
                                 THEN PageSize(g) ELSE Cardinality(Before(g)))
            /\ \A p \in P : m.stamp <= p.stamp
        BY <3>2, <4>1 DEF Pages
      <4>3. P # {}
        <5>1. IsFiniteSet(Before(g))
          BY <1>0, <4>1, FS_Subset DEF DataTypes
        <5>2. Cardinality(Before(g)) \in Nat /\ Cardinality(Before(g)) # 0
          BY <4>1, <5>1, FS_CardinalityType, FS_EmptySet
        <5>3. Cardinality(P) # 0
          BY <2>4, <4>2, <5>2
        <5> QED BY <5>3, FS_EmptySet
      <4>4. ASSUME NEW p \in P PROVE m.id < p.id
        <5>1. /\ m.id \in Int /\ p.id \in Int /\ m.stamp \in Int /\ p.stamp \in Int
              /\ m \in ever /\ p \in ever
          BY <1>0, <1>3, <4>1, <4>2 DEF DataTypes, Message, Ids
        <5>2. m.id # p.id
          BY <1>0, <3>2, <5>1 DEF IdsAreCounted
        <5>3. ~(p.id < m.id)
          BY <2>4, <4>2, <5>1 DEF Ordered
        <5> QED BY <5>1, <5>2, <5>3
      <4> QED BY <4>3, <4>4
    <3> QED BY <3>1, <3>2
  <2> QED BY <1>1, <1>2, <2>2, <2>3, <2>4 DEF WalkOf
<1> QED BY <1>4, <1>5

LEMMA WalkReply ==
  ASSUME IInv, NEW g \in Readers, Reply(g) PROVE WalkOf(g)'
<1>0. TypeOK /\ DataTypes /\ ReadTypes /\ WalkOf(g)
  BY TypeParts DEF IInv, WalkKeepsUp, WalkOf
<1>1. UNCHANGED <<messages, ever, stale, page, start>> /\ pc[g] = "reactions"
  BY DEF Reply, Goto
<1>2. (PageSize(g)' = PageSize(g)) /\ (Ordered' <=> Ordered)
  BY <1>1 DEF PageSize, Ordered
<1>3. /\ shown'[g] = shown[g] \cup {m.id : m \in page[g]}
      /\ pc'[g] = IF page[g] = {} THEN "200" ELSE "auth"
  BY <1>0 DEF Reply, Goto, ReadTypes, TypeOK, Requests
<1>4. /\ cursor[g] \in Int
      /\ \A m \in messages : m.id \in Int
      /\ \A m \in page[g] : m.id \in Int
  BY <1>0, ChatDataAssumption DEF ReadTypes, DataTypes, Message, Ids, Top
<1>5. ASSUME Ordered, PageSize(g) > 0, NEW m \in start[g] \cap messages
      PROVE  /\ m.id >= cursor[g] => m.id \in shown[g]
             /\ m.id < cursor[g] =>
                  m \in page[g] \/ (page[g] # {} /\ \A p \in page[g] : m.id < p.id)
  BY <1>0, <1>1, <1>5 DEF WalkOf
<1>6. ASSUME Ordered, PageSize(g) > 0, NEW m \in start[g] \cap messages
      PROVE  /\ m.id >= cursor'[g] => m.id \in shown'[g]
             /\ pc'[g] # "reactions"
             /\ pc'[g] = "200" => m.id \in shown'[g]
  <2>1. CASE page[g] = {}
    <3>1. cursor'[g] = cursor[g]
      BY <2>1 DEF Reply
    <3> QED BY <1>3, <1>4, <1>5, <1>6, <2>1, <3>1
  <2>2. CASE page[g] # {}
    <3>1. PICK first \in page[g] : cursor' = [cursor EXCEPT ![g] = first.id]
      BY <2>2 DEF Reply
    <3>2. cursor'[g] = first.id
      BY <1>0, <3>1 DEF ReadTypes
    <3>3. m.id >= first.id => m.id \in shown'[g]
      BY <1>3, <1>4, <1>5, <1>6
    <3> QED BY <1>3, <2>2, <3>2, <3>3
  <2> QED BY <2>1, <2>2
<1>7. g \in stale' => start'[g] \cap messages' = {}
  BY <1>0, <1>1 DEF WalkOf
<1> QED BY <1>1, <1>2, <1>6, <1>7 DEF WalkOf

LEMMA WalkKeepsUpStep == IInv /\ [Next]_vars => WalkKeepsUp'
<1> SUFFICES ASSUME IInv, [Next]_vars, NEW g \in Readers PROVE WalkOf(g)'
  BY DEF WalkKeepsUp, WalkOf
<1>0. TypeOK /\ ReadTypes /\ IdsAreCounted
  BY TypeParts DEF IInv
<1>1. ASSUME UNCHANGED <<readVars, ever>>, messages' \subseteq messages,
             g \in stale' => g \in stale \/ messages' = {},
             pc'[g] \in {"reactions", "200"} => pc[g] = pc'[g]
      PROVE  WalkOf(g)'
  BY <1>1, WalkQuiet DEF readVars
<1>2. ASSUME NEW r \in Requests, NEW from, NEW to, Goto(r, from, to)
      PROVE  r # g => pc'[g] = pc[g]
  BY <1>0, <1>2 DEF TypeOK, Goto, Requests
<1>3. ASSUME NEW r \in Posts, Add(r) PROVE WalkOf(g)'
  <2>1. UNCHANGED <<readVars, ever, messages, stale>>
    BY <1>3 DEF Add, Authenticate, FindTarget, Get, Insert, GetAgain, dbVars
  <2>2. pc'[g] = pc[g]
    BY <1>2, <1>3, RequestsAssumption
    DEF Add, Authenticate, FindTarget, Get, Insert, GetAgain, Requests
  <2> QED BY <1>1, <2>1, <2>2
<1>4. ASSUME NEW r \in Deletes, Remove(r) PROVE WalkOf(g)'
  <2>1. UNCHANGED <<readVars, ever, messages, stale>>
    BY <1>4 DEF Remove, Authenticate, RemoveReaction
  <2>2. pc'[g] = pc[g]
    BY <1>2, <1>4, RequestsAssumption DEF Remove, Authenticate, RemoveReaction, Requests
  <2> QED BY <1>1, <2>1, <2>2
<1>5. ASSUME NEW h \in Readers, Authenticate(h) \/ FindRoom(h) PROVE WalkOf(g)'
  <2>1. UNCHANGED <<readVars, ever, messages>> /\ stale' \subseteq stale
    BY <1>5 DEF Authenticate, FindRoom, dbVars
  <2>2. pc'[g] \in {"reactions", "200"} => pc'[g] = pc[g]
    <3>1. CASE h # g
      BY <1>2, <1>5, <3>1 DEF Authenticate, FindRoom, Requests
    <3>2. CASE h = g
      <4>1. pc'[g] \in {"401", "room", "404", "page"}
        BY <1>0, <1>5, <3>2, RequestsAssumption
        DEF Authenticate, FindRoom, AfterAuth, Goto, TypeOK, Requests
      <4> QED BY <4>1
    <3> QED BY <3>1, <3>2
  <2> QED BY <1>1, <2>1, <2>2
<1>6. ASSUME NEW h \in Readers, LoadPage(h) PROVE WalkOf(g)'
  <2>1. CASE h = g
    BY <1>6, <2>1, WalkLoad
  <2>2. CASE h # g
    <3>1. /\ cursor'[g] = cursor[g] /\ page'[g] = page[g] /\ shown'[g] = shown[g]
          /\ start'[g] = start[g] /\ UNCHANGED <<ever, messages, stale>>
      BY <1>0, <1>6, <2>2 DEF LoadPage, ReadTypes, dbVars
    <3>2. pc'[g] = pc[g]
      BY <1>2, <1>6, <2>2 DEF LoadPage, Requests
    <3> QED BY <3>1, <3>2, WalkQuiet
  <2> QED BY <2>1, <2>2
<1>7. ASSUME NEW h \in Readers, Reply(h) PROVE WalkOf(g)'
  <2>1. CASE h = g
    BY <1>7, <2>1, WalkReply
  <2>2. CASE h # g
    <3>1. /\ cursor'[g] = cursor[g] /\ page'[g] = page[g] /\ shown'[g] = shown[g]
          /\ start'[g] = start[g] /\ UNCHANGED <<ever, messages, stale>>
      BY <1>0, <1>7, <2>2 DEF Reply, ReadTypes
    <3>2. pc'[g] = pc[g]
      BY <1>2, <1>7, <2>2 DEF Reply, Requests
    <3> QED BY <3>1, <3>2, WalkQuiet
  <2> QED BY <2>1, <2>2
<1>8. ASSUME NEW w \in Writers, Stamp(w) \/ DrawId(w) PROVE WalkOf(g)'
  BY <1>1, <1>8 DEF Stamp, DrawId, dbVars
<1>9. ASSUME NEW w \in Writers, Commit(w) PROVE WalkOf(g)'
  <2> DEFINE m == [id |-> draft[w].id, stamp |-> draft[w].stamp, sender |-> SenderOf[w]]
  <2>1. UNCHANGED <<readVars, pc, stale>> /\ ever \subseteq ever' /\ messages' \subseteq messages \cup {m}
    BY <1>9 DEF Commit
  <2>2. m \notin ever
    BY <1>0, <1>9 DEF Commit, IdsAreCounted
  <2>3. \A x \in start[g] \cap messages' : x \in messages
    BY <1>0, <2>1, <2>2 DEF IdsAreCounted
  <2>4. cursor'[g] = cursor[g] /\ page'[g] = page[g] /\ shown'[g] = shown[g] /\ start'[g] = start[g]
    BY <2>1 DEF readVars
  <2> QED BY <2>1, <2>3, <2>4, WalkQuiet
<1>10. CASE Disturb
  <2>1. CASE DeleteMessages
    BY <1>1, <2>1, CascadeShrinks DEF DeleteMessages
  <2>2. CASE DeleteRoom
    BY <1>1, <2>2 DEF DeleteRoom
  <2>3. ASSUME NEW u \in Users, DeleteUser(u) PROVE WalkOf(g)'
    BY <1>1, <2>3, CascadeShrinks DEF DeleteUser
  <2>4. ASSUME NEW r \in Requests, Kill(r) PROVE WalkOf(g)'
    <3>1. pc'[g] = pc[g] \/ pc'[g] = "killed"
      BY <1>0, <2>4 DEF Kill, TypeOK, Requests
    <3> QED BY <1>1, <2>4, <3>1 DEF Kill, dbVars
  <2>5. ASSUME NEW r \in Requests, LoseAnswer(r) PROVE WalkOf(g)'
    <3>1. pc'[g] = pc[g]
      BY <1>0, <2>5, LoseAnswerMoves
    <3> QED BY <1>1, <2>5, <3>1 DEF LoseAnswer
  <2> QED BY <1>10, <2>1, <2>2, <2>3, <2>4, <2>5 DEF Disturb
<1>11. CASE UNCHANGED vars
  BY <1>1, <1>11 DEF vars, readVars
<1> QED BY <1>3, <1>4, <1>5, <1>6, <1>7, <1>8, <1>9, <1>10, <1>11 DEF Next, Read, Write

LEMMA InitIInv == Init => IInv
<1> SUFFICES ASSUME Init PROVE IInv
  OBVIOUS
<1>1. TypeOK
  <2>1. IsFiniteSet(rows) /\ IsFiniteSet({})
    <3>1. IsFiniteSet({}) /\ IsFiniteSet({Room})
      BY FS_EmptySet, FS_Singleton
    <3>2. rows = {} \/ rows = {Room}
      BY DEF Init
    <3> QED BY <3>1, <3>2
  <2>2. Top \in Ids \cup {Top} /\ 0 \in Ids \cup {0}
    OBVIOUS
  <2> QED BY <2>1, <2>2 DEF Init, TypeOK, Keys, NoDraft
<1>2. NothingDangles
  BY DEF Init, NothingDangles, RefsResolve
<1>3. IdsAreCounted /\ RoomIsHeld
  BY DEF Init, IdsAreCounted, RoomIsHeld, NoDraft
<1>4. WatchIsTight
  BY DEF Init, WatchIsTight, Reading, Requests
<1>5. WalkKeepsUp
  BY DEF Init, WalkKeepsUp
<1> QED BY <1>1, <1>2, <1>3, <1>4, <1>5 DEF IInv

LEMMA NextIInv == IInv /\ [Next]_vars => IInv'
BY TypeStep, NothingDanglesStep, IdsAreCountedStep, RoomIsHeldStep, WatchIsTightStep,
   WalkKeepsUpStep
   DEF IInv

(***************************************************************************)
(* The theorems.                                                           *)
(***************************************************************************)
\* The invariant the rest follows from.
THEOREM RestInvariance == Spec => []IInv
BY InitIInv, NextIInv, PTL DEF Spec

\* Whatever is deleted while requests run, no reaction outlives its message or
\* its author and no message its room or its sender: get_or_create and the
\* consumer's INSERT are stopped by the foreign keys.
THEOREM NoDangling == Spec => []NothingDangles
<1>1. IInv => NothingDangles
  BY DEF IInv
<1> QED BY <1>1, RestInvariance, PTL

\* Paging with ?before= shows every message that was there at the first page
\* and is not deleted, if ids and times agree.
THEOREM CompletePages == Spec => []PagesAreComplete
<1>1. IInv => PagesAreComplete
  BY DEF IInv, WalkKeepsUp, PagesAreComplete
<1> QED BY <1>1, RestInvariance, PTL

(***************************************************************************)
(* The reactions shown.                                                    *)
(***************************************************************************)
Of(S, id, e) == {k \in S \ {Room} : k.message = id /\ k.emoji = e}

LEMMA AggregatesAreCounts ==
  ASSUME NEW m, NEW viewer
  PROVE  Aggregates(m, viewer) =
           {[message |-> m.id, emoji |-> e, count |-> Cardinality(Of(rows, m.id, e)),
             me |-> \E k \in Of(rows, m.id, e) : k.user = viewer] :
              e \in {k.emoji : k \in {j \in rows \ {Room} : j.message = m.id}}}
<1> DEFINE on == {k \in rows \ {Room} : k.message = m.id}
           of(e) == {k \in on : k.emoji = e}
<1>1. \A e : of(e) = Of(rows, m.id, e)
  BY DEF Of
<1>2. Aggregates(m, viewer) =
        {[message |-> m.id, emoji |-> e, count |-> Cardinality(of(e)),
          me |-> \E k \in of(e) : k.user = viewer] : e \in {k.emoji : k \in on}}
  BY DEF Aggregates
<1> HIDE DEF of
<1> QED BY <1>1, <1>2

LEMMA ReplyIsTimely ==
  ASSUME IInv, NEW g \in Readers, Reply(g) PROVE Timely(g, reply'[g])
<1>0. RowTypes /\ ReadTypes /\ WatchIsTight
  BY TypeParts DEF IInv
<1> DEFINE R == UNION {Aggregates(m, UserOf[g]) : m \in page[g]}
           Mine(S, id, e) == \E k \in Of(S, id, e) : k.user = UserOf[g]
           Line(id, e) == [message |-> id, emoji |-> e, count |-> Cardinality(Of(rows, id, e)),
                           me |-> Mine(rows, id, e)]
<1>1. reply'[g] = R
  BY <1>0 DEF Reply, ReadTypes
<1>2. kept[g] \subseteq rows /\ rows \subseteq seen[g]
  BY <1>0 DEF Reply, Goto, Reading, WatchIsTight
<1>3. \A id, e : /\ Of(kept[g], id, e) \subseteq Of(rows, id, e)
                 /\ Of(rows, id, e) \subseteq Of(seen[g], id, e)
  BY <1>2 DEF Of
<1>4. \A id, e : IsFiniteSet(Of(seen[g], id, e)) /\ IsFiniteSet(Of(rows, id, e))
  BY <1>0, FS_Subset DEF RowTypes, Of
<1>5. \A id, e : /\ Cardinality(Of(rows, id, e)) \in Nat
                 /\ Cardinality(Of(kept[g], id, e)) <= Cardinality(Of(rows, id, e))
                 /\ Cardinality(Of(rows, id, e)) <= Cardinality(Of(seen[g], id, e))
                 /\ Of(rows, id, e) # {} => Cardinality(Of(rows, id, e)) > 0
  BY <1>3, <1>4, FS_Subset, FS_CardinalityType, FS_EmptySet
<1> DEFINE A(m) == Aggregates(m, UserOf[g])
           Shows(m, a) == \E e : Of(rows, m.id, e) # {} /\ a = Line(m.id, e)
<1>6. \A a : a \in R <=> \E m \in page[g] : Shows(m, a)
  <2>1. ASSUME NEW m \in page[g]
        PROVE  \A a : a \in A(m) <=> Shows(m, a)
    <3>1. \A e : e \in {k.emoji : k \in {j \in rows \ {Room} : j.message = m.id}} <=>
                 Of(rows, m.id, e) # {}
      BY DEF Of
    <3>2. A(m) =
            {Line(m.id, e) : e \in {k.emoji : k \in {j \in rows \ {Room} : j.message = m.id}}}
      BY AggregatesAreCounts
    <3> HIDE DEF Line, A
    <3> QED BY <3>1, <3>2
  <2>2. R = UNION {A(m) : m \in page[g]}
    OBVIOUS
  <2> HIDE DEF Line, R, A, Shows
  <2>3. \A a : a \in R <=> \E m \in page[g] : a \in A(m)
    BY <2>2
  <2> QED BY <2>1, <2>3
<1> HIDE DEF R
<1>7. ASSUME NEW m \in page[g], NEW e \in Emojis, Of(kept[g], m.id, e) # {}
      PROVE  \E a \in R :
               /\ a.message = m.id /\ a.emoji = e
               /\ a.count >= Cardinality(Of(kept[g], m.id, e))
               /\ Mine(kept[g], m.id, e) => a.me
  <2>1. Line(m.id, e) \in R
    <3>1. Of(rows, m.id, e) # {}
      BY <1>3, <1>7
    <3> QED BY <1>6, <3>1
  <2>2. Mine(kept[g], m.id, e) => Mine(rows, m.id, e)
    BY <1>3
  <2>3. /\ Line(m.id, e).message = m.id /\ Line(m.id, e).emoji = e
        /\ Line(m.id, e).count = Cardinality(Of(rows, m.id, e))
        /\ Line(m.id, e).me = Mine(rows, m.id, e)
    OBVIOUS
  <2>4. Line(m.id, e).count >= Cardinality(Of(kept[g], m.id, e))
    <3>1. Cardinality(Of(rows, m.id, e)) >= Cardinality(Of(kept[g], m.id, e))
      BY <1>3, <1>4, <1>5, FS_Subset, FS_CardinalityType
    <3> QED BY <2>3, <3>1
  <2> HIDE DEF Line, Mine
  <2> QED BY <2>1, <2>2, <2>3, <2>4
<1>8. ASSUME NEW a \in R
      PROVE  /\ 0 < a.count
             /\ a.count <= Cardinality(Of(seen[g], a.message, a.emoji))
             /\ a.me => Mine(seen[g], a.message, a.emoji)
             /\ \A b \in R : a.message = b.message /\ a.emoji = b.emoji => a = b
  <2>1. \A b \in R : Of(rows, b.message, b.emoji) # {} /\ b = Line(b.message, b.emoji)
    BY <1>6
  <2>2. /\ a.count = Cardinality(Of(rows, a.message, a.emoji))
        /\ a.me = Mine(rows, a.message, a.emoji)
    <3>1. /\ Line(a.message, a.emoji).count = Cardinality(Of(rows, a.message, a.emoji))
          /\ Line(a.message, a.emoji).me = Mine(rows, a.message, a.emoji)
      OBVIOUS
    <3>2. a = Line(a.message, a.emoji)
      BY <2>1
    <3> HIDE DEF Line, Mine
    <3> QED BY <3>1, <3>2
  <2>3. Mine(rows, a.message, a.emoji) => Mine(seen[g], a.message, a.emoji)
    BY <1>3
  <2>4. 0 < a.count /\ a.count <= Cardinality(Of(seen[g], a.message, a.emoji))
    BY <1>5, <2>1, <2>2
  <2> HIDE DEF Line, Mine
  <2> QED BY <2>1, <2>2, <2>3, <2>4
<1> QED BY <1>1, <1>7, <1>8 DEF Timely, Of

LEMMA TimelyStep ==
  IInv /\ [Next]_vars =>
    \A g \in Readers :
      pc[g] = "reactions" /\ pc'[g] \in {"auth", "200"} => Timely(g, reply'[g])
<1> SUFFICES ASSUME IInv, [Next]_vars, NEW g \in Readers,
                    pc[g] = "reactions", pc'[g] \in {"auth", "200"}
             PROVE  Reply(g)
  BY ReplyIsTimely
<1>0. TypeOK
  BY DEF IInv
<1>1. ASSUME NEW r \in Requests, NEW from, NEW to, Goto(r, from, to), from # "reactions"
      PROVE  pc'[g] = pc[g]
  BY <1>0, <1>1 DEF TypeOK, Goto, Requests
<1>2. ASSUME NEW r \in Posts, Add(r) PROVE pc'[g] = pc[g]
  BY <1>1, <1>2 DEF Add, Authenticate, FindTarget, Get, Insert, GetAgain, Requests
<1>3. ASSUME NEW r \in Deletes, Remove(r) PROVE pc'[g] = pc[g]
  BY <1>1, <1>3 DEF Remove, Authenticate, RemoveReaction, Requests
<1>4. ASSUME NEW h \in Readers, Authenticate(h) \/ FindRoom(h) \/ LoadPage(h)
      PROVE  pc'[g] = pc[g]
  BY <1>1, <1>4 DEF Authenticate, FindRoom, LoadPage, Requests
<1>5. ASSUME NEW h \in Readers, Reply(h), h # g PROVE pc'[g] = pc[g]
  BY <1>0, <1>5 DEF Reply, Goto, TypeOK, Requests
<1>6. ASSUME NEW r \in Requests, Kill(r) PROVE pc'[g] = pc[g] \/ pc'[g] = "killed"
  BY <1>0, <1>6 DEF Kill, TypeOK, Requests
<1>9. ASSUME NEW r \in Requests, LoseAnswer(r) PROVE pc'[g] = pc[g]
  BY <1>0, <1>9, LoseAnswerMoves
<1>7. ASSUME NEW w \in Writers, Write(w) PROVE pc'[g] = pc[g]
  BY <1>7 DEF Write, Stamp, DrawId, Commit
<1>8. CASE Disturb
  BY <1>6, <1>8, <1>9 DEF Disturb, DeleteMessages, DeleteRoom, DeleteUser
<1> QED BY <1>2, <1>3, <1>4, <1>5, <1>7, <1>8 DEF Next, Read, vars

\* The counts and the "me" flags of a page are true of the time in which it was
\* made, although its messages and its reactions are read by two queries.
THEOREM TimelyPages == Spec => PagesAreTimely
<1>1. IInv /\ [Next]_vars =>
        [\A g \in Readers :
           pc[g] = "reactions" /\ pc'[g] \in {"auth", "200"} => Timely(g, reply'[g])]_vars
  BY TimelyStep
<1> QED BY <1>1, RestInvariance, PTL DEF Spec, PagesAreTimely

-----------------------------------------------------------------------------
(***************************************************************************)
(* The views implement the atomic set.                                     *)
(***************************************************************************)
Callers == Posts \cup Deletes

LEMMA AnswersMove ==
  ASSUME TypeOK, NEW r \in Callers, NEW to \in Points,
         pc[r] \notin Ended, pc' = [pc EXCEPT ![r] = to]
  PROVE  /\ to \in Ended => Api!Answer(r, to)
         /\ to \notin Ended => Answers' = Answers
<1>1. Answers[r] = "none"
  BY DEF Answers, Callers
<1>2. pc'[r] = to /\ \A q \in Callers : q # r => pc'[q] = pc[q]
  BY DEF TypeOK, Requests, Callers
<1>3. to \in Ended => Answers' = [Answers EXCEPT ![r] = to]
  BY <1>2 DEF Answers, Callers
<1>4. to \notin Ended => Answers' = Answers
  BY <1>2 DEF Answers, Callers
<1> QED BY <1>1, <1>3, <1>4 DEF Api!Answer

LEMMA AnswersStay ==
  ASSUME \A r \in Callers : pc'[r] = pc[r]
  PROVE  Answers' = Answers
BY DEF Answers, Callers

Refined == [Api!Next]_(Api!vars)

LEMMA AddRefines ==
  ASSUME TypeOK, NEW r \in Posts, Add(r) PROVE Refined
<1>0. r \in Callers
  BY DEF Callers
<1>1. \A from, to : from \notin Ended /\ to \in Points /\ Goto(r, from, to) =>
        /\ to \in Ended => Api!Answer(r, to)
        /\ to \notin Ended => Answers' = Answers
  BY <1>0, AnswersMove DEF Goto
<1>2. \A x \in Ended : x \in Points
  BY DEF Points
<1>3. ASSUME UNCHANGED rows, Answers' = Answers PROVE Refined
  BY <1>3 DEF Refined, Api!vars
<1>4. ASSUME UNCHANGED rows, NEW status \in {"400", "401", "404", "500"}, Api!Answer(r, status)
      PROVE  Refined
  BY <1>4 DEF Refined, Api!Next, Api!Refuse
<1>5. ASSUME UNCHANGED rows, KeyOf[r] \in rows, Api!Answer(r, "200") PROVE Refined
  BY <1>5 DEF Refined, Api!Next, Api!Confirm
<1>6. CASE Authenticate(r)
  <2>1. UNCHANGED rows /\ (Goto(r, "auth", "target") \/ Goto(r, "auth", "401"))
    BY <1>6 DEF Authenticate, AfterAuth
  <2>2. Answers' = Answers \/ Api!Answer(r, "401")
    BY <1>1, <1>2, <2>1 DEF Points, Ended
  <2> QED BY <1>3, <1>4, <2>1, <2>2
<1>7. CASE FindTarget(r)
  <2>1. UNCHANGED rows /\ \E to \in {"404", "get", "400"} : Goto(r, "target", to)
    BY <1>7 DEF FindTarget, dbVars, rowVars
  <2>2. Answers' = Answers \/ Api!Answer(r, "404") \/ Api!Answer(r, "400")
    BY <1>1, <1>2, <2>1 DEF Points, Ended
  <2> QED BY <1>3, <1>4, <2>1, <2>2
<1>8. CASE Get(r)
  <2>1. UNCHANGED rows
    BY <1>8 DEF Get, dbVars, rowVars
  <2>2. \/ KeyOf[r] \in rows /\ Goto(r, "get", "200")
        \/ Goto(r, "get", "insert")
    BY <1>8 DEF Get
  <2>3. \/ KeyOf[r] \in rows /\ Api!Answer(r, "200")
        \/ Answers' = Answers
    BY <1>1, <1>2, <2>2 DEF Points, Ended
  <2> QED BY <1>3, <1>5, <2>1, <2>3
<1>9. CASE Insert(r)
  <2>1. \/ KeyOf[r] \notin rows /\ rows' = rows \cup {KeyOf[r]} /\ Goto(r, "insert", "201")
        \/ UNCHANGED rows /\ Goto(r, "insert", "again")
    BY <1>9 DEF Insert, SetRows, rowVars
  <2>2. \/ KeyOf[r] \notin rows /\ rows' = rows \cup {KeyOf[r]} /\ Api!Answer(r, "201")
        \/ UNCHANGED rows /\ Answers' = Answers
    BY <1>1, <1>2, <2>1 DEF Points, Ended
  <2>3. CASE KeyOf[r] \notin rows /\ rows' = rows \cup {KeyOf[r]} /\ Api!Answer(r, "201")
    BY <2>3 DEF Refined, Api!Next, Api!Add
  <2> QED BY <1>3, <2>2, <2>3
<1>10. CASE GetAgain(r)
  <2>1. UNCHANGED rows
    BY <1>10 DEF GetAgain, dbVars, rowVars
  <2>2. \/ KeyOf[r] \in rows /\ Goto(r, "again", "200")
        \/ Goto(r, "again", "500")
    BY <1>10 DEF GetAgain
  <2>3. \/ KeyOf[r] \in rows /\ Api!Answer(r, "200")
        \/ Api!Answer(r, "500")
    BY <1>1, <1>2, <2>2 DEF Points, Ended
  <2> QED BY <1>4, <1>5, <2>1, <2>3
<1> QED BY <1>6, <1>7, <1>8, <1>9, <1>10 DEF Add

LEMMA RemoveRefines ==
  ASSUME TypeOK, NEW r \in Deletes, Remove(r) PROVE Refined
<1>0. r \in Callers /\ r \notin Posts
  BY RequestsAssumption DEF Callers
<1>1. \A from, to : from \notin Ended /\ to \in Points /\ Goto(r, from, to) =>
        /\ to \in Ended => Api!Answer(r, to)
        /\ to \notin Ended => Answers' = Answers
  BY <1>0, AnswersMove DEF Goto
<1>2. CASE Authenticate(r)
  <2>1. UNCHANGED rows /\ (Goto(r, "auth", "remove") \/ Goto(r, "auth", "401"))
    BY <1>0, <1>2 DEF Authenticate, AfterAuth
  <2>2. Answers' = Answers \/ Api!Answer(r, "401")
    BY <1>1, <2>1 DEF Points, Ended
  <2>3. CASE Answers' = Answers
    BY <2>1, <2>3 DEF Refined, Api!vars
  <2>4. CASE Api!Answer(r, "401")
    BY <2>1, <2>4 DEF Refined, Api!Next, Api!Refuse
  <2> QED BY <2>2, <2>3, <2>4
<1>3. CASE RemoveReaction(r)
  <2>1. rows' = rows \ {KeyOf[r]} /\ Goto(r, "remove", "204")
    BY <1>3 DEF RemoveReaction, SetRows
  <2>2. Api!Answer(r, "204")
    BY <1>1, <2>1 DEF Points, Ended
  <2> QED BY <2>1, <2>2 DEF Refined, Api!Next, Api!Remove
<1> QED BY <1>2, <1>3 DEF Remove

LEMMA DisturbRefines ==
  ASSUME TypeOK, Disturb PROVE Refined
<1>1. ASSUME rows' \subseteq rows, UNCHANGED pc PROVE Refined
  <2>1. Answers' = Answers
    BY <1>1, AnswersStay
  <2>2. rows' = rows \ (rows \ rows')
    BY <1>1
  <2> QED BY <2>1, <2>2 DEF Refined, Api!Next, Api!Cascade
<1>2. ASSUME NEW r \in Requests, Kill(r) PROVE Refined
  <2>1. /\ UNCHANGED rows /\ pc[r] \notin Ended
        /\ pc' = [pc EXCEPT ![r] = "killed"]
    BY <1>2 DEF Kill, dbVars, rowVars
  <2>2. CASE r \in Callers
    <3>1. Api!Answer(r, "killed")
      BY <2>1, <2>2, AnswersMove DEF Points, Ended
    <3> QED BY <2>1, <2>2, <3>1 DEF Refined, Api!Next, Api!Refuse, Callers
  <2>3. CASE r \notin Callers
    <3>1. Answers' = Answers
      BY <2>1, <2>3, AnswersStay DEF TypeOK, Requests, Callers
    <3> QED BY <2>1, <3>1 DEF Refined, Api!vars
  <2> QED BY <2>2, <2>3
<1>3. CASE DeleteMessages
  BY <1>1, <1>3, CascadeShrinks DEF DeleteMessages
<1>4. CASE DeleteRoom
  BY <1>1, <1>4 DEF DeleteRoom, SetRows
<1>5. ASSUME NEW u \in Users, DeleteUser(u) PROVE Refined
  BY <1>1, <1>5, CascadeShrinks DEF DeleteUser
<1>6. ASSUME NEW r \in Requests, LoseAnswer(r) PROVE Refined
  <2>1. PICK status \in {"500", "killed"} : Lost(r, status)
    BY <1>6, LoseAnswerDoes
  <2>2. /\ r \in Callers
        /\ pc[r] \notin Ended
        /\ pc' = [pc EXCEPT ![r] = status]
        /\ status \in Ended
    BY <2>1 DEF Lost, Callers, Ended
  <2>3. Api!Answer(r, status)
    BY <2>2, AnswersMove DEF Points
  <2>4. rows' = IF r \in Posts THEN rows \cup {KeyOf[r]} ELSE rows \ {KeyOf[r]}
    BY <2>1, RequestsAssumption DEF Lost
  <2>5. Api!Lose(r)
    BY <2>3, <2>4 DEF Api!Lose
  <2> QED BY <2>2, <2>5 DEF Refined, Api!Next, Callers
<1> QED BY <1>2, <1>3, <1>4, <1>5, <1>6 DEF Disturb

LEMMA StepRefines == IInv /\ [Next]_vars => Refined
<1> SUFFICES ASSUME IInv, [Next]_vars PROVE Refined
  OBVIOUS
<1>0. TypeOK
  BY DEF IInv
<1>1. ASSUME UNCHANGED rows, \A r \in Callers : pc'[r] = pc[r] PROVE Refined
  BY <1>1, AnswersStay DEF Refined, Api!vars
<1>2. ASSUME NEW g \in Readers, Read(g) PROVE Refined
  <2>1. \A from, to : Goto(g, from, to) => \A r \in Callers : pc'[r] = pc[r]
    BY <1>0, RequestsAssumption DEF Goto, TypeOK, Requests, Callers
  <2>2. CASE Authenticate(g) \/ FindRoom(g)
    BY <1>1, <2>1, <2>2 DEF Authenticate, FindRoom, dbVars, rowVars
  <2>3. CASE LoadPage(g) \/ Reply(g)
    BY <1>1, <2>1, <2>3 DEF LoadPage, Reply, dbVars, rowVars
  <2> QED BY <1>2, <2>2, <2>3 DEF Read
<1>3. ASSUME NEW w \in Writers, Write(w) PROVE Refined
  BY <1>1, <1>3 DEF Write, Stamp, DrawId, Commit, dbVars, rowVars
<1>4. CASE UNCHANGED vars
  BY <1>1, <1>4 DEF vars
<1> QED
  BY <1>0, <1>2, <1>3, <1>4, AddRefines, RemoveRefines, DisturbRefines DEF Next

\* To its callers the room and reaction API is a set with atomic operations:
\* 201 is told to the one request that made the row, 200 when it was there,
\* a request that is refused has changed nothing, and one that fails or dies has
\* applied its operation once or not at all.
THEOREM ApiRefinement == Spec => ApiSpec
<1>1. Init => Api!Init
  BY RequestsAssumption DEF Init, Api!Init, Answers, Requests, Ended
<1>2. IInv /\ [Next]_vars => [Api!Next]_(Api!vars)
  BY StepRefines DEF Refined
<1> QED BY <1>1, <1>2, RestInvariance, PTL DEF Spec, ApiSpec, Api!Spec

-----------------------------------------------------------------------------
(***************************************************************************)
(* Progress, as long as a request that is not answered has a next query.   *)
(***************************************************************************)
\* How far a request is from its answer.
Stage(r) ==
  IF pc[r] = "auth" THEN 5 ELSE IF pc[r] \in {"target", "room"} THEN 4
  ELSE IF pc[r] \in {"get", "page"} THEN 3
  ELSE IF pc[r] \in {"insert", "reactions", "remove"} THEN 2
  ELSE IF pc[r] = "again" THEN 1 ELSE 0

\* What is left of a request: of a client's, the pages before its cursor.
Left(r) == (IF r \in Readers THEN 5 * cursor[r] ELSE 0) + Stage(r)

\* A page lies before the cursor it was asked for with.
PageIsBefore ==
  \A g \in Readers : pc[g] = "reactions" => \A m \in page[g] : m.id < cursor[g]

\* Who moves a request.
LEMMA OnlyReadersPage ==
  ASSUME TypeOK, [Next]_vars, NEW r \in Requests
  PROVE  \/ Serve(r)
         \/ pc'[r] \in {"500", "killed"}
         \/ /\ pc'[r] = pc[r]
            /\ r \in Readers => cursor'[r] = cursor[r] /\ page'[r] = page[r]
<1> USE RequestsAssumption DEF TypeOK, Requests, Goto, readVars
<1>1. ASSUME NEW q \in Posts, q # r, Add(q)
      PROVE  pc'[r] = pc[r] /\ (r \in Readers => cursor'[r] = cursor[r] /\ page'[r] = page[r])
  BY <1>1 DEF Add, Authenticate, FindTarget, Get, Insert, GetAgain
<1>2. ASSUME NEW q \in Deletes, q # r, Remove(q)
      PROVE  pc'[r] = pc[r] /\ (r \in Readers => cursor'[r] = cursor[r] /\ page'[r] = page[r])
  BY <1>2 DEF Remove, Authenticate, RemoveReaction
<1>3. ASSUME NEW q \in Readers, q # r, Read(q)
      PROVE  pc'[r] = pc[r] /\ (r \in Readers => cursor'[r] = cursor[r] /\ page'[r] = page[r])
  BY <1>3 DEF Read, Authenticate, FindRoom, LoadPage, Reply
<1>4. ASSUME NEW w \in Writers, Write(w)
      PROVE  pc'[r] = pc[r] /\ (r \in Readers => cursor'[r] = cursor[r] /\ page'[r] = page[r])
  BY <1>4 DEF Write, Stamp, DrawId, Commit
<1>5. ASSUME NEW q \in Requests, Kill(q)
      PROVE  \/ pc'[r] \in {"500", "killed"}
             \/ pc'[r] = pc[r] /\ (r \in Readers => cursor'[r] = cursor[r] /\ page'[r] = page[r])
  BY <1>5 DEF Kill
<1>9. ASSUME NEW q \in Requests, LoseAnswer(q)
      PROVE  \/ pc'[r] \in {"500", "killed"}
             \/ pc'[r] = pc[r] /\ (r \in Readers => cursor'[r] = cursor[r] /\ page'[r] = page[r])
  <2>1. pc'[r] = pc[r] \/ pc'[r] \in {"500", "killed"}
    BY <1>9, LoseAnswerMoves
  <2>2. cursor' = cursor /\ page' = page
    BY <1>9 DEF LoseAnswer
  <2> QED BY <2>1, <2>2
<1>6. ASSUME DeleteMessages \/ DeleteRoom \/ \E u \in Users : DeleteUser(u)
      PROVE  pc'[r] = pc[r] /\ (r \in Readers => cursor'[r] = cursor[r] /\ page'[r] = page[r])
  BY <1>6 DEF DeleteMessages, DeleteRoom, DeleteUser
<1>7. UNCHANGED vars => pc'[r] = pc[r] /\ cursor' = cursor /\ page' = page
  BY DEF vars
<1>8. /\ r \in Posts /\ Add(r) => Serve(r)
      /\ r \in Deletes /\ Remove(r) => Serve(r)
      /\ r \in Readers /\ Read(r) => Serve(r)
  BY DEF Serve
<1> QED BY <1>1, <1>2, <1>3, <1>4, <1>5, <1>6, <1>7, <1>8, <1>9 DEF Next, Disturb

LEMMA PageIsBeforeStep == TypeOK /\ PageIsBefore /\ [Next]_vars => PageIsBefore'
<1> SUFFICES ASSUME TypeOK, PageIsBefore, [Next]_vars, NEW g \in Readers,
                    pc'[g] = "reactions", NEW m \in page'[g]
             PROVE  m.id < cursor'[g]
  BY DEF PageIsBefore
<1>1. g \in Requests /\ g \notin Posts /\ g \notin Deletes
  BY RequestsAssumption DEF Requests
<1>2. CASE Serve(g)
  <2>1. Read(g)
    BY <1>1, <1>2 DEF Serve
  <2>2. LoadPage(g)
    BY <1>1, <2>1 DEF Read, Authenticate, FindRoom, Reply, Goto, TypeOK, AfterAuth
  <2>3. PICK P \in Pages(Before(g), PageSize(g)) : page' = [page EXCEPT ![g] = P]
    BY <1>1, <2>2 DEF LoadPage, Goto, TypeOK
  <2>4. page'[g] = P /\ P \subseteq Before(g) /\ cursor' = cursor
    BY <2>2, <2>3 DEF LoadPage, Pages, TypeOK
  <2> QED BY <2>4 DEF Before
<1>3. CASE ~Serve(g)
  <2>1. pc'[g] = pc[g] /\ cursor'[g] = cursor[g] /\ page'[g] = page[g]
    BY <1>1, <1>3, OnlyReadersPage
  <2> QED BY <2>1 DEF PageIsBefore
<1> QED BY <1>2, <1>3

\* Every query of a request leaves less to do.
LEMMA LeftFalls ==
  ASSUME TypeOK, PageIsBefore, NEW r \in Requests, Serve(r), pc[r] \notin Ended
  PROVE  Left(r)' < Left(r)
<1> USE DEF TypeOK, Goto, Stage, Left, Ended
<1>0. /\ Top \in Int
      /\ r \in Readers => cursor[r] \in Int
  BY ChatDataAssumption DEF Top, Ids
<1>1. CASE Authenticate(r) \/ FindRoom(r) \/ FindTarget(r)
  <2>1. /\ pc[r] \in {"auth", "target", "room"}
        /\ cursor' = cursor
        /\ pc[r] = "auth" => pc'[r] \in {"target", "remove", "room", "401"}
        /\ pc[r] = "target" => pc'[r] \in {"404", "get", "400"}
        /\ pc[r] = "room" => pc'[r] \in {"page", "404"}
    BY <1>1 DEF Authenticate, FindRoom, FindTarget, AfterAuth, readVars
  <2> QED BY <1>0, <2>1
<1>2. CASE Get(r) \/ Insert(r) \/ GetAgain(r) \/ RemoveReaction(r)
  <2>1. /\ pc[r] \in {"get", "insert", "again", "remove"}
        /\ cursor' = cursor
        /\ pc[r] = "get" => pc'[r] \in {"200", "insert"}
        /\ pc[r] = "insert" => pc'[r] \in {"201", "again"}
        /\ pc[r] = "again" => pc'[r] \in {"200", "500"}
        /\ pc[r] = "remove" => pc'[r] = "204"
    BY <1>2 DEF Get, Insert, GetAgain, RemoveReaction, readVars
  <2> QED BY <1>0, <2>1
<1>3. CASE LoadPage(r)
  <2>1. pc[r] = "page" /\ pc'[r] \in {"500", "reactions"} /\ cursor' = cursor
    BY <1>3 DEF LoadPage
  <2> QED BY <1>0, <2>1
<1>4. CASE Reply(r) /\ r \in Readers
  <2>1. pc[r] = "reactions" /\ pc'[r] = IF page[r] = {} THEN "200" ELSE "auth"
    BY <1>4 DEF Reply
  <2>2. CASE page[r] = {}
    BY <1>0, <1>4, <2>1, <2>2 DEF Reply
  <2>3. CASE page[r] # {}
    <3>1. PICK first \in page[r] : cursor' = [cursor EXCEPT ![r] = first.id]
      BY <1>4, <2>3 DEF Reply
    <3>2. first.id \in Int /\ first.id < cursor[r] /\ cursor'[r] = first.id
      <4>1. first \in Message
        BY <1>4
      <4>2. first.id \in Int
        BY <4>1 DEF Message, Ids
      <4> QED BY <1>4, <2>1, <3>1, <4>2 DEF PageIsBefore
    <3> QED BY <1>0, <1>4, <2>1, <2>3, <3>2
  <2> QED BY <2>2, <2>3
<1> QED
  BY <1>1, <1>2, <1>3, <1>4 DEF Serve, Add, Remove, Read, Requests

\* r is being served; a client is on the page that ends before n.
OnPage(r, n) == pc[r] \notin Ended /\ (r \in Readers => cursor[r] = n)

\* r has its answer; a client may also have got on to an earlier page.
GotOn(r, n) == pc[r] \in Ended \/ (r \in Readers /\ cursor[r] < n)

\* Whoever is on a page gets on.
GetsOn(r, n) == OnPage(r, n) ~> GotOn(r, n)

\* A request stays on its page, no further from its answer, until it gets on.
LEMMA OnPageStep ==
  ASSUME TypeOK, TypeOK', PageIsBefore, NEW r \in Requests, NEW n \in Ids \cup {Top},
         NEW k \in Nat, OnPage(r, n) /\ Stage(r) < k + 1, [Next]_vars
  PROVE  \/ GotOn(r, n)'
         \/ (OnPage(r, n) /\ Stage(r) < k + 1)' /\ (Serve(r) => Stage(r)' < k)
<1>1. /\ n \in Int /\ Stage(r) \in 0..5 /\ Stage(r)' \in 0..5
      /\ r \in Readers => cursor[r] \in Int /\ cursor'[r] \in Int
  <2>1. Stage(r) \in 0..5 /\ Stage(r)' \in 0..5
    BY DEF Stage
  <2> QED BY <2>1, ChatDataAssumption DEF TypeOK, Top, Ids
<1>2. CASE Serve(r) /\ pc'[r] \notin Ended
  <2>1. Left(r)' < Left(r)
    BY <1>2, LeftFalls DEF OnPage
  <2>2. CASE r \in Readers
    <3>1. cursor'[r] <= cursor[r]
      BY <1>1, <2>1, <2>2 DEF Left
    <3>2. CASE cursor'[r] = cursor[r]
      BY <1>1, <1>2, <2>1, <2>2, <3>2 DEF Left, OnPage
    <3>3. CASE cursor'[r] < cursor[r]
      BY <2>2, <3>3 DEF OnPage, GotOn
    <3> QED BY <1>1, <2>2, <3>1, <3>2, <3>3
  <2>3. CASE r \notin Readers
    BY <1>1, <1>2, <2>1, <2>3 DEF Left, OnPage
  <2> QED BY <2>2, <2>3
<1>3. CASE ~Serve(r) /\ pc'[r] = pc[r] /\ (r \in Readers => cursor'[r] = cursor[r])
  BY <1>3 DEF OnPage, Stage
<1> QED BY <1>2, <1>3, OnlyReadersPage DEF GotOn, Ended

\* Each page lies before the cursor it was asked for with.
LEMMA PagesAreBefore == Spec => []PageIsBefore
<1>1. Init => PageIsBefore
  BY RequestsAssumption DEF Init, PageIsBefore, Requests
<1>2. IInv => TypeOK
  BY DEF IInv
<1> QED BY <1>1, <1>2, PageIsBeforeStep, RestInvariance, PTL DEF Spec

\* Every request is answered, and a client that pages is answered with an error
\* or the last page, or asks for a page that ends earlier: no client asks for
\* the same page for ever, whatever is written and deleted meanwhile.
THEOREM RequestsGetOn ==
  ASSUME NEW r \in Requests, NEW n \in Ids \cup {Top}
  PROVE  Spec /\ []RequestsCanMove => GetsOn(r, n)
<1> DEFINE Near(k) == OnPage(r, n) /\ Stage(r) < k
           F(k) == Spec /\ []RequestsCanMove => (Near(k) ~> GotOn(r, n))
<1>1. F(0)
  <2>1. ~Near(0)
    BY DEF Stage
  <2> HIDE DEF Near
  <2> QED BY <2>1, PTL
<1>2. ASSUME NEW k \in Nat PROVE F(k) => F(k + 1)
  <2> DEFINE Here == Near(k + 1)
             Less == Near(k)
  <2>1. TypeOK /\ TypeOK' /\ PageIsBefore /\ Here /\ [Next]_vars
          => Here' \/ GotOn(r, n)'
    BY OnPageStep
  <2>2. TypeOK /\ TypeOK' /\ PageIsBefore /\ Here /\ <<Serve(r)>>_vars
          => Less' \/ GotOn(r, n)'
    <3>1. Serve(r) => Next
      BY DEF Next, Serve, Requests
    <3> QED BY <3>1, OnPageStep
  <2>3. RequestsCanMove /\ Here => ENABLED <<Serve(r)>>_vars
    BY DEF RequestsCanMove, OnPage
  <2>4. Fairness => Fair(r)
    BY DEF Fairness
  <2>5. IInv => TypeOK
    BY DEF IInv
  <2> HIDE DEF Near
  <2> QED
    BY <2>1, <2>2, <2>3, <2>4, <2>5, PagesAreBefore, RestInvariance, PTL DEF Spec, Fair
<1>3. F(6)
  <2> HIDE DEF F
  <2> QED BY <1>1, <1>2
<1>4. OnPage(r, n) => Near(6)
  BY DEF Stage
<1> HIDE DEF Near
<1> QED BY <1>3, <1>4, PTL DEF GetsOn

\* Adding and removing a reaction ends with an answer, whoever else adds or
\* removes the same one: get_or_create does not try for ever.
THEOREM ReactionsEnd ==
  ASSUME NEW r \in Posts \cup Deletes
  PROVE  Spec /\ []RequestsCanMove => <>(pc[r] \in Ended)
<1>1. r \in Requests /\ r \notin Readers /\ Top \in Ids \cup {Top}
  BY RequestsAssumption DEF Requests
<1> DEFINE Done == pc[r] \in Ended
<1>2. /\ ~Done => OnPage(r, Top)
      /\ GotOn(r, Top) => Done
  BY <1>1 DEF OnPage, GotOn
<1>3. Spec /\ []RequestsCanMove => GetsOn(r, Top)
  BY <1>1, RequestsGetOn
<1> HIDE DEF Done
<1>4. Spec /\ []RequestsCanMove => <>Done
  BY <1>2, <1>3, PTL DEF GetsOn
<1> QED BY <1>4 DEF Done

=============================================================================
