------------------------------ MODULE ChatRest ------------------------------
(***************************************************************************)
(* The REST side of the chat: creating the room, reacting to messages and  *)
(* reading the history page by page, while other processes write messages  *)
(* and management commands delete rooms, messages and accounts.            *)
(*                                                                         *)
(* The views run in autocommit mode in several gunicorn workers: every     *)
(* query is a step of its own.  There is one room; its row and the         *)
(* reactions are the keys that get_or_create() makes.                      *)
(***************************************************************************)
EXTENDS Integers, FiniteSets

CONSTANTS
  Posts,        \* requests that create the room or a reaction
  Deletes,      \* requests that remove a reaction
  Readers,      \* clients that page through the history
  Writers,      \* processes that write messages
  Users, Emojis,
  Room,         \* the key of the room
  UserOf,       \* Posts \cup Deletes \cup Readers -> Users
  KeyOf,        \* Posts \cup Deletes -> Keys
  SenderOf,     \* Writers -> Users
  LimitOf,      \* Readers -> Int: ?limit=, the default where there is none
  MaxLimit,     \* MAX_HISTORY_LIMIT
  MaxMessages,  \* bound: messages ever written
  Faults        \* subset of AllFaults

AllFaults == {"messages", "room", "users", "kill", "loss"}
Ids == 1..MaxMessages
Requests == Posts \cup Deletes \cup Readers
Reactions == [message : Ids, user : Users, emoji : Emojis]
Keys == Reactions \cup {Room}

ASSUME RequestsAssumption ==
  /\ Posts \cap Deletes = {} /\ Posts \cap Readers = {} /\ Deletes \cap Readers = {}
  /\ Readers \cap Writers = {}
  /\ UserOf \in [Requests -> Users]
  /\ KeyOf \in [Posts \cup Deletes -> Keys]
  /\ \A r \in Deletes : KeyOf[r] # Room
  /\ \A r \in Posts \cup Deletes : KeyOf[r] # Room => KeyOf[r].user = UserOf[r]

ASSUME ChatDataAssumption ==
  /\ Room \notin Reactions
  /\ SenderOf \in [Writers -> Users]
  /\ LimitOf \in [Readers -> Int]
  /\ MaxLimit \in Nat \ {0}
  /\ MaxMessages \in Nat
  /\ Faults \subseteq AllFaults

VARIABLES
  rows,      \* the room and the reactions there are
  users,     \* accounts
  messages,  \* the messages of the room
  pc,        \* pc[r]: where the request is; its status
  stale,     \* readers and writers that hold a room that has been deleted
  draft,     \* draft[w]: the message w is writing
  lastId,    \* the id drawn last
  now,       \* the clock
  cursor,    \* cursor[g]: what client g sends as ?before=
  page,      \* page[g]: the messages read for the page
  reply,     \* reply[g]: the reactions shown with it
  \* History
  shown,     \* shown[g]: ids of the messages g has been shown
  start,     \* start[g]: the messages there were when g read its first page
  kept,      \* kept[g]: keys there from the start of the page's request on
  seen,      \* seen[g]: keys there at some time since then
  ever       \* all messages there have been

rowVars == <<rows, kept, seen>>
dbVars == <<rowVars, users, messages, ever>>
writeVars == <<draft, lastId, now>>
readVars == <<cursor, page, reply, shown, start>>
vars == <<rows, users, messages, pc, stale, draft, lastId, now, cursor, page,
          reply, shown, start, kept, seen, ever>>

Message == [id : Ids, stamp : Nat, sender : Users]
Ended == {"200", "201", "204", "400", "401", "404", "500", "killed"}
NoDraft == [step |-> "idle", id |-> 0, stamp |-> 0]
Top == MaxMessages + 1

Init ==
  /\ rows \in {{}, {Room}}
  /\ users = Users
  /\ messages = {} /\ ever = {}
  /\ pc = [r \in Requests |-> "auth"]
  /\ stale = {}
  /\ draft = [w \in Writers |-> NoDraft] /\ lastId = 0 /\ now = 0
  /\ cursor = [g \in Readers |-> Top]
  /\ page = [g \in Readers |-> {}]
  /\ reply = [g \in Readers |-> {}]
  /\ shown = [g \in Readers |-> {}]
  /\ start = [g \in Readers |-> {}]
  /\ kept = [g \in Readers |-> {}]
  /\ seen = [g \in Readers |-> {}]

Goto(r, from, to) == pc[r] = from /\ pc' = [pc EXCEPT ![r] = to]
HasMessage(id) == \E m \in messages : m.id = id

\* The foreign keys of a row.
RefsResolve(key) == key # Room => HasMessage(key.message) /\ key.user \in users

\* A page is being made for g.
Reading(g) == pc[g] \in {"room", "page", "reactions"}

SetRows(new) ==
  /\ rows' = new
  /\ kept' = [g \in Readers |-> IF Reading(g) THEN kept[g] \cap new ELSE {}]
  /\ seen' = [g \in Readers |-> IF Reading(g) THEN seen[g] \cup new ELSE {}]

(***************************************************************************)
(* Requests.                                                               *)
(***************************************************************************)
AfterAuth(r) ==
  IF r \in Posts THEN "target" ELSE IF r \in Deletes THEN "remove" ELSE "room"

\* JWTAuthentication looks the user of the token up.
Authenticate(r) ==
  /\ Goto(r, "auth", IF UserOf[r] \in users THEN AfterAuth(r) ELSE "401")
  /\ kept' = [g \in Readers |-> IF g = r THEN rows ELSE kept[g]]
  /\ seen' = [g \in Readers |-> IF g = r THEN rows ELSE seen[g]]
  /\ UNCHANGED <<rows, users, messages, ever, stale, writeVars, readVars>>

\* get_object_or_404 of the message reacted to, then the serializer.
FindTarget(r) ==
  /\ \/ /\ KeyOf[r] # Room /\ ~HasMessage(KeyOf[r].message)
        /\ Goto(r, "target", "404")
     \/ /\ KeyOf[r] # Room => HasMessage(KeyOf[r].message)
        /\ \E valid \in BOOLEAN : Goto(r, "target", IF valid THEN "get" ELSE "400")
  /\ UNCHANGED <<dbVars, stale, writeVars, readVars>>

\* The three queries of get_or_create: get, INSERT, and get again after an
\* IntegrityError, which is raised again if there is still no such row.
Get(r) ==
  /\ Goto(r, "get", IF KeyOf[r] \in rows THEN "200" ELSE "insert")
  /\ UNCHANGED <<dbVars, stale, writeVars, readVars>>

Insert(r) ==
  /\ \/ /\ KeyOf[r] \notin rows /\ RefsResolve(KeyOf[r])
        /\ Goto(r, "insert", "201")
        /\ SetRows(rows \cup {KeyOf[r]})
     \/ /\ KeyOf[r] \in rows \/ ~RefsResolve(KeyOf[r])
        /\ Goto(r, "insert", "again")
        /\ UNCHANGED rowVars
  /\ UNCHANGED <<users, messages, ever, stale, writeVars, readVars>>

\* Slip: whatever the INSERT complained of, the row must be there.
GetAgainTrusting(r) ==
  /\ Goto(r, "again", "200")
  /\ UNCHANGED <<dbVars, stale, writeVars, readVars>>

GetAgain(r) ==
  /\ Goto(r, "again", IF KeyOf[r] \in rows THEN "200" ELSE "500")
  /\ UNCHANGED <<dbVars, stale, writeVars, readVars>>

\* One DELETE; it does not matter whether it finds the reaction.
RemoveReaction(r) ==
  /\ Goto(r, "remove", "204")
  /\ SetRows(rows \ {KeyOf[r]})
  /\ UNCHANGED <<users, messages, ever, stale, writeVars, readVars>>

(***************************************************************************)
(* Pages of the history.                                                   *)
(***************************************************************************)
PageSize(g) == IF LimitOf[g] < MaxLimit THEN LimitOf[g] ELSE MaxLimit

\* The n newest of ms by created_at, in any order where that is equal.
PagesOldestFirst(ms, n) ==
  {P \in SUBSET ms :
     /\ Cardinality(P) = (IF n < Cardinality(ms) THEN n ELSE Cardinality(ms))
     /\ \A p \in P, q \in ms \ P : p.stamp <= q.stamp}

Pages(ms, n) ==
  {P \in SUBSET ms :
     /\ Cardinality(P) = (IF n < Cardinality(ms) THEN n ELSE Cardinality(ms))
     /\ \A p \in P, q \in ms \ P : q.stamp <= p.stamp}

FindRoom(g) ==
  /\ Goto(g, "room", IF Room \in rows THEN "page" ELSE "404")
  /\ stale' = stale \ {g}
  /\ UNCHANGED <<dbVars, writeVars, readVars>>

\* The messages of the room g has found: none if it has been deleted since.
InRoom(g) == IF g \in stale THEN {} ELSE messages

\* Slip: id <= before.
BeforeInclusive(g) == {m \in InRoom(g) : m.id <= cursor[g]}

Before(g) == {m \in InRoom(g) : m.id < cursor[g]}

\* The query of the page; a negative limit raises when the query is sliced.
LoadPage(g) ==
  /\ \/ /\ PageSize(g) < 0
        /\ Goto(g, "page", "500")
        /\ UNCHANGED <<page, start>>
     \/ /\ PageSize(g) >= 0
        /\ Goto(g, "page", "reactions")
        /\ \E P \in Pages(Before(g), PageSize(g)) : page' = [page EXCEPT ![g] = P]
        /\ start' = [start EXCEPT ![g] = IF cursor[g] = Top THEN InRoom(g) ELSE @]
  /\ UNCHANGED <<dbVars, stale, writeVars, cursor, reply, shown>>

\* Slip: "me" is told of the message, not of the emoji.
AggregatesPerMessage(m, viewer) ==
  LET on == {k \in rows \ {Room} : k.message = m.id}
      of(e) == {k \in on : k.emoji = e}
  IN {[message |-> m.id, emoji |-> e, count |-> Cardinality(of(e)),
       me |-> \E k \in on : k.user = viewer] : e \in {k.emoji : k \in on}}

\* _aggregate_reactions over the rows that were prefetched.
Aggregates(m, viewer) ==
  LET on == {k \in rows \ {Room} : k.message = m.id}
      of(e) == {k \in on : k.emoji = e}
  IN {[message |-> m.id, emoji |-> e, count |-> Cardinality(of(e)),
       me |-> \E k \in of(e) : k.user = viewer] : e \in {k.emoji : k \in on}}

\* The query of the reactions and the response.  The client asks for the
\* messages before the first of those it has, until a page is empty.
Reply(g) ==
  /\ Goto(g, "reactions", IF page[g] = {} THEN "200" ELSE "auth")
  /\ reply' = [reply EXCEPT ![g] = UNION {Aggregates(m, UserOf[g]) : m \in page[g]}]
  /\ shown' = [shown EXCEPT ![g] = @ \cup {m.id : m \in page[g]}]
  /\ IF page[g] = {} THEN UNCHANGED cursor
     ELSE \E first \in page[g] :
            /\ \A m \in page[g] : first.id <= m.id
            /\ cursor' = [cursor EXCEPT ![g] = first.id]
  /\ kept' = [kept EXCEPT ![g] = {}] /\ seen' = [seen EXCEPT ![g] = {}]
  /\ UNCHANGED <<rows, users, messages, ever, stale, writeVars, page, start>>

(***************************************************************************)
(* Writers and faults.                                                     *)
(***************************************************************************)
\* A consumer or seed_messages has the room; auto_now_add reads the clock.
Stamp(w) ==
  /\ draft[w] = NoDraft
  /\ Room \in rows
  /\ \E t \in {now, now + 1} :
       /\ now' = t
       /\ draft' = [draft EXCEPT ![w] = [step |-> "stamped", id |-> 0, stamp |-> t]]
  /\ stale' = stale \ {w}
  /\ UNCHANGED <<dbVars, pc, lastId, readVars>>

\* The INSERT draws the id before its transaction commits.
DrawId(w) ==
  /\ draft[w].step = "stamped"
  /\ lastId < MaxMessages
  /\ lastId' = lastId + 1
  /\ draft' = [draft EXCEPT ![w] = [@ EXCEPT !.step = "drawn", !.id = lastId + 1]]
  /\ UNCHANGED <<dbVars, pc, stale, now, readVars>>

\* The commit, if room and sender are still there.
Commit(w) ==
  LET m == [id |-> draft[w].id, stamp |-> draft[w].stamp, sender |-> SenderOf[w]]
  IN /\ draft[w].step = "drawn"
     /\ draft' = [draft EXCEPT ![w] = NoDraft]
     /\ IF w \notin stale /\ SenderOf[w] \in users
        THEN messages' = messages \cup {m} /\ ever' = ever \cup {m}
        ELSE UNCHANGED <<messages, ever>>
     /\ UNCHANGED <<rowVars, users, pc, stale, lastId, now, readVars>>

\* Slip: reactions outlive their message.
DeleteMessagesOnly(gone, by) ==
  /\ messages' = messages \ gone
  /\ SetRows({k \in rows : k = Room \/ k.user \notin by})

\* Deleting messages and accounts deletes what refers to them.
DeleteCascade(gone, by) ==
  /\ messages' = messages \ gone
  /\ SetRows({k \in rows : k = Room \/
                (k.user \notin by /\ \A m \in gone : m.id # k.message)})

\* flush_demo and seed_messages empty the demo rooms.
DeleteMessages ==
  /\ "messages" \in Faults
  /\ messages # {}
  /\ DeleteCascade(messages, {})
  /\ UNCHANGED <<users, ever, pc, stale, writeVars, readVars>>

DeleteRoom ==
  /\ "room" \in Faults
  /\ Room \in rows
  /\ messages' = {}
  /\ SetRows({})
  /\ stale' = stale \cup {g \in Readers : pc[g] = "page"}
                    \cup {w \in Writers : draft[w].step # "idle"}
  /\ UNCHANGED <<users, ever, pc, writeVars, readVars>>

DeleteUser(u) ==
  /\ "users" \in Faults
  /\ u \in users
  /\ users' = users \ {u}
  /\ DeleteCascade({m \in messages : m.sender = u}, {u})
  /\ UNCHANGED <<ever, pc, stale, writeVars, readVars>>

\* The worker that serves r is killed.
Kill(r) ==
  /\ "kill" \in Faults
  /\ pc[r] \notin Ended
  /\ pc' = [pc EXCEPT ![r] = "killed"]
  /\ UNCHANGED <<dbVars, stale, writeVars, readVars>>

\* The statement of r has been committed when the connection to the database
\* breaks or the worker is killed: the answer that tells of it is lost.
LoseAnswer(r) ==
  /\ \E outcome \in {"500", "killed"} :
       /\ (IF outcome = "500" THEN "loss" ELSE "kill") \in Faults
       /\ \/ /\ r \in Posts /\ KeyOf[r] \notin rows /\ RefsResolve(KeyOf[r])
             /\ Goto(r, "insert", outcome)
             /\ SetRows(rows \cup {KeyOf[r]})
          \/ /\ r \in Deletes
             /\ Goto(r, "remove", outcome)
             /\ SetRows(rows \ {KeyOf[r]})
  /\ UNCHANGED <<users, messages, ever, stale, writeVars, readVars>>

-----------------------------------------------------------------------------
Add(r) == Authenticate(r) \/ FindTarget(r) \/ Get(r) \/ Insert(r) \/ GetAgain(r)
Remove(r) == Authenticate(r) \/ RemoveReaction(r)
Read(g) == Authenticate(g) \/ FindRoom(g) \/ LoadPage(g) \/ Reply(g)
Write(w) == Stamp(w) \/ DrawId(w) \/ Commit(w)
Disturb ==
  \/ DeleteMessages \/ DeleteRoom
  \/ \E u \in Users : DeleteUser(u)
  \/ \E r \in Requests : Kill(r) \/ LoseAnswer(r)

Next ==
  \/ \E r \in Posts : Add(r)
  \/ \E r \in Deletes : Remove(r)
  \/ \E g \in Readers : Read(g)
  \/ \E w \in Writers : Write(w)
  \/ Disturb

Serve(r) ==
  IF r \in Posts THEN Add(r) ELSE IF r \in Deletes THEN Remove(r) ELSE Read(r)

\* Requests that have been accepted are served; nobody has to write or to
\* delete.
Fair(r) == WF_vars(Serve(r))
Fairness == \A r \in Requests : Fair(r)

Spec == Init /\ [][Next]_vars /\ Fairness

\* No query waits for another request: until the last answer there is a next one.
RequestsCanMove ==
  \A r \in Requests : pc[r] \notin Ended => ENABLED <<Serve(r)>>_vars

(***************************************************************************)
(* Properties.                                                             *)
(***************************************************************************)
TypeOK ==
  /\ rows \subseteq Keys /\ IsFiniteSet(rows)
  /\ IsFiniteSet(messages)
  /\ users \subseteq Users
  /\ messages \subseteq Message /\ ever \subseteq Message
  /\ pc \in [Requests -> {"auth", "target", "get", "insert", "again", "remove",
                          "room", "page", "reactions"} \cup Ended]
  /\ stale \subseteq Readers \cup Writers
  /\ draft \in [Writers -> [step : {"idle", "stamped", "drawn"},
                            id : Ids \cup {0}, stamp : Nat]]
  /\ lastId \in Ids \cup {0}
  /\ now \in Nat
  /\ cursor \in [Readers -> Ids \cup {Top}]
  /\ page \in [Readers -> SUBSET Message]
  /\ \A g \in Readers :
       reply[g] \subseteq [message : Ids, emoji : Emojis, count : Nat, me : BOOLEAN]
  /\ DOMAIN reply = Readers
  /\ shown \in [Readers -> SUBSET Ids]
  /\ start \in [Readers -> SUBSET Message]
  /\ kept \in [Readers -> SUBSET Keys]
  /\ seen \in [Readers -> SUBSET Keys]
  /\ \A g \in Readers : IsFiniteSet(seen[g])

\* No reaction without its message and its author, no message without its
\* room and its sender.
NothingDangles ==
  /\ \A k \in rows : RefsResolve(k)
  /\ \A m \in messages : Room \in rows /\ m.sender \in users

\* A request to add or remove applies one atomic operation and tells which;
\* one that fails or dies has applied its operation or none.
Answers == [r \in Posts \cup Deletes |-> IF pc[r] \in Ended THEN pc[r] ELSE "none"]
Api == INSTANCE IdempotentSet WITH answers <- Answers
ApiSpec == Api!Spec

\* The reactions shown with a page are those there were while the page was
\* made: all that were there throughout are counted, and nothing that was not
\* there at any time; "me" is about the viewer and this emoji.
Timely(g, shownReactions) ==
  LET of(S, id, e) == {k \in S \ {Room} : k.message = id /\ k.emoji = e}
      mine(S, id, e) == \E k \in of(S, id, e) : k.user = UserOf[g]
  IN /\ \A m \in page[g], e \in Emojis :
          of(kept[g], m.id, e) # {} =>
            \E a \in shownReactions :
              /\ a.message = m.id /\ a.emoji = e
              /\ a.count >= Cardinality(of(kept[g], m.id, e))
              /\ mine(kept[g], m.id, e) => a.me
     /\ \A a \in shownReactions :
          /\ 0 < a.count
          /\ a.count <= Cardinality(of(seen[g], a.message, a.emoji))
          /\ a.me => mine(seen[g], a.message, a.emoji)
          /\ \A b \in shownReactions :
               a.message = b.message /\ a.emoji = b.emoji => a = b

PagesAreTimely ==
  [][\A g \in Readers :
       pc[g] = "reactions" /\ pc'[g] \in {"auth", "200"} => Timely(g, reply'[g])]_vars

\* If messages got their ids in the order of their times, a client that has
\* read to the end has been shown every message that was there when it began
\* and is still there.
Ordered == \A a, b \in ever : a.id < b.id => a.stamp < b.stamp
PagesAreComplete ==
  Ordered =>
    \A g \in Readers :
      pc[g] = "200" /\ PageSize(g) > 0 =>
        \A m \in start[g] \cap messages : m.id \in shown[g]

\* Every request is answered; paging comes to an end.
RequestsEnd == <>(\A r \in Requests : pc[r] \in Ended)

(***************************************************************************)
(* The inductive invariant.                                                *)
(***************************************************************************)
\* Ids are drawn once; only messages that have been committed are known.
IdsAreCounted ==
  /\ \A a, b \in ever : a.id = b.id => a = b
  /\ \A m \in ever : m.id <= lastId
  /\ \A w \in Writers : draft[w].step = "drawn" =>
       /\ draft[w].id \in 1..lastId
       /\ \A m \in ever : m.id # draft[w].id
       /\ \A v \in Writers : draft[v].step = "drawn" /\ draft[v].id = draft[w].id => v = w
  /\ messages \subseteq ever
  /\ \A g \in Readers : start[g] \subseteq ever /\ page[g] \subseteq ever

\* What a client has not yet been shown of the messages it began with lies
\* before its cursor.
WalkKeepsUp ==
  \A g \in Readers :
    /\ g \in stale => start[g] \cap messages = {}
    /\ Ordered /\ PageSize(g) > 0 =>
         \A m \in start[g] \cap messages :
           /\ m.id >= cursor[g] => m.id \in shown[g]
           /\ pc[g] = "reactions" /\ m.id < cursor[g] =>
                m \in page[g] \/ (page[g] # {} /\ \A p \in page[g] : m.id < p.id)
           /\ pc[g] = "200" => m.id \in shown[g]

\* A writer's room is there unless it has been deleted under it.
RoomIsHeld ==
  \A w \in Writers : draft[w].step # "idle" /\ w \notin stale => Room \in rows

\* What is noted of the keys while a page is made.
WatchIsTight ==
  \A g \in Readers : Reading(g) => kept[g] \subseteq rows /\ rows \subseteq seen[g]

IInv ==
  /\ TypeOK
  /\ NothingDangles
  /\ IdsAreCounted
  /\ RoomIsHeld
  /\ WatchIsTight
  /\ WalkKeepsUp

=============================================================================
