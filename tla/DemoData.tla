------------------------------ MODULE DemoData ------------------------------
(***************************************************************************)
(* The management commands that make and remove the demo data, as whole    *)
(* programs: seed_users, seed_rooms, seed_messages, seed_all, which calls  *)
(* the three, and flush_demo.  They run in processes of their own, next to *)
(* each other and to people who write messages.  Every query is a step;    *)
(* bulk_create() and each delete() commit on their own.                    *)
(*                                                                         *)
(* A row is known by its name and by who made it: no command makes two     *)
(* rows of one name.                                                       *)
(***************************************************************************)
EXTENDS Naturals, Sequences, FiniteSets

CONSTANTS
  Programs,    \* runs of the commands
  Command,     \* Programs -> Commands
  Writers,     \* people, who write one message each
  Names,
  DemoUsers,   \* DEMO_USERS, a sequence of names
  DemoRooms,   \* DEMO_ROOMS, a sequence of names
  PerRoom,     \* MESSAGES_PER_ROOM
  Real,        \* who made the accounts and rooms there are at first
  RealUsers, RealRooms,  \* their names
  Faults       \* subset of AllFaults

AllFaults == {"kill", "react"}
Commands == {"seed_users", "seed_rooms", "seed_messages", "seed_all", "flush_demo"}
Positions(seq) == 1..Len(seq)
IsDemoUser(name) == \E i \in Positions(DemoUsers) : DemoUsers[i] = name
IsDemoRoom(name) == \E i \in Positions(DemoRooms) : DemoRooms[i] = name

ASSUME DemoDataAssumption ==
  /\ Command \in [Programs -> Commands]
  /\ Programs \cap Writers = {} /\ Real \notin Programs \cup Writers
  /\ DemoUsers \in Seq(Names) /\ DemoRooms \in Seq(Names)
  /\ DemoUsers # <<>> /\ DemoRooms # <<>>
  /\ \A i, j \in Positions(DemoUsers) : DemoUsers[i] = DemoUsers[j] => i = j
  /\ \A i, j \in Positions(DemoRooms) : DemoRooms[i] = DemoRooms[j] => i = j
  /\ PerRoom \in Nat \ {0}
  /\ RealUsers \subseteq Names /\ RealRooms \subseteq Names /\ IsFiniteSet(RealUsers)
  /\ \A n \in RealUsers : ~IsDemoUser(n)

VARIABLES
  users, rooms,  \* rows [name, by]
  messages,      \* rows [by, n, room, sender]
  pc,            \* pc[p]: where the command is in its item; its outcome
  at,            \* at[p]: the item of its work it has got to
  senders,       \* senders[p]: the demo users p has read, in their order
  room,          \* room[p]: the room p has read last
  doomed,        \* doomed[p]: the rows collected for a delete()
  seat,          \* seat[w]: account and room w has opened
  \* History
  old,           \* old[p]: the demo rows there when p began to delete
  disturbed      \* programs during or after which another one has deleted

rowVars == <<users, rooms, messages>>
workVars == <<senders, room, doomed, old>>
vars == <<users, rooms, messages, pc, at, senders, room, doomed, seat, old, disturbed>>

Row == [name : Names \cup {Real}, by : Programs \cup {Real}]
NoRow == [name |-> Real, by |-> Real]
NoRows == [users |-> {}, rooms |-> {}, messages |-> {}]
Seat(step, u, r) == [step |-> step, user |-> u, room |-> r]
Rows(us, rs, ms) == [users |-> us, rooms |-> rs, messages |-> ms]

(***************************************************************************)
(* The work of a command, item by item.                                    *)
(***************************************************************************)
Item(do, name) == [do |-> do, name |-> name]
SeedUsers == [i \in Positions(DemoUsers) |-> Item("user", DemoUsers[i])]
SeedRooms == [i \in Positions(DemoRooms) |-> Item("room", DemoRooms[i])]
SeedMessages ==
  <<Item("delete", "messages"), Item("senders", "")>> \o
  [i \in Positions(DemoRooms) |-> Item("batch", DemoRooms[i])]
FlushDemo == <<Item("delete", "messages"), Item("delete", "rooms"), Item("delete", "users")>>

\* Slip: the messages come before the rooms.
SeedAllReversed == SeedUsers \o SeedMessages \o SeedRooms
SeedAll == SeedUsers \o SeedRooms \o SeedMessages

Work(p) ==
  CASE Command[p] = "seed_users"    -> SeedUsers
    [] Command[p] = "seed_rooms"    -> SeedRooms
    [] Command[p] = "seed_messages" -> SeedMessages
    [] Command[p] = "seed_all"      -> SeedAll
    [] OTHER                        -> FlushDemo

Init ==
  /\ users = {[name |-> n, by |-> Real] : n \in RealUsers}
  /\ rooms = {[name |-> n, by |-> Real] : n \in RealRooms}
  /\ messages = {}
  /\ pc = [p \in Programs |-> "start"]
  /\ at = [p \in Programs |-> 1]
  /\ senders = [p \in Programs |-> <<>>]
  /\ room = [p \in Programs |-> NoRow]
  /\ doomed = [p \in Programs |-> NoRows]
  /\ seat = [w \in Writers |-> Seat("away", NoRow, NoRow)]
  /\ old = [p \in Programs |-> NoRows]
  /\ disturbed = {}

At(p, step, kinds) == pc[p] = step /\ Work(p)[at[p]].do \in kinds
Name(p) == Work(p)[at[p]].name
Goto(p, to) == pc' = [pc EXCEPT ![p] = to] /\ UNCHANGED at

\* On to the next item, or to the end.
Advance(p) ==
  IF at[p] = Len(Work(p)) THEN Goto(p, "done")
  ELSE pc' = [pc EXCEPT ![p] = "start"] /\ at' = [at EXCEPT ![p] = @ + 1]

(***************************************************************************)
(* get_or_create() of an account or a room.                                *)
(***************************************************************************)
Table(p) == IF Work(p)[at[p]].do = "user" THEN users ELSE rooms
Exists(p) == \E row \in Table(p) : row.name = Name(p)

Get(p) ==
  /\ At(p, "start", {"user", "room"})
  /\ IF Exists(p) THEN Advance(p) ELSE Goto(p, "insert")
  /\ UNCHANGED <<rowVars, workVars, seat, disturbed>>

\* The INSERT; somebody else's row of this name makes it fail.
Insert(p) ==
  LET new == [name |-> Name(p), by |-> p]
      user == Work(p)[at[p]].do = "user"
  IN /\ pc[p] = "insert"
     /\ \/ Exists(p) /\ Goto(p, "again") /\ UNCHANGED <<users, rooms>>
        \/ ~Exists(p) /\ user /\ Goto(p, "password")
           /\ users' = users \cup {new} /\ UNCHANGED rooms
        \/ ~Exists(p) /\ ~user /\ Advance(p)
           /\ rooms' = rooms \cup {new} /\ UNCHANGED users
     /\ UNCHANGED <<messages, workVars, seat, disturbed>>

\* The IntegrityError is raised again if the other row has gone meanwhile.
GetAgain(p) ==
  /\ pc[p] = "again"
  /\ IF Exists(p) THEN Advance(p) ELSE Goto(p, "failed")
  /\ UNCHANGED <<rowVars, workVars, seat, disturbed>>

\* seed_users fetches the account it has made and saves its password: both
\* fail if it has been deleted, unless get() finds another one of this name.
SavePassword(p) ==
  /\ pc[p] = "password"
  /\ \/ Exists(p) /\ Advance(p)
     \/ [name |-> Name(p), by |-> p] \notin users /\ Goto(p, "failed")
  /\ UNCHANGED <<rowVars, workVars, seat, disturbed>>

(***************************************************************************)
(* delete(): the rows and those that refer to them are collected, then     *)
(* deleted in one transaction, which fails if some row still refers to     *)
(* them.                                                                   *)
(***************************************************************************)
InDemoRooms == {m \in messages : IsDemoRoom(m.room.name)}
DemoRows ==
  Rows({u \in users : IsDemoUser(u.name)}, {r \in rooms : IsDemoRoom(r.name)}, InDemoRooms)

\* Slip: with the demo rooms go those who have written there.
TargetsWide(p) == Rows({m.sender : m \in InDemoRooms}, DemoRows.rooms, InDemoRooms)

Targets(p) ==
  CASE Name(p) = "messages" -> Rows({}, {}, InDemoRooms)
    [] Name(p) = "rooms"    -> Rows({}, DemoRows.rooms, InDemoRooms)
    [] OTHER -> Rows(DemoRows.users, {}, {m \in messages : IsDemoUser(m.sender.name)})

Collect(p) ==
  /\ At(p, "start", {"delete"})
  /\ Goto(p, "delete")
  /\ doomed' = [doomed EXCEPT ![p] = Targets(p)]
  /\ old' = IF Name(p) = "messages" THEN [old EXCEPT ![p] = DemoRows] ELSE old
  /\ UNCHANGED <<rowVars, senders, room, seat, disturbed>>

Begun(p) == pc[p] # "start" \/ at[p] > 1

Remove(p) ==
  /\ users' = users \ doomed[p].users
  /\ rooms' = rooms \ doomed[p].rooms
  /\ messages' = messages \ doomed[p].messages
  /\ disturbed' = disturbed \cup {q \in Programs \ {p} : Begun(q)}

\* Somebody has written a message meanwhile.
Clash(p) ==
  \E m \in messages \ doomed[p].messages :
    m.room \in doomed[p].rooms \/ m.sender \in doomed[p].users

\* Slip: a delete() that fails is passed over.
DeleteForgiving(p) ==
  /\ pc[p] = "delete"
  /\ Advance(p)
  /\ IF Clash(p) THEN UNCHANGED <<rowVars, disturbed>> ELSE Remove(p)
  /\ doomed' = [doomed EXCEPT ![p] = NoRows]
  /\ UNCHANGED <<senders, room, old, seat>>

\* A reaction that refers to a doomed message by now has the same effect.
Delete(p) ==
  /\ pc[p] = "delete"
  /\ \/ ~Clash(p) /\ Advance(p) /\ Remove(p)
     \/ /\ Clash(p) \/ ("react" \in Faults /\ doomed[p].messages \cap messages # {})
        /\ Goto(p, "conflict")
        /\ UNCHANGED <<rowVars, disturbed>>
  /\ doomed' = [doomed EXCEPT ![p] = NoRows]
  /\ UNCHANGED <<senders, room, old, seat>>

(***************************************************************************)
(* seed_messages after its delete().                                       *)
(***************************************************************************)
\* The demo users, in the order the database gives them; without any, the
\* command is over.
ReadSenders(p) ==
  LET found == DemoRows.users
  IN /\ At(p, "start", {"senders"})
     /\ IF found = {} THEN Goto(p, "done") /\ UNCHANGED senders
        ELSE /\ Advance(p)
             /\ \E order \in [1..Cardinality(found) -> found] :
                  /\ \A u \in found : \E i \in DOMAIN order : order[i] = u
                  /\ senders' = [senders EXCEPT ![p] = order]
     /\ UNCHANGED <<rowVars, room, doomed, old, seat, disturbed>>

\* A room that is missing is skipped.
ReadRoom(p) ==
  /\ At(p, "start", {"batch"})
  /\ \/ \E r \in rooms :
          r.name = Name(p) /\ Goto(p, "batch") /\ room' = [room EXCEPT ![p] = r]
     \/ (\A r \in rooms : r.name # Name(p)) /\ Advance(p) /\ UNCHANGED room
  /\ UNCHANGED <<rowVars, senders, doomed, old, seat, disturbed>>

Message(p, i) ==
  [by |-> p, n |-> i, room |-> room[p],
   sender |-> senders[p][((i - 1) % Len(senders[p])) + 1]]
Batch(p) == {Message(p, i) : i \in 1..PerRoom}
Refers(m) == m.room \in rooms /\ m.sender \in users

\* Slip: the messages are saved one by one.
CreateSingly(p) ==
  /\ pc[p] = "batch"
  /\ \/ (\A m \in Batch(p) : Refers(m)) /\ Advance(p)
     \/ (\E m \in Batch(p) : ~Refers(m)) /\ Goto(p, "failed")
  /\ messages' = messages \cup {m \in Batch(p) : Refers(m)}
  /\ UNCHANGED <<users, rooms, workVars, seat, disturbed>>

\* bulk_create(): all of them, or an IntegrityError.
CreateBatch(p) ==
  /\ pc[p] = "batch"
  /\ IF \A m \in Batch(p) : Refers(m)
     THEN Advance(p) /\ messages' = messages \cup Batch(p)
     ELSE Goto(p, "failed") /\ UNCHANGED messages
  /\ UNCHANGED <<users, rooms, workVars, seat, disturbed>>

\* A command dies with what it holds.
Kill(p) ==
  /\ "kill" \in Faults
  /\ pc[p] \notin {"done", "failed", "conflict", "killed"}
  /\ Goto(p, "killed")
  /\ senders' = [senders EXCEPT ![p] = <<>>]
  /\ room' = [room EXCEPT ![p] = NoRow]
  /\ doomed' = [doomed EXCEPT ![p] = NoRows]
  /\ old' = [old EXCEPT ![p] = NoRows]
  /\ UNCHANGED <<rowVars, seat, disturbed>>

(***************************************************************************)
(* People: they open a room that is there and write to it later.           *)
(***************************************************************************)
Open(w) ==
  /\ seat[w].step = "away"
  /\ \E u \in users, r \in rooms :
       seat' = [seat EXCEPT ![w] = Seat("open", u, r)]
  /\ UNCHANGED <<rowVars, pc, at, workVars, disturbed>>

Write(w) ==
  /\ seat[w].step = "open"
  /\ LET m == [by |-> w, n |-> 1, room |-> seat[w].room, sender |-> seat[w].user]
     IN messages' = IF Refers(m) THEN messages \cup {m} ELSE messages
  /\ seat' = [seat EXCEPT ![w].step = "left"]
  /\ UNCHANGED <<users, rooms, pc, at, workVars, disturbed>>

-----------------------------------------------------------------------------
Run(p) ==
  \/ Get(p) \/ Insert(p) \/ GetAgain(p) \/ SavePassword(p)
  \/ Collect(p) \/ Delete(p)
  \/ ReadSenders(p) \/ ReadRoom(p) \/ CreateBatch(p)

Next ==
  \/ \E p \in Programs : Run(p) \/ Kill(p)
  \/ \E w \in Writers : Open(w) \/ Write(w)

Spec == Init /\ [][Next]_vars

(***************************************************************************)
(* Properties.                                                             *)
(***************************************************************************)
\* What seed_messages puts in a room is there as a whole or not at all,
\* whatever is deleted, killed or fails.
BatchesAreWhole ==
  \A m \in messages :
    m.by \in Programs =>
      \A i \in 1..PerRoom :
        \E other \in messages : other.by = m.by /\ other.room = m.room /\ other.n = i

\* No step of a command takes an account or a room without a demo name, or a
\* message that neither is in a demo room nor comes from a demo user.
RealDataSurvives ==
  [][/\ \A u \in users \ users' : IsDemoUser(u.name)
     /\ \A r \in rooms \ rooms' : IsDemoRoom(r.name)
     /\ \A m \in messages \ messages' :
          IsDemoRoom(m.room.name) \/ IsDemoUser(m.sender.name)]_vars

\* When a command that deletes has succeeded, nothing of what it found is left:
\* neither the messages of the demo rooms nor, after flush_demo, the accounts
\* and rooms, although others write meanwhile.
OldDataGoes ==
  \A p \in Programs :
    pc[p] = "done" =>
      /\ old[p].messages \cap messages = {}
      /\ Command[p] = "flush_demo" =>
           old[p].rooms \cap rooms = {} /\ old[p].users \cap users = {}

\* A seed_all that ends well leaves its messages in every demo room, unless
\* another command deletes in between, whatever it has found.
SeedAllDelivers ==
  \A p \in Programs \ disturbed :
    pc[p] = "done" /\ Command[p] = "seed_all" =>
      \A k \in Positions(DemoRooms), i \in 1..PerRoom :
        \E m \in messages : m.by = p /\ m.n = i /\ m.room.name = DemoRooms[k]

(***************************************************************************)
(* The inductive invariant.                                                *)
(***************************************************************************)
Posts == [by : Programs \cup Writers, n : Nat, room : Row, sender : Row]
Selection == [users : SUBSET Row, rooms : SUBSET Row, messages : SUBSET Posts]
Ended == {"done", "failed", "conflict", "killed"}

TypeOK ==
  /\ IsFiniteSet(users)
  /\ users \subseteq Row /\ rooms \subseteq Row /\ messages \subseteq Posts
  /\ pc \in [Programs -> {"start", "insert", "again", "password", "delete", "batch"} \cup Ended]
  /\ at \in [Programs -> Nat]
  /\ senders \in [Programs -> Seq(Row)]
  /\ room \in [Programs -> Row]
  /\ doomed \in [Programs -> Selection] /\ old \in [Programs -> Selection]
  /\ seat \in [Writers -> [step : {"away", "open", "left"}, user : Row, room : Row]]
  /\ disturbed \subseteq Programs

\* Each step belongs to its items; what a command holds is demo data.
Fits(p) ==
  /\ at[p] \in Positions(Work(p))
  /\ pc[p] = "insert" => Work(p)[at[p]].do \in {"user", "room"}
  /\ pc[p] = "again" => Work(p)[at[p]].do \in {"user", "room"}
  /\ pc[p] = "password" => Work(p)[at[p]].do = "user"
  /\ pc[p] = "delete" => Work(p)[at[p]].do = "delete"
  /\ pc[p] = "batch" => Work(p)[at[p]] = Item("batch", room[p].name) /\ senders[p] # <<>>
  /\ pc[p] = "start" /\ Work(p)[at[p]].do = "batch" => senders[p] # <<>>
  /\ pc[p] = "done" => at[p] = Len(Work(p)) \/ Work(p)[at[p]].do = "senders"
  /\ \A i \in Positions(senders[p]) : IsDemoUser(senders[p][i].name)
Deletes(p, kind) == Work(p)[at[p]] = Item("delete", kind) /\ pc[p] = "delete"
HoldsDemoRows(p) ==
  /\ \A u \in doomed[p].users : IsDemoUser(u.name)
  /\ \A r \in doomed[p].rooms : IsDemoRoom(r.name)
  /\ \A m \in doomed[p].messages : IsDemoRoom(m.room.name) \/ IsDemoUser(m.sender.name)
  /\ Deletes(p, "messages") => doomed[p].users = {} /\ doomed[p].rooms = {}
  /\ \A u \in old[p].users : IsDemoUser(u.name)
  /\ \A r \in old[p].rooms : IsDemoRoom(r.name)

\* p is past its item j.
Past(p, j) == j < at[p] \/ (j = at[p] /\ pc[p] \notin {"start", "insert", "batch"})

\* Whatever is known of a row, whoever made it is past making it.
MadeBy(row, kind) ==
  row.by \in Programs =>
    \E j \in Positions(Work(row.by)) :
      Past(row.by, j) /\ Work(row.by)[j] = Item(kind, row.name)
SentBy(m) ==
  /\ m.by \in Writers => seat[m.by].step = "left"
  /\ m.by \in Programs =>
       /\ IsDemoUser(m.sender.name) /\ IsDemoRoom(m.room.name)
       /\ \E j \in Positions(Work(m.by)) :
            Past(m.by, j) /\ Work(m.by)[j] = Item("batch", m.room.name)
RowsHaveMakers ==
  /\ \A u \in users : MadeBy(u, "user")
  /\ \A r \in rooms : MadeBy(r, "room")
  /\ \A m \in messages : SentBy(m)
  /\ \A p \in Programs :
       /\ \A u \in old[p].users : MadeBy(u, "user")
       /\ \A r \in old[p].rooms : MadeBy(r, "room")
       /\ \A m \in old[p].messages \cup doomed[p].messages : SentBy(m)

\* A batch is collected as a whole.
BatchesAreDoomedWhole ==
  \A p \in Programs : \A m \in doomed[p].messages, other \in messages :
    m.by \in Programs /\ other.by = m.by /\ other.room = m.room =>
      other \in doomed[p].messages

\* What a delete() has found is about to go, or gone.
Cleared(p, kind) ==
  \E j \in Positions(Work(p)) : j < at[p] /\ Work(p)[j] = Item("delete", kind)
Finished(p, kind) ==
  Cleared(p, kind) \/ (pc[p] = "done" /\ Work(p)[at[p]] = Item("delete", kind))
OldRowsAreOut(p) ==
  /\ (\A j \in Positions(Work(p)) : Work(p)[j] # Item("delete", "messages")) => old[p] = NoRows
  /\ Finished(p, "messages") => old[p].messages \cap messages = {}
  /\ Finished(p, "rooms") => old[p].rooms \cap rooms = {}
  /\ Finished(p, "users") => old[p].users \cap users = {}
  /\ Deletes(p, "messages") => old[p].messages \cap messages \subseteq doomed[p].messages
  /\ Deletes(p, "rooms") => old[p].rooms \cap rooms \subseteq doomed[p].rooms
  /\ Deletes(p, "users") => old[p].users \cap users \subseteq doomed[p].users

\* What an undisturbed command has done is still there.
Done(p, j) == j < at[p] \/ (j = at[p] /\ pc[p] = "done")
Delivered(p, name) ==
  \A i \in 1..PerRoom :
    \E m \in messages : m.by = p /\ m.n = i /\ m.room.name = name
Stands(p, item) ==
  /\ item.do = "user" => \E u \in users : u.name = item.name
  /\ item.do = "room" => \E r \in rooms : r.name = item.name
  /\ item.do = "batch" => Delivered(p, item.name)
UndisturbedWorkStands ==
  \A p \in Programs \ disturbed :
    Command[p] = "seed_all" =>
      /\ \A j \in Positions(Work(p)) : Done(p, j) => Stands(p, Work(p)[j])
      /\ pc[p] = "done" => at[p] = Len(Work(p))

IInv ==
  /\ TypeOK
  /\ \A p \in Programs : Fits(p) /\ HoldsDemoRows(p) /\ OldRowsAreOut(p)
  /\ RowsHaveMakers
  /\ BatchesAreDoomedWhole
  /\ BatchesAreWhole
  /\ UndisturbedWorkStands

=============================================================================
