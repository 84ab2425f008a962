--------------------------- MODULE DemoDataProofs ---------------------------
(***************************************************************************)
(* Proofs about DemoData, whatever commands run, however many.             *)
(***************************************************************************)
EXTENDS DemoData, FiniteSetTheorems, SequenceTheorems, TLAPS

(***************************************************************************)
(* The work of the commands.                                               *)
(***************************************************************************)
Kinds == {"user", "room", "delete", "senders", "batch"}

Items == [do : Kinds, name : Names \cup {"messages", "rooms", "users", ""}]

LEMMA Listing ==
  ASSUME NEW names \in Seq(Names), NEW do \in Kinds,
         NEW list, list = [i \in Positions(names) |-> Item(do, names[i])]
  PROVE  /\ list \in Seq(Items) /\ Len(list) = Len(names)
         /\ \A i \in Positions(names) : list[i] = Item(do, names[i])
<1>1. Len(names) \in Nat /\ \A i \in 1..Len(names) : names[i] \in Names
  OBVIOUS
<1>2. \A i \in 1..Len(names) : Item(do, names[i]) \in Items
  BY <1>1 DEF Item, Items
<1>3. list \in [1..Len(names) -> Items]
  BY <1>2 DEF Positions
<1> QED BY <1>1, <1>3 DEF Positions

LEMMA Joined ==
  ASSUME NEW s \in Seq(Items), NEW t \in Seq(Items)
  PROVE  /\ s \o t \in Seq(Items) /\ Len(s \o t) = Len(s) + Len(t)
         /\ \A i \in 1..Len(s) : (s \o t)[i] = s[i]
         /\ \A i \in 1..Len(t) : (s \o t)[Len(s) + i] = t[i]
<1>0. Len(s) \in Nat /\ Len(t) \in Nat
  OBVIOUS
<1>1. /\ s \o t \in Seq(Items) /\ Len(s \o t) = Len(s) + Len(t)
      /\ \A i \in 1..(Len(s) + Len(t)) :
           (s \o t)[i] = IF i <= Len(s) THEN s[i] ELSE t[i - Len(s)]
  BY ConcatProperties, Zenon
<1>2. ASSUME NEW i \in 1..Len(t) PROVE (s \o t)[Len(s) + i] = t[i]
  <2>1. Len(s) + i \in 1..(Len(s) + Len(t)) /\ ~(Len(s) + i <= Len(s)) /\ (Len(s) + i) - Len(s) = i
    BY <1>0
  <2> QED BY <1>1, <2>1
<1> QED BY <1>0, <1>1, <1>2

U == Len(DemoUsers)
R == Len(DemoRooms)

LEMMA Lengths ==
  /\ U \in Nat \ {0} /\ Positions(DemoUsers) = 1..U
  /\ R \in Nat \ {0} /\ Positions(DemoRooms) = 1..R
BY DemoDataAssumption DEF U, R, Positions

LEMMA UserItems ==
  /\ SeedUsers \in Seq(Items) /\ Len(SeedUsers) = U
  /\ \A i \in 1..U : SeedUsers[i] = Item("user", DemoUsers[i])
BY DemoDataAssumption, Listing DEF SeedUsers, Kinds, U, Positions

LEMMA RoomItems ==
  /\ SeedRooms \in Seq(Items) /\ Len(SeedRooms) = R
  /\ \A i \in 1..R : SeedRooms[i] = Item("room", DemoRooms[i])
BY DemoDataAssumption, Listing DEF SeedRooms, Kinds, R, Positions

LEMMA FlushItems ==
  /\ FlushDemo \in Seq(Items) /\ Len(FlushDemo) = 3
  /\ FlushDemo[1] = Item("delete", "messages")
  /\ FlushDemo[2] = Item("delete", "rooms")
  /\ FlushDemo[3] = Item("delete", "users")
BY DEF FlushDemo, Items, Item, Kinds

LEMMA MessageItems ==
  /\ SeedMessages \in Seq(Items) /\ Len(SeedMessages) = 2 + R
  /\ SeedMessages[1] = Item("delete", "messages")
  /\ SeedMessages[2] = Item("senders", "")
  /\ \A i \in 1..R : SeedMessages[2 + i] = Item("batch", DemoRooms[i])
<1> DEFINE head == <<Item("delete", "messages"), Item("senders", "")>>
           tail == [i \in Positions(DemoRooms) |-> Item("batch", DemoRooms[i])]
<1>1. /\ head \in Seq(Items) /\ Len(head) = 2
      /\ head[1] = Item("delete", "messages") /\ head[2] = Item("senders", "")
  BY DEF Item, Items, Kinds
<1>2. /\ tail \in Seq(Items) /\ Len(tail) = R
      /\ \A i \in 1..R : tail[i] = Item("batch", DemoRooms[i])
  BY DemoDataAssumption, Listing DEF Kinds, R, Positions
<1>3. SeedMessages = head \o tail
  BY DEF SeedMessages
<1> HIDE DEF head, tail
<1>4. /\ SeedMessages \in Seq(Items) /\ Len(SeedMessages) = 2 + R
      /\ \A i \in 1..2 : SeedMessages[i] = head[i]
      /\ \A i \in 1..R : SeedMessages[2 + i] = tail[i]
  <2>1. /\ head \o tail \in Seq(Items) /\ Len(head \o tail) = Len(head) + Len(tail)
        /\ \A i \in 1..Len(head) : (head \o tail)[i] = head[i]
        /\ \A i \in 1..Len(tail) : (head \o tail)[Len(head) + i] = tail[i]
    BY <1>1, <1>2, Joined
  <2> QED BY <1>1, <1>2, <1>3, <2>1
<1>5. 1 \in 1..2 /\ 2 \in 1..2
  OBVIOUS
<1>6. SeedMessages[1] = head[1] /\ SeedMessages[2] = head[2]
  BY <1>4, <1>5
<1> QED BY <1>1, <1>2, <1>4, <1>6

LEMMA AllItems ==
  /\ SeedAll \in Seq(Items) /\ Len(SeedAll) = U + R + (2 + R)
  /\ \A i \in 1..U : SeedAll[i] = Item("user", DemoUsers[i])
  /\ \A i \in 1..R : SeedAll[U + i] = Item("room", DemoRooms[i])
  /\ \A i \in 1..(2 + R) : SeedAll[(U + R) + i] = SeedMessages[i]
<1> DEFINE first == SeedUsers \o SeedRooms
<1>1. /\ first \in Seq(Items) /\ Len(first) = U + R
      /\ \A i \in 1..U : first[i] = SeedUsers[i]
      /\ \A i \in 1..R : first[U + i] = SeedRooms[i]
  BY UserItems, RoomItems, Joined
<1>2. SeedAll = first \o SeedMessages
  BY DEF SeedAll
<1> HIDE DEF first
<1>3. /\ SeedAll \in Seq(Items) /\ Len(SeedAll) = Len(first) + Len(SeedMessages)
      /\ \A i \in 1..Len(first) : SeedAll[i] = first[i]
      /\ \A i \in 1..Len(SeedMessages) : SeedAll[Len(first) + i] = SeedMessages[i]
  BY <1>1, <1>2, MessageItems, Joined
<1>4. \A i \in 1..(U + R) : SeedAll[i] = first[i]
  BY <1>1, <1>3
<1>5. \A i \in 1..U : i \in 1..(U + R)
  BY Lengths
<1>6. \A i \in 1..R : U + i \in 1..(U + R)
  BY Lengths
<1> QED BY <1>1, <1>3, <1>4, <1>5, <1>6, MessageItems, UserItems, RoomItems

\* What the items of a seeding command are: u accounts, r rooms and then,
\* perhaps, a delete(), the query for the senders and a batch for each room.
Plan(seq, u, r) ==
  /\ seq \in Seq(Items) /\ Len(seq) >= 1
  /\ u \in {0, U} /\ r \in {0, R} /\ Len(seq) \in {u + r, u + r + (2 + R)}
  /\ \A i \in 1..Len(seq) :
       \/ i \in 1..u /\ seq[i] = Item("user", DemoUsers[i])
       \/ \E k \in 1..r : i = u + k /\ seq[i] = Item("room", DemoRooms[k])
       \/ i = u + r + 1 /\ seq[i] = Item("delete", "messages")
       \/ i = u + r + 2 /\ seq[i] = Item("senders", "")
       \/ \E k \in 1..R : i = u + r + 2 + k /\ seq[i] = Item("batch", DemoRooms[k])

LEMMA Plans ==
  /\ Plan(SeedUsers, U, 0)
  /\ Plan(SeedRooms, 0, R)
  /\ Plan(SeedMessages, 0, 0)
  /\ Plan(SeedAll, U, R)
<1>0. U \in Nat \ {0} /\ R \in Nat \ {0}
  BY Lengths
<1>1. Plan(SeedUsers, U, 0)
  <2>1. /\ SeedUsers \in Seq(Items) /\ Len(SeedUsers) >= 1
        /\ Len(SeedUsers) \in {U + 0, U + 0 + (2 + R)}
    BY <1>0, UserItems
  <2>2. \A i \in 1..Len(SeedUsers) : i \in 1..U /\ SeedUsers[i] = Item("user", DemoUsers[i])
    BY UserItems
  <2> QED BY <2>1, <2>2 DEF Plan
<1>2. Plan(SeedRooms, 0, R)
  <2>1. /\ SeedRooms \in Seq(Items) /\ Len(SeedRooms) >= 1
        /\ Len(SeedRooms) \in {0 + R, 0 + R + (2 + R)}
    BY <1>0, RoomItems
  <2>2. \A i \in 1..Len(SeedRooms) :
          i \in 1..R /\ i = 0 + i /\ SeedRooms[i] = Item("room", DemoRooms[i])
    BY <1>0, RoomItems
  <2> QED BY <2>1, <2>2 DEF Plan
<1>3. ASSUME NEW i \in 1..(2 + R)
      PROVE  \/ i = 1 /\ SeedMessages[i] = Item("delete", "messages")
             \/ i = 2 /\ SeedMessages[i] = Item("senders", "")
             \/ \E k \in 1..R : i = 2 + k /\ SeedMessages[i] = Item("batch", DemoRooms[k])
  <2>1. CASE i \in 1..2
    <3>1. i = 1 \/ i = 2
      BY <2>1
    <3> QED BY <3>1, MessageItems
  <2>2. CASE i > 2
    <3>1. i - 2 \in 1..R /\ 2 + (i - 2) = i
      BY <1>0, <2>2
    <3>2. SeedMessages[2 + (i - 2)] = Item("batch", DemoRooms[i - 2])
      BY <3>1, MessageItems
    <3> QED BY <3>1, <3>2
  <2>3. i \in 1..2 \/ i > 2
    BY <1>0
  <2> QED BY <2>1, <2>2, <2>3
<1>4. Plan(SeedMessages, 0, 0)
  <2>1. SeedMessages \in Seq(Items) /\ Len(SeedMessages) = 2 + R
    BY MessageItems
  <2>2. 2 + R >= 1 /\ 2 + R = 0 + 0 + (2 + R)
    BY <1>0
  <2>3. 0 + 0 + 1 = 1 /\ 0 + 0 + 2 = 2
    OBVIOUS
  <2> QED BY <1>3, <2>1, <2>2, <2>3 DEF Plan
<1>5. ASSUME NEW i \in 1..(U + R + (2 + R))
      PROVE  \/ i \in 1..U /\ SeedAll[i] = Item("user", DemoUsers[i])
             \/ \E k \in 1..R : i = U + k /\ SeedAll[i] = Item("room", DemoRooms[k])
             \/ i = U + R + 1 /\ SeedAll[i] = Item("delete", "messages")
             \/ i = U + R + 2 /\ SeedAll[i] = Item("senders", "")
             \/ \E k \in 1..R : i = U + R + 2 + k /\ SeedAll[i] = Item("batch", DemoRooms[k])
  <2>1. CASE i \in 1..U
    BY <2>1, AllItems
  <2>2. CASE i > U /\ i <= U + R
    <3>1. i - U \in 1..R /\ U + (i - U) = i
      BY <1>0, <2>2
    <3>2. SeedAll[U + (i - U)] = Item("room", DemoRooms[i - U])
      BY <3>1, AllItems
    <3> QED BY <3>1, <3>2
  <2>3. CASE i > U + R
    <3>1. PICK k \in 1..(2 + R) : i = (U + R) + k
      <4>1. i - (U + R) \in 1..(2 + R) /\ i = (U + R) + (i - (U + R))
        BY <1>0, <2>3
      <4> QED BY <4>1
    <3>2. SeedAll[i] = SeedMessages[k]
      BY <3>1, AllItems
    <3>3. /\ k = 1 => i = U + R + 1
          /\ k = 2 => i = U + R + 2
          /\ \A j \in 1..R : k = 2 + j => i = U + R + 2 + j
      BY <1>0, <3>1
    <3> QED BY <1>3, <3>1, <3>2, <3>3
  <2>4. i \in 1..U \/ (i > U /\ i <= U + R) \/ i > U + R
    BY <1>0
  <2> QED BY <2>1, <2>2, <2>3, <2>4
<1>6. Plan(SeedAll, U, R)
  <2>1. /\ SeedAll \in Seq(Items) /\ Len(SeedAll) >= 1
        /\ Len(SeedAll) \in {U + R, U + R + (2 + R)} /\ Len(SeedAll) = U + R + (2 + R)
    BY <1>0, AllItems
  <2> QED BY <1>5, <2>1 DEF Plan
<1> QED BY <1>1, <1>2, <1>4, <1>6
(***************************************************************************)
(* What the invariant needs to know of the work of a command.              *)
(***************************************************************************)
ItemFits(item) ==
  /\ item = Item(item.do, item.name) /\ item.do \in Kinds
  /\ item.do = "user" => IsDemoUser(item.name) /\ item.name \in Names
  /\ item.do \in {"room", "batch"} => IsDemoRoom(item.name) /\ item.name \in Names
  /\ item.do = "delete" => item.name \in {"messages", "rooms", "users"}

\* No item comes twice; the messages are deleted before all that may follow;
\* a batch follows on another one or on the query for the senders.
Ordered(seq) ==
  /\ \A i, j \in 1..Len(seq) : seq[i] = seq[j] => i = j
  /\ \A i, j \in 1..Len(seq) :
       seq[i] = Item("delete", "messages") /\ seq[j].do \in {"delete", "senders", "batch"} => i <= j
  /\ \A j \in 1..Len(seq) :
       seq[j].do = "batch" => j > 1 /\ seq[j - 1].do \in {"senders", "batch"}

LEMMA DemoNames ==
  /\ \A i \in 1..U : IsDemoUser(DemoUsers[i]) /\ DemoUsers[i] \in Names
  /\ \A i \in 1..R : IsDemoRoom(DemoRooms[i]) /\ DemoRooms[i] \in Names
  /\ \A i, j \in 1..U : DemoUsers[i] = DemoUsers[j] => i = j
  /\ \A i, j \in 1..R : DemoRooms[i] = DemoRooms[j] => i = j
BY DemoDataAssumption DEF U, R, IsDemoUser, IsDemoRoom, Positions

LEMMA PlanFacts ==
  ASSUME NEW seq, NEW u, NEW r, Plan(seq, u, r)
  PROVE  (\A i \in 1..Len(seq) : ItemFits(seq[i])) /\ Ordered(seq)
<1>0. U \in Nat /\ R \in Nat /\ u \in Nat /\ r \in Nat /\ u <= U /\ r <= R /\ Len(seq) \in Nat
  <2>1. U \in Nat /\ R \in Nat
    BY Lengths
  <2>2. u \in {0, U} /\ r \in {0, R} /\ seq \in Seq(Items)
    BY DEF Plan
  <2> QED BY <2>1, <2>2
<1>1. ASSUME NEW i \in 1..Len(seq)
      PROVE  /\ seq[i] = Item(seq[i].do, seq[i].name) /\ seq[i].do \in Kinds
             /\ seq[i].do = "user" => i \in 1..u /\ seq[i].name = DemoUsers[i]
             /\ seq[i].do = "room" =>
                  \E k \in 1..r : i = u + k /\ seq[i].name = DemoRooms[k]
             /\ seq[i].do = "delete" => i = u + r + 1 /\ seq[i].name = "messages"
             /\ seq[i].do = "senders" => i = u + r + 2
             /\ seq[i].do = "batch" =>
                  \E k \in 1..R : i = u + r + 2 + k /\ seq[i].name = DemoRooms[k]
  <2>1. \/ i \in 1..u /\ seq[i] = Item("user", DemoUsers[i])
        \/ \E k \in 1..r : i = u + k /\ seq[i] = Item("room", DemoRooms[k])
        \/ i = u + r + 1 /\ seq[i] = Item("delete", "messages")
        \/ i = u + r + 2 /\ seq[i] = Item("senders", "")
        \/ \E k \in 1..R : i = u + r + 2 + k /\ seq[i] = Item("batch", DemoRooms[k])
    BY DEF Plan
  <2>0. \A do, name : Item(do, name).do = do /\ Item(do, name).name = name
    BY DEF Item
  <2>2. CASE \E k \in 1..r : i = u + k /\ seq[i] = Item("room", DemoRooms[k])
    <3>1. PICK k \in 1..r : i = u + k /\ seq[i] = Item("room", DemoRooms[k])
      BY <2>2
    <3>2. seq[i].do = "room" /\ seq[i].name = DemoRooms[k]
      BY <2>0, <3>1
    <3> QED BY <3>1, <3>2 DEF Kinds
  <2>3. CASE \E k \in 1..R : i = u + r + 2 + k /\ seq[i] = Item("batch", DemoRooms[k])
    <3>1. PICK k \in 1..R : i = u + r + 2 + k /\ seq[i] = Item("batch", DemoRooms[k])
      BY <2>3
    <3>2. seq[i].do = "batch" /\ seq[i].name = DemoRooms[k]
      BY <2>0, <3>1
    <3> QED BY <3>1, <3>2 DEF Kinds
  <2>4. CASE i \in 1..u /\ seq[i] = Item("user", DemoUsers[i])
    BY <2>4 DEF Item, Kinds
  <2>5. CASE i = u + r + 1 /\ seq[i] = Item("delete", "messages")
    BY <2>5 DEF Item, Kinds
  <2>6. CASE i = u + r + 2 /\ seq[i] = Item("senders", "")
    <3>1. seq[i].do = "senders" /\ seq[i].name = ""
      BY <2>0, <2>6
    <3> QED BY <2>6, <3>1 DEF Kinds
  <2> QED BY <2>1, <2>2, <2>3, <2>4, <2>5, <2>6
<1>2. ASSUME NEW i \in 1..Len(seq) PROVE ItemFits(seq[i])
  <2>1. \A k \in 1..u : k \in 1..U
    BY <1>0
  <2>2. \A k \in 1..r : k \in 1..R
    BY <1>0
  <2> QED BY <1>1, <2>1, <2>2, DemoNames DEF ItemFits, Kinds
<1>3. ASSUME NEW i \in 1..Len(seq), NEW j \in 1..Len(seq), seq[i] = seq[j] PROVE i = j
  <2>1. CASE seq[i].do \in {"user", "delete", "senders"}
    <3>1. \A k \in 1..u : k \in 1..U
      BY <1>0
    <3> QED BY <1>1, <1>3, <2>1, <3>1, DemoNames
  <2>2. CASE seq[i].do = "room"
    <3>1. \A k \in 1..r : k \in 1..R
      BY <1>0
    <3> QED BY <1>1, <1>3, <2>2, <3>1, DemoNames
  <2>3. CASE seq[i].do = "batch"
    BY <1>1, <1>3, <2>3, DemoNames
  <2> QED BY <1>1, <2>1, <2>2, <2>3 DEF Kinds
<1>4. ASSUME NEW i \in 1..Len(seq), NEW j \in 1..Len(seq), seq[i] = Item("delete", "messages"),
             seq[j].do \in {"delete", "senders", "batch"}
      PROVE  i <= j
  <2>1. i = u + r + 1
    BY <1>1, <1>4 DEF Item
  <2> QED BY <1>0, <1>1, <1>4, <2>1
<1>5. ASSUME NEW j \in 1..Len(seq), seq[j].do = "batch"
      PROVE  j > 1 /\ seq[j - 1].do \in {"senders", "batch"}
  <2>1. j > u + r + 2
    BY <1>0, <1>1, <1>5
  <2>2. j - 1 \in 1..Len(seq) /\ j > 1 /\ j - 1 > u + r + 1
    BY <1>0, <2>1
  <2>3. \A k \in 1..u : j - 1 # k
    BY <1>0, <2>2
  <2>4. \A k \in 1..r : j - 1 # u + k
    BY <1>0, <2>2
  <2>5. j - 1 # u + r + 1
    BY <1>0, <2>2
  <2> QED BY <1>1, <2>2, <2>3, <2>4, <2>5 DEF Kinds
<1> QED BY <1>2, <1>3, <1>4, <1>5 DEF Ordered

LEMMA FlushFacts == (\A i \in 1..Len(FlushDemo) : ItemFits(FlushDemo[i])) /\ Ordered(FlushDemo)
<1>1. \A i \in 1..Len(FlushDemo) :
        \/ i = 1 /\ FlushDemo[i] = Item("delete", "messages")
        \/ i = 2 /\ FlushDemo[i] = Item("delete", "rooms")
        \/ i = 3 /\ FlushDemo[i] = Item("delete", "users")
  <2>1. \A i \in 1..Len(FlushDemo) : i = 1 \/ i = 2 \/ i = 3
    BY FlushItems
  <2> QED BY <2>1, FlushItems
<1> HIDE DEF FlushDemo
<1> QED BY <1>1 DEF ItemFits, Ordered, Item, Kinds

LEMMA WorkFacts ==
  ASSUME NEW p \in Programs
  PROVE  /\ Work(p) \in Seq(Items) /\ Len(Work(p)) \in Nat \ {0}
         /\ Positions(Work(p)) = 1..Len(Work(p))
         /\ \A i \in Positions(Work(p)) : ItemFits(Work(p)[i])
         /\ Ordered(Work(p))
<1>1. Work(p) \in {SeedUsers, SeedRooms, SeedMessages, SeedAll, FlushDemo}
  BY DemoDataAssumption DEF Work, Commands
<1>2. \A seq, u, r : Plan(seq, u, r) => seq \in Seq(Items) /\ Len(seq) \in Nat \ {0}
  <2>1. \A seq \in Seq(Items) : Len(seq) >= 1 => Len(seq) \in Nat \ {0}
    OBVIOUS
  <2> QED BY <2>1 DEF Plan
<1>3. \A seq, u, r : Plan(seq, u, r) =>
        (\A i \in 1..Len(seq) : ItemFits(seq[i])) /\ Ordered(seq)
  BY PlanFacts
<1>4. \/ Work(p) = FlushDemo
      \/ \E u, r : Plan(Work(p), u, r)
  BY <1>1, Plans, Zenon
<1>5. CASE Work(p) = FlushDemo
  BY <1>5, FlushItems, FlushFacts DEF Positions
<1>6. CASE \E u, r : Plan(Work(p), u, r)
  BY <1>2, <1>3, <1>6 DEF Positions
<1> QED BY <1>4, <1>5, <1>6

LEMMA SeedAllFacts ==
  ASSUME NEW p \in Programs, Command[p] = "seed_all"
  PROVE  /\ \A k \in Positions(DemoRooms) : \E j \in Positions(Work(p)) :
              Work(p)[j] = Item("batch", DemoRooms[k])
         /\ \A j \in Positions(Work(p)) : Work(p)[j].do = "batch" =>
              \E i \in Positions(Work(p)) : i < j /\ Work(p)[i] = Item("room", Work(p)[j].name)
         /\ Work(p)[1] = Item("user", DemoUsers[1])
         /\ Work(p)[1].do # "senders" /\ 1 \in Positions(Work(p))
<1>0. U \in Nat \ {0} /\ R \in Nat \ {0} /\ Positions(DemoRooms) = 1..R
  BY Lengths
<1>1. Work(p) = SeedAll
  BY DEF Work
<1>2. Positions(SeedAll) = 1..(U + R + (2 + R))
  BY AllItems DEF Positions
<1>3. ASSUME NEW k \in 1..R
      PROVE  /\ (U + R) + (2 + k) \in Positions(SeedAll)
             /\ SeedAll[(U + R) + (2 + k)] = Item("batch", DemoRooms[k])
  <2>1. 2 + k \in 1..(2 + R) /\ (U + R) + (2 + k) \in 1..(U + R + (2 + R))
    BY <1>0
  <2>2. SeedAll[(U + R) + (2 + k)] = SeedMessages[2 + k]
    BY <2>1, AllItems
  <2> QED BY <1>2, <2>1, <2>2, MessageItems
<1>4. ASSUME NEW j \in Positions(SeedAll), SeedAll[j].do = "batch"
      PROVE  \E i \in Positions(SeedAll) : i < j /\ SeedAll[i] = Item("room", SeedAll[j].name)
  <2>1. PICK k \in 1..R : j = U + R + 2 + k /\ SeedAll[j] = Item("batch", DemoRooms[k])
    <3>1. \/ j \in 1..U /\ SeedAll[j] = Item("user", DemoUsers[j])
          \/ \E k \in 1..R : j = U + k /\ SeedAll[j] = Item("room", DemoRooms[k])
          \/ j = U + R + 1 /\ SeedAll[j] = Item("delete", "messages")
          \/ j = U + R + 2 /\ SeedAll[j] = Item("senders", "")
          \/ \E k \in 1..R : j = U + R + 2 + k /\ SeedAll[j] = Item("batch", DemoRooms[k])
      BY Plans DEF Plan, Positions
    <3>2. \A item, do, name : item = Item(do, name) => item.do = do
      BY DEF Item
    <3>3. /\ SeedAll[j] # Item("user", DemoUsers[j])
          /\ \A k \in 1..R : SeedAll[j] # Item("room", DemoRooms[k])
          /\ SeedAll[j] # Item("delete", "messages")
          /\ SeedAll[j] # Item("senders", "")
      BY <1>4, <3>2, Zenon
    <3> QED BY <3>1, <3>3, Zenon
  <2>2. SeedAll[U + k] = Item("room", DemoRooms[k])
    BY AllItems
  <2>3. U + k \in Positions(SeedAll) /\ U + k < j
    BY <1>0, <1>2, <2>1
  <2>4. SeedAll[j].name = DemoRooms[k]
    BY <2>1 DEF Item
  <2> QED BY <2>2, <2>3, <2>4
<1>5. SeedAll[1] = Item("user", DemoUsers[1]) /\ 1 \in Positions(SeedAll)
  <2>1. 1 \in 1..U /\ 1 \in 1..(U + R + (2 + R))
    BY <1>0
  <2> QED BY <1>2, <2>1, AllItems
<1>6. SeedAll[1].do # "senders"
  BY <1>5 DEF Item
<1> QED BY <1>0, <1>1, <1>3, <1>4, <1>5, <1>6

(***************************************************************************)
(* How a command goes on.                                                  *)
(***************************************************************************)
Cur(p) == Work(p)[at[p]]

LEMMA CurFits ==
  ASSUME NEW p \in Programs, Fits(p)
  PROVE  /\ at[p] \in 1..Len(Work(p)) /\ Len(Work(p)) \in Nat \ {0}
         /\ Cur(p) \in Items /\ ItemFits(Cur(p))
<1>1. at[p] \in Positions(Work(p)) /\ Work(p) \in Seq(Items)
  BY WorkFacts DEF Fits
<1>2. Cur(p) \in Items
  BY <1>1 DEF Cur, Positions
<1> QED BY <1>1, <1>2, WorkFacts DEF Cur

LEMMA Goes ==
  ASSUME TypeOK, NEW p \in Programs, NEW to, Goto(p, to)
  PROVE  /\ pc'[p] = to /\ at' = at
         /\ \A q \in Programs \ {p} : pc'[q] = pc[q]
BY DEF TypeOK, Goto

LEMMA Advances ==
  ASSUME TypeOK, NEW p \in Programs, Fits(p), Advance(p)
  PROVE  /\ \A q \in Programs \ {p} : pc'[q] = pc[q] /\ at'[q] = at[q]
         /\ \/ at[p] = Len(Work(p)) /\ pc'[p] = "done" /\ at'[p] = at[p]
            \/ at[p] < Len(Work(p)) /\ pc'[p] = "start" /\ at'[p] = at[p] + 1
         /\ at'[p] \in 1..Len(Work(p))
<1>1. at[p] \in 1..Len(Work(p)) /\ Len(Work(p)) \in Nat
  BY CurFits
<1>2. CASE at[p] = Len(Work(p))
  BY <1>1, <1>2 DEF TypeOK, Advance, Goto
<1>3. CASE at[p] # Len(Work(p))
  BY <1>1, <1>3 DEF TypeOK, Advance
<1> QED BY <1>2, <1>3

\* One command moves at a time, forwards.
LEMMA Moves ==
  ASSUME TypeOK, NEW p \in Programs, Fits(p), Run(p) \/ Kill(p)
  PROVE  /\ \A q \in Programs \ {p} : pc'[q] = pc[q] /\ at'[q] = at[q]
         /\ \/ at[p] < Len(Work(p)) /\ pc'[p] = "start" /\ at'[p] = at[p] + 1
            \/ /\ at'[p] = at[p]
               /\ pc'[p] \in {"insert", "again", "password", "delete", "batch"} \cup Ended
               /\ pc'[p] \in {"insert", "batch"} => pc[p] = "start"
<1>1. \A to : Goto(p, to) =>
        pc'[p] = to /\ at' = at /\ \A q \in Programs \ {p} : pc'[q] = pc[q]
  BY Goes
<1>2. Advance(p) =>
        /\ \A q \in Programs \ {p} : pc'[q] = pc[q] /\ at'[q] = at[q]
        /\ \/ at[p] = Len(Work(p)) /\ pc'[p] = "done" /\ at'[p] = at[p]
           \/ at[p] < Len(Work(p)) /\ pc'[p] = "start" /\ at'[p] = at[p] + 1
  BY Advances
<1>3. \/ Advance(p)
      \/ \E to \in {"again", "password", "delete"} \cup Ended : Goto(p, to)
      \/ \E to \in {"insert", "batch"} : Goto(p, to) /\ pc[p] = "start"
  BY DEF Run, Get, Insert, GetAgain, SavePassword, Collect, Delete, ReadSenders, ReadRoom,
     CreateBatch, Kill, Ended, At
<1> QED BY <1>1, <1>2, <1>3 DEF Ended

(***************************************************************************)
(* Types.                                                                  *)
(***************************************************************************)
LEMMA RowTypes ==
  TypeOK => /\ DemoRows \in Selection
            /\ \A p \in Programs : Targets(p) \in Selection
BY DEF TypeOK, DemoRows, Targets, Rows, Selection, InDemoRooms

LEMMA NoRowTypes ==
  NoRows \in Selection /\ NoRow \in Row
BY DEF NoRows, NoRow, Selection, Row

LEMMA MessageTypes ==
  ASSUME TypeOK, NEW p \in Programs, Fits(p), pc[p] = "batch", NEW i \in 1..PerRoom
  PROVE  /\ Message(p, i) \in Posts
         /\ Message(p, i).by = p /\ Message(p, i).n = i /\ Message(p, i).room = room[p]
         /\ IsDemoUser(Message(p, i).sender.name)
<1>1. senders[p] \in Seq(Row) /\ senders[p] # <<>>
  BY DEF TypeOK, Fits
<1>2. Len(senders[p]) \in Nat \ {0} /\ i \in Nat \ {0}
  BY <1>1, DemoDataAssumption
<1>3. ((i - 1) % Len(senders[p])) + 1 \in 1..Len(senders[p])
  <2>1. \A n \in Nat, d \in Nat \ {0} : n % d \in 0..(d - 1)
    OBVIOUS
  <2>2. i - 1 \in Nat
    BY <1>2
  <2>3. (i - 1) % Len(senders[p]) \in 0..(Len(senders[p]) - 1)
    BY <1>2, <2>1, <2>2
  <2>4. \A n : n \in 0..(Len(senders[p]) - 1) => n + 1 \in 1..Len(senders[p])
    BY <1>2
  <2> QED BY <2>3, <2>4, Zenon
<1>4. /\ senders[p][((i - 1) % Len(senders[p])) + 1] \in Row
      /\ IsDemoUser(senders[p][((i - 1) % Len(senders[p])) + 1].name)
  BY <1>1, <1>3 DEF Fits, Positions
<1>5. room[p] \in Row /\ i \in Nat
  BY <1>2 DEF TypeOK
<1> QED BY <1>4, <1>5 DEF Message, Posts

LEMMA InitInv == Init => IInv
<1> SUFFICES ASSUME Init PROVE IInv
  OBVIOUS
<1> USE DEF Init
<1>1. TypeOK
  <2>1. users \subseteq Row /\ rooms \subseteq Row
    BY DemoDataAssumption DEF Row
  <2>2. IsFiniteSet(users)
    <3> DEFINE f == [n \in RealUsers |-> [name |-> n, by |-> Real]]
    <3>1. f \in Surjection(RealUsers, users)
      BY DEF Surjection
    <3> HIDE DEF f, Init
    <3>2. IsFiniteSet(RealUsers)
      BY DemoDataAssumption
    <3> QED BY <3>1, <3>2, FS_Surjection, Zenon
  <2>3. pc \in [Programs -> {"start", "insert", "again", "password", "delete", "batch"} \cup Ended]
    OBVIOUS
  <2>4. /\ at \in [Programs -> Nat] /\ senders \in [Programs -> Seq(Row)]
        /\ messages \subseteq Posts /\ disturbed \subseteq Programs
    OBVIOUS
  <2>5. /\ room \in [Programs -> Row]
        /\ doomed \in [Programs -> Selection] /\ old \in [Programs -> Selection]
    BY NoRowTypes
  <2>6. seat \in [Writers -> [step : {"away", "open", "left"}, user : Row, room : Row]]
    BY NoRowTypes DEF Seat
  <2> QED BY <2>1, <2>2, <2>3, <2>4, <2>5, <2>6 DEF TypeOK
<1>2. \A p \in Programs : Fits(p) /\ HoldsDemoRows(p) /\ OldRowsAreOut(p)
  <2> SUFFICES ASSUME NEW p \in Programs PROVE Fits(p) /\ HoldsDemoRows(p) /\ OldRowsAreOut(p)
    OBVIOUS
  <2>1. 1 \in Positions(Work(p)) /\ Work(p)[1].do # "batch"
    BY WorkFacts DEF Ordered
  <2>2. Fits(p)
    BY <2>1 DEF Fits, Positions
  <2> QED BY <2>2, WorkFacts DEF HoldsDemoRows, OldRowsAreOut, NoRows, Deletes, Finished, Cleared
<1>3. RowsHaveMakers
  BY DemoDataAssumption DEF RowsHaveMakers, MadeBy, NoRows
<1>4. BatchesAreDoomedWhole /\ BatchesAreWhole
  BY DEF BatchesAreDoomedWhole, BatchesAreWhole, NoRows
<1>5. UndisturbedWorkStands
  BY WorkFacts DEF UndisturbedWorkStands, Done
<1> QED BY <1>1, <1>2, <1>3, <1>4, <1>5 DEF IInv

(***************************************************************************)
(* What a step of a command changes.                                       *)
(***************************************************************************)
NewRow(p) == [name |-> Cur(p).name, by |-> p]
RowsStay == users' = users /\ rooms' = rooms /\ messages' = messages
AddsUser(p) ==
  /\ pc[p] = "insert" /\ Cur(p).do = "user"
  /\ users' = users \cup {NewRow(p)} /\ rooms' = rooms /\ messages' = messages
  /\ pc'[p] = "password" /\ at' = at
AddsRoom(p) ==
  /\ pc[p] = "insert" /\ Cur(p).do = "room" /\ Advance(p)
  /\ users' = users /\ rooms' = rooms \cup {NewRow(p)} /\ messages' = messages
AddsBatch(p) ==
  /\ pc[p] = "batch" /\ Advance(p) /\ CreateBatch(p) /\ (\A m \in Batch(p) : Refers(m))
  /\ users' = users /\ rooms' = rooms /\ messages' = messages \cup Batch(p)
Deleted(p) == pc[p] = "delete" /\ Advance(p) /\ Remove(p) /\ Delete(p)

LEMMA RowSteps ==
  ASSUME TypeOK, NEW p \in Programs, Fits(p), Run(p) \/ Kill(p)
  PROVE  \/ Deleted(p)
         \/ /\ disturbed' = disturbed
            /\ RowsStay \/ AddsUser(p) \/ AddsRoom(p) \/ AddsBatch(p)
<1>1. CASE Insert(p)
  <2>1. Cur(p).do \in {"user", "room"}
    BY <1>1 DEF Insert, Fits, Cur
  <2>2. \A to : Goto(p, to) => pc'[p] = to /\ at' = at
    BY Goes
  <2> QED BY <1>1, <2>1, <2>2 DEF Insert, RowsStay, AddsUser, AddsRoom, NewRow, Cur, Name
<1>2. CASE Delete(p)
  BY <1>2 DEF Delete, Deleted, RowsStay, rowVars
<1>3. CASE CreateBatch(p)
  BY <1>3 DEF CreateBatch, AddsBatch, RowsStay
<1>4. CASE Get(p) \/ GetAgain(p) \/ SavePassword(p) \/ Collect(p) \/ ReadSenders(p) \/ ReadRoom(p) \/ Kill(p)
  BY <1>4 DEF Get, GetAgain, SavePassword, Collect, ReadSenders, ReadRoom, Kill, rowVars, RowsStay
<1> QED BY <1>1, <1>2, <1>3, <1>4 DEF Run

LEMMA Frame ==
  ASSUME TypeOK, NEW p \in Programs, Run(p) \/ Kill(p)
  PROVE  /\ seat' = seat
         /\ \A q \in Programs \ {p} :
              /\ senders'[q] = senders[q] /\ room'[q] = room[q]
              /\ doomed'[q] = doomed[q] /\ old'[q] = old[q]
BY DEF TypeOK, Run, Get, Insert, GetAgain, SavePassword, Collect, Delete, ReadSenders, ReadRoom,
       CreateBatch, Kill, workVars

\* What is known of a row stays true.
LEMMA PastStays ==
  ASSUME TypeOK, NEW p \in Programs, Fits(p), Run(p) \/ Kill(p),
         NEW q \in Programs, NEW j \in Nat, Past(q, j)
  PROVE  Past(q, j)'
<1>1. at[q] \in Nat
  BY DEF TypeOK
<1>2. CASE q # p
  BY <1>2, Moves DEF Past
<1>3. CASE q = p /\ at'[p] = at[p] + 1
  BY <1>1, <1>3 DEF Past
<1>4. CASE q = p /\ at'[p] = at[p] /\ pc'[p] \notin {"start", "insert", "batch"}
  BY <1>4 DEF Past
<1>5. CASE q = p /\ at'[p] = at[p] /\ pc[p] = "start"
  BY <1>5 DEF Past
<1> QED BY <1>2, <1>3, <1>4, <1>5, Moves DEF Ended

LEMMA MakersStay ==
  ASSUME TypeOK, NEW p \in Programs, Fits(p), Run(p) \/ Kill(p)
  PROVE  /\ \A row, kind : MadeBy(row, kind) => MadeBy(row, kind)'
         /\ \A m : SentBy(m) => SentBy(m)'
<1>1. \A q \in Programs, j \in Nat : Past(q, j) => Past(q, j)'
  BY PastStays
<1>2. seat' = seat
  BY Frame
<1>3. \A q \in Programs : Positions(Work(q)) \subseteq Nat
  BY WorkFacts
<1>4. ASSUME NEW row, NEW kind, MadeBy(row, kind) PROVE MadeBy(row, kind)'
  BY <1>1, <1>3, <1>4 DEF MadeBy
<1>5. ASSUME NEW m, SentBy(m) PROVE SentBy(m)'
  BY <1>1, <1>2, <1>3, <1>5 DEF SentBy
<1> QED BY <1>4, <1>5

\* What p makes next is not known of yet.
LEMMA NotYetMade ==
  ASSUME NEW p \in Programs, Fits(p)
  PROVE  /\ \A row, kind : MadeBy(row, kind) /\ row.by = p /\ Cur(p) = Item(kind, row.name)
                           => pc[p] # "insert"
         /\ \A m : SentBy(m) /\ m.by = p /\ Cur(p) = Item("batch", m.room.name)
                           => pc[p] # "batch"
<1>1. at[p] \in Positions(Work(p)) /\ Ordered(Work(p)) /\ Positions(Work(p)) = 1..Len(Work(p))
  BY WorkFacts DEF Fits
<1>2. \A j \in Positions(Work(p)) : Work(p)[j] = Cur(p) => j = at[p]
  BY <1>1 DEF Cur, Ordered
<1>3. Past(p, at[p]) => pc[p] \notin {"insert", "batch"}
  BY <1>1 DEF Past, Positions
<1> QED BY <1>2, <1>3 DEF MadeBy, SentBy

LEMMA NothingComesBack ==
  ASSUME TypeOK, NEW p \in Programs, Fits(p), Run(p) \/ Kill(p)
  PROVE  /\ \A u : MadeBy(u, "user") /\ u \in users' => u \in users
         /\ \A r : MadeBy(r, "room") /\ r \in rooms' => r \in rooms
         /\ \A m : SentBy(m) /\ m \in messages' => m \in messages
<1>0. Cur(p) = Item(Cur(p).do, Cur(p).name)
  BY CurFits DEF ItemFits
<1>1. CASE RowsStay
  BY <1>1 DEF RowsStay
<1>2. CASE Deleted(p)
  BY <1>2 DEF Deleted, Remove
<1>3. CASE AddsUser(p)
  <2>1. ~MadeBy(NewRow(p), "user")
    <3>1. NewRow(p).by = p /\ Cur(p) = Item("user", NewRow(p).name) /\ pc[p] = "insert"
      BY <1>0, <1>3 DEF AddsUser, NewRow
    <3> QED BY <3>1, NotYetMade, Zenon
  <2> QED BY <1>3, <2>1 DEF AddsUser
<1>4. CASE AddsRoom(p)
  <2>1. ~MadeBy(NewRow(p), "room")
    <3>1. NewRow(p).by = p /\ Cur(p) = Item("room", NewRow(p).name) /\ pc[p] = "insert"
      BY <1>0, <1>4 DEF AddsRoom, NewRow
    <3> QED BY <3>1, NotYetMade, Zenon
  <2> QED BY <1>4, <2>1 DEF AddsRoom
<1>5. CASE AddsBatch(p)
  <2>1. ASSUME NEW m \in Batch(p) PROVE ~SentBy(m)
    <3>1. m.by = p /\ m.room = room[p]
      BY <2>1 DEF Batch, Message
    <3>2. pc[p] = "batch" /\ Cur(p) = Item("batch", room[p].name)
      BY <1>5 DEF AddsBatch, Fits, Cur
    <3> QED BY <3>1, <3>2, NotYetMade
  <2> QED BY <1>5, <2>1 DEF AddsBatch
<1> QED BY <1>1, <1>2, <1>3, <1>4, <1>5, RowSteps

LEMMA HoldSteps ==
  ASSUME TypeOK, NEW p \in Programs, Run(p) \/ Kill(p)
  PROVE  /\ doomed'[p] \in {doomed[p], NoRows} \/ Collect(p)
         /\ old'[p] \in {old[p], NoRows} \/ Collect(p)
         /\ Collect(p) => /\ doomed'[p] = Targets(p)
                          /\ old'[p] = IF Name(p) = "messages" THEN DemoRows ELSE old[p]
                          /\ RowsStay /\ Cur(p).do = "delete" /\ pc[p] = "start"
                          /\ pc'[p] = "delete" /\ at' = at
<1>1. CASE Collect(p)
  <2>1. pc'[p] = "delete" /\ at' = at
    BY <1>1, Goes DEF Collect
  <2> QED BY <1>1, <2>1 DEF TypeOK, Collect, RowsStay, rowVars, Cur, At
<1>2. CASE Run(p) /\ ~Collect(p)
  BY <1>2 DEF TypeOK, Run, Get, Insert, GetAgain, SavePassword, Delete, ReadSenders, ReadRoom,
       CreateBatch, workVars
<1>3. CASE Kill(p) /\ ~Collect(p)
  BY <1>3 DEF TypeOK, Kill
<1> QED BY <1>1, <1>2, <1>3

LEMMA TargetRows ==
  ASSUME NEW p \in Programs
  PROVE  /\ Targets(p).users \subseteq users /\ Targets(p).rooms \subseteq rooms
         /\ Targets(p).messages \subseteq messages
         /\ DemoRows.users \subseteq users /\ DemoRows.rooms \subseteq rooms
         /\ DemoRows.messages \subseteq messages
         /\ \A u \in Targets(p).users : IsDemoUser(u.name)
         /\ \A r \in Targets(p).rooms : IsDemoRoom(r.name)
         /\ \A m \in Targets(p).messages : IsDemoRoom(m.room.name) \/ IsDemoUser(m.sender.name)
         /\ \A u \in DemoRows.users : IsDemoUser(u.name)
         /\ \A r \in DemoRows.rooms : IsDemoRoom(r.name)
BY DEF Targets, DemoRows, Rows, InDemoRooms

LEMMA MakersStep ==
  ASSUME TypeOK, RowsHaveMakers, NEW p \in Programs, Fits(p), Run(p) \/ Kill(p)
  PROVE  RowsHaveMakers'
<1>1. /\ \A row, kind : MadeBy(row, kind) => MadeBy(row, kind)'
      /\ \A m : SentBy(m) => SentBy(m)'
  BY MakersStay
<1>2. at[p] \in Positions(Work(p)) /\ Positions(Work(p)) = 1..Len(Work(p))
  BY WorkFacts DEF Fits
<1>j. PICK j \in Positions(Work(p)) : j = at[p]
  BY <1>2
<1>3. Advance(p) => Past(p, j)'
  <2> SUFFICES ASSUME Advance(p) PROVE Past(p, j)'
    OBVIOUS
  <2>1. \/ pc'[p] = "done" /\ at'[p] = at[p]
        \/ at'[p] = at[p] + 1
    BY Advances
  <2>2. at[p] \in Nat
    BY <1>2
  <2> QED BY <1>j, <2>1, <2>2 DEF Past
<1>4. ItemFits(Cur(p))
  BY CurFits
<1>5. ASSUME NEW u \in users' PROVE MadeBy(u, "user")'
  <2>1. CASE u \in users
    BY <1>1, <2>1 DEF RowsHaveMakers
  <2>2. CASE AddsUser(p) /\ u = NewRow(p)
    <3>1. Past(p, j)'
      BY <1>j, <2>2 DEF AddsUser, Past
    <3>2. u.by = p /\ Work(p)[at[p]] = Item("user", u.name)
      BY <1>4, <2>2 DEF AddsUser, NewRow, ItemFits, Cur
    <3> QED BY <1>j, <3>1, <3>2 DEF MadeBy
  <2> QED BY <2>1, <2>2, RowSteps DEF RowsStay, AddsUser, AddsRoom, AddsBatch, Deleted, Remove
<1>6. ASSUME NEW r \in rooms' PROVE MadeBy(r, "room")'
  <2>1. CASE r \in rooms
    BY <1>1, <2>1 DEF RowsHaveMakers
  <2>2. CASE AddsRoom(p) /\ r = NewRow(p)
    <3>1. Past(p, j)'
      BY <1>3, <2>2 DEF AddsRoom
    <3>2. r.by = p /\ Work(p)[at[p]] = Item("room", r.name)
      BY <1>4, <2>2 DEF AddsRoom, NewRow, ItemFits, Cur
    <3> QED BY <1>j, <3>1, <3>2 DEF MadeBy
  <2> QED BY <2>1, <2>2, RowSteps DEF RowsStay, AddsUser, AddsRoom, AddsBatch, Deleted, Remove
<1>7. ASSUME NEW m \in messages' PROVE SentBy(m)'
  <2>1. CASE m \in messages
    BY <1>1, <2>1 DEF RowsHaveMakers
  <2>2. CASE AddsBatch(p) /\ m \in Batch(p)
    <3>1. Past(p, j)'
      BY <1>3, <2>2 DEF AddsBatch
    <3>2. m.by = p /\ m.room = room[p] /\ IsDemoUser(m.sender.name)
      BY <2>2, MessageTypes DEF Batch, AddsBatch
    <3>3. Cur(p) = Item("batch", room[p].name)
      BY <2>2 DEF AddsBatch, Fits, Cur
    <3>4. IsDemoRoom(m.room.name)
      BY <1>4, <3>2, <3>3 DEF ItemFits, Item
    <3>5. p \notin Writers
      BY DemoDataAssumption
    <3> QED BY <1>j, <3>1, <3>2, <3>3, <3>4, <3>5 DEF SentBy, Cur
  <2> QED BY <2>1, <2>2, RowSteps DEF RowsStay, AddsUser, AddsRoom, AddsBatch, Deleted, Remove
<1>8. ASSUME NEW q \in Programs
      PROVE  /\ \A u \in old'[q].users : MadeBy(u, "user")'
             /\ \A r \in old'[q].rooms : MadeBy(r, "room")'
             /\ \A m \in old'[q].messages \cup doomed'[q].messages : SentBy(m)'
  <2>1. /\ \A u \in old'[q].users : MadeBy(u, "user")
        /\ \A r \in old'[q].rooms : MadeBy(r, "room")
        /\ \A m \in old'[q].messages \cup doomed'[q].messages : SentBy(m)
    <3>1. CASE q # p
      BY <3>1, Frame DEF RowsHaveMakers
    <3>2. CASE q = p /\ ~Collect(p)
      BY <3>2, HoldSteps DEF RowsHaveMakers, NoRows
    <3>3. CASE q = p /\ Collect(p)
      BY <3>3, HoldSteps, TargetRows DEF RowsHaveMakers
    <3> QED BY <3>1, <3>2, <3>3
  <2> QED BY <1>1, <2>1
<1> QED BY <1>5, <1>6, <1>7, <1>8 DEF RowsHaveMakers

LEMMA DoomedWholeStep ==
  ASSUME TypeOK, RowsHaveMakers, BatchesAreDoomedWhole, NEW p \in Programs, Fits(p),
         Run(p) \/ Kill(p)
  PROVE  BatchesAreDoomedWhole'
<1> SUFFICES ASSUME NEW q \in Programs, NEW m \in doomed'[q].messages, NEW other \in messages',
                    m.by \in Programs, other.by = m.by, other.room = m.room
             PROVE  other \in doomed'[q].messages
  BY DEF BatchesAreDoomedWhole
<1>1. CASE q = p /\ Collect(p)
  <2>1. doomed'[p] = Targets(p) /\ messages' = messages
    BY <1>1, HoldSteps DEF RowsStay
  <2>2. SentBy(other)
    BY <2>1 DEF RowsHaveMakers
  <2>3. IsDemoUser(other.sender.name)
    BY <2>2 DEF SentBy
  <2> QED BY <1>1, <2>1, <2>3 DEF Targets, Rows, InDemoRooms
<1>2. CASE ~(q = p /\ Collect(p))
  <2>1. doomed'[q] = doomed[q]
    BY <1>2, Frame, HoldSteps DEF NoRows
  <2>2. SentBy(m)
    BY <2>1 DEF RowsHaveMakers
  <2>3. CASE other \in messages
    BY <2>1, <2>3 DEF BatchesAreDoomedWhole
  <2>4. CASE AddsBatch(p) /\ other \in Batch(p)
    <3>1. m.by = p /\ m.room = room[p]
      BY <2>4 DEF Batch, Message
    <3>2. pc[p] = "batch" /\ Cur(p) = Item("batch", m.room.name)
      BY <2>4, <3>1 DEF AddsBatch, Fits, Cur
    <3> QED BY <2>2, <3>1, <3>2, NotYetMade
  <2> QED BY <2>3, <2>4, RowSteps DEF RowsStay, AddsUser, AddsRoom, AddsBatch, Deleted, Remove
<1> QED BY <1>1, <1>2

LEMMA WholeStep ==
  ASSUME TypeOK, BatchesAreDoomedWhole, BatchesAreWhole, NEW p \in Programs, Fits(p),
         Run(p) \/ Kill(p)
  PROVE  BatchesAreWhole'
<1> SUFFICES ASSUME NEW m \in messages', m.by \in Programs, NEW i \in 1..PerRoom
             PROVE  \E other \in messages' : other.by = m.by /\ other.room = m.room /\ other.n = i
  BY DEF BatchesAreWhole
<1>1. CASE m \in messages
  <2>1. PICK other \in messages : other.by = m.by /\ other.room = m.room /\ other.n = i
    BY <1>1 DEF BatchesAreWhole
  <2>2. CASE Deleted(p)
    <3>1. m \notin doomed[p].messages
      BY <2>2 DEF Deleted, Remove
    <3>2. other \notin doomed[p].messages
      BY <1>1, <2>1, <3>1 DEF BatchesAreDoomedWhole
    <3> QED BY <2>1, <2>2, <3>2 DEF Deleted, Remove
  <2>3. CASE messages \subseteq messages'
    BY <2>1, <2>3
  <2> QED BY <2>2, <2>3, RowSteps DEF RowsStay, AddsUser, AddsRoom, AddsBatch
<1>2. CASE AddsBatch(p) /\ m \in Batch(p)
  <2>1. m.by = p /\ m.room = room[p]
    BY <1>2 DEF Batch, Message
  <2>2. Message(p, i) \in messages'
    BY <1>2 DEF AddsBatch, Batch
  <2> QED BY <2>1, <2>2 DEF Message
<1> QED BY <1>1, <1>2, RowSteps DEF RowsStay, AddsUser, AddsRoom, AddsBatch, Deleted, Remove

LEMMA HoldsStep ==
  ASSUME TypeOK, NEW p \in Programs, Fits(p), Run(p) \/ Kill(p),
         NEW q \in Programs, HoldsDemoRows(q)
  PROVE  HoldsDemoRows(q)'
<1>1. CASE q # p
  <2>1. doomed'[q] = doomed[q] /\ old'[q] = old[q] /\ pc'[q] = pc[q] /\ at'[q] = at[q]
    BY <1>1, Frame, Moves
  <2> QED BY <2>1 DEF HoldsDemoRows, Deletes
<1>2. CASE q = p /\ Collect(p)
  <2>1. /\ doomed'[p] = Targets(p) /\ at' = at
        /\ old'[p] \in {DemoRows, old[p]}
    BY <1>2, HoldSteps
  <2>2. Cur(p) = Item("delete", "messages") => Targets(p).users = {} /\ Targets(p).rooms = {}
    BY DEF Cur, Item, Targets, Name, Rows
  <2> QED BY <1>2, <2>1, <2>2, TargetRows DEF HoldsDemoRows, Deletes, Cur
<1>3. CASE q = p /\ ~Collect(p)
  <2>1. doomed'[p] \in {doomed[p], NoRows} /\ old'[p] \in {old[p], NoRows}
    BY <1>3, HoldSteps
  <2>2. pc'[p] = "delete" => FALSE
    <3>1. \A to : Goto(p, to) => pc'[p] = to
      BY Goes
    <3>2. Advance(p) => pc'[p] \in {"start", "done"}
      BY Advances
    <3> QED BY <1>3, <3>1, <3>2 DEF Run, Get, Insert, GetAgain, SavePassword, Delete, ReadSenders,
            ReadRoom, CreateBatch, Kill
  <2> QED BY <1>3, <2>1, <2>2 DEF HoldsDemoRows, Deletes, NoRows
<1> QED BY <1>1, <1>2, <1>3

\* The senders p has read are demo users, and there are some.
LEMMA SendersRead ==
  ASSUME TypeOK, NEW p \in Programs, ReadSenders(p), DemoRows.users # {}
  PROVE  /\ Advance(p) /\ senders'[p] \in Seq(Row) /\ senders'[p] # <<>>
         /\ \A i \in Positions(senders'[p]) : IsDemoUser(senders'[p][i].name)
<1>1. /\ DemoRows.users \subseteq users /\ DemoRows.users \subseteq Row
      /\ \A u \in DemoRows.users : IsDemoUser(u.name)
  BY TargetRows DEF TypeOK
<1>2. IsFiniteSet(users)
  BY DEF TypeOK
<1>3. Cardinality(DemoRows.users) \in Nat /\ Cardinality(DemoRows.users) # 0
  BY <1>1, <1>2, FS_Subset, FS_CardinalityType, FS_EmptySet
<1>4. PICK order \in [1..Cardinality(DemoRows.users) -> DemoRows.users] :
        senders' = [senders EXCEPT ![p] = order]
  BY DEF ReadSenders
<1>5. senders'[p] = order
  BY <1>4 DEF TypeOK
<1>6. \A n \in Nat : \A seq \in [1..n -> DemoRows.users] :
        /\ seq \in Seq(Row) /\ Len(seq) = n /\ (n # 0 => seq # <<>>)
        /\ \A i \in Positions(seq) : IsDemoUser(seq[i].name)
  BY <1>1 DEF Positions
<1>7. /\ order \in Seq(Row) /\ order # <<>>
      /\ \A i \in Positions(order) : IsDemoUser(order[i].name)
  BY <1>3, <1>4, <1>6
<1>8. Advance(p)
  BY DEF ReadSenders
<1> QED BY <1>5, <1>7, <1>8

LEMMA SendersKept ==
  ASSUME TypeOK, NEW p \in Programs, Fits(p), Run(p) \/ Kill(p), ~ReadSenders(p)
  PROVE  \/ senders'[p] = senders[p]
         \/ senders'[p] = <<>> /\ pc'[p] = "killed" /\ at'[p] = at[p]
<1>1. CASE Kill(p)
  <2>1. pc'[p] = "killed" /\ at' = at
    BY <1>1, Goes DEF Kill
  <2> QED BY <1>1, <2>1 DEF Kill, TypeOK
<1>2. CASE Run(p)
  BY <1>2 DEF Run, Get, Insert, GetAgain, SavePassword, Collect, Delete, ReadRoom, CreateBatch, workVars
<1> QED BY <1>1, <1>2

\* The item an action belongs to.
LEMMA Belongs ==
  ASSUME NEW p \in Programs, Fits(p)
  PROVE  /\ Get(p) => Cur(p).do \in {"user", "room"}
         /\ Insert(p) => Cur(p).do \in {"user", "room"}
         /\ GetAgain(p) => Cur(p).do \in {"user", "room"}
         /\ SavePassword(p) => Cur(p).do = "user"
         /\ Collect(p) => Cur(p).do = "delete"
         /\ Delete(p) => Cur(p).do = "delete"
         /\ ReadSenders(p) => Cur(p).do = "senders"
         /\ ReadRoom(p) => Cur(p).do = "batch"
         /\ CreateBatch(p) => Cur(p).do = "batch" /\ Cur(p) = Item("batch", room[p].name)
BY DEF Fits, Cur, At, Item, Get, Insert, GetAgain, SavePassword, Collect, Delete, ReadSenders,
       ReadRoom, CreateBatch

LEMMA FitsStep ==
  ASSUME TypeOK, NEW p \in Programs, Fits(p), Run(p) \/ Kill(p), NEW q \in Programs, Fits(q)
  PROVE  Fits(q)'
<1>1. CASE q # p
  <2>1. /\ senders'[q] = senders[q] /\ room'[q] = room[q]
        /\ pc'[q] = pc[q] /\ at'[q] = at[q]
    BY <1>1, Frame, Moves
  <2> QED BY <2>1 DEF Fits
<1>2. Fits(p)'
  <2>0. /\ at[p] \in 1..Len(Work(p)) /\ Len(Work(p)) \in Nat /\ Positions(Work(p)) = 1..Len(Work(p))
        /\ Ordered(Work(p))
    BY CurFits, WorkFacts
  <2>1. \A i \in Positions(senders'[p]) : IsDemoUser(senders'[p][i].name)
    <3>1. CASE ReadSenders(p) /\ DemoRows.users # {}
      BY <3>1, SendersRead
    <3>2. CASE ReadSenders(p) /\ DemoRows.users = {}
      BY <3>2 DEF ReadSenders, Fits
    <3>3. CASE ~ReadSenders(p)
      BY <3>3, SendersKept DEF Fits, Positions
    <3> QED BY <3>1, <3>2, <3>3
  <2>2. CASE Advance(p)
    <3>1. \/ at[p] = Len(Work(p)) /\ pc'[p] = "done" /\ at'[p] = at[p]
          \/ at[p] < Len(Work(p)) /\ pc'[p] = "start" /\ at'[p] = at[p] + 1
      BY <2>2, Advances
    <3>2. at'[p] \in Positions(Work(p))
      BY <2>0, <2>2, Advances
    <3>3. CASE pc'[p] = "done"
      BY <3>1, <3>2, <3>3, <2>1 DEF Fits
    <3>4. CASE pc'[p] = "start" /\ at'[p] = at[p] + 1
      <4>1. ASSUME Work(p)[at'[p]].do = "batch" PROVE senders'[p] # <<>>
        <5>1. Work(p)[at'[p] - 1].do \in {"senders", "batch"}
          BY <2>0, <3>2, <4>1 DEF Ordered
        <5>2. Cur(p).do \in {"senders", "batch"}
          <6>1. at'[p] - 1 = at[p]
            BY <2>0, <3>4
          <6> QED BY <5>1, <6>1 DEF Cur
        <5>3. CASE ReadSenders(p)
          <6>1. DemoRows.users # {}
            <7>1. Goto(p, "done") => pc'[p] = "done"
              BY Goes
            <7> QED BY <3>4, <5>3, <7>1 DEF ReadSenders
          <6> QED BY <5>3, <6>1, SendersRead
        <5>4. CASE ReadRoom(p) \/ CreateBatch(p)
          <6>1. senders[p] # <<>>
            BY <5>4 DEF Fits, ReadRoom, CreateBatch, At
          <6> QED BY <5>4, <6>1 DEF ReadRoom, CreateBatch, workVars
        <5>5. ~Kill(p)
          BY <3>4, Goes DEF Kill
        <5> QED BY <5>2, <5>3, <5>4, <5>5, Belongs DEF Run
      <4> QED BY <3>2, <3>4, <4>1, <2>1 DEF Fits
    <3> QED BY <3>1, <3>3, <3>4
  <2>3. CASE ~Advance(p)
    <3>1. at' = at /\ \A to : Goto(p, to) => pc'[p] = to
      BY <2>3, Goes DEF Run, Get, Insert, GetAgain, SavePassword, Collect, Delete, ReadSenders,
         ReadRoom, CreateBatch, Kill
    <3>2. \A to : Goto(p, to) => pc'[p] = to
      BY Goes
    <3>3. CASE Get(p) \/ Insert(p) \/ GetAgain(p) \/ SavePassword(p)
      <4>1. /\ pc'[p] \in {"insert", "again", "failed", "password"}
            /\ pc'[p] = "password" => Cur(p).do = "user"
        BY <2>3, <3>2, <3>3 DEF Get, Insert, GetAgain, SavePassword, Cur
      <4>2. Cur(p).do \in {"user", "room"}
        BY <3>3, Belongs
      <4> QED BY <2>0, <2>1, <3>1, <4>1, <4>2 DEF Fits, Cur
    <3>4. CASE Collect(p) \/ Delete(p)
      <4>1. pc'[p] \in {"delete", "conflict"}
        BY <2>3, <3>2, <3>4 DEF Collect, Delete
      <4>2. Cur(p).do = "delete"
        BY <3>4, Belongs
      <4> QED BY <2>0, <2>1, <3>1, <4>1, <4>2 DEF Fits, Cur
    <3>5. CASE ReadSenders(p)
      <4>1. pc'[p] = "done"
        BY <2>3, <3>2, <3>5 DEF ReadSenders
      <4>2. Cur(p).do = "senders"
        BY <3>5, Belongs
      <4> QED BY <2>0, <2>1, <3>1, <4>1, <4>2 DEF Fits, Cur
    <3>6. CASE ReadRoom(p)
      <4>1. PICK r \in rooms : r.name = Name(p) /\ Goto(p, "batch") /\ room' = [room EXCEPT ![p] = r]
        BY <2>3, <3>6 DEF ReadRoom
      <4>2. pc'[p] = "batch" /\ room'[p] = r
        BY <3>2, <4>1 DEF TypeOK
      <4>3. Cur(p) = Item("batch", r.name)
        <5>1. Cur(p).do = "batch"
          BY <3>6, Belongs
        <5>2. Cur(p) = Item(Cur(p).do, Cur(p).name)
          BY CurFits DEF ItemFits
        <5> QED BY <4>1, <5>1, <5>2 DEF Name, Cur
      <4>4. senders'[p] # <<>>
        BY <3>6 DEF Fits, ReadRoom, At
      <4> QED BY <2>0, <2>1, <3>1, <4>2, <4>3, <4>4 DEF Fits, Cur
    <3>7. CASE CreateBatch(p)
      <4>1. pc'[p] = "failed"
        BY <2>3, <3>2, <3>7 DEF CreateBatch
      <4> QED BY <2>0, <2>1, <3>1, <4>1 DEF Fits
    <3>8. CASE Kill(p)
      <4>1. pc'[p] = "killed"
        BY <3>2, <3>8 DEF Kill
      <4> QED BY <2>0, <2>1, <3>1, <4>1 DEF Fits
    <3> QED BY <3>3, <3>4, <3>5, <3>6, <3>7, <3>8 DEF Run
  <2> QED BY <2>2, <2>3
<1> QED BY <1>1, <1>2

LEMMA TypeStep ==
  ASSUME TypeOK, NEW p \in Programs, Fits(p), Run(p) \/ Kill(p)
  PROVE  TypeOK'
<1>1. at[p] \in Nat /\ ItemFits(Cur(p)) /\ Cur(p).do \in Kinds
  BY CurFits DEF ItemFits
<1>2. Cur(p).do \in {"user", "room"} => NewRow(p) \in Row
  BY <1>1 DEF ItemFits, NewRow, Row
<1>3. AddsBatch(p) => Batch(p) \subseteq Posts
  BY MessageTypes DEF AddsBatch, Batch
<1>4. users' \subseteq Row /\ rooms' \subseteq Row /\ messages' \subseteq Posts
  BY <1>2, <1>3, RowSteps DEF TypeOK, RowsStay, AddsUser, AddsRoom, AddsBatch, Deleted, Remove
<1>5. IsFiniteSet(users')
  <2>1. IsFiniteSet(users)
    BY DEF TypeOK
  <2>2. users' = users \/ users' = users \cup {NewRow(p)} \/ users' \subseteq users
    BY RowSteps DEF RowsStay, AddsUser, AddsRoom, AddsBatch, Deleted, Remove
  <2> QED BY <2>1, <2>2, FS_AddElement, FS_Subset
<1>6. pc' \in [Programs -> {"start", "insert", "again", "password", "delete", "batch"} \cup Ended]
  <2>1. \/ pc' = [pc EXCEPT ![p] = "start"]
        \/ \E to \in {"insert", "again", "password", "delete", "batch"} \cup Ended :
             pc' = [pc EXCEPT ![p] = to]
    BY DEF Run, Get, Insert, GetAgain, SavePassword, Collect, Delete, ReadSenders, ReadRoom,
       CreateBatch, Kill, Advance, Goto, Ended
  <2> QED BY <2>1 DEF TypeOK
<1>7. at' \in [Programs -> Nat]
  <2>1. at' = at \/ at' = [at EXCEPT ![p] = @ + 1]
    BY DEF Run, Get, Insert, GetAgain, SavePassword, Collect, Delete, ReadSenders, ReadRoom,
       CreateBatch, Kill, Advance, Goto
  <2>2. at \in [Programs -> Nat]
    BY DEF TypeOK
  <2> QED BY <2>1, <2>2
<1>8. senders' \in [Programs -> Seq(Row)]
  <2>1. CASE ReadSenders(p) /\ DemoRows.users # {}
    <3>1. senders'[p] \in Seq(Row)
      BY <2>1, SendersRead
    <3>2. PICK order : senders' = [senders EXCEPT ![p] = order]
      BY <2>1 DEF ReadSenders
    <3> QED BY <3>1, <3>2 DEF TypeOK
  <2>2. \/ senders' = senders \/ senders' = [senders EXCEPT ![p] = <<>>]
        \/ ReadSenders(p) /\ DemoRows.users # {}
    BY DEF Run, Get, Insert, GetAgain, SavePassword, Collect, Delete, ReadSenders, ReadRoom,
       CreateBatch, Kill, workVars
  <2>3. senders \in [Programs -> Seq(Row)] /\ <<>> \in Seq(Row)
    BY DEF TypeOK
  <2>4. [senders EXCEPT ![p] = <<>>] \in [Programs -> Seq(Row)]
    BY <2>3
  <2> QED BY <2>1, <2>2, <2>3, <2>4
<1>9. room' \in [Programs -> Row]
  <2>1. room' = room \/ \E r \in rooms \cup {NoRow} : room' = [room EXCEPT ![p] = r]
    BY DEF Run, Get, Insert, GetAgain, SavePassword, Collect, Delete, ReadSenders, ReadRoom,
       CreateBatch, Kill, workVars
  <2> QED BY <2>1, NoRowTypes DEF TypeOK
<1>10. doomed' \in [Programs -> Selection] /\ old' \in [Programs -> Selection]
  <2>1. doomed' = doomed \/ \E d \in {NoRows, Targets(p)} : doomed' = [doomed EXCEPT ![p] = d]
    BY DEF Run, Get, Insert, GetAgain, SavePassword, Collect, Delete, ReadSenders, ReadRoom,
       CreateBatch, Kill, workVars
  <2>2. old' = old \/ \E d \in {NoRows, DemoRows} : old' = [old EXCEPT ![p] = d]
    BY DEF Run, Get, Insert, GetAgain, SavePassword, Collect, Delete, ReadSenders, ReadRoom,
       CreateBatch, Kill, workVars
  <2>3. /\ doomed \in [Programs -> Selection] /\ old \in [Programs -> Selection]
        /\ NoRows \in Selection /\ Targets(p) \in Selection /\ DemoRows \in Selection
    BY NoRowTypes, RowTypes DEF TypeOK
  <2> HIDE DEF NoRows, Targets, DemoRows, Selection
  <2>4. \A d \in Selection : /\ [doomed EXCEPT ![p] = d] \in [Programs -> Selection]
                             /\ [old EXCEPT ![p] = d] \in [Programs -> Selection]
    BY <2>3
  <2> QED BY <2>1, <2>2, <2>3, <2>4
<1>11. seat' = seat /\ disturbed' \subseteq Programs
  BY Frame, RowSteps DEF TypeOK, Deleted, Remove
<1> QED BY <1>4, <1>5, <1>6, <1>7, <1>8, <1>9, <1>10, <1>11 DEF TypeOK

LEMMA StartsToDelete ==
  ASSUME TypeOK, NEW p \in Programs, Fits(p), Run(p) \/ Kill(p), ~Collect(p)
  PROVE  pc'[p] # "delete"
<1>1. \A to : Goto(p, to) => pc'[p] = to
  BY Goes
<1>2. Advance(p) => pc'[p] \in {"start", "done"}
  BY Advances
<1> QED BY <1>1, <1>2 DEF Run, Get, Insert, GetAgain, SavePassword, Delete, ReadSenders,
        ReadRoom, CreateBatch, Kill

LEMMA Finishes ==
  ASSUME TypeOK, NEW p \in Programs, Fits(p), Run(p) \/ Kill(p), NEW kind, Finished(p, kind)'
  PROVE  Finished(p, kind) \/ (Deleted(p) /\ Cur(p) = Item("delete", kind))
<1>1. at[p] \in Nat /\ at[p] \in Positions(Work(p)) /\ Positions(Work(p)) \subseteq Nat
  BY WorkFacts DEF Fits
<1>2. Cur(p) = Item("delete", kind) => Collect(p) \/ Delete(p) \/ Kill(p)
  <2>1. Item("delete", kind).do = "delete"
    BY DEF Item
  <2> QED BY <2>1, Belongs DEF Run
<1>3. CASE at'[p] = at[p] + 1 /\ pc'[p] = "start"
  <2>1. PICK j \in Positions(Work(p)) : j < at'[p] /\ Work(p)[j] = Item("delete", kind)
    BY <1>3 DEF Finished, Cleared
  <2>2. CASE j < at[p]
    BY <2>1, <2>2 DEF Finished, Cleared
  <2>3. CASE j = at[p]
    <3>1. Cur(p) = Item("delete", kind)
      BY <2>1, <2>3 DEF Cur
    <3>2. ~Collect(p) /\ ~Kill(p) /\ ~Goto(p, "conflict")
      BY <1>1, <1>3, Goes DEF Collect, Kill
    <3>3. Deleted(p)
      BY <1>2, <3>1, <3>2 DEF Delete, Deleted
    <3> QED BY <3>1, <3>3
  <2>4. j < at[p] \/ j = at[p]
    BY <1>1, <1>3, <2>1
  <2> QED BY <2>2, <2>3, <2>4
<1>4. CASE at'[p] = at[p] /\ ~Finished(p, kind)
  <2>1. pc'[p] = "done" /\ Cur(p) = Item("delete", kind)
    BY <1>4 DEF Finished, Cleared, Cur
  <2>2. ~Collect(p) /\ ~Kill(p) /\ ~Goto(p, "conflict")
    BY <2>1, Goes DEF Collect, Kill
  <2>3. Deleted(p)
    BY <1>2, <2>1, <2>2 DEF Delete, Deleted
  <2> QED BY <2>1, <2>3
<1> QED BY <1>3, <1>4, Moves

LEMMA OldStep ==
  ASSUME TypeOK, RowsHaveMakers, NEW p \in Programs, Fits(p), Run(p) \/ Kill(p),
         NEW q \in Programs, HoldsDemoRows(q), OldRowsAreOut(q)
  PROVE  OldRowsAreOut(q)'
<1>0. /\ old[q].users \cap users' \subseteq users
      /\ old[q].rooms \cap rooms' \subseteq rooms
      /\ old[q].messages \cap messages' \subseteq messages
  BY NothingComesBack DEF RowsHaveMakers
<1>1. CASE q # p
  <2>1. doomed'[q] = doomed[q] /\ old'[q] = old[q] /\ pc'[q] = pc[q] /\ at'[q] = at[q]
    BY <1>1, Frame, Moves
  <2>2. \A kind : (Finished(q, kind)' <=> Finished(q, kind)) /\ (Deletes(q, kind)' <=> Deletes(q, kind))
    BY <2>1 DEF Finished, Cleared, Deletes
  <2> QED BY <1>0, <2>1, <2>2 DEF OldRowsAreOut
<1>2. CASE q = p /\ Collect(p)
  <2>1. /\ doomed'[p] = Targets(p) /\ RowsStay /\ Cur(p).do = "delete" /\ pc'[p] = "delete" /\ at' = at
        /\ old'[p] = IF Name(p) = "messages" THEN DemoRows ELSE old[p]
        /\ pc[p] = "start"
    BY <1>2, HoldSteps
  <2>2. /\ at[p] \in Positions(Work(p)) /\ Positions(Work(p)) = 1..Len(Work(p)) /\ at[p] \in Nat
        /\ Ordered(Work(p)) /\ ItemFits(Cur(p))
    BY WorkFacts, CurFits DEF Fits
  <2>3. Cur(p) = Item("delete", Name(p))
    BY <2>1, <2>2 DEF ItemFits, Cur, Name
  <2>4. \A kind : (Finished(p, kind)' <=> Cleared(p, kind)) /\ (Cleared(p, kind) => Finished(p, kind))
    BY <2>1 DEF Finished, Cleared
  <2>5. \A kind : Deletes(p, kind)' => kind = Name(p)
    BY <2>1, <2>3 DEF Deletes, Item, Cur
  <2>6. CASE Name(p) = "messages"
    <3>1. ASSUME NEW kind PROVE ~Cleared(p, kind)
      <4> SUFFICES ASSUME NEW j \in Positions(Work(p)), Work(p)[j] = Item("delete", kind), j < at[p]
                   PROVE  FALSE
        BY DEF Cleared
      <4>1. Work(p)[j].do = "delete"
        BY DEF Item
      <4>2. at[p] <= j
        BY <2>2, <2>3, <2>6, <4>1 DEF Ordered, Cur
      <4> QED BY <2>2, <4>2
    <3>2. Targets(p).messages = DemoRows.messages
      BY <2>6 DEF Targets, DemoRows, Rows
    <3>3. old'[p] = DemoRows
      BY <2>1, <2>6
    <3>4. (\A j \in Positions(Work(p)) : Work(p)[j] # Item("delete", "messages")) => FALSE
      BY <2>2, <2>3, <2>6 DEF Cur
    <3> QED BY <1>2, <2>1, <2>4, <2>5, <2>6, <3>1, <3>2, <3>3, <3>4 DEF OldRowsAreOut
  <2>7. CASE Name(p) # "messages"
    <3>1. old'[p] = old[p]
      BY <2>1, <2>7
    <3>2. Name(p) = "rooms" => old[p].rooms \cap rooms \subseteq Targets(p).rooms
      BY <1>2 DEF Targets, DemoRows, Rows, HoldsDemoRows
    <3>3. Name(p) = "users" => old[p].users \cap users \subseteq Targets(p).users
      BY <1>2 DEF Targets, DemoRows, Rows, HoldsDemoRows
    <3> QED BY <1>2, <2>1, <2>4, <2>5, <2>7, <3>1, <3>2, <3>3 DEF OldRowsAreOut, RowsStay
  <2> QED BY <2>6, <2>7
<1>3. CASE q = p /\ ~Collect(p)
  <2>1. old'[p] \in {old[p], NoRows}
    BY <1>3, HoldSteps
  <2>2. \A kind : ~Deletes(p, kind)'
    BY <1>3, StartsToDelete DEF Deletes
  <2>3. CASE old'[p] = NoRows
    BY <1>3, <2>2, <2>3 DEF OldRowsAreOut, NoRows
  <2>4. CASE old'[p] = old[p]
    <3>1. \A kind : Deleted(p) /\ Cur(p) = Item("delete", kind) => Deletes(p, kind)
      BY DEF Deleted, Deletes, Cur
    <3>2. Deleted(p) => /\ users' = users \ doomed[p].users /\ rooms' = rooms \ doomed[p].rooms
                        /\ messages' = messages \ doomed[p].messages
      BY DEF Deleted, Remove
    <3>3. \A kind : Finished(p, kind)' => Finished(p, kind) \/ (Deleted(p) /\ Deletes(p, kind))
      BY <3>1, Finishes
    <3>4. Finished(p, "messages")' => old[p].messages \cap messages' = {}
      BY <1>0, <1>3, <3>2, <3>3 DEF OldRowsAreOut
    <3>5. Finished(p, "rooms")' => old[p].rooms \cap rooms' = {}
      BY <1>0, <1>3, <3>2, <3>3 DEF OldRowsAreOut
    <3>6. Finished(p, "users")' => old[p].users \cap users' = {}
      BY <1>0, <1>3, <3>2, <3>3 DEF OldRowsAreOut
    <3> QED BY <1>3, <2>2, <2>4, <3>4, <3>5, <3>6 DEF OldRowsAreOut
  <2> QED BY <2>1, <2>3, <2>4
<1> QED BY <1>1, <1>2, <1>3

\* seed_all deletes messages only.
LEMMA SeedAllDeletes ==
  ASSUME NEW p \in Programs, Command[p] = "seed_all", NEW j \in Positions(Work(p)),
         Work(p)[j].do = "delete"
  PROVE  Work(p)[j] = Item("delete", "messages")
<1>1. Work(p) = SeedAll
  BY DEF Work
<1>2. \/ \E n : Work(p)[j] = Item("user", n)
      \/ \E n : Work(p)[j] = Item("room", n)
      \/ Work(p)[j] = Item("delete", "messages")
      \/ Work(p)[j] = Item("senders", "")
      \/ \E n : Work(p)[j] = Item("batch", n)
  BY <1>1, Plans DEF Plan, Positions
<1>3. \A item, do, name : item = Item(do, name) => item.do = do
  BY DEF Item
<1> QED BY <1>2, <1>3, Zenon

\* An item is done when p leaves it or ends with it.
LEMMA Completes ==
  ASSUME TypeOK, NEW p \in Programs, Fits(p), Run(p) \/ Kill(p),
         NEW j \in Positions(Work(p)), Done(p, j)'
  PROVE  Done(p, j) \/ (j = at[p] /\ (Advance(p) \/ (ReadSenders(p) /\ DemoRows.users = {})))
<1>1. at[p] \in Nat /\ j \in Nat
  BY WorkFacts DEF Fits
<1>2. \A to : Goto(p, to) => pc'[p] = to /\ at' = at
  BY Goes
<1>3. CASE Advance(p)
  <2>1. at'[p] = at[p] \/ at'[p] = at[p] + 1
    BY <1>3, Advances
  <2>2. j <= at[p]
    <3>1. j <= at'[p] /\ (at'[p] = at[p] + 1 => pc'[p] # "done")
      BY <1>1, <1>3, <2>1, Advances DEF Done
    <3>2. j < at'[p] \/ (j = at'[p] /\ pc'[p] = "done")
      BY DEF Done
    <3> QED BY <1>1, <2>1, <3>1, <3>2
  <2> QED BY <1>1, <1>3, <2>2 DEF Done
<1>4. CASE ~Advance(p)
  <2>1. at' = at
    BY <1>2, <1>4 DEF Run, Get, Insert, GetAgain, SavePassword, Collect, Delete, ReadSenders,
       ReadRoom, CreateBatch, Kill
  <2>2. pc'[p] = "done" => ReadSenders(p) /\ DemoRows.users = {}
    BY <1>2, <1>4 DEF Run, Get, Insert, GetAgain, SavePassword, Collect, Delete, ReadSenders,
       ReadRoom, CreateBatch, Kill
  <2> QED BY <2>1, <2>2 DEF Done
<1> QED BY <1>3, <1>4

LEMMA StandsStep ==
  ASSUME TypeOK, UndisturbedWorkStands, NEW p \in Programs, Fits(p), HoldsDemoRows(p),
         Run(p) \/ Kill(p)
  PROVE  UndisturbedWorkStands'
<1>1. disturbed \subseteq disturbed'
  BY RowSteps DEF Deleted, Remove
<1> SUFFICES ASSUME NEW q \in Programs, q \notin disturbed', Command[q] = "seed_all"
             PROVE  /\ \A j \in Positions(Work(q)) : Done(q, j)' => Stands(q, Work(q)[j])'
                    /\ pc'[q] = "done" => at'[q] = Len(Work(q))
  BY DEF UndisturbedWorkStands
<1>2. /\ \A j \in Positions(Work(q)) : Done(q, j) => Stands(q, Work(q)[j])
      /\ pc[q] = "done" => at[q] = Len(Work(q))
  BY <1>1 DEF UndisturbedWorkStands
<1>3. ~Deleted(p) => users \subseteq users' /\ rooms \subseteq rooms' /\ messages \subseteq messages'
  BY RowSteps DEF RowsStay, AddsUser, AddsRoom, AddsBatch
<1>4. ~Deleted(p) => \A item : Stands(q, item) => Stands(q, item)'
  BY <1>3 DEF Stands, Delivered
<1>5. CASE q # p
  <2>1. pc'[q] = pc[q] /\ at'[q] = at[q]
    BY <1>5, Moves
  <2>2. CASE Deleted(p)
    <3>1. pc[q] = "start" /\ ~(at[q] > 1)
      BY <1>5, <2>2 DEF Deleted, Remove, Begun
    <3>2. \A j \in Positions(Work(q)) : ~(j < at[q])
      <4>1. Positions(Work(q)) = 1..Len(Work(q)) /\ at[q] \in Nat
        BY WorkFacts DEF TypeOK
      <4> QED BY <3>1, <4>1
    <3> QED BY <2>1, <3>1, <3>2 DEF Done
  <2>3. CASE ~Deleted(p)
    BY <1>2, <1>4, <2>1, <2>3 DEF Done
  <2> QED BY <2>2, <2>3
<1>6. CASE q = p
  <2>0. /\ at[p] \in Positions(Work(p)) /\ Positions(Work(p)) = 1..Len(Work(p)) /\ at[p] \in Nat
        /\ Ordered(Work(p)) /\ ItemFits(Cur(p)) /\ Len(Work(p)) \in Nat
    BY WorkFacts, CurFits DEF Fits
  <2>1. CASE Deleted(p)
    <3>1. Cur(p) = Item("delete", "messages") /\ Cur(p).do = "delete"
      <4>1. Cur(p).do = "delete"
        BY <2>1, Belongs DEF Deleted
      <4> QED BY <1>6, <2>0, <4>1, SeedAllDeletes DEF Cur
    <3>2. users' = users /\ rooms' = rooms
      <4>1. Deletes(p, "messages")
        BY <2>1, <3>1 DEF Deleted, Deletes, Cur
      <4> QED BY <2>1, <4>1 DEF HoldsDemoRows, Deleted, Remove
    <3>3. ASSUME NEW j \in Positions(Work(p)), Done(p, j)' PROVE Stands(p, Work(p)[j])'
      <4>1. ReadSenders(p) => FALSE
        BY <3>1, Belongs
      <4>2. Done(p, j) \/ j = at[p]
        BY <3>3, Completes
      <4>3. CASE j = at[p]
        BY <3>1, <4>3 DEF Stands, Cur
      <4>4. CASE Done(p, j) /\ j # at[p]
        <5>1. Work(p)[j].do # "batch"
          <6>1. j < at[p]
            BY <4>4 DEF Done
          <6> QED BY <2>0, <3>1, <6>1 DEF Ordered, Cur
        <5>2. Stands(p, Work(p)[j])
          BY <1>2, <1>6, <4>4
        <5> QED BY <3>2, <5>1, <5>2 DEF Stands
      <4> QED BY <4>2, <4>3, <4>4
    <3>4. pc'[p] = "done" => at'[p] = Len(Work(p))
      BY <2>1, Advances DEF Deleted
    <3> QED BY <1>6, <3>3, <3>4
  <2>2. CASE ~Deleted(p)
    <3>1. ~(ReadSenders(p) /\ DemoRows.users = {})
      <4> SUFFICES ASSUME ReadSenders(p), DemoRows.users = {} PROVE FALSE
        OBVIOUS
      <4>1. /\ 1 \in Positions(Work(p)) /\ Work(p)[1].do # "senders"
            /\ Work(p)[1] = Item("user", DemoUsers[1])
        BY <1>6, SeedAllFacts
      <4>2. at[p] # 1
        BY <4>1, Belongs DEF Cur
      <4>3. Done(p, 1)
        BY <2>0, <4>2 DEF Done
      <4>4. \E u \in users : u.name = DemoUsers[1]
        BY <1>2, <1>6, <4>1, <4>3 DEF Stands, Item
      <4>5. IsDemoUser(DemoUsers[1])
        <5>1. 1 \in 1..U
          BY Lengths
        <5> QED BY <5>1, DemoNames
      <4> QED BY <4>4, <4>5 DEF DemoRows, Rows
    <3>2. ASSUME NEW j \in Positions(Work(p)), j = at[p], Advance(p)
          PROVE  Stands(p, Work(p)[j])'
      <4>0. \A to : Goto(p, to) => to \in {"start", "done"}
        <5>1. \A to : Goto(p, to) => pc'[p] = to
          BY Goes
        <5>2. pc'[p] \in {"start", "done"}
          BY <3>2, Advances
        <5> QED BY <5>1, <5>2
      <4>1. /\ users \subseteq users' /\ rooms \subseteq rooms'
            /\ Cur(p) = Work(p)[j] /\ Name(p) = Work(p)[j].name
        BY <1>3, <2>2, <3>2 DEF Cur, Name
      <4>2. CASE Work(p)[j].do = "user"
        <5>1. Get(p) \/ Insert(p) \/ GetAgain(p) \/ SavePassword(p)
          BY <4>0, <4>1, <4>2, Belongs DEF Run, Kill
        <5>2. Exists(p)
          BY <4>0, <4>1, <4>2, <5>1 DEF Get, Insert, GetAgain, SavePassword, Cur
        <5>3. \E u \in users : u.name = Work(p)[j].name
          BY <3>2, <4>1, <4>2, <5>2 DEF Exists, Table
        <5> QED BY <4>1, <4>2, <5>3 DEF Stands
      <4>3. CASE Work(p)[j].do = "room"
        <5>1. Get(p) \/ Insert(p) \/ GetAgain(p)
          BY <4>0, <4>1, <4>3, Belongs DEF Run, Kill
        <5>2. Exists(p) \/ \E r \in rooms' : r.name = Name(p)
          <6>1. CASE Get(p) \/ GetAgain(p)
            BY <4>0, <6>1 DEF Get, GetAgain
          <6>2. CASE Insert(p)
            <7>1. Work(p)[at[p]].do # "user"
              BY <3>2, <4>3
            <7>2. Exists(p) \/ rooms' = rooms \cup {[name |-> Name(p), by |-> p]}
              BY <6>2, <7>1 DEF Insert
            <7>3. \A name, by : [name |-> name, by |-> by].name = name
              OBVIOUS
            <7>4. CASE [name |-> Name(p), by |-> p] \in rooms'
              BY <7>3, <7>4, Zenon
            <7> QED BY <7>2, <7>4
          <6> QED BY <5>1, <6>1, <6>2
        <5>3. \E r \in rooms' : r.name = Work(p)[j].name
          BY <3>2, <4>1, <4>3, <5>2 DEF Exists, Table
        <5> QED BY <4>3, <5>3 DEF Stands
      <4>4. CASE Work(p)[j].do = "batch" /\ ReadRoom(p)
        <5>1. \A r \in rooms : r.name # Name(p)
          BY <4>0, <4>4 DEF ReadRoom
        <5>2. PICK i \in Positions(Work(p)) : i < j /\ Work(p)[i] = Item("room", Work(p)[j].name)
          BY <1>6, <4>4, SeedAllFacts
        <5>3. Done(p, i)
          BY <3>2, <5>2 DEF Done
        <5>4. Stands(p, Item("room", Work(p)[j].name))
          BY <1>2, <1>6, <5>2, <5>3
        <5>5. \E r \in rooms : r.name = Work(p)[j].name
          BY <5>4 DEF Stands, Item
        <5> QED BY <4>1, <5>1, <5>5
      <4>5. CASE Work(p)[j].do = "batch" /\ CreateBatch(p)
        <5>1. messages' = messages \cup Batch(p)
          BY <4>0, <4>5 DEF CreateBatch
        <5>2. Cur(p) = Item("batch", room[p].name)
          BY <4>5, Belongs
        <5>3. Work(p)[j].name = room[p].name
          BY <4>1, <5>2 DEF Item
        <5>4. \A i \in 1..PerRoom : Message(p, i) \in messages'
          BY <5>1 DEF Batch
        <5>5. \A i \in 1..PerRoom :
                Message(p, i).by = p /\ Message(p, i).n = i /\ Message(p, i).room = room[p]
          BY DEF Message
        <5>6. Delivered(p, Work(p)[j].name)'
          BY <5>3, <5>4, <5>5 DEF Delivered
        <5> QED BY <4>5, <5>6 DEF Stands
      <4>6. CASE Work(p)[j].do \notin {"user", "room", "batch"}
        BY <4>6 DEF Stands
      <4>7. Work(p)[j].do = "batch" => ReadRoom(p) \/ CreateBatch(p)
        BY <4>0, <4>1, Belongs DEF Run, Kill
      <4> QED BY <4>2, <4>3, <4>4, <4>5, <4>6, <4>7
    <3>3. ASSUME NEW j \in Positions(Work(p)), Done(p, j)' PROVE Stands(p, Work(p)[j])'
      <4>1. CASE Done(p, j)
        <5>1. Stands(p, Work(p)[j])
          BY <1>2, <1>6, <4>1
        <5> QED BY <1>3, <2>2, <5>1 DEF Stands, Delivered
      <4>2. CASE j = at[p] /\ Advance(p)
        BY <3>2, <4>2
      <4> QED BY <3>1, <3>3, <4>1, <4>2, Completes
    <3>4. pc'[p] = "done" => at'[p] = Len(Work(p))
      <4>1. \A to : Goto(p, to) => pc'[p] = to
        BY Goes
      <4>2. CASE Advance(p)
        BY <4>2, Advances
      <4>3. CASE ~Advance(p)
        BY <3>1, <4>1, <4>3 DEF Run, Get, Insert, GetAgain, SavePassword, Collect, Delete,
           ReadSenders, ReadRoom, CreateBatch, Kill
      <4> QED BY <4>2, <4>3
    <3> QED BY <1>6, <3>3, <3>4
  <2> QED BY <2>1, <2>2
<1> QED BY <1>5, <1>6

(***************************************************************************)
(* What people do.                                                         *)
(***************************************************************************)
LEMMA WriterStep ==
  ASSUME IInv, NEW w \in Writers, Open(w) \/ Write(w)
  PROVE  IInv'
<1> USE DEF IInv
<1>1. /\ users' = users /\ rooms' = rooms /\ pc' = pc /\ at' = at /\ senders' = senders
      /\ room' = room /\ doomed' = doomed /\ old' = old /\ disturbed' = disturbed
  BY DEF Open, Write, rowVars, workVars
<1>2. PICK m : /\ m.by = w /\ messages \subseteq messages' /\ messages' \subseteq messages \cup {m}
               /\ m \in messages' \ messages => m \in Posts /\ Write(w)
  <2> DEFINE post == [by |-> w, n |-> 1, room |-> seat[w].room, sender |-> seat[w].user]
  <2>1. post.by = w /\ post \in Posts
    BY DEF TypeOK, Posts
  <2>2. messages' = messages \/ (Write(w) /\ messages' = messages \cup {post})
    BY DEF Open, Write, rowVars
  <2> HIDE DEF post
  <2> QED BY <2>1, <2>2
<1>3. /\ seat[w].step # "left" /\ (Write(w) => seat'[w].step = "left")
      /\ \A v \in Writers \ {w} : seat'[v] = seat[v]
  BY DEF TypeOK, Open, Write
<1>4. w \notin Programs
  BY DemoDataAssumption
<1>5. TypeOK'
  <2>1. seat' \in [Writers -> [step : {"away", "open", "left"}, user : Row, room : Row]]
    <3>1. CASE Open(w)
      <4>1. PICK u \in users, r \in rooms : seat' = [seat EXCEPT ![w] = Seat("open", u, r)]
        BY <3>1 DEF Open
      <4>2. Seat("open", u, r) \in [step : {"away", "open", "left"}, user : Row, room : Row]
        BY DEF TypeOK, Seat
      <4> QED BY <4>1, <4>2 DEF TypeOK
    <3>2. CASE Write(w)
      BY <3>2 DEF Write, TypeOK
    <3> QED BY <3>1, <3>2
  <2>2. messages' \subseteq Posts
    BY <1>2 DEF TypeOK
  <2> QED BY <1>1, <2>1, <2>2 DEF TypeOK
<1>6. ASSUME NEW q \in Programs PROVE Fits(q)' /\ HoldsDemoRows(q)'
  BY <1>1 DEF Fits, HoldsDemoRows, Deletes
<1>7. \A row, kind : MadeBy(row, kind) => MadeBy(row, kind)'
  BY <1>1 DEF MadeBy, Past
<1>8. \A x : SentBy(x) => SentBy(x)'
  <2> SUFFICES ASSUME NEW x, SentBy(x) PROVE SentBy(x)'
    OBVIOUS
  <2>1. x.by \in Writers => seat'[x.by].step = "left"
    BY <1>3 DEF SentBy
  <2> QED BY <1>1, <2>1 DEF SentBy, Past
<1>9. m \in messages' \ messages => SentBy(m)'
  BY <1>2, <1>3, <1>4 DEF SentBy
<1>10. RowsHaveMakers'
  <2>1. \A x \in messages' : SentBy(x)'
    BY <1>2, <1>8, <1>9 DEF RowsHaveMakers
  <2>2. ASSUME NEW q \in Programs
        PROVE  \A x \in old'[q].messages \cup doomed'[q].messages : SentBy(x)'
    BY <1>1, <1>8 DEF RowsHaveMakers
  <2>3. /\ \A u \in users' : MadeBy(u, "user")'
        /\ \A r \in rooms' : MadeBy(r, "room")'
        /\ \A q \in Programs : /\ \A u \in old'[q].users : MadeBy(u, "user")'
                               /\ \A r \in old'[q].rooms : MadeBy(r, "room")'
    BY <1>1, <1>7 DEF RowsHaveMakers
  <2> QED BY <2>1, <2>2, <2>3 DEF RowsHaveMakers
<1>11. BatchesAreDoomedWhole' /\ BatchesAreWhole'
  BY <1>1, <1>2, <1>4 DEF BatchesAreDoomedWhole, BatchesAreWhole
<1>12. ASSUME NEW q \in Programs PROVE OldRowsAreOut(q)'
  <2>1. old[q].messages \cap messages' \subseteq messages
    <3>1. \A x \in old[q].messages : SentBy(x)
      BY DEF RowsHaveMakers
    <3>2. ~SentBy(m)
      BY <1>2, <1>3 DEF SentBy
    <3> QED BY <1>2, <3>1, <3>2
  <2>2. \A kind : (Finished(q, kind)' <=> Finished(q, kind)) /\ (Deletes(q, kind)' <=> Deletes(q, kind))
    BY <1>1 DEF Finished, Cleared, Deletes
  <2> QED BY <1>1, <2>1, <2>2 DEF OldRowsAreOut
<1>13. UndisturbedWorkStands'
  BY <1>1, <1>2 DEF UndisturbedWorkStands, Done, Stands, Delivered
<1> QED BY <1>5, <1>6, <1>10, <1>11, <1>12, <1>13

(***************************************************************************)
(* The theorems.                                                           *)
(***************************************************************************)
LEMMA ProgramStep ==
  ASSUME IInv, NEW p \in Programs, Run(p) \/ Kill(p)
  PROVE  IInv'
<1>1. /\ TypeOK /\ RowsHaveMakers /\ BatchesAreDoomedWhole /\ BatchesAreWhole
      /\ UndisturbedWorkStands
      /\ \A q \in Programs : Fits(q) /\ HoldsDemoRows(q) /\ OldRowsAreOut(q)
  BY DEF IInv
<1>2. TypeOK' /\ RowsHaveMakers' /\ BatchesAreDoomedWhole' /\ BatchesAreWhole'
  BY <1>1, TypeStep, MakersStep, DoomedWholeStep, WholeStep
<1>3. UndisturbedWorkStands'
  BY <1>1, StandsStep
<1>4. \A q \in Programs : Fits(q)' /\ HoldsDemoRows(q)' /\ OldRowsAreOut(q)'
  BY <1>1, FitsStep, HoldsStep, OldStep
<1> QED BY <1>2, <1>3, <1>4 DEF IInv

\* A stutter changes nothing.
LEMMA Stutter == IInv /\ UNCHANGED vars => IInv'
<1> SUFFICES ASSUME IInv, UNCHANGED vars PROVE IInv'
  OBVIOUS
<1>1. /\ users' = users /\ rooms' = rooms /\ messages' = messages /\ pc' = pc /\ at' = at
      /\ senders' = senders /\ room' = room /\ doomed' = doomed /\ seat' = seat /\ old' = old
      /\ disturbed' = disturbed
  BY DEF vars
<1>2. TypeOK'
  BY <1>1 DEF IInv, TypeOK
<1>3. \A q \in Programs : Fits(q)' /\ HoldsDemoRows(q)'
  BY <1>1 DEF IInv, Fits, HoldsDemoRows, Deletes
<1>4. \A q \in Programs : OldRowsAreOut(q)'
  BY <1>1 DEF IInv, OldRowsAreOut, Finished, Cleared, Deletes
<1>5. RowsHaveMakers'
  BY <1>1 DEF IInv, RowsHaveMakers, MadeBy, SentBy, Past
<1>6. BatchesAreDoomedWhole' /\ BatchesAreWhole'
  BY <1>1 DEF IInv, BatchesAreDoomedWhole, BatchesAreWhole
<1>7. UndisturbedWorkStands'
  BY <1>1 DEF IInv, UndisturbedWorkStands, Done, Stands, Delivered
<1> QED BY <1>2, <1>3, <1>4, <1>5, <1>6, <1>7 DEF IInv

\* The inductive invariant, whatever commands run and are killed, and people
\* write, at the same time.
THEOREM DemoDataInvariance == Spec => []IInv
<1>1. Init => IInv
  BY InitInv
<1>2. IInv /\ [Next]_vars => IInv'
  BY ProgramStep, WriterStep, Stutter DEF Next
<1> QED BY <1>1, <1>2, PTL DEF Spec

\* A room never shows part of the messages that seed_messages puts there.
THEOREM WholeBatches == Spec => []BatchesAreWhole
<1>1. IInv => BatchesAreWhole
  BY DEF IInv
<1> QED BY <1>1, DemoDataInvariance, PTL

\* A command that ends well has removed what it found, whoever wrote meanwhile.
THEOREM OldGoes == Spec => []OldDataGoes
<1>1. IInv => OldDataGoes
  <2> SUFFICES ASSUME IInv, NEW p \in Programs, pc[p] = "done"
               PROVE  /\ old[p].messages \cap messages = {}
                      /\ Command[p] = "flush_demo" =>
                           old[p].rooms \cap rooms = {} /\ old[p].users \cap users = {}
    BY DEF OldDataGoes
  <2>1. Fits(p) /\ OldRowsAreOut(p)
    BY DEF IInv
  <2>2. /\ at[p] \in Positions(Work(p)) /\ Positions(Work(p)) = 1..Len(Work(p))
        /\ Ordered(Work(p)) /\ Len(Work(p)) \in Nat
        /\ at[p] = Len(Work(p)) \/ Work(p)[at[p]].do = "senders"
    BY <2>1, WorkFacts DEF Fits
  <2>3. old[p].messages \cap messages = {}
    <3>1. CASE \A j \in Positions(Work(p)) : Work(p)[j] # Item("delete", "messages")
      BY <2>1, <3>1 DEF OldRowsAreOut, NoRows
    <3>2. CASE \E j \in Positions(Work(p)) : Work(p)[j] = Item("delete", "messages")
      <4>1. PICK j \in Positions(Work(p)) : Work(p)[j] = Item("delete", "messages")
        BY <3>2
      <4>2. j <= at[p]
        BY <2>2, <4>1 DEF Ordered
      <4>3. j < at[p] \/ j = at[p]
        BY <2>2, <4>2
      <4>4. Finished(p, "messages")
        BY <4>1, <4>3 DEF Finished, Cleared
      <4> QED BY <2>1, <4>4 DEF OldRowsAreOut
    <3> QED BY <3>1, <3>2
  <2>4. ASSUME Command[p] = "flush_demo"
        PROVE  old[p].rooms \cap rooms = {} /\ old[p].users \cap users = {}
    <3>1. Work(p) = FlushDemo
      BY <2>4 DEF Work
    <3>2. Positions(Work(p)) = 1..3 /\ Len(Work(p)) = 3
      BY <3>1, FlushItems DEF Positions
    <3>3. at[p] = 3
      <4>1. \A i \in 1..3 : Work(p)[i].do = "delete"
        <5>1. \A i \in 1..3 : i = 1 \/ i = 2 \/ i = 3
          OBVIOUS
        <5>2. \A kind : Item("delete", kind).do = "delete"
          BY DEF Item
        <5> QED BY <3>1, <5>1, <5>2, FlushItems
      <4> QED BY <2>2, <3>2, <4>1
    <3>4. Finished(p, "rooms")
      <4>1. 2 \in Positions(Work(p)) /\ 2 < at[p]
        BY <3>2, <3>3
      <4> QED BY <3>1, <4>1, FlushItems DEF Finished, Cleared
    <3>5. Finished(p, "users")
      BY <3>1, <3>3, FlushItems DEF Finished
    <3> QED BY <2>1, <3>4, <3>5 DEF OldRowsAreOut
  <2> QED BY <2>3, <2>4
<1> QED BY <1>1, DemoDataInvariance, PTL

\* A seed_all that nobody disturbs and that ends well has filled every demo room.
THEOREM SeedAllFills == Spec => []SeedAllDelivers
<1>1. IInv => SeedAllDelivers
  <2> SUFFICES ASSUME IInv, NEW p \in Programs, p \notin disturbed, pc[p] = "done",
                      Command[p] = "seed_all", NEW k \in Positions(DemoRooms)
               PROVE  Delivered(p, DemoRooms[k])
    BY DEF SeedAllDelivers, Delivered
  <2>1. PICK j \in Positions(Work(p)) : Work(p)[j] = Item("batch", DemoRooms[k])
    BY SeedAllFacts
  <2>2. at[p] = Len(Work(p)) /\ (Done(p, j) => Stands(p, Work(p)[j]))
    BY DEF IInv, UndisturbedWorkStands
  <2>3. Done(p, j)
    <3>1. j \in 1..Len(Work(p)) /\ Len(Work(p)) \in Nat
      BY WorkFacts
    <3>2. j < at[p] \/ j = at[p]
      BY <2>2, <3>1
    <3> QED BY <3>2 DEF Done
  <2>4. Stands(p, Item("batch", DemoRooms[k]))
    BY <2>1, <2>2, <2>3
  <2> QED BY <2>4 DEF Stands, Item
<1> QED BY <1>1, DemoDataInvariance, PTL

\* No step of a command, even one that overlaps others, takes an account or a
\* room that has no demo name.
THEOREM RealDataStays == Spec => RealDataSurvives
<1>1. IInv /\ [Next]_vars =>
        [/\ \A u \in users \ users' : IsDemoUser(u.name)
         /\ \A r \in rooms \ rooms' : IsDemoRoom(r.name)
         /\ \A m \in messages \ messages' :
              IsDemoRoom(m.room.name) \/ IsDemoUser(m.sender.name)]_vars
  <2> SUFFICES ASSUME IInv, Next
               PROVE  /\ \A u \in users \ users' : IsDemoUser(u.name)
                      /\ \A r \in rooms \ rooms' : IsDemoRoom(r.name)
                      /\ \A m \in messages \ messages' :
                           IsDemoRoom(m.room.name) \/ IsDemoUser(m.sender.name)
    OBVIOUS
  <2>1. CASE \E p \in Programs : Run(p) \/ Kill(p)
    <3>1. PICK p \in Programs : Run(p) \/ Kill(p)
      BY <2>1
    <3>2. TypeOK /\ Fits(p) /\ HoldsDemoRows(p)
      BY DEF IInv
    <3>3. CASE Deleted(p)
      BY <3>2, <3>3 DEF HoldsDemoRows, Deleted, Remove
    <3>4. CASE ~Deleted(p)
      <4>1. users \subseteq users' /\ rooms \subseteq rooms' /\ messages \subseteq messages'
        BY <3>1, <3>2, <3>4, RowSteps DEF RowsStay, AddsUser, AddsRoom, AddsBatch
      <4> QED BY <4>1
    <3> QED BY <3>3, <3>4
  <2>2. CASE \E w \in Writers : Open(w) \/ Write(w)
    BY <2>2 DEF Open, Write, rowVars
  <2> QED BY <2>1, <2>2 DEF Next
<1> QED BY <1>1, DemoDataInvariance, PTL DEF Spec, RealDataSurvives

=============================================================================
