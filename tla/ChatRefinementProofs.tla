------------------------ MODULE ChatRefinementProofs ------------------------
(***************************************************************************)
(* The consumers, groups and rows of ChatConsumer implement the broadcast  *)
(* of RoomBroadcast, whatever faults occur.                                *)
(***************************************************************************)
EXTENDS ChatConsumerProofs

\* The part of the broadcast's state that a step of the chat can change.
Due(c) == IF pc[c] \in Ended THEN <<>> ELSE inbox[c]

\* A step that keeps the phases and what is due is a stutter of the broadcast.
LEMMA StutterStep ==
  ASSUME \A d \in Conns : Phase(d)' = Phase(d) /\ Due(d)' = Due(d),
         UNCHANGED <<seen, sends, sentAt>>
  PROVE  UNCHANGED Broadcast!vars
<1>1. [d \in Conns |-> Phase(d)]' = [d \in Conns |-> Phase(d)]
  OBVIOUS
<1>2. [d \in Conns |-> Due(d)]' = [d \in Conns |-> Due(d)]
  OBVIOUS
<1> QED BY <1>1, <1>2 DEF Broadcast!vars, Due

LEMMA InitRefines == Init => Broadcast!Init
BY DEF Init, Broadcast!Init, Phase, Ended, Open

\* A connection that crashes, or whose disconnect() is done, leaves.
LEMMA LeaveStep ==
  ASSUME TypeOK, NEW c \in Conns, pc[c] \notin Ended,
         NEW to \in Ended, pc' = [pc EXCEPT ![c] = to],
         UNCHANGED <<inbox, seen, sends, sentAt>>
  PROVE  Broadcast!Leave(c)
<1>1. /\ Phase(c) # "gone" /\ Phase(c)' = "gone" /\ Due(c)' = <<>>
      /\ \A d \in Conns \ {c} : Phase(d)' = Phase(d) /\ Due(d)' = Due(d)
  BY DEF TypeOK, Phase, Due, Ended, Open
<1>2. [d \in Conns |-> Phase(d)]' =
        [[d \in Conns |-> Phase(d)] EXCEPT ![c] = "gone"]
  BY <1>1
<1>3. [d \in Conns |-> Due(d)]' = [[d \in Conns |-> Due(d)] EXCEPT ![c] = <<>>]
  BY <1>1
<1> QED BY <1>1, <1>2, <1>3 DEF Broadcast!Leave, Due

\* A step of c that stays on the same side of joining and leaving.
LEMMA PcStutter ==
  ASSUME TypeOK, NEW c \in Conns, NEW to \in ControlPoints,
         pc' = [pc EXCEPT ![c] = to],
         to \notin Ended, pc[c] \notin Ended,
         to \in Open \cup {"accept", "leave"} <=> pc[c] \in Open \cup {"accept", "leave"},
         UNCHANGED <<inbox, seen, sends, sentAt>>
  PROVE  UNCHANGED Broadcast!vars
<1>1. \A d \in Conns : Phase(d)' = Phase(d) /\ Due(d)' = Due(d)
  BY DEF TypeOK, Phase, Due
<1> QED BY <1>1, StutterStep

LEMMA GroupAddJoins ==
  ASSUME IInv, NEW c \in Conns, GroupAdd(c)
  PROVE  Broadcast!Join(c)
<1>1. /\ pc[c] = "join" /\ pc' = [pc EXCEPT ![c] = "accept"]
      /\ UNCHANGED <<inbox, seen, sends, sentAt>> /\ TypeOK
  BY DEF GroupAdd, Goto, histVars, IInv
<1>2. /\ Phase(c) = "out" /\ Phase(c)' = "in"
      /\ \A d \in Conns \ {c} : Phase(d)' = Phase(d)
      /\ \A d \in Conns : Due(d)' = Due(d)
  BY <1>1 DEF TypeOK, Phase, Due, Ended, Open
<1>3. /\ [d \in Conns |-> Phase(d)]' =
           [[d \in Conns |-> Phase(d)] EXCEPT ![c] = "in"]
      /\ [d \in Conns |-> Due(d)]' = [d \in Conns |-> Due(d)]
  BY <1>2
<1> QED BY <1>1, <1>2, <1>3 DEF Broadcast!Join, Due

LEMMA ChatMessageDelivers ==
  ASSUME IInv, NEW c \in Conns, ChatMessage(c)
  PROVE  Broadcast!Deliver(c)
<1>1. /\ pc[c] = "open" /\ pc' = pc /\ inbox[c] # <<>> /\ TypeOK
      /\ seen' = [seen EXCEPT ![c] = Append(@, Head(inbox[c]))]
      /\ inbox' = [inbox EXCEPT ![c] = Tail(@)]
      /\ UNCHANGED <<sends, sentAt>>
  BY DEF ChatMessage, histVars, IInv
<1>2. /\ Phase(c) = "in" /\ Due(c) = inbox[c] /\ Due(c)' = Tail(inbox[c])
      /\ \A d \in Conns \ {c} : Due(d)' = Due(d)
      /\ \A d \in Conns : Phase(d)' = Phase(d)
  BY <1>1 DEF TypeOK, Phase, Due, Ended, Open
<1>3. /\ [d \in Conns |-> Phase(d)]' = [d \in Conns |-> Phase(d)]
      /\ [d \in Conns |-> Due(d)]' =
           [[d \in Conns |-> Due(d)] EXCEPT ![c] = Tail(@)]
  BY <1>2
<1> QED BY <1>1, <1>2, <1>3 DEF Broadcast!Deliver, Due

\* A group_send posts to those who are in the room; who is not in the group,
\* or has ended, has nothing due.
LEMMA GroupSendPosts ==
  ASSUME IInv, NEW c \in Conns, GroupSend(c),
         NEW m \in Messages, m = Current(c)
  PROVE  Broadcast!Post(m)
<1> DEFINE members == group[NameOf[c]]
           inside == {d \in Conns : Phase(d) = "in" /\ NameOf[d] = NameOf[c]}
<1>1. /\ sentAt[m] = 0 /\ seen' = seen /\ m[1] = c
      /\ sentAt' = [sentAt EXCEPT ![m] = sends + 1]
  BY GroupSendFacts DEF Current
<1>2. PICK miss \in SUBSET members :
        inbox' = [d \in Conns |-> IF d \in members
                                 THEN Push(inbox[d], m, d \in miss)
                                 ELSE inbox[d]]
  BY GroupSendFacts
<1>3. /\ TypeOK /\ pc[c] = "send" /\ pc' = [pc EXCEPT ![c] = "open"]
      /\ sends' = sends + 1
  BY DEF IInv, GroupSend, GroupSendTo, Goto
<1>4. Phase(c) = "in" /\ \A d \in Conns : Phase(d)' = Phase(d)
  BY <1>3 DEF TypeOK, Phase, Open, Ended
<1>5. \A d \in members : d \in Conns /\ (pc[d] \in Ended \/ d \in inside)
  BY <1>3, ConnsAssumption
     DEF IInv, GroupsByName, MembersAreThoseInside, TypeOK, ControlPoints, Phase,
         Open, Ended, Outside
<1> DEFINE full == {d \in inside : ~(Len(inbox[d]) < Capacity)}
           hears == {d \in inside : d \in members /\ ~(d \in full /\ d \in miss)}
<1>6. ASSUME NEW d \in Conns
      PROVE  Due(d)' = IF d \notin hears THEN Due(d)
                       ELSE IF d \in full /\ Due(d) # <<>>
                            THEN Append(Tail(Due(d)), m)
                       ELSE Append(Due(d), m)
  <2>1. Due(d)' = IF pc[d] \in Ended THEN <<>> ELSE inbox'[d]
    BY <1>3 DEF Due, TypeOK, Ended
  <2>2. CASE pc[d] \in Ended
    BY <2>1, <2>2 DEF Due, Phase
  <2>3. CASE pc[d] \notin Ended /\ d \notin members
    BY <1>2, <2>1, <2>3 DEF Due
  <2>4. CASE pc[d] \notin Ended /\ d \in members
    <3>1. Due(d) = inbox[d] /\ Due(d)' = Push(inbox[d], m, d \in miss) /\ d \in inside
      BY <1>2, <1>5, <2>1, <2>4 DEF Due
    <3>2. d \in full => inbox[d] # <<>>
      BY BoundsAssumption
    <3> QED BY <2>4, <3>1, <3>2 DEF Push
  <2> QED BY <2>2, <2>3, <2>4
<1>7. hears \in SUBSET inside /\ full \in SUBSET inside
  OBVIOUS
<1>8. [d \in Conns |-> Phase(d)]' = [d \in Conns |-> Phase(d)]
  BY <1>4
<1>9. [d \in Conns |-> Due(d)]' =
        [d \in Conns |->
           IF d \notin hears THEN Due(d)
           ELSE IF d \in full /\ Due(d) # <<>> THEN Append(Tail(Due(d)), m)
           ELSE Append(Due(d), m)]
  BY <1>6
<1> HIDE DEF full, hears
<1>10. \E h, f \in SUBSET inside :
         [d \in Conns |-> Due(d)]' =
           [d \in Conns |->
              IF d \notin h THEN Due(d)
              ELSE IF d \in f /\ Due(d) # <<>> THEN Append(Tail(Due(d)), m)
              ELSE Append(Due(d), m)]
  BY <1>7, <1>9
<1>11. inside = {d \in Conns : /\ [e \in Conns |-> Phase(e)][d] = "in"
                               /\ NameOf[d] = NameOf[[w \in Messages |-> w[1]][m]]}
  BY <1>1
<1>12. \E h, f \in SUBSET {d \in Conns :
                              /\ [e \in Conns |-> Phase(e)][d] = "in"
                              /\ NameOf[d] = NameOf[[w \in Messages |-> w[1]][m]]} :
         [d \in Conns |-> Due(d)]' =
           [d \in Conns |->
              IF d \notin h THEN [e \in Conns |-> Due(e)][d]
              ELSE IF d \in f /\ [e \in Conns |-> Due(e)][d] # <<>>
                   THEN Append(Tail([e \in Conns |-> Due(e)][d]), m)
              ELSE Append([e \in Conns |-> Due(e)][d], m)]
  <2> HIDE DEF inside
  <2>1. PICK h \in SUBSET inside, f \in SUBSET inside :
         [d \in Conns |-> Due(d)]' =
           [d \in Conns |->
              IF d \notin h THEN Due(d)
              ELSE IF d \in f /\ Due(d) # <<>> THEN Append(Tail(Due(d)), m)
              ELSE Append(Due(d), m)]
    BY <1>10
  <2>2. [d \in Conns |->
              IF d \notin h THEN Due(d)
              ELSE IF d \in f /\ Due(d) # <<>> THEN Append(Tail(Due(d)), m)
              ELSE Append(Due(d), m)]
        = [d \in Conns |->
              IF d \notin h THEN [e \in Conns |-> Due(e)][d]
              ELSE IF d \in f /\ [e \in Conns |-> Due(e)][d] # <<>>
                   THEN Append(Tail([e \in Conns |-> Due(e)][d]), m)
              ELSE Append([e \in Conns |-> Due(e)][d], m)]
    OBVIOUS
  <2>3. [d \in Conns |-> Due(d)]'
        = [d \in Conns |->
              IF d \notin h THEN [e \in Conns |-> Due(e)][d]
              ELSE IF d \in f /\ [e \in Conns |-> Due(e)][d] # <<>>
                   THEN Append(Tail([e \in Conns |-> Due(e)][d]), m)
              ELSE Append([e \in Conns |-> Due(e)][d], m)]
    BY <2>1, <2>2
  <2> QED BY <1>11, <2>1, <2>3, Zenon
<1>13. /\ [e \in Conns |-> Phase(e)][[w \in Messages |-> w[1]][m]] = "in"
       /\ UNCHANGED <<[d \in Conns |-> Phase(d)], seen>>
  BY <1>1, <1>4, <1>8
<1> QED BY <1>1, <1>3, <1>12, <1>13 DEF Broadcast!Post, Due

\* Every step of the chat is a step of the broadcast, or stutters.
LEMMA StepRefines ==
  ASSUME IInv, [Next]_vars
  PROVE  [Broadcast!Next]_(Broadcast!vars)
<1> DEFINE Refined == [Broadcast!Next]_(Broadcast!vars)
<1>0. TypeOK
  BY DEF IInv
<1>1. ASSUME NEW c \in Conns, Moves(c) PROVE Refined
  <2>1. UNCHANGED <<inbox, seen, sends, sentAt>>
    BY <1>1, MovesOnlyPc
  <2>2. PICK to \in ControlPoints : MovesTo(c, to) /\ pc' = [pc EXCEPT ![c] = to]
    BY <1>1, MovesOnlyPc
  <2>3. CASE to \in Ended
    <3>1. pc[c] \notin Ended
      BY <2>2, <2>3 DEF MovesTo, Ended
    <3>2. Broadcast!Leave(c)
      BY <1>0, <2>1, <2>2, <2>3, <3>1, LeaveStep
    <3> QED BY <3>2 DEF Broadcast!Next
  <2>4. CASE to \notin Ended
    <3>1. /\ pc[c] \notin Ended
          /\ to \in Open \cup {"accept", "leave"} <=> pc[c] \in Open \cup {"accept", "leave"}
      BY <2>2, <2>4 DEF MovesTo, Ended, Open
    <3> QED BY <1>0, <2>1, <2>2, <2>4, <3>1, PcStutter
  <2> QED BY <2>3, <2>4
<1>2. ASSUME NEW c \in Conns,
             Enters(c) \/ ReceiveText(c) \/ SaveMessage(c) \/ SaveFails(c)
      PROVE  Refined
  <2>1. /\ UNCHANGED <<inbox, seen, sends, sentAt>>
        /\ \/ /\ pc[c] \in {"room", "create", "again"}
              /\ pc' = [pc EXCEPT ![c] = "join"]
           \/ pc[c] = "open" /\ pc' = [pc EXCEPT ![c] = "save"]
           \/ pc[c] = "save" /\ pc' = [pc EXCEPT ![c] = "send"]
           \/ pc[c] = "save" /\ pc' = [pc EXCEPT ![c] = "open"]
    BY <1>2 DEF Enters, GetRoom, CreateRoom, ReceiveText, SaveMessage, SaveFails,
                Goto, layerVars, histVars
  <2>2. PICK to \in ControlPoints :
          /\ pc' = [pc EXCEPT ![c] = to]
          /\ to \notin Ended /\ pc[c] \notin Ended
          /\ to \in Open \cup {"accept", "leave"} <=> pc[c] \in Open \cup {"accept", "leave"}
    BY <2>1 DEF Ended, Open, ControlPoints
  <2> QED BY <1>0, <2>1, <2>2, PcStutter
<1>3. ASSUME NEW c \in Conns, GroupAdd(c) PROVE Refined
  BY <1>3, GroupAddJoins DEF Broadcast!Next
<1>4. ASSUME NEW c \in Conns, GroupSend(c) PROVE Refined
  <2>1. PICK m \in Messages : m = Current(c)
    BY <1>4, GroupSendFacts
  <2>2. Broadcast!Post(m)
    BY <1>4, <2>1, GroupSendPosts
  <2> QED BY <2>2 DEF Broadcast!Next
<1>5. ASSUME NEW c \in Conns, ChatMessage(c) PROVE Refined
  BY <1>5, ChatMessageDelivers DEF Broadcast!Next
<1>6. ASSUME NEW c \in Conns, GroupDiscard(c) PROVE Refined
  <2>1. /\ pc[c] = "leave" /\ pc' = [pc EXCEPT ![c] = "closed"]
        /\ UNCHANGED <<inbox, seen, sends, sentAt>>
    BY <1>6 DEF GroupDiscard, Goto, histVars
  <2>2. Broadcast!Leave(c)
    BY <1>0, <2>1, LeaveStep DEF Ended
  <2> QED BY <2>2 DEF Broadcast!Next
<1>7. ASSUME UNCHANGED <<pc, inbox, seen, sends, sentAt>> PROVE Refined
  BY <1>7, StutterStep DEF Phase, Due
<1>8. ASSUME NEW c \in Conns, ExpireMembership(c) PROVE Refined
  BY <1>7, <1>8 DEF ExpireMembership, histVars
<1>9. ASSUME Clears PROVE Refined
  BY <1>7, <1>9 DEF Clears, DeleteMessages, DeleteRoom, layerVars, histVars
<1>10. ASSUME NEW u \in Users, DeleteUser(u) PROVE Refined
  BY <1>7, <1>10 DEF DeleteUser, layerVars, histVars
<1>11. UNCHANGED vars => Refined
  BY <1>7 DEF vars, layerVars, histVars
<1> QED
  BY <1>1, <1>2, <1>3, <1>4, <1>5, <1>6, <1>8, <1>9, <1>10, <1>11
     DEF Next, Server, Client, Moves, Enters, Clears, Quiet

\* The chat is a broadcast per room: at most once, in one order, to those who
\* are in the room.
THEOREM Refinement == Spec => BroadcastSpec
<1>1. IInv /\ [Next]_vars => [Broadcast!Next]_(Broadcast!vars)
  BY StepRefines
<1> QED
  BY <1>1, InitRefines, Invariance, PTL DEF Spec, BroadcastSpec, Broadcast!Spec

=============================================================================
