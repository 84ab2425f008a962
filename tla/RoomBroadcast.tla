---------------------------- MODULE RoomBroadcast ---------------------------
(***************************************************************************)
(* What the chat promises to its users (the class comment of ChatConsumer  *)
(* and docs/architecture.md), without database, handlers or groups: a room *)
(* is a broadcast in which                                                 *)
(*   - only connections that are in a room post to it and hear it,         *)
(*   - posts of all rooms are numbered in one order, each at most once,    *)
(*   - everyone hears what was posted after joining, in that order,        *)
(*     possibly with gaps, never twice.                                    *)
(***************************************************************************)
EXTENDS Integers, Sequences

CONSTANTS
  Conns, Messages,
  RoomOf,    \* Conns -> rooms
  AuthorOf   \* Messages -> Conns

VARIABLES
  phase,  \* phase[c]: "out" before it joins, "in" the room, or "gone"
  due,    \* due[c]: posts on their way to c
  seen,   \* seen[c]: posts c has received, in order
  posts,  \* number of posts so far
  at      \* at[m]: the number of post m, 0 if it was never posted

vars == <<phase, due, seen, posts, at>>

Init ==
  /\ phase = [c \in Conns |-> "out"]
  /\ due = [c \in Conns |-> <<>>]
  /\ seen = [c \in Conns |-> <<>>]
  /\ posts = 0
  /\ at = [m \in Messages |-> 0]

Join(c) ==
  /\ phase[c] = "out"
  /\ phase' = [phase EXCEPT ![c] = "in"]
  /\ UNCHANGED <<due, seen, posts, at>>

\* A connection that ends, joined or not, is told nothing more.
Leave(c) ==
  /\ phase[c] # "gone"
  /\ phase' = [phase EXCEPT ![c] = "gone"]
  /\ due' = [due EXCEPT ![c] = <<>>]
  /\ UNCHANGED <<seen, posts, at>>

\* m reaches those of the room that are in hears; of these, the ones in full
\* lose the oldest post that waited for them.
Post(m) ==
  LET c == AuthorOf[m]
  IN /\ phase[c] = "in"
     /\ at[m] = 0
     /\ posts' = posts + 1
     /\ at' = [at EXCEPT ![m] = posts + 1]
     /\ \E hears, full \in SUBSET {d \in Conns : phase[d] = "in" /\ RoomOf[d] = RoomOf[c]} :
          due' = [d \in Conns |->
                    IF d \notin hears THEN due[d]
                    ELSE IF d \in full /\ due[d] # <<>> THEN Append(Tail(due[d]), m)
                    ELSE Append(due[d], m)]
     /\ UNCHANGED <<phase, seen>>

Deliver(c) ==
  /\ phase[c] = "in"
  /\ due[c] # <<>>
  /\ seen' = [seen EXCEPT ![c] = Append(@, Head(due[c]))]
  /\ due' = [due EXCEPT ![c] = Tail(@)]
  /\ UNCHANGED <<phase, posts, at>>

Next ==
  \/ \E c \in Conns : Join(c) \/ Leave(c) \/ Deliver(c)
  \/ \E m \in Messages : Post(m)

Spec == Init /\ [][Next]_vars

=============================================================================
