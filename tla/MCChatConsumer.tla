--------------------------- MODULE MCChatConsumer ---------------------------
(***************************************************************************)
(* Instances of ChatConsumer for TLC.                                      *)
(***************************************************************************)
EXTENDS ChatConsumer, TLC

CONSTANTS a, b, x, lobby, Dev_1, ann, bob

\* One room; b and x are two connections of the same user.
LobbyNameOf == [c \in Conns |-> lobby]

\* One text on each connection, or a second one on a.
OneTextOf == [c \in Conns |-> 1]
ASecondTextOf == [c \in Conns |-> IF c = a THEN 2 ELSE 1]

\* Two rooms: x is in the second one.
TwoRoomsNameOf == [c \in Conns |-> IF c = x THEN Dev_1 ELSE lobby]

MCUserOf == [c \in Conns |-> IF c = a THEN ann ELSE bob]

\* All connections are of one account: a and b can be swapped.
OneUserOf == [c \in Conns |-> ann]
Swaps == Permutations({a, b})

=============================================================================
