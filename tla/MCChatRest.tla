----------------------------- MODULE MCChatRest -----------------------------
(***************************************************************************)
(* Instances of ChatRest for TLC.  Reactions: u1 clicks twice on the same  *)
(* emoji of message 1 and takes it back, u2 chooses another one, and u1    *)
(* reads the page.  History: a client creates the room, two processes write  *)
(* to it and a client reads it, one page after the other.                  *)
(***************************************************************************)
EXTENDS ChatRest, TLC

CONSTANTS post1, post2
Clicks == Permutations({post1, post2})

React(u, e) == [message |-> 1, user |-> u, emoji |-> e]
MCUserOf == [r \in Requests |-> IF r \in {"post3", "get2"} THEN "u2" ELSE "u1"]
MCKeyOf == [r \in Posts \cup Deletes |->
              CASE r \in {"room1", "room2"} -> Room
                [] r = "post3" -> React("u2", "heart")
                [] OTHER -> React("u1", "thumb")]
MCSenderOf == [w \in Writers |-> IF w = "daphne" THEN "u2" ELSE "u1"]
MCLimitOf == [g \in Readers |-> IF g = "get2" THEN 3 ELSE 1]

=============================================================================
