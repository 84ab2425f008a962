----------------------------- MODULE MCDemoData -----------------------------
(***************************************************************************)
(* An instance of DemoData for TLC: two runs of seed_all and flush_demo    *)
(* next to each other, while somebody, a real user or a demo user, writes  *)
(* to a demo room or to another one.                                       *)
(***************************************************************************)
EXTENDS DemoData, TLC

CONSTANTS s1, s2, f1

Swaps == Permutations({s1, s2})
MCDemoUsers == <<"oleksa", "mariia">>
MCDemoRooms == <<"general">>
MCCommand == [p \in Programs |-> IF p = f1 THEN "flush_demo" ELSE "seed_all"]

=============================================================================
