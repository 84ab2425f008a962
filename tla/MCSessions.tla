----------------------------- MODULE MCSessions -----------------------------
(***************************************************************************)
(* An instance of Sessions for TLC: one login, two refreshes and a logout   *)
(* or a handshake, which may overlap in any way.                           *)
(***************************************************************************)
EXTENDS Sessions

MCUserOf == [r \in Logins |-> "ann"]

=============================================================================
