----------------------------- MODULE MCAccounts -----------------------------
(***************************************************************************)
(* Instances of Accounts for TLC.  Two people register while seed_users    *)
(* runs once or twice: the first under the name of one demo user and with  *)
(* the address of the other in capital letters, the second under a name    *)
(* that becomes the other demo user's when it is normalised (full-width    *)
(* letters, say).                                                          *)
(***************************************************************************)
EXTENDS Accounts

CONSTANTS r1, r2

MCNormal == [m \in Mails |-> IF m = "Demo@X" THEN "demo@x" ELSE m]
MCNameOf == [r \in Requests |-> IF r = r1 THEN "two" ELSE "wide"]
MCNormalName == [n \in Names |-> IF n = "wide" THEN "demo" ELSE n]
MCMailOf == [r \in Requests |-> IF r = r1 THEN "Demo@X" ELSE "bob@x"]
MCDemoMail == [n \in Names |-> IF n = "demo" THEN "demo@x" ELSE "two@x"]
MCDemo == <<"demo", "two">>
MCOneDemo == <<"demo">>

=============================================================================
