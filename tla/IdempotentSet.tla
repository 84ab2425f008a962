---------------------------- MODULE IdempotentSet ---------------------------
(***************************************************************************)
(* What the REST interface promises of rooms and reactions (the class      *)
(* comments of MessageReactionsView and MessageReactionDetailView): a set  *)
(* of keys to which every request applies one atomic operation or none,    *)
(* and whose answer tells what the operation found:                        *)
(*   201  the key was added by this request,                               *)
(*   200  the key was there already,                                       *)
(*   204  the key is gone,                                                 *)
(*   4xx  the request has changed nothing.                                 *)
(* A request that fails (500) or dies unanswered ("killed") has applied    *)
(* its operation once or not at all.                                       *)
(* Keys also vanish when what they refer to is deleted.                    *)
(***************************************************************************)
CONSTANTS
  Posts,    \* requests to add a key
  Deletes,  \* requests to remove one
  KeyOf     \* Posts \cup Deletes -> keys

VARIABLES
  rows,    \* the keys in the set
  answers  \* answers[r]: "none" until request r is answered

vars == <<rows, answers>>

Init ==
  /\ answers = [r \in Posts \cup Deletes |-> "none"]

Answer(r, status) ==
  /\ answers[r] = "none"
  /\ answers' = [answers EXCEPT ![r] = status]

Add(r) ==
  /\ KeyOf[r] \notin rows
  /\ rows' = rows \cup {KeyOf[r]}
  /\ Answer(r, "201")

Confirm(r) ==
  /\ KeyOf[r] \in rows
  /\ Answer(r, "200")
  /\ UNCHANGED rows

Remove(r) ==
  /\ rows' = rows \ {KeyOf[r]}
  /\ Answer(r, "204")

Refuse(r) ==
  /\ \E status \in {"400", "401", "404", "500", "killed"} : Answer(r, status)
  /\ UNCHANGED rows

\* The operation is applied and its answer is lost.
Lose(r) ==
  /\ rows' = IF r \in Posts THEN rows \cup {KeyOf[r]} ELSE rows \ {KeyOf[r]}
  /\ \E status \in {"500", "killed"} : Answer(r, status)

Cascade ==
  /\ \E gone \in SUBSET rows : rows' = rows \ gone
  /\ UNCHANGED answers

Next ==
  \/ \E r \in Posts : Add(r) \/ Confirm(r) \/ Refuse(r) \/ Lose(r)
  \/ \E r \in Deletes : Remove(r) \/ Refuse(r) \/ Lose(r)
  \/ Cascade

Spec == Init /\ [][Next]_vars

=============================================================================
