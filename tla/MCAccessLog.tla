---------------------------- MODULE MCAccessLog -----------------------------
(***************************************************************************)
(* An instance of AccessLog for TLC: two workers, two requests, bodies     *)
(* like those of registration (a password), of login (a pair of tokens),   *)
(* a list of dicts nested below an innocent name, one that the limit cuts, *)
(* one of which it cuts off only padding, and two that nest too deeply for *)
(* the dump.                                                               *)
(***************************************************************************)
EXTENDS AccessLog, TLC

CONSTANTS w1, w2
Swaps == Permutations({w1, w2})

MCNames == {"Authorization", "authorization", "X-Request-ID", "x-request-id",
            "username", "New_Password", "new_password", "access", "items", "note"}
MCLower == [n \in MCNames |-> CASE n = "Authorization" -> "authorization"
                                [] n = "X-Request-ID" -> "x-request-id"
                                [] n = "New_Password" -> "new_password"
                                [] OTHER -> n]
MCContains == {<<"new_password", "password">>, <<"access", "access">>}
MCHeaderMaps == {[n \in {"Authorization", "X-Request-ID"} |-> n]}
MCFresh == [r \in Requests |-> IF r = "r1" THEN "id1" ELSE "id2"]

\* Lists in lists: one more than redact_body can walk into.
Deep == List(<<List(<<List(<<List(<<Leaf("text")>>)>>)>>)>>)
\* What a sensitive name stands for is not walked into.
Register == Dict([n \in {"username", "New_Password"} |->
                    IF n = "username" THEN Leaf(n) ELSE Deep])
Pair == Dict([n \in {"access"} |-> List(<<Leaf("token")>>)])
Nested == Dict([n \in {"items"} |-> List(<<Leaf("text"), Register, List(<<Pair>>)>>)])

Body(value, size, cut) == [type |-> "json", size |-> size, value |-> value, cut |-> cut]
Form == [type |-> "form", size |-> 1, value |-> Invalid, cut |-> Invalid]
MCRequestBodies ==
  [r \in Requests |->
     IF r = "r1"
     THEN {Form, Body(Nested, 1, Nested), Body(Nested, 2, Invalid),
           Body(Register, 2, Register), Body(Deep, 1, Deep),
           Body(Bottomless, 1, Bottomless)}
     ELSE {EmptyBody}]
MCResponseBodies ==
  {[type |-> "json", size |-> 1, value |-> Pair, cut |-> Pair, streaming |-> FALSE],
   [type |-> "json", size |-> 2, value |-> Nested, cut |-> Nested, streaming |-> FALSE],
   [type |-> "html", size |-> 1, value |-> Invalid, cut |-> Invalid, streaming |-> FALSE]}

RECURSIVE Inside(_)
Inside(v) ==
  {v} \cup UNION CASE v.kind = "dict" -> {Inside(v.items[n]) : n \in DOMAIN v.items}
                   [] v.kind = "list" -> {Inside(v.elements[i]) : i \in DOMAIN v.elements}
                   [] OTHER -> {}
MCJson == UNION {Inside(v) : v \in {Register, Nested, Pair, Deep}}

RECURSIVE MCDepthOf(_)
MCDepthOf(v) ==
  LET inside == {MCDepthOf(u) : u \in Inside(v) \ {v}}
  IN IF inside = {} THEN 0 ELSE 1 + (CHOOSE d \in inside : \A e \in inside : e <= d)
MCDepth == [v \in MCJson |-> MCDepthOf(v)]

RECURSIVE PathsIn(_)
PathsIn(v) ==
  {<<>>} \cup UNION CASE
     v.kind = "dict" -> {{<<Name(n)>> \o p : p \in PathsIn(v.items[n])} : n \in DOMAIN v.items}
  [] v.kind = "list" -> {{<<Position(i)>> \o p : p \in PathsIn(v.elements[i])} :
                           i \in DOMAIN v.elements}
  [] OTHER -> {}
MCPaths == UNION {PathsIn(v) : v \in {Register, Nested, Pair, Deep}}

=============================================================================
