------------------------------ MODULE Redaction -----------------------------
(***************************************************************************)
(* log_redact: which names are sensitive, and how headers and JSON bodies  *)
(* are masked before they are logged.  JSON values are trees: a leaf, a    *)
(* dict of named values, a list.  Names are opaque; what lower() and "in"  *)
(* say of them is given by Lower and Contains.                             *)
(***************************************************************************)
EXTENDS Integers, Sequences

CONSTANTS
  Names,         \* header and field names
  Lower,         \* Names -> Names
  Contains,      \* set of <<name, substring>>
  SensitiveHeaders, SensitiveSubstrings,
  REDACTED,
  Json,          \* the JSON values there are, with all that is nested in them
  Depth,         \* Depth[v]: how deeply v nests
  RecursionLimit, \* calls of redact_body that may be open at once
  Paths          \* the places in them that one asks about

Leaf(x) == [kind |-> "leaf", leaf |-> x]
Dict(items) == [kind |-> "dict", items |-> items]
List(elements) == [kind |-> "list", elements |-> elements]

\* One step into a value: to what has a name, or to what is at a position.
Name(n) == [name |-> n]
Position(i) == [position |-> i]
IsName(step) == "name" \in DOMAIN step

ASSUME NamesAssumption ==
  /\ Lower \in [Names -> Names]
  /\ \A n \in Names : Lower[Lower[n]] = Lower[n]
  /\ Contains \subseteq Names \X SensitiveSubstrings
  /\ \A path \in Paths : path \in Seq([name : Names] \cup [position : Nat])

\* Values are finite trees: what a value holds is a value, and less deep.
ASSUME JsonAssumption ==
  /\ Depth \in [Json -> Nat]
  /\ \A v \in Json :
       \/ v.kind = "leaf" /\ v = Leaf(v.leaf)
       \/ /\ v.kind = "dict" /\ v = Dict(v.items)
          /\ DOMAIN v.items \subseteq Names
          /\ \A n \in DOMAIN v.items : v.items[n] \in Json /\ Depth[v.items[n]] < Depth[v]
       \/ /\ v.kind = "list" /\ v = List(v.elements)
          /\ v.elements \in Seq(Json)
          /\ \A i \in DOMAIN v.elements : Depth[v.elements[i]] < Depth[v]

IsSensitiveField(name) ==
  \E s \in SensitiveSubstrings : <<Lower[name], s>> \in Contains

RedactHeaders(headers) ==
  [n \in DOMAIN headers |-> IF Lower[n] \in SensitiveHeaders THEN REDACTED ELSE headers[n]]

\* Slip: only the keys of the outermost dict are looked at.
RedactOutermost(value) ==
  IF value.kind = "dict"
  THEN Dict([n \in DOMAIN value.items |->
               IF IsSensitiveField(n) THEN Leaf(REDACTED) ELSE value.items[n]])
  ELSE value

\* redact_body, which calls itself on what a value holds.
Redacted[v \in Json] ==
  CASE v.kind = "dict" ->
         Dict([n \in DOMAIN v.items |->
                 IF IsSensitiveField(n) THEN Leaf(REDACTED) ELSE Redacted[v.items[n]]])
    [] v.kind = "list" ->
         List([i \in DOMAIN v.elements |-> Redacted[v.elements[i]]])
    [] OTHER -> v

RedactBody(value) == Redacted[value]

\* What nests so deeply that json.loads gives up on it.
Bottomless == [kind |-> "bottomless"]

-----------------------------------------------------------------------------
(***************************************************************************)
(* What redaction is for, told without recursion over values: by what one  *)
(* finds at the end of a path.                                             *)
(***************************************************************************)
Absent == [kind |-> "absent"]

Child(value, step) ==
  CASE value.kind = "dict" /\ IsName(step) ->
         IF step.name \in DOMAIN value.items THEN value.items[step.name] ELSE Absent
    [] value.kind = "list" /\ ~IsName(step) ->
         IF step.position \in DOMAIN value.elements THEN value.elements[step.position] ELSE Absent
    [] OTHER -> Absent

\* What is in a value at the end of a path.
At(value, path) ==
  LET at[i \in 0..Len(path)] == IF i = 0 THEN value ELSE Child(at[i - 1], path[i])
  IN at[Len(path)]

\* A node without what is below it.
Shape(value) ==
  CASE value.kind = "dict" -> [kind |-> "dict", names |-> DOMAIN value.items]
    [] value.kind = "list" -> [kind |-> "list", positions |-> DOMAIN value.elements]
    [] OTHER -> value

Secret(step) == IsName(step) /\ IsSensitiveField(step.name)
Secrets(path) == {i \in DOMAIN path : Secret(path[i])}

\* RecursionError: every value on the way down holds a call open, and one
\* under a sensitive name is not walked into.
TooDeep(value) ==
  \/ value = Bottomless
  \/ \E path \in Paths :
       Len(path) >= RecursionLimit /\ Secrets(path) = {} /\ At(value, path) # Absent

\* Of a body exactly what is under a sensitive name is replaced, by one mask at
\* the outermost such name, on any depth; everything else is as it was.
Masks(original, dumped) ==
  \A path \in Paths :
    LET sent == At(original, path)
        shown == At(dumped, path)
    IN /\ Secrets(path) = {} => Shape(shown) = Shape(sent)
       /\ Secrets(path) = {Len(path)} =>
            shown = IF sent = Absent THEN Absent ELSE Leaf(REDACTED)
       /\ (\E i \in Secrets(path) : i < Len(path)) => shown = Absent

=============================================================================
