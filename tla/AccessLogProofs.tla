--------------------------- MODULE AccessLogProofs ---------------------------
(***************************************************************************)
(* Proofs about Redaction, for JSON values of any shape and depth, and     *)
(* about AccessLog, whatever bodies, headers and statuses there are.       *)
(***************************************************************************)
EXTENDS AccessLog, TLAPS, WellFoundedInduction

(***************************************************************************)
(* Induction.                                                              *)
(***************************************************************************)
\* A set that holds a number whenever it holds all smaller ones holds them all.
LEMMA Induction ==
  ASSUME NEW S, \A n \in Nat : (\A m \in Nat : m < n => m \in S) => n \in S
  PROVE  Nat \subseteq S
<1> SUFFICES ASSUME Nat \ S # {} PROVE FALSE
  OBVIOUS
<1>1. PICK n \in Nat \ S : \A m \in Nat \ S : ~ (<<m, n>> \in OpToRel(<, Nat))
  <2> HIDE DEF OpToRel
  <2>1. IsWellFoundedOn(OpToRel(<, Nat), Nat)
    BY NatLessThanWellFounded
  <2> DEFINE T == Nat \ S
  <2>2. T \subseteq Nat /\ T # {}
    OBVIOUS
  <2>3. \E n \in T : \A m \in T : ~ (<<m, n>> \in OpToRel(<, Nat))
    <3> HIDE DEF T
    <3> QED BY <2>1, <2>2, WFMin
  <2> QED BY <2>3
<1>2. \A m \in Nat : m < n => m \in S
  BY <1>1 DEF OpToRel
<1> QED BY <1>1, <1>2

(***************************************************************************)
(* Redacted satisfies its equation.                                        *)
(***************************************************************************)
\* What redact_body makes of v when f is what it makes of the values v holds.
RedactWith(f, v) ==
  CASE v.kind = "dict" ->
         Dict([n \in DOMAIN v.items |->
                 IF IsSensitiveField(n) THEN Leaf(REDACTED) ELSE f[v.items[n]]])
    [] v.kind = "list" ->
         List([i \in DOMAIN v.elements |-> f[v.elements[i]]])
    [] OTHER -> v

Shallow(k) == {v \in Json : Depth[v] < k}
Solves(f, k) == f = [v \in Shallow(k) |-> RedactWith(f, v)]

LEMMA RedactWithIsLocal ==
  ASSUME NEW v \in Json, NEW f, NEW g,
         \A u \in Json : Depth[u] < Depth[v] => f[u] = g[u]
  PROVE  RedactWith(f, v) = RedactWith(g, v)
<1>1. CASE v.kind = "leaf"
  BY <1>1 DEF RedactWith
<1>2. CASE v.kind = "dict"
  <2>1. \A n \in DOMAIN v.items : f[v.items[n]] = g[v.items[n]]
    BY <1>2, JsonAssumption DEF Leaf, List
  <2> QED BY <1>2, <2>1 DEF RedactWith
<1>3. CASE v.kind = "list"
  <2>1. \A i \in DOMAIN v.elements : v.elements[i] \in Json /\ Depth[v.elements[i]] < Depth[v]
    BY <1>3, JsonAssumption DEF Leaf, Dict
  <2>2. \A i \in DOMAIN v.elements : f[v.elements[i]] = g[v.elements[i]]
    BY <2>1
  <2> QED BY <1>3, <2>2 DEF RedactWith
<1> QED BY <1>1, <1>2, <1>3, JsonAssumption

\* Two partial solutions agree where both are defined.
LEMMA SolutionsAgree ==
  ASSUME NEW k \in Nat, NEW m \in Nat, NEW f, NEW g, Solves(f, k), Solves(g, m)
  PROVE  \A v \in Json : Depth[v] < k /\ Depth[v] < m => f[v] = g[v]
<1> DEFINE Same(v) == Depth[v] < k /\ Depth[v] < m => f[v] = g[v]
           S == {n \in Nat : \A v \in Json : Depth[v] = n => Same(v)}
<1>1. ASSUME NEW n \in Nat, \A j \in Nat : j < n => j \in S PROVE n \in S
  <2> SUFFICES ASSUME NEW v \in Json, Depth[v] = n, n < k, n < m PROVE f[v] = g[v]
    OBVIOUS
  <2>1. \A u \in Json : Depth[u] < n => f[u] = g[u]
    <3> SUFFICES ASSUME NEW u \in Json, Depth[u] < n PROVE f[u] = g[u]
      OBVIOUS
    <3>1. Depth[u] \in Nat
      BY JsonAssumption
    <3>2. Depth[u] \in S /\ Depth[u] < k /\ Depth[u] < m
      BY <3>1, <1>1
    <3> QED BY <3>2
  <2>2. RedactWith(f, v) = RedactWith(g, v)
    BY <2>1, RedactWithIsLocal
  <2>3. f[v] = RedactWith(f, v)
    <3> HIDE DEF S, Same
    <3> QED BY DEF Solves, Shallow
  <2>4. g[v] = RedactWith(g, v)
    <3> HIDE DEF S, Same
    <3> QED BY DEF Solves, Shallow
  <2> QED BY <2>2, <2>3, <2>4
<1>2. Nat \subseteq S
  <2> HIDE DEF S
  <2> QED BY <1>1, Induction
<1> QED BY <1>2, JsonAssumption

LEMMA SolutionsExist == \A k \in Nat : \E f : Solves(f, k)
<1> DEFINE S == {k \in Nat : \E f : Solves(f, k)}
<1>1. ASSUME NEW k \in Nat, \A j \in Nat : j < k => j \in S PROVE k \in S
  <2>1. CASE k = 0
    <3>1. Shallow(k) = {}
      BY <2>1, JsonAssumption DEF Shallow
    <3> DEFINE e == [v \in {} |-> v]
    <3>2. Solves(e, k)
      BY <3>1 DEF Solves
    <3> QED BY <3>2
  <2>2. CASE k # 0
    <3>1. k - 1 \in S
      BY <1>1, <2>2
    <3>2. PICK f : Solves(f, k - 1)
      BY <3>1
    <3> DEFINE g == [v \in Shallow(k) |-> RedactWith(f, v)]
    <3>3. ASSUME NEW v \in Shallow(k) PROVE RedactWith(f, v) = RedactWith(g, v)
      <4>1. ASSUME NEW u \in Json, Depth[u] < Depth[v] PROVE f[u] = g[u]
        <5>1. Depth[u] < k - 1 /\ Depth[u] < k
          BY <4>1, JsonAssumption DEF Shallow
        <5>2. f[u] = RedactWith(f, u)
          BY <3>2, <5>1 DEF Solves, Shallow
        <5> QED BY <5>1, <5>2 DEF Shallow
      <4> HIDE DEF g
      <4> QED BY <4>1, RedactWithIsLocal DEF Shallow
    <3>4. g = [v \in Shallow(k) |-> RedactWith(g, v)]
      <4> DEFINE h == [v \in Shallow(k) |-> RedactWith(g, v)]
      <4>1. \A v \in Shallow(k) : RedactWith(f, v) = RedactWith(g, v)
        BY <3>3
      <4> HIDE DEF h
      <4>2. g = h
        BY <4>1 DEF h
      <4> QED BY <4>2 DEF h
    <3>5. Solves(g, k)
      <4> HIDE DEF g
      <4> QED BY <3>4 DEF Solves
    <3> QED BY <3>5
  <2> QED BY <2>1, <2>2
<1>2. Nat \subseteq S
  <2> HIDE DEF S
  <2> QED BY <1>1, Induction
<1> QED BY <1>2

LEMMA RedactedEquation == \A v \in Json : Redacted[v] = RedactWith(Redacted, v)
<1> DEFINE Part(k) == CHOOSE f : Solves(f, k)
           r == [v \in Json |-> Part(Depth[v] + 1)[v]]
<1>1. \A k \in Nat : Solves(Part(k), k)
  BY SolutionsExist
<1>2. ASSUME NEW v \in Json PROVE r[v] = RedactWith(r, v)
  <2> DEFINE d == Depth[v]
             p == Part(d + 1)
  <2>1. d \in Nat
    BY JsonAssumption
  <2>2. Solves(p, d + 1)
    BY <1>1, <2>1
  <2>3. ASSUME NEW u \in Json, Depth[u] < d PROVE p[u] = r[u]
    <3>1. Depth[u] \in Nat
      BY JsonAssumption
    <3>2. Solves(Part(Depth[u] + 1), Depth[u] + 1)
      BY <1>1, <3>1
    <3>3. p[u] = Part(Depth[u] + 1)[u]
      <4> HIDE DEF Part, p, d
      <4> QED BY <2>1, <2>2, <2>3, <3>1, <3>2, SolutionsAgree
    <3> QED BY <3>3
  <2>4. p[v] = RedactWith(p, v)
    <3> HIDE DEF Part, p
    <3> QED BY <2>1, <2>2 DEF Solves, Shallow
  <2>5. RedactWith(p, v) = RedactWith(r, v)
    <3> HIDE DEF p, r
    <3> QED BY <2>3, RedactWithIsLocal
  <2> QED BY <2>4, <2>5
<1>3. r = [v \in Json |-> RedactWith(r, v)]
  <2> DEFINE h == [v \in Json |-> RedactWith(r, v)]
  <2>1. \A v \in Json : r[v] = h[v]
    BY <1>2
  <2>2. r = h
    <3> HIDE DEF h, Part
    <3>1. h = [v \in Json |-> h[v]]
      BY DEF h
    <3> QED BY <2>1, <3>1
  <2> QED BY <2>2
<1>4. Redacted = CHOOSE f : f = [v \in Json |-> RedactWith(f, v)]
  BY DEF Redacted, RedactWith
<1>5. \E f : f = [v \in Json |-> RedactWith(f, v)]
  <2> HIDE DEF r
  <2> QED BY <1>3
<1>6. Redacted = [v \in Json |-> RedactWith(Redacted, v)]
  <2> HIDE DEF r
  <2> QED BY <1>4, <1>5
<1> QED BY <1>6

(***************************************************************************)
(* What Redacted does, case by case, and what is at the end of a path.     *)
(***************************************************************************)
LEMMA RedactedLeaf == ASSUME NEW v \in Json, v.kind = "leaf" PROVE Redacted[v] = v
BY RedactedEquation DEF RedactWith

LEMMA RedactedDict ==
  ASSUME NEW v \in Json, v.kind = "dict"
  PROVE  /\ Redacted[v].kind = "dict"
         /\ DOMAIN Redacted[v].items = DOMAIN v.items
         /\ \A n \in DOMAIN v.items :
              Redacted[v].items[n] =
                IF IsSensitiveField(n) THEN Leaf(REDACTED) ELSE Redacted[v.items[n]]
<1> DEFINE items == [n \in DOMAIN v.items |->
              IF IsSensitiveField(n) THEN Leaf(REDACTED) ELSE Redacted[v.items[n]]]
<1>1. Redacted[v] = Dict(items)
  BY RedactedEquation, Zenon DEF RedactWith
<1> QED BY <1>1 DEF Dict

LEMMA RedactedList ==
  ASSUME NEW v \in Json, v.kind = "list"
  PROVE  /\ Redacted[v].kind = "list"
         /\ DOMAIN Redacted[v].elements = DOMAIN v.elements
         /\ \A i \in DOMAIN v.elements : Redacted[v].elements[i] = Redacted[v.elements[i]]
<1> DEFINE elements == [i \in DOMAIN v.elements |-> Redacted[v.elements[i]]]
<1>1. RedactWith(Redacted, v) = List(elements)
  BY Zenon DEF RedactWith
<1>2. Redacted[v] = List(elements)
  BY <1>1, RedactedEquation
<1> QED BY <1>2 DEF List

\* A walk visits what is at the end of each beginning of a path.
IsWalk(at, value, path, k) ==
  at = [i \in 0..k |-> IF i = 0 THEN value ELSE Child(at[i - 1], path[i])]

LEMMA WalksExist == \A value, path : \A k \in Nat : \E at : IsWalk(at, value, path, k)
<1> TAKE value, path
<1> DEFINE S == {k \in Nat : \E at : IsWalk(at, value, path, k)}
<1>1. ASSUME NEW k \in Nat, \A j \in Nat : j < k => j \in S PROVE k \in S
  <2>1. CASE k = 0
    <3> DEFINE at == [i \in 0..0 |-> value]
    <3>1. at = [i \in 0..0 |-> IF i = 0 THEN value ELSE Child(at[i - 1], path[i])]
      OBVIOUS
    <3> QED BY <2>1, <3>1 DEF IsWalk
  <2>2. CASE k # 0
    <3>1. k - 1 \in S
      BY <1>1, <2>2
    <3>2. PICK old : IsWalk(old, value, path, k - 1)
      BY <3>1
    <3> DEFINE at == [i \in 0..k |-> IF i = 0 THEN value ELSE Child(old[i - 1], path[i])]
    <3>3. ASSUME NEW i \in 0..k, i # 0 PROVE at[i - 1] = old[i - 1]
      <4>1. i - 1 \in 0..(k - 1) /\ i - 1 \in 0..k
        BY <3>3
      <4>2. old[i - 1] = IF i - 1 = 0 THEN value ELSE Child(old[i - 1 - 1], path[i - 1])
        BY <3>2, <4>1 DEF IsWalk
      <4> QED BY <4>1, <4>2
    <3>4. at = [i \in 0..k |-> IF i = 0 THEN value ELSE Child(at[i - 1], path[i])]
      <4> DEFINE h == [i \in 0..k |-> IF i = 0 THEN value ELSE Child(at[i - 1], path[i])]
      <4>1. \A i \in 0..k : at[i] = h[i]
        BY <3>3
      <4>2. at = [i \in 0..k |-> at[i]] /\ h = [i \in 0..k |-> h[i]]
        OBVIOUS
      <4> HIDE DEF at, h
      <4>3. at = h
        BY <4>1, <4>2
      <4> QED BY <4>3 DEF h
    <3> HIDE DEF at
    <3> QED BY <3>4 DEF IsWalk
  <2> QED BY <2>1, <2>2
<1>2. Nat \subseteq S
  <2> HIDE DEF S
  <2> QED BY <1>1, Induction
<1> QED BY <1>2

LEMMA AtIsWhereAWalkEnds ==
  ASSUME NEW value, NEW path, Len(path) \in Nat
  PROVE  \E at : IsWalk(at, value, path, Len(path)) /\ At(value, path) = at[Len(path)]
<1> DEFINE walk == CHOOSE at : IsWalk(at, value, path, Len(path))
<1>1. IsWalk(walk, value, path, Len(path))
  BY WalksExist
<1>2. At(value, path) = walk[Len(path)]
  BY DEF At, IsWalk
<1> QED BY <1>1, <1>2

\* Where two walks get to that go the same way through a value and through what
\* redaction makes of it.
LEMMA WalksKeepStep ==
  ASSUME NEW v \in Json, NEW path \in Paths, NEW sent, NEW shown,
         IsWalk(sent, v, path, Len(path)), IsWalk(shown, Redacted[v], path, Len(path))
  PROVE  \A k \in 0..Len(path) :
           /\ (\A i \in 1..k : ~Secret(path[i])) =>
                \/ sent[k] \in Json /\ shown[k] = Redacted[sent[k]]
                \/ sent[k] = Absent /\ shown[k] = Absent
           /\ k # 0 /\ Secret(path[k]) /\ (\A i \in 1..(k - 1) : ~Secret(path[i])) =>
                shown[k] = IF sent[k] = Absent THEN Absent ELSE Leaf(REDACTED)
           /\ (\E i \in 1..(k - 1) : Secret(path[i])) => shown[k] = Absent
<1> DEFINE
      Clear(k) == \A i \in 1..k : ~Secret(path[i])
      Together(k) == \/ sent[k] \in Json /\ shown[k] = Redacted[sent[k]]
                     \/ sent[k] = Absent /\ shown[k] = Absent
      Masked(k) == shown[k] = IF sent[k] = Absent THEN Absent ELSE Leaf(REDACTED)
      P(k) == /\ Clear(k) => Together(k)
              /\ k # 0 /\ Secret(path[k]) /\ Clear(k - 1) => Masked(k)
              /\ (\E i \in 1..(k - 1) : Secret(path[i])) => shown[k] = Absent
      S == {k \in Nat : k <= Len(path) => P(k)}
<1>0. path \in Seq([name : Names] \cup [position : Nat]) /\ Len(path) \in Nat
  BY NamesAssumption
<1>1. ASSUME NEW k \in Nat, \A j \in Nat : j < k => j \in S PROVE k \in S
  <2> SUFFICES ASSUME k <= Len(path) PROVE P(k)
    OBVIOUS
  <2>1. CASE k = 0
    <3>1. sent[0] = v /\ shown[0] = Redacted[v]
      <4> HIDE DEF S, P
      <4> QED BY <1>0 DEF IsWalk
    <3> QED BY <2>1, <3>1
  <2>2. CASE k # 0
    <3> DEFINE a == sent[k - 1]
               b == shown[k - 1]
               step == path[k]
    <3>1. k - 1 \in 0..Len(path) /\ k \in 0..Len(path) /\ P(k - 1)
      BY <1>0, <1>1, <2>2
    <3>2. sent[k] = Child(a, step) /\ shown[k] = Child(b, step)
      <4> HIDE DEF S, P
      <4> QED BY <2>2, <3>1 DEF IsWalk
    <3>3. step \in [name : Names] \cup [position : Nat]
      BY <1>0, <2>2, <3>1
    <3>4. Child(Absent, step) = Absent /\ Child(Leaf(REDACTED), step) = Absent
      BY DEF Child, Absent, Leaf
    <3>5. CASE Clear(k - 1)
      <4>1. Together(k - 1)
        BY <3>1, <3>5
      <4>2. ~ \E i \in 1..(k - 1) : Secret(path[i])
        BY <3>5
      <4>3. CASE a = Absent /\ b = Absent
        <5>1. sent[k] = Absent /\ shown[k] = Absent
          BY <3>2, <3>4, <4>3
        <5> QED BY <4>2, <5>1
      <4>4. CASE a \in Json /\ b = Redacted[a]
        <5>1. /\ ~Secret(step) => Together(k)
              /\ Secret(step) => Masked(k)
          <6> HIDE DEF S, P, Clear
          <6>1. CASE a.kind = "leaf"
            <7>1. sent[k] = Absent /\ shown[k] = Absent
              BY <3>2, <4>4, <6>1, RedactedLeaf DEF Child
            <7> QED BY <7>1
          <6>2. CASE a.kind = "dict"
            <7>1. /\ b.kind = "dict" /\ DOMAIN b.items = DOMAIN a.items
                  /\ \A n \in DOMAIN a.items :
                       b.items[n] = IF IsSensitiveField(n) THEN Leaf(REDACTED)
                                    ELSE Redacted[a.items[n]]
              BY <4>4, <6>2, RedactedDict
            <7>2. CASE IsName(step) /\ step.name \in DOMAIN a.items
              <8>1. sent[k] = a.items[step.name] /\ shown[k] = b.items[step.name]
                BY <3>2, <6>2, <7>1, <7>2 DEF Child
              <8>2. a.items[step.name] \in Json
                BY <4>4, <6>2, <7>2, JsonAssumption DEF Leaf, List
              <8>3. a.items[step.name] # Absent
                BY <8>2, JsonAssumption DEF Absent
              <8> QED BY <7>1, <7>2, <8>1, <8>2, <8>3 DEF Secret
            <7>3. CASE ~ (IsName(step) /\ step.name \in DOMAIN a.items)
              <8>1. sent[k] = Absent /\ shown[k] = Absent
                BY <3>2, <6>2, <7>1, <7>3 DEF Child
              <8> QED BY <8>1
            <7> QED BY <7>2, <7>3
          <6>3. CASE a.kind = "list"
            <7>1. /\ b.kind = "list" /\ DOMAIN b.elements = DOMAIN a.elements
                  /\ \A i \in DOMAIN a.elements : b.elements[i] = Redacted[a.elements[i]]
              BY <4>4, <6>3, RedactedList
            <7>2. CASE ~IsName(step) /\ step.position \in DOMAIN a.elements
              <8>1. sent[k] = a.elements[step.position] /\ shown[k] = b.elements[step.position]
                BY <3>2, <6>3, <7>1, <7>2 DEF Child
              <8>2. a.elements \in Seq(Json)
                BY <4>4, <6>3, JsonAssumption DEF Leaf, Dict
              <8>3. a.elements[step.position] \in Json
                BY <7>2, <8>2
              <8> QED BY <7>1, <7>2, <8>1, <8>3 DEF Secret
            <7>3. CASE ~ (~IsName(step) /\ step.position \in DOMAIN a.elements)
              <8>1. sent[k] = Absent /\ shown[k] = Absent
                BY <3>2, <6>3, <7>1, <7>3 DEF Child
              <8> QED BY <8>1
            <7> QED BY <7>2, <7>3
          <6> QED BY <4>4, <6>1, <6>2, <6>3, JsonAssumption
        <5>2. Clear(k) => ~Secret(step)
          BY <2>2
        <5> QED BY <4>2, <5>1, <5>2
      <4> QED BY <4>1, <4>3, <4>4
    <3>6. CASE ~Clear(k - 1)
      <4>1. PICK i \in 1..(k - 1) : Secret(path[i])
        BY <3>6
      <4>2. shown[k] = Absent
        <5>1. CASE \E j \in 1..(k - 1 - 1) : Secret(path[j])
          BY <3>1, <3>2, <3>4, <5>1
        <5>2. CASE ~ \E j \in 1..(k - 1 - 1) : Secret(path[j])
          <6>1. i = k - 1
            BY <4>1, <5>2
          <6>2. Masked(k - 1)
            BY <3>1, <4>1, <5>2, <6>1
          <6> QED BY <3>2, <3>4, <6>2
        <5> QED BY <5>1, <5>2
      <4>3. ~Clear(k)
        BY <4>1
      <4> QED BY <3>6, <4>2, <4>3
    <3> QED BY <3>5, <3>6
  <2> QED BY <2>1, <2>2
<1>2. Nat \subseteq S
  <2> HIDE DEF S
  <2> QED BY <1>1, Induction
<1> QED BY <1>0, <1>2

\* Redaction keeps the shape of a value.
LEMMA RedactionKeepsShape == ASSUME NEW v \in Json PROVE Shape(Redacted[v]) = Shape(v)
<1>1. CASE v.kind = "leaf"
  BY <1>1, RedactedLeaf
<1>2. CASE v.kind = "dict"
  BY <1>2, RedactedDict, Zenon DEF Shape
<1>3. CASE v.kind = "list"
  BY <1>3, RedactedList DEF Shape
<1> QED BY <1>1, <1>2, <1>3, JsonAssumption

\* redact_body masks what it should and nothing else, in every JSON value.
THEOREM RedactionMasks == \A v \in Json : Masks(v, RedactBody(v))
<1> SUFFICES ASSUME NEW v \in Json, NEW path \in Paths
    PROVE LET sent == At(v, path)
              shown == At(Redacted[v], path)
          IN /\ Secrets(path) = {} => Shape(shown) = Shape(sent)
             /\ Secrets(path) = {Len(path)} =>
                  shown = IF sent = Absent THEN Absent ELSE Leaf(REDACTED)
             /\ (\E i \in Secrets(path) : i < Len(path)) => shown = Absent
  BY DEF Masks, RedactBody
<1>1. Len(path) \in Nat /\ DOMAIN path = 1..Len(path)
  BY NamesAssumption
<1>2. PICK sent : IsWalk(sent, v, path, Len(path)) /\ At(v, path) = sent[Len(path)]
  BY <1>1, AtIsWhereAWalkEnds
<1>3. PICK shown : IsWalk(shown, Redacted[v], path, Len(path))
                   /\ At(Redacted[v], path) = shown[Len(path)]
  BY <1>1, AtIsWhereAWalkEnds
<1> DEFINE k == Len(path)
<1>4. /\ (\A i \in 1..k : ~Secret(path[i])) =>
            \/ sent[k] \in Json /\ shown[k] = Redacted[sent[k]]
            \/ sent[k] = Absent /\ shown[k] = Absent
      /\ k # 0 /\ Secret(path[k]) /\ (\A i \in 1..(k - 1) : ~Secret(path[i])) =>
            shown[k] = IF sent[k] = Absent THEN Absent ELSE Leaf(REDACTED)
      /\ (\E i \in 1..(k - 1) : Secret(path[i])) => shown[k] = Absent
  <2>1. k \in 0..Len(path)
    BY <1>1
  <2> HIDE DEF k
  <2> QED BY <1>2, <1>3, <2>1, WalksKeepStep
<1>5. Secrets(path) = {} => Shape(shown[k]) = Shape(sent[k])
  <2> SUFFICES ASSUME Secrets(path) = {} PROVE Shape(shown[k]) = Shape(sent[k])
    OBVIOUS
  <2>1. \A i \in 1..k : ~Secret(path[i])
    BY <1>1 DEF Secrets
  <2> QED BY <1>4, <2>1, RedactionKeepsShape
<1>6. Secrets(path) = {k} => shown[k] = IF sent[k] = Absent THEN Absent ELSE Leaf(REDACTED)
  <2> SUFFICES ASSUME Secrets(path) = {k}
      PROVE shown[k] = IF sent[k] = Absent THEN Absent ELSE Leaf(REDACTED)
    OBVIOUS
  <2>1. k # 0 /\ Secret(path[k]) /\ \A i \in 1..(k - 1) : ~Secret(path[i])
    BY <1>1 DEF Secrets
  <2> QED BY <1>4, <2>1
<1>7. (\E i \in Secrets(path) : i < k) => shown[k] = Absent
  <2> SUFFICES ASSUME NEW i \in Secrets(path), i < k PROVE shown[k] = Absent
    OBVIOUS
  <2>1. i \in 1..(k - 1) /\ Secret(path[i])
    BY <1>1 DEF Secrets
  <2> QED BY <1>4, <2>1
<1> QED BY <1>2, <1>3, <1>5, <1>6, <1>7

(***************************************************************************)
(* What is served.                                                         *)
(***************************************************************************)
\* A worker that is busy serves a request that has been asked and not answered.
LEMMA Busy ==
  ASSUME TypeOK, ServedOnce, NEW w \in Workers, stage[w] # "idle"
  PROVE  /\ serving[w] \in Requests
         /\ Asked(w) # None
         /\ Asked(w).id \in RequestIds \cup {None}
         /\ answers[serving[w]] = None
BY DEF TypeOK, ServedOnce, Asked

LEMMA InitInv == Init => IInv
BY RequestsAssumption DEF Init, IInv, TypeOK, ServedOnce, ContextIsBound, LinesAreInTime,
   LinesAreWritten, DumpsAreGenuine, BodiesAreKept, ViewsGetTheBody, NoResult, Ids

LEMMA TypeStep == TypeOK /\ ServedOnce /\ [Next]_vars => TypeOK'
<1> SUFFICES ASSUME TypeOK, ServedOnce, [Next]_vars PROVE TypeOK'
  OBVIOUS
<1> USE DEF TypeOK, Goto
<1>1. ASSUME NEW w \in Workers, NEW r \in Requests, Accept(w, r) PROVE TypeOK'
  BY <1>1 DEF Accept, Ask
<1>2. ASSUME NEW w \in Workers, BindId(w) PROVE TypeOK'
  <2>1. (IF Asked(w).id # None THEN Asked(w).id ELSE Fresh[serving[w]]) \in Ids
    BY <1>2, Busy DEF BindId, Ids
  <2> QED BY <1>2, <2>1 DEF BindId
<1>3. ASSUME NEW w \in Workers, ReadBody(w) PROVE TypeOK'
  BY <1>3 DEF ReadBody
<1>3a. ASSUME NEW w \in Workers, NEW status \in Nat, Raise(w, status) PROVE TypeOK'
  <2>1. [NoResult EXCEPT !.status = status, !.logged = TRUE] \in
          [status : Nat, headers : HeaderMaps \cup {None}, body : ResponseBodies \cup {None},
           logged : BOOLEAN]
    BY DEF NoResult
  <2>2. result' \in [Workers -> [status : Nat, headers : HeaderMaps \cup {None},
                                body : ResponseBodies \cup {None}, logged : BOOLEAN]]
    BY <1>3a, <2>1 DEF Raise
  <2>3. stage' \in [Workers -> {"idle", "bind", "body", "view", "line", "echo"}]
    BY <1>3a DEF Raise
  <2>4. UNCHANGED <<dumpBody, serving, context, stream, asked, answers, viewed>>
    BY <1>3a DEF Raise
  <2> QED BY <2>2, <2>3, <2>4
<1>4. ASSUME NEW w \in Workers, Remark(w) PROVE TypeOK'
  BY <1>4 DEF Remark
<1>5. ASSUME NEW w \in Workers, View(w) \/ ViewRaises(w) PROVE TypeOK'
  <2>1. PICK status \in Nat, headers \in HeaderMaps, body \in ResponseBodies, logged \in BOOLEAN :
          result' = [result EXCEPT ![w] =
            [status |-> status, headers |-> headers, body |-> body, logged |-> logged]]
    <3>1. CASE View(w)
      BY <3>1, RequestsAssumption DEF View
    <3>2. CASE ViewRaises(w)
      <4>1. PICK headers \in HeaderMaps, page \in ResponseBodies :
              result' = [result EXCEPT ![w] =
                [status |-> 500, headers |-> headers, body |-> page, logged |-> TRUE]]
        BY <3>2 DEF ViewRaises
      <4>2. 500 \in Nat /\ TRUE \in BOOLEAN
        OBVIOUS
      <4> QED BY <4>1, <4>2
    <3> QED BY <1>5, <3>1, <3>2
  <2>2. result' \in [Workers -> [status : Nat, headers : HeaderMaps \cup {None},
                                body : ResponseBodies \cup {None}, logged : BOOLEAN]]
    BY <2>1
  <2>3. stage' = [stage EXCEPT ![w] = "line"] /\ UNCHANGED <<dumpBody, serving, context, asked, answers>>
    BY <1>5 DEF View, ViewRaises
  <2>4. /\ stream' \in [Workers -> {"unread", "cached", "consumed"}]
        /\ DOMAIN viewed' = Requests
    BY <1>5 DEF View, ViewRaises, BodyIsGiven
  <2> QED BY <2>2, <2>3, <2>4
<1>6. ASSUME NEW w \in Workers, WriteLine(w) PROVE TypeOK'
  BY <1>6 DEF WriteLine
<1>7. ASSUME NEW w \in Workers, Echo(w) PROVE TypeOK'
  BY <1>7, Busy DEF Echo, Answer, NoResult, Ids
<1>8. ASSUME NEW w \in Workers, Kill(w) PROVE TypeOK'
  BY <1>8 DEF Kill, NoResult, Ids
<1>9. CASE UNCHANGED vars
  BY <1>9 DEF vars
<1> QED BY <1>1, <1>2, <1>3, <1>3a, <1>4, <1>5, <1>6, <1>7, <1>8, <1>9 DEF Next, RefuseBody, FailToDump

LEMMA ServedStep == TypeOK /\ ServedOnce /\ [Next]_vars => ServedOnce'
<1> SUFFICES ASSUME TypeOK, ServedOnce, [Next]_vars PROVE ServedOnce'
  OBVIOUS
<1> USE RequestsAssumption DEF TypeOK, ServedOnce, Goto
<1>1. ASSUME NEW w \in Workers, NEW r \in Requests, Accept(w, r) PROVE ServedOnce'
  <2>1. asked'[r] # None
    BY <1>1, NoneAssumption DEF Accept
  <2> QED BY <1>1, <2>1 DEF Accept
<1>2. ASSUME NEW w \in Workers, BindId(w) PROVE ServedOnce'
  BY <1>2 DEF BindId
<1>3. ASSUME NEW w \in Workers, ReadBody(w) PROVE ServedOnce'
  BY <1>3 DEF ReadBody
<1>4. ASSUME NEW w \in Workers, Remark(w) PROVE ServedOnce'
  BY <1>4 DEF Remark
<1>5. ASSUME NEW w \in Workers, View(w) \/ ViewRaises(w) PROVE ServedOnce'
  BY <1>5, Busy DEF View, ViewRaises, BodyIsGiven, Asked
<1>5a. ASSUME NEW w \in Workers, NEW status \in Nat, stage[w] # "idle", Raise(w, status)
       PROVE  ServedOnce'
  BY <1>5a DEF Raise
<1>6. ASSUME NEW w \in Workers, WriteLine(w) PROVE ServedOnce'
  BY <1>6 DEF WriteLine
<1>7. ASSUME NEW w \in Workers, Echo(w) PROVE ServedOnce'
  BY <1>7 DEF Echo
<1>8. ASSUME NEW w \in Workers, Kill(w) PROVE ServedOnce'
  BY <1>8 DEF Kill
<1>9. CASE UNCHANGED vars
  BY <1>9 DEF vars
<1> QED
  BY <1>1, <1>2, <1>3, <1>4, <1>5, <1>5a, <1>6, <1>7, <1>8, <1>9 DEF Next, RefuseBody, FailToDump

\* What has been asked stays asked, so ids and readability do.
LEMMA AskedStays ==
  ASSUME TypeOK, [Next]_vars, NEW r \in Requests, asked[r] # None
  PROVE  /\ asked'[r] = asked[r] /\ dumpBody' = dumpBody
         /\ IdOf(r)' = IdOf(r) /\ Unreadable(r)' = Unreadable(r)
<1>1. asked'[r] = asked[r] /\ dumpBody' = dumpBody
  BY DEF TypeOK, Next, Accept, BindId, RefuseBody, ReadBody, Remark, View, ViewRaises, FailToDump,
     Raise, WriteLine, Echo, Kill, vars
<1> QED BY <1>1 DEF IdOf, Unreadable

\* An answer that has been given stays, and one that is given is told the id.
LEMMA AnswersStay ==
  ASSUME TypeOK, ServedOnce, [Next]_vars, NEW r \in Requests
  PROVE  /\ answers[r] # None => answers'[r] = answers[r]
         /\ answers'[r] = answers[r] \/ \E w \in Workers : Echo(w) /\ serving[w] = r
<1>1. ASSUME NEW w \in Workers, Echo(w)
      PROVE  /\ answers[serving[w]] = None
             /\ \A q \in Requests : q # serving[w] => answers'[q] = answers[q]
  BY <1>1, Busy DEF Echo, Goto, TypeOK
<1>2. CASE \E w \in Workers : Echo(w)
  BY <1>1, <1>2
<1>3. CASE UNCHANGED answers
  BY <1>3
<1> QED
  BY <1>2, <1>3 DEF Next, Accept, BindId, RefuseBody, ReadBody, Remark, View, ViewRaises,
     FailToDump, Raise, WriteLine, Kill, vars

(***************************************************************************)
(* Lines.                                                                  *)
(***************************************************************************)
\* Lines stay, and a new one is an access line, one of the application or of
\* Django under the id of the context, or Django's after the context is left.
IsAccessLine(line, w) ==
  /\ WriteLine(w)
  /\ line.kind = "access" /\ line.by = serving[w] /\ line.id = context[w]
  /\ line.status = result[w].status /\ line.level = LevelFor(line.status)
IsRemark(line, w) ==
  /\ line.kind # "access" /\ line.by = serving[w] /\ line.id = context[w]
  /\ stage[w] # "bind"
IsLateLine(line, w) ==
  /\ Echo(w)
  /\ line = [kind |-> "django", by |-> serving[w], id |-> "-"]
  /\ result[w].status >= 500 /\ ~result[w].logged

LEMMA NewLines ==
  ASSUME [Next]_vars
  PROVE  /\ log \subseteq log'
         /\ \A line \in log' \ log : \E w \in Workers :
              IsAccessLine(line, w) \/ IsRemark(line, w) \/ IsLateLine(line, w)
<1>1. ASSUME NEW w \in Workers, WriteLine(w)
      PROVE  log \subseteq log' /\ \A line \in log' \ log : IsAccessLine(line, w)
  BY <1>1 DEF WriteLine, IsAccessLine
<1>2. ASSUME NEW w \in Workers, NEW kind \in {"app", "django"}, stage[w] # "bind",
             log' = log \cup {Line(w, kind)}
      PROVE  log \subseteq log' /\ \A line \in log' \ log : IsRemark(line, w)
  BY <1>2 DEF Line, IsRemark
<1>3. ASSUME NEW w \in Workers, Remark(w) \/ RefuseBody(w) \/ ViewRaises(w) \/ FailToDump(w)
      PROVE  /\ stage[w] # "bind"
             /\ \E kind \in {"app", "django"} : log' = log \cup {Line(w, kind)}
  BY <1>3 DEF Remark, RefuseBody, ViewRaises, FailToDump, Raise, Goto
<1>4. ASSUME NEW w \in Workers, Echo(w)
      PROVE  log \subseteq log' /\ \A line \in log' \ log : IsLateLine(line, w)
  BY <1>4 DEF Echo, LateLine, IsLateLine
<1>5. ASSUME UNCHANGED log PROVE log \subseteq log' /\ log' \ log = {}
  BY <1>5
<1>6. \/ \E w \in Workers : WriteLine(w)
      \/ \E w \in Workers : Remark(w) \/ RefuseBody(w) \/ ViewRaises(w) \/ FailToDump(w)
      \/ \E w \in Workers : Echo(w)
      \/ UNCHANGED log
  BY DEF Next, Accept, BindId, ReadBody, View, Kill, vars
<1>7. ASSUME NEW w \in Workers, Remark(w) \/ RefuseBody(w) \/ ViewRaises(w) \/ FailToDump(w)
      PROVE  log \subseteq log' /\ \A line \in log' \ log : IsRemark(line, w)
  <2>1. PICK kind \in {"app", "django"} : log' = log \cup {Line(w, kind)}
    BY <1>3, <1>7
  <2> QED BY <1>2, <1>3, <1>7, <2>1
<1> QED BY <1>1, <1>4, <1>5, <1>6, <1>7

LEMMA ContextStep ==
  TypeOK /\ ServedOnce /\ ContextIsBound /\ LinesAreInTime /\ LinesAreWritten /\ [Next]_vars
    => ContextIsBound'
<1> SUFFICES ASSUME TypeOK, ServedOnce, ContextIsBound, LinesAreInTime, LinesAreWritten,
                    [Next]_vars
             PROVE  ContextIsBound'
  OBVIOUS
<1> USE RequestsAssumption DEF TypeOK, Goto
<1>0. \A w \in Workers : stage[w] # "idle" =>
        serving[w] \in Requests /\ serving[w] # None /\ asked[serving[w]] # None
  BY Busy DEF Asked
<1>1. \A r \in Requests : asked[r] # None => IdOf(r)' = IdOf(r) /\ asked'[r] = asked[r]
  BY AskedStays
<1>2. ASSUME NEW v \in Workers
      PROVE  context'[v] = IF stage'[v] \in {"idle", "bind"} THEN "-" ELSE IdOf(serving[v])'
  <2>0. context[v] = IF stage[v] \in {"idle", "bind"} THEN "-" ELSE IdOf(serving[v])
    BY DEF ContextIsBound
  <2>1. ASSUME stage'[v] = stage[v], serving'[v] = serving[v], context'[v] = context[v]
        PROVE  context'[v] = IF stage'[v] \in {"idle", "bind"} THEN "-" ELSE IdOf(serving[v])'
    <3>1. stage[v] # "idle" => \A r \in Requests : r = serving[v] => IdOf(r)' = IdOf(r)
      BY <1>0, <1>1
    <3> QED BY <1>0, <2>0, <2>1, <3>1 DEF IdOf
  <2>2. ASSUME NEW w \in Workers, NEW r \in Requests, Accept(w, r)
        PROVE  context'[v] = IF stage'[v] \in {"idle", "bind"} THEN "-" ELSE IdOf(serving[v])'
    BY <2>0, <2>1, <2>2 DEF Accept
  <2>3. ASSUME NEW w \in Workers, BindId(w)
        PROVE  context'[v] = IF stage'[v] \in {"idle", "bind"} THEN "-" ELSE IdOf(serving[v])'
    BY <2>0, <2>1, <2>3 DEF BindId, IdOf, Asked
  <2>4. ASSUME NEW w \in Workers, UNCHANGED <<context, serving, asked>>, stage[w] \notin {"idle", "bind"},
               \E to \in {"view", "line", "echo"} : stage' = [stage EXCEPT ![w] = to]
        PROVE  context'[v] = IF stage'[v] \in {"idle", "bind"} THEN "-" ELSE IdOf(serving[v])'
    BY <2>0, <2>1, <2>4 DEF IdOf
  <2>5. ASSUME NEW w \in Workers, RefuseBody(w) \/ ReadBody(w) \/ View(w) \/ ViewRaises(w)
                                  \/ FailToDump(w) \/ WriteLine(w)
        PROVE  context'[v] = IF stage'[v] \in {"idle", "bind"} THEN "-" ELSE IdOf(serving[v])'
    BY <2>4, <2>5 DEF RefuseBody, ReadBody, View, ViewRaises, FailToDump, Raise, WriteLine
  <2>6. ASSUME NEW w \in Workers, Remark(w)
        PROVE  context'[v] = IF stage'[v] \in {"idle", "bind"} THEN "-" ELSE IdOf(serving[v])'
    BY <2>1, <2>6 DEF Remark
  <2>7. ASSUME NEW w \in Workers, Echo(w) \/ Kill(w)
        PROVE  context'[v] = IF stage'[v] \in {"idle", "bind"} THEN "-" ELSE IdOf(serving[v])'
    BY <2>1, <2>7 DEF Echo, Kill
  <2>8. CASE UNCHANGED vars
    BY <2>1, <2>8 DEF vars
  <2> QED BY <2>2, <2>3, <2>5, <2>6, <2>7, <2>8 DEF Next
<1>3. ASSUME NEW r \in Requests, answers'[r] # None PROVE answers'[r].id = IdOf(r)'
  <2>1. CASE answers[r] # None
    BY <1>1, <2>1, AnswersStay DEF ContextIsBound, ServedOnce
  <2>2. CASE answers[r] = None
    <3>1. PICK w \in Workers : Echo(w) /\ serving[w] = r
      BY <1>3, <2>2, AnswersStay
    <3>2. context[w] = IdOf(r) /\ answers'[r].id = context[w] /\ stage[w] # "idle"
      BY <3>1 DEF Echo, Answer, ContextIsBound
    <3> QED BY <1>0, <1>1, <3>1, <3>2
  <2> QED BY <2>1, <2>2
<1>4. \A line \in log : Late(line) /\ line.by \in Requests /\ asked[line.by] # None => Late(line)'
  BY <1>1, NewLines DEF Late, AccessLines
<1>5. ASSUME NEW line \in log
      PROVE  /\ line.by # None => line.by \in Requests /\ asked'[line.by] # None
             /\ line.id = (IF line.by = None THEN "-" ELSE IdOf(line.by)') \/ Late(line)'
             /\ line.kind = "access" => line.by # None /\ line.id = IdOf(line.by)'
  <2>1. /\ line.by # None => line.by \in Requests /\ asked[line.by] # None
        /\ line.id = (IF line.by = None THEN "-" ELSE IdOf(line.by)) \/ Late(line)
        /\ line.kind = "access" => line.by # None /\ line.id = IdOf(line.by)
    BY DEF ContextIsBound, LinesAreInTime
  <2>2. Late(line) => line.by # None
    BY DEF Late
  <2> QED BY <1>1, <1>4, <2>1, <2>2
<1>6. ASSUME NEW line \in log' \ log
      PROVE  /\ line.by # None => line.by \in Requests /\ asked'[line.by] # None
             /\ line.id = (IF line.by = None THEN "-" ELSE IdOf(line.by)') \/ Late(line)'
             /\ line.kind = "access" => line.by # None /\ line.id = IdOf(line.by)'
  <2>1. PICK w \in Workers : IsAccessLine(line, w) \/ IsRemark(line, w) \/ IsLateLine(line, w)
    BY NewLines
  <2>2. context[w] = IF stage[w] \in {"idle", "bind"} THEN "-" ELSE IdOf(serving[w])
    BY DEF ContextIsBound
  <2>3. stage[w] = "idle" <=> serving[w] = None
    BY DEF ServedOnce
  <2>4. CASE IsAccessLine(line, w)
    <3>1. stage[w] = "line"
      BY <2>4 DEF IsAccessLine, WriteLine
    <3> QED BY <1>0, <1>1, <2>2, <2>4, <3>1 DEF IsAccessLine
  <2>5. CASE IsRemark(line, w)
    BY <1>0, <1>1, <2>2, <2>3, <2>5 DEF IsRemark
  <2>6. CASE IsLateLine(line, w)
    <3> DEFINE r == serving[w]
    <3>1. stage[w] = "echo" /\ r \in Requests /\ r # None /\ asked[r] # None
      BY <1>0, <2>6 DEF IsLateLine, Echo
    <3>2. line.kind = "django" /\ line.by = r /\ line.id = "-"
      BY <2>6 DEF IsLateLine
    <3>3. AccessLines(r) # {} /\ Accounted(r, result[w].status)
      BY <2>6, <3>1 DEF IsLateLine, LinesAreWritten
    <3>4. PICK access \in AccessLines(r) : access.status = result[w].status /\ result[w].status \in Nat
      BY <3>3 DEF Accounted
    <3>5. access.level = "ERROR"
      BY <2>6, <3>4 DEF LinesAreInTime, AccessLines, LevelFor, IsLateLine
    <3>6. access.id = IdOf(r) /\ access \in log'
      BY <3>1, <3>4, NewLines DEF AccessLines, ContextIsBound
    <3>7. Late(line)'
      BY <1>1, <3>1, <3>2, <3>4, <3>5, <3>6 DEF Late, AccessLines
    <3> QED BY <1>1, <3>1, <3>2, <3>7
  <2> QED BY <2>1, <2>4, <2>5, <2>6
<1>7. \A line \in log' :
         /\ line.by # None => line.by \in Requests /\ asked'[line.by] # None
         /\ line.id = (IF line.by = None THEN "-" ELSE IdOf(line.by)') \/ Late(line)'
         /\ line.kind = "access" => line.id = IdOf(line.by)'
  BY <1>5, <1>6
<1> QED BY <1>2, <1>3, <1>7 DEF ContextIsBound

(***************************************************************************)
(* Access lines.                                                           *)
(***************************************************************************)
LEMMA NewAccessLines ==
  ASSUME [Next]_vars, NEW line \in log', line \notin log, line.kind = "access"
  PROVE  \E w \in Workers : IsAccessLine(line, w)
BY NewLines DEF IsRemark, IsLateLine

\* What may happen to a worker.
Rests(v) == stage'[v] = stage[v] /\ serving'[v] = serving[v] /\ result'[v] = result[v]
LEMMA Moves ==
  ASSUME TypeOK, [Next]_vars, NEW v \in Workers
  PROVE  \/ Rests(v)
         \/ stage'[v] \in {"idle", "bind", "body"} /\ stage[v] \in {"idle", "bind"}
         \/ stage'[v] = "idle" /\ serving'[v] = None
         \/ ReadBody(v) \/ View(v) \/ ViewRaises(v)
         \/ RefuseBody(v) \/ FailToDump(v) \/ WriteLine(v)
<1> USE DEF TypeOK, Goto, Rests
<1>1. ASSUME NEW w \in Workers, (\E r \in Requests : Accept(w, r)) \/ BindId(w)
      PROVE  Rests(v) \/ (stage'[v] \in {"idle", "bind", "body"} /\ stage[v] \in {"idle", "bind"})
  <2>1. CASE w # v
    <3>1. stage'[v] = stage[v] /\ serving'[v] = serving[v] /\ result' = result
      BY <1>1, <2>1 DEF Accept, BindId
    <3> QED BY <3>1
  <2>2. CASE w = v
    BY <1>1, <2>2 DEF Accept, BindId
  <2> QED BY <2>1, <2>2
<1>3. ASSUME NEW w \in Workers, Remark(w) PROVE Rests(v)
  BY <1>3 DEF Remark
<1>4. ASSUME NEW w \in Workers, w # v, ReadBody(w) \/ View(w) \/ ViewRaises(w)
      PROVE  Rests(v)
  BY <1>4 DEF ReadBody, View, ViewRaises
<1>5. ASSUME NEW w \in Workers, w # v, RefuseBody(w) \/ FailToDump(w) \/ WriteLine(w)
      PROVE  Rests(v)
  BY <1>5 DEF RefuseBody, FailToDump, Raise, WriteLine
<1>6. ASSUME NEW w \in Workers, Echo(w) \/ Kill(w)
      PROVE  Rests(v) \/ (stage'[v] = "idle" /\ serving'[v] = None)
  <2>1. CASE w # v
    <3>1. stage'[v] = stage[v] /\ serving'[v] = serving[v]
      BY <1>6, <2>1 DEF Echo, Kill
    <3>2. result'[v] = result[v]
      BY <1>6, <2>1 DEF Echo, Kill
    <3> QED BY <3>1, <3>2
  <2>2. CASE w = v
    BY <1>6, <2>2 DEF Echo, Kill
  <2> QED BY <2>1, <2>2
<1>7. CASE UNCHANGED vars
  BY <1>7 DEF vars
<1> QED BY <1>1, <1>3, <1>4, <1>5, <1>6, <1>7 DEF Next

LEMMA InTimeStep ==
  TypeOK /\ ServedOnce /\ ServedOnce' /\ ContextIsBound /\ LinesAreInTime /\ LinesAreWritten
    /\ [Next]_vars => LinesAreInTime'
<1> SUFFICES ASSUME TypeOK, ServedOnce, ServedOnce', ContextIsBound, LinesAreInTime,
                    LinesAreWritten, [Next]_vars
             PROVE  LinesAreInTime'
  OBVIOUS
<1>0. \A w \in Workers : WriteLine(w) =>
        /\ serving[w] \in Requests /\ serving[w] # None /\ stage[w] = "line"
        /\ serving'[w] = serving[w] /\ stage'[w] = "echo"
  BY Busy, RequestsAssumption DEF WriteLine, Goto, TypeOK
<1>1. \A line \in log' : line.kind = "access" =>
        line.by # None /\ line.level = LevelFor(line.status)
  <2>1. \A line \in log' : line.kind = "access" /\ line \notin log =>
          line.by # None /\ line.level = LevelFor(line.status)
    BY <1>0, NewAccessLines DEF IsAccessLine
  <2> QED BY <2>1 DEF LinesAreInTime
<1>2. ASSUME NEW line \in log', line.kind = "access", NEW v \in Workers, serving'[v] = line.by
      PROVE  stage'[v] = "echo"
  <2>1. CASE line \in log
    <3>0. /\ line.by \in Requests /\ line.by # None /\ asked[line.by] # None
          /\ \A w \in Workers : serving[w] = line.by => stage[w] = "echo"
      BY <1>1, <1>2, <2>1 DEF LinesAreInTime, ContextIsBound
    <3>1. CASE Rests(v)
      BY <1>2, <3>0, <3>1 DEF Rests
    <3>2. CASE stage[v] \in {"idle", "bind"} /\ ~Rests(v)
      <4>1. \A w \in Workers, r \in Requests : Accept(w, r) =>
              asked[r] = None /\ (v # w => Rests(v)) /\ serving'[w] = r
        BY DEF Accept, Goto, Rests, TypeOK
      <4>2. \A w \in Workers : BindId(w) => serving' = serving /\ (w # v => Rests(v))
        BY DEF BindId, Goto, Rests, TypeOK
      <4>3. \A w \in Workers : Remark(w) => Rests(v)
        BY DEF Remark, Rests
      <4>4. \A w \in Workers : w # v /\ (RefuseBody(w) \/ ReadBody(w) \/ View(w) \/ ViewRaises(w)
              \/ FailToDump(w) \/ WriteLine(w) \/ Echo(w) \/ Kill(w)) => Rests(v)
        BY DEF RefuseBody, ReadBody, View, ViewRaises, FailToDump, Raise, WriteLine, Echo, Kill,
           Goto, Rests, TypeOK
      <4>5. \A w \in Workers : (RefuseBody(w) \/ ReadBody(w) \/ View(w) \/ ViewRaises(w)
              \/ FailToDump(w) \/ WriteLine(w) \/ Echo(w)) => stage[w] \notin {"idle", "bind"}
        BY DEF RefuseBody, ReadBody, View, ViewRaises, FailToDump, WriteLine, Echo, Goto
      <4>6. Kill(v) => serving'[v] = None
        BY DEF Kill, TypeOK
      <4>7. CASE UNCHANGED vars
        BY <3>2, <4>7 DEF vars, Rests
      <4> QED BY <1>2, <3>0, <3>2, <4>1, <4>2, <4>3, <4>4, <4>5, <4>6, <4>7 DEF Next
    <3>3. CASE ReadBody(v) \/ View(v) \/ ViewRaises(v) \/ RefuseBody(v) \/ FailToDump(v) \/ WriteLine(v)
      BY <1>2, <3>0, <3>3 DEF ReadBody, View, ViewRaises, RefuseBody, FailToDump, Raise, WriteLine, Goto
    <3>4. CASE serving'[v] = None
      BY <1>2, <3>0, <3>4
    <3> QED BY <3>1, <3>2, <3>3, <3>4, Moves
  <2>2. CASE line \notin log
    <3>1. PICK w \in Workers : WriteLine(w) /\ line.by = serving[w]
      BY <1>2, <2>2, NewAccessLines DEF IsAccessLine
    <3>2. v = w
      BY <1>0, <1>2, <3>1 DEF ServedOnce
    <3> QED BY <1>0, <3>1, <3>2
  <2> QED BY <2>1, <2>2
<1>3. ASSUME NEW one \in log', NEW other \in log', one.kind = "access", other.kind = "access",
             one.by = other.by
      PROVE  one = other
  <2>1. ASSUME NEW l \in log', l \notin log, NEW m \in log, l.kind = "access", m.kind = "access",
               l.by = m.by
        PROVE  FALSE
    <3>1. PICK w \in Workers : WriteLine(w) /\ l.by = serving[w]
      BY <2>1, NewAccessLines DEF IsAccessLine
    <3> QED BY <1>0, <2>1, <3>1 DEF LinesAreInTime
  <2>2. CASE one \in log /\ other \in log
    BY <1>3, <2>2 DEF LinesAreInTime
  <2>3. CASE one \notin log /\ other \notin log
    <3>1. PICK w \in Workers : WriteLine(w)
      BY <1>3, <2>3, NewAccessLines DEF IsAccessLine
    <3> QED BY <2>3, <3>1 DEF WriteLine
  <2> QED BY <1>3, <2>1, <2>2, <2>3
<1> QED BY <1>1, <1>2, <1>3 DEF LinesAreInTime

\* The access lines of a request that has been asked stay as they are, unless
\* it is served by a worker that comes to write one.
LEMMA LinesStay ==
  ASSUME TypeOK, [Next]_vars, NEW r \in Requests, asked[r] # None,
         \A w \in Workers : serving[w] = r => stage[w] # "line"
  PROVE  /\ AccessLines(r)' = AccessLines(r)
         /\ \A status : Accounted(r, status) => Accounted(r, status)'
<1>1. AccessLines(r)' = AccessLines(r)
  <2>1. \A line \in log' : line \notin log /\ line.kind = "access" => line.by # r
    BY NewAccessLines DEF IsAccessLine, WriteLine, Goto
  <2>2. log \subseteq log'
    BY NewLines
  <2> QED BY <2>1, <2>2 DEF AccessLines
<1>2. /\ asked'[r] = asked[r] /\ IdOf(r)' = IdOf(r) /\ dumpBody' = dumpBody
      /\ Unreadable(r)' = Unreadable(r)
  BY AskedStays
<1>3. \A status : GoesUnlogged(r, status)' = GoesUnlogged(r, status)
  BY <1>2 DEF GoesUnlogged
<1>4. ASSUME NEW status, Accounted(r, status) PROVE Accounted(r, status)'
  <2>1. CASE AccessLines(r) = {}
    BY <1>1, <1>2, <1>3, <1>4, <2>1, NewLines DEF Accounted
  <2>2. CASE AccessLines(r) # {}
    BY <1>1, <1>2, <1>4, <2>2 DEF Accounted
  <2> QED BY <2>1, <2>2
<1> QED BY <1>1, <1>4

LEMMA WrittenStep ==
  TypeOK /\ ServedOnce /\ ContextIsBound /\ LinesAreInTime /\ LinesAreWritten /\ DumpsAreGenuine
    /\ [Next]_vars => LinesAreWritten'
<1> SUFFICES ASSUME TypeOK, ServedOnce, ContextIsBound, LinesAreInTime, LinesAreWritten,
                    DumpsAreGenuine, [Next]_vars
             PROVE  LinesAreWritten'
  OBVIOUS
<1> USE RequestsAssumption
<1>0. \A w \in Workers : stage[w] # "idle" =>
        /\ serving[w] \in Requests /\ serving[w] # None
        /\ asked[serving[w]] # None /\ answers[serving[w]] = None
        /\ asked'[serving[w]] = asked[serving[w]] /\ dumpBody' = dumpBody
  BY Busy, AskedStays DEF Asked
\* Answers stay accounted for, and an answer that is given was already.
<1>1. ASSUME NEW r \in Requests, answers'[r] # None PROVE Accounted(r, answers[r].status)'
  <2>1. CASE answers[r] # None
    <3>1. \A w \in Workers : serving[w] = r => stage[w] # "line"
      BY <1>0, <2>1
    <3>2. asked[r] # None /\ Accounted(r, answers[r].status)
      BY <2>1 DEF ServedOnce, LinesAreWritten
    <3>3. answers'[r] = answers[r]
      BY <2>1, AnswersStay
    <3>4. \A status : status = answers'[r].status => (Accounted(r, status) => Accounted(r, status)')
      BY <3>1, <3>2, LinesStay
    <3> QED BY <3>2, <3>3, <3>4 DEF Accounted
  <2>2. CASE answers[r] = None
    <3>1. PICK w \in Workers : Echo(w) /\ serving[w] = r
      BY <1>1, <2>2, AnswersStay
    <3>2. stage[w] = "echo" /\ answers'[r].status = result[w].status /\ asked[r] # None
      BY <1>0, <3>1 DEF Echo, Goto, Answer, TypeOK
    <3>3. \A v \in Workers : serving[v] = r => stage[v] # "line"
      BY <1>0, <3>1, <3>2 DEF ServedOnce
    <3>4. Accounted(r, result[w].status)
      BY <3>1, <3>2 DEF LinesAreWritten
    <3>5. \A status : Accounted(r, status) => Accounted(r, status)'
      BY <3>2, <3>3, LinesStay
    <3> QED BY <3>2, <3>4, <3>5 DEF Accounted
  <2> QED BY <2>1, <2>2
<1>2. ASSUME NEW v \in Workers, stage'[v] \in {"view", "line"} PROVE ~Unreadable(serving[v])'
  <2>1. CASE Rests(v)
    BY <1>0, <1>2, <2>1 DEF Rests, LinesAreWritten, Unreadable
  <2>2. CASE ReadBody(v)
    BY <1>0, <2>2 DEF ReadBody, Goto, Unreadable, Asked
  <2>3. CASE View(v) \/ ViewRaises(v)
    BY <2>3 DEF View, ViewRaises, Goto, LinesAreWritten, Unreadable
  <2>4. CASE RefuseBody(v) \/ FailToDump(v) \/ WriteLine(v)
    BY <1>2, <2>4 DEF RefuseBody, FailToDump, Raise, WriteLine, Goto, TypeOK
  <2> QED BY <1>2, <2>1, <2>2, <2>3, <2>4, Moves
<1>3. ASSUME NEW v \in Workers, stage'[v] = "echo"
      PROVE  /\ Accounted(serving[v], result[v].status)'
             /\ AccessLines(serving[v])' = {} => result'[v].logged
  <2>1. CASE Rests(v)
    <3>1. \A w \in Workers : serving[w] = serving[v] => stage[w] # "line"
      BY <1>0, <1>3, <2>1 DEF ServedOnce, Rests
    <3>2. /\ \A r \in Requests : r = serving[v] => AccessLines(r)' = AccessLines(r)
          /\ \A r \in Requests : r = serving[v] =>
               \A status : Accounted(r, status) => Accounted(r, status)'
      BY <1>0, <1>3, <2>1, <3>1, LinesStay DEF Rests
    <3>3. /\ serving'[v] = serving[v] /\ result'[v] = result[v] /\ serving[v] \in Requests
          /\ Accounted(serving[v], result[v].status)
          /\ AccessLines(serving[v]) = {} => result[v].logged
      BY <1>0, <1>3, <2>1 DEF LinesAreWritten, Rests
    <3>4. ASSUME NEW r, NEW status, r = serving'[v], status = result'[v].status,
                 Accounted(r, status)'
          PROVE  Accounted(serving[v], result[v].status)'
      BY <3>4 DEF Accounted
    <3>5. \A r : r = serving'[v] => AccessLines(serving[v])' = AccessLines(r)'
      BY DEF AccessLines
    <3> QED BY <3>2, <3>3, <3>4, <3>5
  <2>2. ASSUME NEW status \in {400, 500}, Raise(v, status), stage[v] \in {"body", "line"},
               GoesUnlogged(serving[v], status)
        PROVE  /\ Accounted(serving[v], result[v].status)'
               /\ AccessLines(serving[v])' = {} => result'[v].logged
    <3> DEFINE r == serving[v]
    <3>1. /\ r \in Requests /\ asked'[r] = asked[r] /\ serving' = serving /\ dumpBody' = dumpBody
          /\ result'[v].status = status /\ result'[v].logged
      BY <1>0, <2>2 DEF Raise, NoResult, TypeOK
    <3>2. [kind |-> "django", by |-> r, id |-> context[v]] \in log'
      BY <2>2 DEF Raise, Line
    <3>3. context[v] = IdOf(r)
      BY <2>2 DEF ContextIsBound
    <3>4. AccessLines(r) = {}
      BY <1>0, <2>2 DEF LinesAreInTime, AccessLines
    <3>5. log' = log \cup {Line(v, "django")} /\ Line(v, "django").kind = "django"
      BY <2>2 DEF Raise, Line
    <3>6. AccessLines(r)' = {}
      BY <3>1, <3>4, <3>5 DEF AccessLines
    <3>7. GoesUnlogged(r, status)'
      BY <2>2, <3>1 DEF GoesUnlogged
    <3>8. IdOf(r)' = IdOf(r)
      BY <3>1 DEF IdOf
    <3> QED BY <3>1, <3>2, <3>3, <3>6, <3>7, <3>8 DEF Accounted
  <2>3. CASE RefuseBody(v)
    BY <1>0, <2>2, <2>3 DEF RefuseBody, GoesUnlogged, Asked
  <2>4. CASE FailToDump(v)
    <3>1. Raise(v, 500) /\ stage[v] = "line" /\ Undumpable(v)
      BY <2>4 DEF FailToDump
    <3>2. asked[serving[v]].arrives = "whole" /\ result[v].body \in ResponseBodies
      BY <1>0, <3>1 DEF Undumpable, LinesAreWritten, DumpsAreGenuine, Unreadable
    <3>3. GoesUnlogged(serving[v], 500)
      BY <3>1, <3>2 DEF GoesUnlogged, Undumpable, Asked
    <3> QED BY <2>2, <3>1, <3>3
  <2>5. CASE WriteLine(v)
    <3>1. UNCHANGED <<answers, asked, dumpBody, serving, result>> /\ stage[v] = "line"
      BY <2>5 DEF WriteLine, Goto
    <3>2. \E line \in log' : line.kind = "access" /\ line.by = serving[v]
                             /\ line.status = result[v].status
      <4>1. PICK level, dump :
              [kind |-> "access", by |-> serving[v], id |-> context[v],
               status |-> result[v].status, level |-> level, dump |-> dump] \in log'
        BY <2>5, Zenon DEF WriteLine
      <4> QED BY <4>1
    <3>3. ~Unreadable(serving[v]) /\ ~(dumpBody /\ RequestRaises(asked[serving[v]].body))
      BY <2>5, <3>1 DEF WriteLine, LinesAreWritten, Undumpable, Asked
    <3>4. result[v].status \in Nat
      BY DEF TypeOK
    <3>5. AccessLines(serving[v])' # {}
      BY <3>1, <3>2 DEF AccessLines
    <3>6. \E line \in AccessLines(serving[v])' : line.status = result'[v].status
      BY <3>1, <3>2 DEF AccessLines
    <3> QED BY <3>1, <3>3, <3>4, <3>5, <3>6 DEF Accounted, Unreadable
  <2>6. CASE ReadBody(v) \/ View(v) \/ ViewRaises(v)
    BY <1>3, <2>6 DEF ReadBody, View, ViewRaises, Goto, TypeOK
  <2> QED BY <1>3, <2>1, <2>3, <2>4, <2>5, <2>6, Moves
<1> QED BY <1>1, <1>2, <1>3 DEF LinesAreWritten

(***************************************************************************)
(* Bodies.                                                                 *)
(***************************************************************************)
LEMMA BodiesStep == TypeOK /\ ServedOnce /\ BodiesAreKept /\ [Next]_vars => BodiesAreKept'
<1> SUFFICES ASSUME TypeOK, ServedOnce, BodiesAreKept, [Next]_vars PROVE BodiesAreKept'
  OBVIOUS
<1> USE DEF TypeOK, Goto, BodiesAreKept, ViewsGetTheBody
<1>1. ASSUME NEW w \in Workers, NEW r \in Requests, Accept(w, r) PROVE BodiesAreKept'
  <2>1. \A q \in Requests : viewed'[q] # None => viewed'[q] = asked'[q].body
    BY <1>1 DEF Accept, ServedOnce
  <2> QED BY <1>1, <2>1 DEF Accept
<1>2. ASSUME NEW w \in Workers, BindId(w) \/ ReadBody(w) PROVE BodiesAreKept'
  BY <1>2 DEF BindId, ReadBody
<1>3. ASSUME NEW w \in Workers, Remark(w) \/ WriteLine(w) PROVE BodiesAreKept'
  BY <1>3 DEF Remark, WriteLine
<1>3a. ASSUME NEW w \in Workers, RefuseBody(w) \/ FailToDump(w) PROVE BodiesAreKept'
  BY <1>3a DEF RefuseBody, FailToDump, Raise
<1>4. ASSUME NEW w \in Workers, View(w) \/ ViewRaises(w) PROVE BodiesAreKept'
  <2>1. stage[w] = "view" /\ stream[w] # "consumed" /\ stage' = [stage EXCEPT ![w] = "line"]
    BY <1>4 DEF View, ViewRaises
  <2>2. \/ UNCHANGED viewed
        \/ viewed' = [viewed EXCEPT ![serving[w]] = asked[serving[w]].body]
    BY <1>4, <2>1 DEF View, ViewRaises, BodyIsGiven, Asked
  <2>3. asked' = asked
    BY <1>4 DEF View, ViewRaises
  <2>4. \A v \in Workers \ {w} : stream'[v] = stream[v] /\ stage'[v] = stage[v]
    BY <1>4, <2>1 DEF View, ViewRaises, BodyIsGiven
  <2>5. \A r \in Requests : viewed'[r] # None => viewed'[r] = asked'[r].body
    BY <2>2, <2>3
  <2> QED BY <2>1, <2>4, <2>5
<1>5. ASSUME NEW w \in Workers, Echo(w) \/ Kill(w) PROVE BodiesAreKept'
  BY <1>5 DEF Echo, Kill
<1>6. CASE UNCHANGED vars
  BY <1>6 DEF vars
<1> QED BY <1>1, <1>2, <1>3, <1>3a, <1>4, <1>5, <1>6 DEF Next

(***************************************************************************)
(* Dumps.                                                                  *)
(***************************************************************************)
\* A dump that was genuine is, as long as its worker echoes or has gone.
LEMMA OldDumpsStay ==
  ASSUME TypeOK, ServedOnce, ContextIsBound, LinesAreInTime, DumpsAreGenuine, [Next]_vars,
         NEW line \in log, line.kind = "access", line.dump # None
  PROVE  DumpIsGenuine(line)'
<1> DEFINE r == line.by
<1>1. /\ r \in Requests /\ r # None /\ asked[r] # None
      /\ \A w \in Workers : serving[w] = r => stage[w] = "echo"
  BY DEF LinesAreInTime, ContextIsBound
<1>2. asked'[r] = asked[r]
  BY <1>1, AskedStays
<1>3. ASSUME NEW v \in Workers, stage'[v] = "echo", serving'[v] = r
      PROVE  stage[v] = "echo" /\ serving[v] = r /\ result'[v] = result[v]
  <2>1. CASE Rests(v)
    BY <1>3, <2>1 DEF Rests
  <2>2. CASE RefuseBody(v) \/ FailToDump(v) \/ WriteLine(v)
    BY <1>1, <1>3, <2>2 DEF RefuseBody, FailToDump, Raise, WriteLine, Goto
  <2>3. CASE ReadBody(v) \/ View(v) \/ ViewRaises(v)
    BY <1>3, <2>3 DEF ReadBody, View, ViewRaises, Goto, TypeOK
  <2> QED BY <1>3, <2>1, <2>2, <2>3, Moves
<1>4. DumpIsGenuine(line)
  BY DEF DumpsAreGenuine
<1> QED BY <1>2, <1>3, <1>4 DEF DumpIsGenuine

LEMMA DumpsStep ==
  TypeOK /\ ServedOnce /\ ContextIsBound /\ LinesAreInTime /\ DumpsAreGenuine /\ [Next]_vars
    => DumpsAreGenuine'
<1> SUFFICES ASSUME TypeOK, ServedOnce, ContextIsBound, LinesAreInTime, DumpsAreGenuine,
                    [Next]_vars
             PROVE  DumpsAreGenuine'
  OBVIOUS
<1>1. ASSUME NEW v \in Workers, stage'[v] = "line" PROVE result'[v].body \in ResponseBodies
  <2>1. CASE Rests(v)
    BY <1>1, <2>1 DEF Rests, DumpsAreGenuine
  <2>2. CASE View(v)
    BY <2>2 DEF View, TypeOK
  <2>3. CASE ViewRaises(v)
    BY <2>3 DEF ViewRaises, TypeOK
  <2>4. CASE ReadBody(v) \/ RefuseBody(v) \/ FailToDump(v) \/ WriteLine(v)
    BY <1>1, <2>4 DEF ReadBody, RefuseBody, FailToDump, Raise, WriteLine, Goto, TypeOK
  <2> QED BY <1>1, <2>1, <2>2, <2>3, <2>4, Moves
<1>2. ASSUME NEW line \in log', line \notin log, line.kind = "access", line.dump # None
      PROVE  DumpIsGenuine(line)'
  <2>1. PICK w \in Workers : WriteLine(w)
    BY <1>2, NewAccessLines DEF IsAccessLine
  <2> DEFINE dump == [requestHeaders  |-> RedactHeaders(Asked(w).headers),
                      requestBody     |-> DecodeBody(Asked(w).body),
                      responseHeaders |-> RedactHeaders(result[w].headers),
                      responseBody    |-> DecodeResponseBody(result[w].body)]
  <2>2. line = [kind |-> "access", by |-> serving[w], id |-> context[w],
                status |-> result[w].status, level |-> LevelFor(result[w].status),
                dump |-> IF ~dumpBody THEN None ELSE dump]
    BY <1>2, <2>1 DEF WriteLine
  <2>3. line.by = serving[w] /\ line.dump = dump
    BY <1>2, <2>2
  <2>4. UNCHANGED <<asked, serving, result>> /\ stage[w] = "line" /\ serving[w] # None
    BY <2>1, RequestsAssumption, Busy DEF WriteLine, Goto
  <2>5. \A v \in Workers : serving'[v] = line.by => v = w
    BY <2>3, <2>4 DEF ServedOnce
  <2>6. /\ result[w].body \in ResponseBodies
        /\ ~RequestRaises(Asked(w).body) /\ ~ResponseRaises(result[w].body)
    BY <1>2, <2>1, <2>2, <2>4 DEF DumpsAreGenuine, WriteLine, Undumpable
  <2> QED BY <2>3, <2>4, <2>5, <2>6 DEF DumpIsGenuine, Asked
<1>3. ASSUME NEW line \in log, line.kind = "access", line.dump # None PROVE DumpIsGenuine(line)'
  BY <1>3, OldDumpsStay
<1> QED BY <1>1, <1>2, <1>3 DEF DumpsAreGenuine

(***************************************************************************)
(* The theorems.                                                           *)
(***************************************************************************)
\* What a worker serves, the id it has bound, the lines it has written and the
\* body it has read belong together throughout.
THEOREM AccessLogInvariance == Spec => []IInv
<1>1. IInv /\ [Next]_vars => IInv'
  BY TypeStep, ServedStep, ContextStep, InTimeStep, WrittenStep, DumpsStep, BodiesStep DEF IInv
<1> QED BY InitInv, <1>1, PTL DEF Spec

\* Whoever gets an answer has one access line with its status, and none just if
\* the dump of its bodies could not be made: the body did not arrive, was more
\* than request.body takes, or a body nests too deeply.
THEOREM OneLine == Spec => []OneLinePerAnswer
<1>1. IInv => OneLinePerAnswer
  <2> SUFFICES ASSUME IInv, NEW r \in Requests, answers[r] # None, AccessLines(r) # {}
               PROVE  /\ ~Unreadable(r) /\ ~(dumpBody /\ RequestRaises(asked[r].body))
                      /\ \E line \in AccessLines(r) :
                           /\ AccessLines(r) = {line}
                           /\ line.status = answers[r].status
                           /\ line.level \in {"WARNING", "ERROR"} <=> answers[r].status >= 400
    BY DEF OneLinePerAnswer, IInv, LinesAreWritten, Accounted
  <2>1. Accounted(r, answers[r].status)
    BY DEF IInv, LinesAreWritten
  <2>2. PICK line \in AccessLines(r) : line.status = answers[r].status /\ answers[r].status \in Nat
    BY <2>1 DEF Accounted
  <2>3. AccessLines(r) = {line} /\ line.level = LevelFor(line.status)
    BY <2>2 DEF IInv, LinesAreInTime, AccessLines
  <2>4. line.level \in {"WARNING", "ERROR"} <=> answers[r].status >= 400
    BY <2>2, <2>3 DEF LevelFor
  <2> QED BY <2>1, <2>2, <2>3, <2>4 DEF Accounted
<1> QED BY AccessLogInvariance, <1>1, PTL

\* The lines of a request carry the id that its client is told, but for Django's
\* about an error that the view answered, of which the access line tells.
THEOREM OneId == Spec => []LinesCarryTheirId
<1>1. IInv => LinesCarryTheirId
  <2> SUFFICES ASSUME IInv PROVE LinesCarryTheirId
    OBVIOUS
  <2>1. ASSUME NEW line \in log
        PROVE  \/ line.by = None /\ line.id = "-"
               \/ /\ line.by # None /\ line.id = IdOf(line.by)
                  /\ answers[line.by] # None => answers[line.by].id = line.id
               \/ Late(line)
    BY DEF IInv, ContextIsBound
  <2>2. ASSUME NEW r \in Requests, answers[r] # None, AccessLines(r) = {}
        PROVE  [kind |-> "django", by |-> r, id |-> answers[r].id] \in log
    BY <2>2 DEF IInv, ContextIsBound, LinesAreWritten, Accounted
  <2> QED BY <2>1, <2>2 DEF LinesCarryTheirId, Late
<1> QED BY AccessLogInvariance, <1>1, PTL

\* Reading the body for the dump takes nothing from the view.
THEOREM BodyForTheView == Spec => []ViewsGetTheBody
<1>1. IInv => ViewsGetTheBody
  BY DEF IInv, BodiesAreKept
<1> QED BY AccessLogInvariance, <1>1, PTL

\* A dump shows what was sent and answered, in full and in its shape, but for
\* what sensitive names stand for, which is masked.
THEOREM DumpsMasked == Spec => []DumpsAreMasked
<1>1. ASSUME IInv PROVE DumpsAreMasked
  <2> SUFFICES ASSUME NEW line \in log, line.kind = "access", line.dump # None
      PROVE LET sent == asked[line.by]
                body == line.dump.requestBody
                answer == line.dump.responseBody
                masked(headers, dumped) == \A n \in DOMAIN headers :
                  dumped[n] = IF Lower[n] \in SensitiveHeaders THEN REDACTED ELSE headers[n]
            IN /\ masked(sent.headers, line.dump.requestHeaders)
               /\ body.dump = "json" <=>
                    sent.body.type = "json" /\ sent.body.size > 0 /\ Head4K(sent.body) # Invalid
               /\ body.dump = "json" => Masks(Head4K(sent.body), body.value)
               /\ \A w \in Workers :
                    stage[w] = "echo" /\ serving[w] = line.by =>
                      /\ masked(result[w].headers, line.dump.responseHeaders)
                      /\ answer.dump = "json" => Masks(Head4K(result[w].body), answer.value)
    BY DEF DumpsAreMasked
  <2>1. DumpIsGenuine(line)
    BY <1>1 DEF IInv, DumpsAreGenuine
  <2>2. asked[line.by] # None /\ line.by \in Requests
    BY <1>1 DEF IInv, LinesAreInTime, ContextIsBound
  <2>3. PICK r \in Requests : asked[line.by].body \in RequestBodies[r]
    BY <1>1, <2>2 DEF IInv, TypeOK
  <2>4. \A headers : \A n \in DOMAIN headers : RedactHeaders(headers)[n] =
          IF Lower[n] \in SensitiveHeaders THEN REDACTED ELSE headers[n]
    BY DEF RedactHeaders
  <2> DEFINE sent == asked[line.by].body
  <2>4a. ~RequestRaises(sent)
    BY <2>1 DEF DumpIsGenuine
  <2>5. DecodeBody(sent).dump = "json" <=>
          sent.type = "json" /\ sent.size > 0 /\ Head4K(sent) # Invalid
    BY <2>3, BodiesAssumption DEF DecodeBody, Text, Dump
  <2>6. DecodeBody(sent).dump = "json" => Masks(Head4K(sent), DecodeBody(sent).value)
    <3>1. DecodeBody(sent).dump = "json" => Head4K(sent) \in Json
      BY <2>3, <2>4a, <2>5, BodiesAssumption DEF RequestRaises, TooDeep
    <3> QED BY <2>5, <3>1, RedactionMasks DEF DecodeBody, Text, Dump
  <2>7. ASSUME NEW body \in ResponseBodies, DecodeResponseBody(body).dump = "json",
               ~ResponseRaises(body)
        PROVE  Masks(Head4K(body), DecodeResponseBody(body).value)
    <3>1. body.type = "json" /\ ~body.streaming /\ Head4K(body) # Invalid
      BY <2>7 DEF DecodeResponseBody, Text
    <3>2. Head4K(body) \in Json
      BY <2>7, <3>1, BodiesAssumption DEF ResponseRaises, TooDeep
    <3> QED BY <3>1, <3>2, RedactionMasks DEF DecodeResponseBody, Dump
  <2> QED BY <2>1, <2>4, <2>5, <2>6, <2>7 DEF DumpIsGenuine
<1> QED BY AccessLogInvariance, <1>1, PTL

=============================================================================
