------------------------ MODULE SchemaDiffingProofs ------------------------
(***************************************************************************)
(* Proofs about the inference and the diff of the monitor (SchemaDiffing), *)
(* for any bodies of any depth and length.                                 *)
(*                                                                         *)
(* The argument: the node of a path is determined by the kinds of the      *)
(* values met there, and no longer by their order, unless the path is      *)
(* murky (WalkTells, by induction over the walk).  From there on nodes are *)
(* compared through the kinds.                                             *)
(***************************************************************************)
EXTENDS ComparisonProofs, SchemaDiffing

-----------------------------------------------------------------------------
\* The values that _walk (schema_infer.py:75-146) met for a path, and the kinds
\* of a set of values.
MetAt(v, p) == {i \in DOMAIN v : NodePath(v, i) = p}
KindsOf(v, met) == {v[i].kind : i \in met}

\* One path, one kind of value: what is neither an object nor an array may be of
\* several kinds.
Clean(K) == K = {"object"} \/ K = {"array"} \/ K \subseteq ScalarKinds

\* The node of a path at which values of the kinds K, and arrays with the item
\* types I, were met (schema_infer.py:126-146): its type,
TypeTells(t, K) ==
    /\ K = {} => t = ""
    /\ "object" \in K => t = "object"
    /\ "array" \in K => t = "array"
    /\ K = {"null"} => t = "null"
    /\ \A k \in (K \cap ScalarKinds) \ {"null"} : K \subseteq {k, "null"} => t = scalar_type(k)
    /\ \A k, m \in (K \cap ScalarKinds) \ {"null"} : k # m => t = "mixed"

\* and the rest of it.
NodeTells(node, K, I) ==
    /\ node = [type |-> node.type, nullable |-> node.nullable, item |-> node.item]
    /\ TypeTells(node.type, K)
    /\ node.nullable = ("null" \in K)
    /\ "array" \in K => node.item \in I
    /\ "array" \notin K => node.item = ""

\* The parts of a document's values.
LEMMA DocumentParts ==
    ASSUME NEW v, IsDocument(v)
    PROVE  /\ Len(v) \in Nat \ {0} /\ DOMAIN v = 1..Len(v)
           /\ \A i \in DOMAIN v : v[i].path \in Seq(Step) /\ v[i].kind \in Kinds /\ v[i].text \in STRING
           /\ 1 \in DOMAIN v /\ \A i \in DOMAIN v : v[i].path = <<>> <=> i = 1
<1> DEFINE R == [path: Seq(Step), kind: Kinds, text: STRING]
<1>1. v \in Seq(R) /\ Len(v) > 0
  BY DEF IsDocument
<1>2. \A i \in DOMAIN v : v[i] \in R => /\ v[i].path \in Seq(Step) /\ v[i].kind \in Kinds
                                        /\ v[i].text \in STRING
  OBVIOUS
<1> HIDE DEF R
<1>3. Len(v) \in Nat \ {0} /\ DOMAIN v = 1..Len(v) /\ \A i \in DOMAIN v : v[i] \in R
  BY <1>1
<1>4. v[1].path = <<>> /\ \A i, j \in DOMAIN v : v[i].path = v[j].path => i = j
  BY DEF IsDocument
<1>5. 1 \in DOMAIN v
  BY <1>3
<1>6. \A i \in DOMAIN v : v[i].path = <<>> <=> i = 1
  BY <1>4, <1>5, Zenon
<1> QED BY <1>2, <1>3, <1>5, <1>6, Zenon

\* A scalar's type is no type of anything else (schema_infer.py:40-51).
LEMMA ScalarTypes ==
    /\ \A k \in ScalarKinds : scalar_type(k) \notin {"", "object", "array", "mixed", "unknown"}
    /\ \A k \in ScalarKinds : scalar_type(k) = "null" <=> k = "null"
    /\ \A k, m \in ScalarKinds : scalar_type(k) = scalar_type(m) => k = m
BY DEF ScalarKinds, scalar_type

\* The kinds of a path say what its type is, and the other way round for kinds
\* that are the same but for null.
LEMMA TypeIsTold ==
    ASSUME NEW K \in SUBSET Kinds, Clean(K), K # {},
           NEW M \in SUBSET Kinds, Clean(M), M # {},
           NEW t, TypeTells(t, K), NEW u, TypeTells(u, M)
    PROVE  /\ K = M => t = u
           /\ t = u /\ (\A k, m \in K \ {"null"} : k = m) => M \ {"null"} = K \ {"null"}
           /\ "array" \in K <=> t = "array"
<1> DEFINE P(k) == scalar_type(k)
<1>1. /\ \A k \in ScalarKinds : P(k) \notin {"", "object", "array", "mixed"}
      /\ \A k \in ScalarKinds : P(k) = "null" <=> k = "null"
      /\ \A k, m \in ScalarKinds : P(k) = P(m) => k = m
  BY ScalarTypes
<1>2. /\ "object" \in K => t = "object"
      /\ "array" \in K => t = "array"
      /\ K = {"null"} => t = "null"
      /\ \A k \in (K \cap ScalarKinds) \ {"null"} : K \subseteq {k, "null"} => t = P(k)
      /\ \A k, m \in (K \cap ScalarKinds) \ {"null"} : k # m => t = "mixed"
  BY DEF TypeTells
<1>3. /\ "object" \in M => u = "object"
      /\ "array" \in M => u = "array"
      /\ M = {"null"} => u = "null"
      /\ \A k \in (M \cap ScalarKinds) \ {"null"} : M \subseteq {k, "null"} => u = P(k)
      /\ \A k, m \in (M \cap ScalarKinds) \ {"null"} : k # m => u = "mixed"
  BY DEF TypeTells
<1>4. "object" \notin ScalarKinds /\ "array" \notin ScalarKinds
  BY DEF ScalarKinds
<1> HIDE DEF P
<1>5. \/ K = {"object"} \/ K = {"array"} \/ K = {"null"}
      \/ \E k \in (K \cap ScalarKinds) \ {"null"} : K \subseteq {k, "null"}
      \/ \E k, m \in (K \cap ScalarKinds) \ {"null"} : k # m
  BY DEF Clean
<1>6. \/ M = {"object"} \/ M = {"array"} \/ M = {"null"}
      \/ \E k \in (M \cap ScalarKinds) \ {"null"} : M \subseteq {k, "null"}
      \/ \E k, m \in (M \cap ScalarKinds) \ {"null"} : k # m
  BY DEF Clean
<1>7. K = M => t = u
  <2> SUFFICES ASSUME K = M PROVE t = u
    OBVIOUS
  <2>1. CASE K \in {{"object"}, {"array"}, {"null"}}
    BY <1>2, <1>3, <2>1
  <2>2. CASE \E k \in (K \cap ScalarKinds) \ {"null"} : K \subseteq {k, "null"}
    BY <1>2, <1>3, <2>2
  <2>3. CASE \E k, m \in (K \cap ScalarKinds) \ {"null"} : k # m
    BY <1>2, <1>3, <2>3
  <2> QED BY <1>5, <2>1, <2>2, <2>3
<1>8. "array" \in K <=> t = "array"
  <2>1. CASE K \in {{"object"}, {"array"}, {"null"}}
    BY <1>2, <2>1
  <2>2. CASE \E k \in (K \cap ScalarKinds) \ {"null"} : K \subseteq {k, "null"}
    BY <1>1, <1>2, <1>4, <2>2
  <2>3. CASE \E k, m \in (K \cap ScalarKinds) \ {"null"} : k # m
    BY <1>2, <1>4, <2>3 DEF Clean
  <2> QED BY <1>5, <2>1, <2>2, <2>3
<1>9. /\ u \in {"object", "array", "null"} => M = {u}
      /\ \A k \in ScalarKinds \ {"null"} : u = P(k) => k \in M /\ M \subseteq {k, "null"}
  <2>1. CASE M \in {{"object"}, {"array"}, {"null"}}
    BY <1>1, <1>3, <2>1
  <2>2. CASE \E k \in (M \cap ScalarKinds) \ {"null"} : M \subseteq {k, "null"}
    <3>1. PICK k \in (M \cap ScalarKinds) \ {"null"} : M \subseteq {k, "null"}
      BY <2>2
    <3>2. u = P(k) /\ u \notin {"object", "array", "null"}
      BY <1>1, <1>3, <3>1
    <3> QED BY <1>1, <3>1, <3>2
  <2>3. CASE \E k, m \in (M \cap ScalarKinds) \ {"null"} : k # m
    <3>1. u = "mixed"
      BY <1>3, <2>3
    <3> QED BY <1>1, <3>1
  <2> QED BY <1>6, <2>1, <2>2, <2>3
<1>10. ASSUME t = u, \A k, m \in K \ {"null"} : k = m
       PROVE  M \ {"null"} = K \ {"null"}
  <2>1. CASE K = {"object"} \/ K = {"array"} \/ K = {"null"}
    <3>1. K = {t} /\ t \in {"object", "array", "null"}
      BY <1>2, <2>1
    <3> QED BY <1>9, <1>10, <3>1
  <2>2. CASE \E k \in (K \cap ScalarKinds) \ {"null"} : K \subseteq {k, "null"}
    <3>1. PICK k \in (K \cap ScalarKinds) \ {"null"} : K \subseteq {k, "null"}
      BY <2>2
    <3>2. u = P(k)
      BY <1>2, <1>10, <3>1
    <3> QED BY <1>9, <3>1, <3>2
  <2> QED BY <1>5, <1>10, <2>1, <2>2
<1> QED BY <1>7, <1>8, <1>10
\* What _emit_value (schema_infer.py:126-146) makes of a node with type a,
\* nullable b and array_item_type c at a value of kind k with items of type x.
NodeAfter(k, x, a, b, c) ==
    LET t == IF a = "" THEN scalar_type(k) ELSE a
    IN  CASE k = "object" -> [type |-> IF a = "" THEN "object" ELSE a, nullable |-> b, item |-> c]
          [] k = "array"  -> [type |-> IF a = "" THEN "array" ELSE a, nullable |-> b, item |-> x]
          [] k = "null"   -> [type |-> IF a = "" THEN "null" ELSE a, nullable |-> TRUE, item |-> c]
          [] OTHER -> IF t = "null"
                      THEN [type |-> scalar_type(k), nullable |-> TRUE, item |-> c]
                      ELSE [type |-> IF t = scalar_type(k) THEN t ELSE "mixed", nullable |-> b, item |-> c]

LEMMA NotedParts ==
    ASSUME NEW v, NEW i, v[i].kind \in Kinds, NEW node,
           node = [type |-> node.type, nullable |-> node.nullable, item |-> node.item]
    PROVE  Noted(node, v, i) = NodeAfter(v[i].kind, array_item_type(v, i),
                                         node.type, node.nullable, node.item)
<1> DEFINE a == node.type
           b == node.nullable
           c == node.item
<1>0. node = [type |-> a, nullable |-> b, item |-> c]
  OBVIOUS
<1> HIDE DEF a, b, c
<1> SUFFICES Noted(node, v, i) = NodeAfter(v[i].kind, array_item_type(v, i), a, b, c)
  BY DEF a, b, c
<1> DEFINE k == v[i].kind
           t == IF a = "" THEN scalar_type(k) ELSE a
           E(x) == [type |-> IF a = "" THEN x ELSE a, nullable |-> b, item |-> c]
<1>1. ASSUME NEW x PROVE Ensured(node, x) = E(x)
  BY <1>0 DEF Ensured
<1>2. CASE k = "object"
  <2>1. Noted(node, v, i) = Ensured(node, "object")
    BY <1>2 DEF Noted
  <2> QED BY <1>1, <1>2, <2>1 DEF NodeAfter
<1>3. CASE k = "array"
  <2>1. Noted(node, v, i) = [Ensured(node, "array") EXCEPT !.item = array_item_type(v, i)]
    BY <1>3 DEF Noted
  <2>2. Noted(node, v, i) = [E("array") EXCEPT !.item = array_item_type(v, i)]
    BY <1>1, <2>1, Zenon
  <2>3. Noted(node, v, i) = [type |-> IF a = "" THEN "array" ELSE a, nullable |-> b,
                             item |-> array_item_type(v, i)]
    BY <2>2
  <2> QED BY <1>3, <2>3 DEF NodeAfter
<1>4. CASE k = "null"
  <2>1. Noted(node, v, i) = [Ensured(node, "null") EXCEPT !.nullable = TRUE]
    BY <1>4 DEF Noted
  <2>2. Noted(node, v, i) = [E("null") EXCEPT !.nullable = TRUE]
    BY <1>1, <2>1, Zenon
  <2>3. Noted(node, v, i) = [type |-> IF a = "" THEN "null" ELSE a, nullable |-> TRUE, item |-> c]
    BY <2>2
  <2> QED BY <1>4, <2>3 DEF NodeAfter
<1>5. CASE k \in ScalarKinds \ {"null"}
  <2> DEFINE n == Ensured(node, scalar_type(k))
  <2>1. k # "object" /\ k # "array" /\ k # "null"
    BY <1>5 DEF ScalarKinds
  <2>2. Noted(node, v, i) = CASE n.type = "null" -> [n EXCEPT !.type = scalar_type(k), !.nullable = TRUE]
                              [] n.type = scalar_type(k) -> n
                              [] OTHER -> [n EXCEPT !.type = "mixed"]
    BY <2>1 DEF Noted
  <2>3. n = [type |-> t, nullable |-> b, item |-> c] /\ n.type = t
    <3>1. n = E(scalar_type(k))
      BY <1>1
    <3>2. E(scalar_type(k)) = [type |-> t, nullable |-> b, item |-> c]
      OBVIOUS
    <3>3. [type |-> t, nullable |-> b, item |-> c].type = t
      OBVIOUS
    <3> QED BY ONLY <3>1, <3>2, <3>3
  <2>4. scalar_type(k) # "null"
    BY <1>5, ScalarTypes
  <2> HIDE DEF n, t
  <2>5. ASSUME t = "null"
        PROVE  Noted(node, v, i) = [type |-> scalar_type(k), nullable |-> TRUE, item |-> c]
    <3>1. Noted(node, v, i) = [n EXCEPT !.type = scalar_type(k), !.nullable = TRUE]
      BY <2>2, <2>3, <2>4, <2>5
    <3>2. [n EXCEPT !.type = scalar_type(k), !.nullable = TRUE]
             = [type |-> scalar_type(k), nullable |-> TRUE, item |-> c]
      <4>1. ASSUME NEW x, NEW y
            PROVE  [n EXCEPT !.type = x, !.nullable = y] = [type |-> x, nullable |-> y, item |-> c]
        <5> DEFINE f == [n EXCEPT !.type = x, !.nullable = y]
                   g == [type |-> x, nullable |-> y, item |-> c]
        <5>1. DOMAIN f = {"type", "nullable", "item"} /\ DOMAIN g = {"type", "nullable", "item"}
          BY <2>3
        <5>2. f["type"] = x /\ g["type"] = x
          BY <2>3
        <5>3. f["nullable"] = y /\ g["nullable"] = y
          BY <2>3
        <5>4. f["item"] = c /\ g["item"] = c
          BY <2>3
        <5>5. f = [z \in DOMAIN f |-> f[z]] /\ g = [z \in DOMAIN g |-> g[z]]
          OBVIOUS
        <5> HIDE DEF f, g
        <5>6. \A z \in DOMAIN f : f[z] = g[z]
          BY <5>1, <5>2, <5>3, <5>4
        <5>7. f = g
          BY <5>1, <5>5, <5>6
        <5> QED BY <5>7 DEF f, g
      <4> QED BY ONLY <4>1, Zenon
    <3> QED BY <3>1, <3>2, Zenon
  <2>6. ASSUME t # "null"
        PROVE  Noted(node, v, i) = [type |-> IF t = scalar_type(k) THEN t ELSE "mixed", nullable |-> b, item |-> c]
    <3>1. CASE t = scalar_type(k)
      <4>1. Noted(node, v, i) = n
        BY <2>2, <2>3, <2>6, <3>1
      <4> QED BY <2>3, <3>1, <4>1, Zenon
    <3>2. CASE t # scalar_type(k)
      <4>1. Noted(node, v, i) = [n EXCEPT !.type = "mixed"]
        BY <2>2, <2>3, <2>6, <3>2
      <4>2. [n EXCEPT !.type = "mixed"] = [type |-> "mixed", nullable |-> b, item |-> c]
        BY <2>3
      <4> QED BY <3>2, <4>1, <4>2, Zenon
    <3> QED BY <3>1, <3>2
  <2>7. NodeAfter(k, array_item_type(v, i), a, b, c)
           = IF t = "null" THEN [type |-> scalar_type(k), nullable |-> TRUE, item |-> c]
             ELSE [type |-> IF t = scalar_type(k) THEN t ELSE "mixed", nullable |-> b, item |-> c]
    BY <2>1 DEF NodeAfter, t
  <2>8. CASE t = "null"
    BY <2>5, <2>7, <2>8
  <2>9. CASE t # "null"
    BY <2>6, <2>7, <2>9
  <2> QED BY <2>8, <2>9
<1> QED BY <1>2, <1>3, <1>4, <1>5, Zenon DEF Kinds
\* One more value at a path: its node goes on to tell the kinds met there.
LEMMA NotedTells ==
    ASSUME NEW v, NEW i, v[i].kind \in Kinds,
           NEW K \in SUBSET Kinds, Clean(K \cup {v[i].kind}), NEW I, array_item_type(v, i) \in I,
           NEW node, NodeTells(node, K, I)
    PROVE  NodeTells(Noted(node, v, i), K \cup {v[i].kind}, I)
<1> DEFINE k == v[i].kind
           a == node.type
           L == K \cup {k}
           new == Noted(node, v, i)
<1>1. /\ node = [type |-> a, nullable |-> node.nullable, item |-> node.item]
      /\ TypeTells(a, K)
      /\ node.nullable = ("null" \in K)
      /\ "array" \in K => node.item \in I
      /\ "array" \notin K => node.item = ""
  BY Zenon DEF NodeTells
<1>0. new = NodeAfter(k, array_item_type(v, i), a, node.nullable, node.item)
  <2>1. node = [type |-> node.type, nullable |-> node.nullable, item |-> node.item]
    BY <1>1, Zenon
  <2> QED BY ONLY <2>1, NotedParts, v[i].kind \in Kinds
<1>2. ASSUME NEW t, NEW n, NEW c,
             new = [type |-> t, nullable |-> n, item |-> c], TypeTells(t, L),
             n = ("null" \in L), "array" \in L => c \in I, "array" \notin L => c = ""
      PROVE  NodeTells(new, L, I)
  <2>1. new.type = t /\ new.nullable = n /\ new.item = c
    <3> HIDE DEF new
    <3> QED BY <1>2
  <2> HIDE DEF new, L
  <2> QED BY <1>2, <2>1, Zenon DEF NodeTells
<1>3. "object" \notin ScalarKinds /\ "array" \notin ScalarKinds /\ "null" \in ScalarKinds
  BY DEF ScalarKinds
<1>4. ASSUME k = "object" PROVE NodeTells(new, L, I)
  <2>1. L = {"object"} /\ (K = {} \/ K = {"object"})
    BY <1>3, <1>4 DEF Clean
  <2>2. a = "" \/ a = "object"
    BY <1>1, <2>1 DEF TypeTells
  <2>3. new = [type |-> IF a = "" THEN "object" ELSE a, nullable |-> node.nullable, item |-> node.item]
    BY <1>0, <1>4 DEF NodeAfter
  <2>4. TypeTells("object", L)
    BY <2>1, <1>3 DEF TypeTells
  <2>5. node.nullable = ("null" \in L)
    <3>1. "null" \in L <=> "null" \in K
      BY <2>1
    <3>2. ("null" \in L) = ("null" \in K)
      BY <3>1
    <3> QED BY <1>1, <3>2, Zenon
  <2>6. "array" \notin L /\ node.item = ""
    BY <1>1, <2>1
  <2>7. (IF a = "" THEN "object" ELSE a) = "object"
    BY <2>2
  <2> HIDE DEF new, L, a, k
  <2> QED BY <1>2, <2>3, <2>4, <2>5, <2>6, <2>7, Zenon
<1>5. ASSUME k = "array" PROVE NodeTells(new, L, I)
  <2>1. L = {"array"} /\ (K = {} \/ K = {"array"})
    BY <1>3, <1>5 DEF Clean
  <2>2. a = "" \/ a = "array"
    BY <1>1, <2>1 DEF TypeTells
  <2>3. new = [type |-> IF a = "" THEN "array" ELSE a, nullable |-> node.nullable, item |-> array_item_type(v, i)]
    BY <1>0, <1>5 DEF NodeAfter
  <2>4. TypeTells("array", L)
    BY <2>1, <1>3 DEF TypeTells
  <2>5. node.nullable = ("null" \in L)
    <3>1. "null" \in L <=> "null" \in K
      BY <2>1
    <3>2. ("null" \in L) = ("null" \in K)
      BY <3>1
    <3> QED BY <1>1, <3>2, Zenon
  <2>6. "array" \in L
    BY <2>1
  <2>7. (IF a = "" THEN "array" ELSE a) = "array"
    BY <2>2
  <2> HIDE DEF new, L, a, k
  <2> QED BY <1>2, <2>3, <2>4, <2>5, <2>6, <2>7, Zenon
<1>6. ASSUME k \in ScalarKinds
      PROVE  /\ K \subseteq ScalarKinds /\ "array" \notin L /\ node.item = ""
             /\ K = {} => a = ""
             /\ a = "" => K = {}
             /\ a = "null" <=> K = {"null"}
             /\ \A m \in K \ {"null"} : K \subseteq {m, "null"} => a = scalar_type(m)
             /\ \A m \in ScalarKinds \ {"null"} : a = scalar_type(m) => m \in K /\ K \subseteq {m, "null"}
             /\ \A m, l \in K \ {"null"} : m # l => a = "mixed"
  <2>1. K \subseteq ScalarKinds /\ "array" \notin L /\ "array" \notin K
    BY <1>3, <1>6 DEF Clean
  <2>2. Clean(K)
    BY <2>1 DEF Clean
  <2>3. /\ K = {} => a = ""
        /\ K = {"null"} => a = "null"
        /\ \A m \in K \ {"null"} : K \subseteq {m, "null"} => a = scalar_type(m)
        /\ \A m, l \in K \ {"null"} : m # l => a = "mixed"
    BY <1>1, <2>1 DEF TypeTells
  <2>4. \/ K = {} \/ K = {"null"}
        \/ \E m \in K \ {"null"} : K \subseteq {m, "null"}
        \/ \E m, l \in K \ {"null"} : m # l
    OBVIOUS
  <2> HIDE DEF a, k, L
  <2>5. /\ a = "" => K = {}
        /\ a = "null" => K = {"null"}
        /\ \A m \in ScalarKinds \ {"null"} : a = scalar_type(m) => m \in K /\ K \subseteq {m, "null"}
    <3>1. CASE K = {}
      BY <2>3, <3>1, ScalarTypes
    <3>2. CASE K = {"null"}
      BY <2>3, <3>2, <1>3, ScalarTypes
    <3>3. CASE \E m \in K \ {"null"} : K \subseteq {m, "null"}
      <4>1. PICK m \in K \ {"null"} : K \subseteq {m, "null"}
        BY <3>3
      <4>2. a = scalar_type(m) /\ m \in ScalarKinds \ {"null"}
        BY <2>1, <2>3, <4>1
      <4>3. a # "" /\ a # "null"
        BY <4>2, ScalarTypes
      <4> QED BY <4>1, <4>2, <4>3, ScalarTypes
    <3>4. CASE \E m, l \in K \ {"null"} : m # l
      <4>1. a = "mixed"
        BY <2>3, <3>4
      <4> QED BY <4>1, ScalarTypes
    <3> QED BY <2>4, <3>1, <3>2, <3>3, <3>4
  <2>6. node.item = ""
    BY <1>1, <2>1
  <2> QED BY <2>1, <2>3, <2>5, <2>6

<1>7. ASSUME k = "null" PROVE NodeTells(new, L, I)
  <2> DEFINE t == IF a = "" THEN "null" ELSE a
  <2>1. new = [type |-> t, nullable |-> TRUE, item |-> node.item]
    BY <1>0, <1>7 DEF NodeAfter
  <2>2. k \in ScalarKinds
    BY <1>3, <1>7
  <2>3. "null" \in L /\ L = K \cup {"null"} /\ "object" \notin L /\ "array" \notin L
    BY <1>3, <1>6, <1>7, <2>2
  <2>4. TRUE = ("null" \in L)
    BY <2>3
  <2>5. node.item = ""
    BY <1>6, <2>2
  <2> HIDE DEF a, k, L
  <2>6. L = {"null"} => t = "null"
    <3>1. L = {"null"} => K = {} \/ K = {"null"}
      BY <2>3
    <3> QED BY <1>6, <2>2, <3>1
  <2>7. \A m \in (L \cap ScalarKinds) \ {"null"} : L \subseteq {m, "null"} => t = scalar_type(m)
    BY <1>6, <2>2, <2>3
  <2>8. \A m, l \in (L \cap ScalarKinds) \ {"null"} : m # l => t = "mixed"
    BY <1>6, <2>2, <2>3
  <2> HIDE DEF t, new
  <2>9. TypeTells(t, L)
    BY <2>3, <2>6, <2>7, <2>8 DEF TypeTells
  <2> QED BY <1>2, <2>1, <2>3, <2>4, <2>5, <2>9, Zenon
<1>8. ASSUME k \in ScalarKinds \ {"null"} PROVE NodeTells(new, L, I)
  <2> DEFINE t == IF a = "" THEN scalar_type(k) ELSE a
             u == IF t = "null" THEN scalar_type(k) ELSE IF t = scalar_type(k) THEN t ELSE "mixed"
  <2>1. k \in ScalarKinds /\ k # "null" /\ k # "object" /\ k # "array"
    BY <1>3, <1>8
  <2>2. new = IF t = "null" THEN [type |-> scalar_type(k), nullable |-> TRUE, item |-> node.item]
              ELSE [type |-> IF t = scalar_type(k) THEN t ELSE "mixed",
                    nullable |-> node.nullable, item |-> node.item]
    BY <1>0, <2>1 DEF NodeAfter
  <2>3. "object" \notin L /\ "array" \notin L /\ L \subseteq ScalarKinds /\ L # {} /\ L # {"null"}
    <3>1. K \subseteq ScalarKinds /\ k \in L
      BY <1>6, <2>1
    <3>2. L \subseteq ScalarKinds
      BY <2>1, <3>1
    <3> HIDE DEF L
    <3> QED BY <1>3, <2>1, <3>1, <3>2
  <2>4. node.item = "" /\ scalar_type(k) # "null"
    BY <1>6, <2>1, ScalarTypes
  <2>5. k \in L /\ K \subseteq L /\ L \subseteq K \cup {k}
    OBVIOUS
  <2> HIDE DEF k, a, L
  <2>6. TypeTells(u, L)
    <3>1. CASE a = "" \/ a = "null" \/ a = scalar_type(k)
      <4>1. u = scalar_type(k)
        BY <2>4, <3>1
      <4>2. L \subseteq {k, "null"}
        BY <1>6, <1>8, <2>5, <3>1
      <4> HIDE DEF u
      <4> QED BY <2>3, <4>1, <4>2 DEF TypeTells
    <3>2. CASE a # "" /\ a # "null" /\ a # scalar_type(k)
      <4>1. u = "mixed"
        BY <3>2
      <4>2. PICK m \in K : m # "null" /\ m # k
        <5> SUFFICES ASSUME K \subseteq {k, "null"} PROVE FALSE
          OBVIOUS
        <5>1. K # {} /\ K # {"null"}
          BY <1>6, <2>1, <3>2
        <5>2. k \in K
          BY <5>1
        <5> QED BY <1>6, <2>1, <3>2, <5>2
      <4> HIDE DEF u
      <4> QED BY <2>3, <2>5, <2>1, <4>1, <4>2 DEF TypeTells
    <3> QED BY <3>1, <3>2
  <2>7. CASE t = "null"
    <3>1. a = "null" /\ K = {"null"}
      BY <1>6, <2>1, <2>4, <2>7
    <3>2. TRUE = ("null" \in L)
      BY <2>5, <3>1
    <3>3. new = [type |-> u, nullable |-> TRUE, item |-> node.item]
      BY <2>2, <2>7
    <3> HIDE DEF t, u, new
    <3> QED BY <1>2, <2>3, <2>4, <2>6, <3>2, <3>3, Zenon
  <2>8. CASE t # "null"
    <3>1. ("null" \in L) = ("null" \in K)
      BY <2>1, <2>5
    <3>2. node.nullable = ("null" \in L)
      BY <1>1, <3>1, Zenon
    <3>3. new = [type |-> u, nullable |-> node.nullable, item |-> node.item]
      BY <2>2, <2>8
    <3> HIDE DEF t, u, new
    <3> QED BY <1>2, <2>3, <2>4, <2>6, <3>2, <3>3, Zenon
  <2> QED BY <2>7, <2>8
<1> QED BY <1>4, <1>5, <1>7, <1>8, Zenon DEF Kinds
\* The nodes of a walk exist, value by value, so that Walked is what its
\* recursion says.
LEMMA WalkUnfolds ==
    ASSUME NEW v, Len(v) \in Nat, NEW met
    PROVE  /\ Walked(v, met)[0] = NodeState
           /\ \A i \in 1..Len(v) : Walked(v, met)[i] =
                 IF i \in met THEN Noted(Walked(v, met)[i - 1], v, i) ELSE Walked(v, met)[i - 1]
<1> DEFINE B(g, i) == IF i = 0 THEN NodeState
                      ELSE IF i \in met THEN Noted(g[i - 1], v, i) ELSE g[i - 1]
           Good(g, n) == /\ g = [i \in 0..n |-> g[i]]
                         /\ \A i \in 0..n : g[i] = B(g, i)
           Missing == {n \in Nat : ~\E g : Good(g, n)}
<1>1. \E g : Good(g, 0)
  <2> DEFINE g == [i \in 0..0 |-> NodeState]
  <2>1. g[0] = NodeState /\ g = [i \in 0..0 |-> g[i]] /\ \A i \in 0..0 : i = 0
    OBVIOUS
  <2> HIDE DEF g
  <2>2. Good(g, 0)
    BY <2>1
  <2> QED BY <2>2
<1>2. ASSUME NEW n \in Nat, \E g : Good(g, n)
      PROVE  \E g : Good(g, n + 1)
  <2>1. PICK g : Good(g, n)
    BY <1>2
  <2> DEFINE h == [i \in 0..(n + 1) |-> IF i \in 0..n THEN g[i] ELSE B(g, i)]
  <2>2. \A i \in 0..n : h[i] = g[i] /\ i \in 0..(n + 1)
    OBVIOUS
  <2>3. \A i \in 0..(n + 1) : i # 0 => i - 1 \in 0..n
    OBVIOUS
  <2>4. \A i \in 0..(n + 1) : h[i] = IF i \in 0..n THEN g[i] ELSE B(g, i)
    OBVIOUS
  <2>5. h = [i \in 0..(n + 1) |-> h[i]]
    OBVIOUS
  <2> HIDE DEF h
  <2>6. ASSUME NEW i \in 0..(n + 1) PROVE h[i] = B(h, i)
    <3>1. h[i] = B(g, i)
      BY <2>1, <2>4
    <3>2. i # 0 => h[i - 1] = g[i - 1]
      BY <2>2, <2>3
    <3> QED BY <3>1, <3>2
  <2> HIDE DEF B
  <2>7. Good(h, n + 1)
    BY <2>5, <2>6
  <2> QED BY <2>7
<1> HIDE DEF Good
<1>3. Missing = {}
  <2> SUFFICES ASSUME Missing # {} PROVE FALSE
    OBVIOUS
  <2>1. PICK n \in Missing : \A m \in Missing : n <= m
    BY LeastNumber
  <2>2. n \in Nat /\ n # 0
    BY <1>1
  <2>3. n - 1 \in Nat /\ (n - 1) + 1 = n /\ ~(n <= n - 1)
    BY <2>2
  <2>4. \E g : Good(g, n - 1)
    BY <2>1, <2>3
  <2>5. \E g : Good(g, n)
    BY <1>2, <2>3, <2>4
  <2> QED BY <2>5
<1>4. \E g : Good(g, Len(v))
  <2>1. Len(v) \notin Missing
    <3> HIDE DEF Missing
    <3> QED BY <1>3
  <2> QED BY <2>1
<1> DEFINE Eq(g) == g = [i \in 0..Len(v) |-> B(g, i)]
           w == Walked(v, met)
<1>5. \E g : Eq(g)
  <2>1. PICK g : Good(g, Len(v))
    BY <1>4
  <2> HIDE DEF B
  <2>2. Eq(g)
    BY <2>1 DEF Good
  <2> QED BY <2>2
<1>6. w = CHOOSE g : Eq(g)
  BY DEF Walked
<1> HIDE DEF Eq, w
<1>7. Eq(w)
  BY <1>5, <1>6
<1>8. \A i \in 0..Len(v) : w[i] = B(w, i)
  <2> HIDE DEF B
  <2> QED BY <1>7 DEF Eq
<1>9. 0 \in 0..Len(v) /\ \A i \in 1..Len(v) : i \in 0..Len(v) /\ i # 0
  OBVIOUS
<1> QED BY <1>8, <1>9 DEF w

\* The node of a path tells the kinds that were met there (schema_infer.py:68-146).
LEMMA WalkTells ==
    ASSUME NEW v, IsDocument(v), NEW met \in SUBSET DOMAIN v, Clean(KindsOf(v, met))
    PROVE  NodeTells(Walked(v, met)[Len(v)], KindsOf(v, met), {array_item_type(v, i) : i \in met})
<1> DEFINE w == Walked(v, met)
           I == {array_item_type(v, i) : i \in met}
           K(n) == KindsOf(v, met \cap (1..n))
           Wrong == {n \in 0..Len(v) : ~NodeTells(w[n], K(n), I)}
<1>1. /\ Len(v) \in Nat /\ DOMAIN v = 1..Len(v)
      /\ \A i \in DOMAIN v : v[i].kind \in Kinds
  BY DocumentParts
<1>2. /\ w[0] = NodeState
      /\ \A i \in 1..Len(v) : w[i] = IF i \in met THEN Noted(w[i - 1], v, i) ELSE w[i - 1]
  BY <1>1, WalkUnfolds
<1> HIDE DEF w
<1>3. NodeTells(w[0], K(0), I)
  <2>1. K(0) = {}
    BY DEF KindsOf
  <2>2. TypeTells("", {})
    BY DEF TypeTells
  <2>3. w[0] = [type |-> "", nullable |-> FALSE, item |-> ""]
    BY <1>2 DEF NodeState
  <2>4. w[0].type = "" /\ w[0].nullable = FALSE /\ w[0].item = ""
    <3>1. ASSUME NEW b PROVE LET r == [type |-> "", nullable |-> b, item |-> ""]
                             IN  r.type = "" /\ r.nullable = b /\ r.item = ""
      OBVIOUS
    <3> QED BY ONLY <2>3, <3>1, Zenon
  <2>5. FALSE = ("null" \in {})
    OBVIOUS
  <2>6. "array" \notin {}
    OBVIOUS
  <2> HIDE DEF I
  <2>7. NodeTells(w[0], {}, I)
    BY ONLY <2>2, <2>3, <2>4, <2>5, <2>6, Zenon DEF NodeTells
  <2> QED BY <2>1, <2>7
<1>4. ASSUME NEW n \in 1..Len(v), NodeTells(w[n - 1], K(n - 1), I)
      PROVE  NodeTells(w[n], K(n), I)
  <2>1. n \notin met => met \cap (1..n) = met \cap (1..(n - 1))
    BY <1>1
  <2>2. CASE n \notin met
    BY <1>2, <1>4, <2>1, <2>2
  <2>3. CASE n \in met
    <3>1. w[n] = Noted(w[n - 1], v, n) /\ v[n].kind \in Kinds
      BY <1>1, <1>2, <2>3
    <3>2. K(n) = K(n - 1) \cup {v[n].kind}
      <4>1. met \cap (1..n) = (met \cap (1..(n - 1))) \cup {n}
        BY <1>1, <2>3
      <4> QED BY <4>1 DEF KindsOf
    <3>3. K(n) \subseteq KindsOf(v, met) /\ K(n - 1) \subseteq Kinds
      BY <1>1 DEF KindsOf
    <3>4. Clean(K(n))
      <4> HIDE DEF K
      <4>1. K(n) # {} /\ K(n) \subseteq KindsOf(v, met)
        BY <3>2, <3>3
      <4> QED BY <4>1 DEF Clean
    <3>5. array_item_type(v, n) \in I
      BY <2>3
    <3> HIDE DEF K, I
    <3> QED BY <1>4, <3>1, <3>2, <3>3, <3>4, <3>5, NotedTells
  <2> QED BY <2>2, <2>3
<1>5. Wrong = {}
  <2> HIDE DEF K, I
  <2> SUFFICES ASSUME Wrong # {} PROVE FALSE
    OBVIOUS
  <2>1. Wrong \subseteq Nat
    BY <1>1
  <2>2. PICK n \in Wrong : \A m \in Wrong : n <= m
    BY <2>1, LeastNumber
  <2>3. n \in 0..Len(v) /\ ~NodeTells(w[n], K(n), I)
    BY <2>2
  <2>4. n \in 1..Len(v) /\ n - 1 \in 0..Len(v) /\ ~(n <= n - 1)
    BY <1>1, <1>3, <2>3
  <2>5. NodeTells(w[n - 1], K(n - 1), I)
    BY <2>2, <2>4
  <2> QED BY <1>4, <2>3, <2>4, <2>5
<1>6. NodeTells(w[Len(v)], K(Len(v)), I)
  <2> HIDE DEF K, I
  <2>1. Len(v) \in 0..Len(v)
    BY <1>1
  <2> QED BY <1>5, <2>1
<1>7. K(Len(v)) = KindsOf(v, met)
  <2>1. met \cap (1..Len(v)) = met
    BY <1>1
  <2> QED BY <2>1
<1> HIDE DEF K
<1> QED BY <1>6, <1>7 DEF w
\* A path without the numbers of the items, step by step.
LEMMA BlurSplits ==
    ASSUME NEW p \in Seq(Step)
    PROVE  /\ Blur(p) \in Seq(Step \cup {Item}) /\ Len(Blur(p)) = Len(p)
           /\ p = <<>> <=> Blur(p) = <<>>
           /\ Blur(p) # <<Root>>
           /\ p # <<>> => /\ Parent(p) \in Seq(Step)
                          /\ Blur(p) = Append(Blur(Parent(p)), LastStep(Blur(p)))
                          /\ Parent(Blur(p)) = Blur(Parent(p))
                          /\ LastStep(Blur(p)) = Item <=> LastStep(p)[1] = "item"
<1> DEFINE B(x) == IF x[1] = "item" THEN <<"item">> ELSE x
           b == Blur(p)
<1>1. Len(p) \in Nat /\ DOMAIN p = 1..Len(p) /\ \A i \in 1..Len(p) : p[i] \in Step
  OBVIOUS
<1>2. ASSUME NEW x \in Step
      PROVE  B(x) \in Step \cup {Item} /\ B(x) # Root /\ (B(x) = Item <=> x[1] = "item")
  <2>1. x[1] \in {"key", "item"}
    BY DEF Step
  <2>2. <<"item">>[1] = "item" /\ <<"root">>[1] = "root"
    OBVIOUS
  <2> QED BY <2>1, <2>2 DEF Item, Root
<1>3. b = [i \in 1..Len(p) |-> B(p[i])]
  BY <1>1, Zenon DEF Blur
<1> HIDE DEF B
<1>4. DOMAIN b = 1..Len(p) /\ \A i \in 1..Len(p) : b[i] = B(p[i]) /\ b[i] \in Step \cup {Item}
  <2> HIDE DEF b
  <2> QED BY <1>1, <1>2, <1>3
<1>5. b \in Seq(Step \cup {Item}) /\ Len(b) = Len(p)
  <2> DEFINE S == Step \cup {Item}
  <2>1. b \in [1..Len(p) -> S]
    BY <1>3, <1>4
  <2> HIDE DEF S, b
  <2>2. b \in Seq(S)
    BY <1>1, <2>1
  <2>3. Len(b) \in Nat /\ 1..Len(b) = 1..Len(p)
    BY <1>4, <2>2
  <2> QED BY <1>1, <2>2, <2>3 DEF S
<1>6. p = <<>> <=> b = <<>>
  BY <1>1, <1>5
<1>7. b # <<Root>>
  <2> SUFFICES ASSUME b = <<Root>> PROVE FALSE
    OBVIOUS
  <2>1. Len(b) = 1 /\ b[1] = Root
    OBVIOUS
  <2>2. 1 \in 1..Len(p)
    BY <1>1, <1>5, <2>1
  <2> HIDE DEF b
  <2> QED BY <1>1, <1>2, <1>4, <2>1, <2>2
<1>8. ASSUME p # <<>>
      PROVE  /\ Parent(p) \in Seq(Step)
             /\ b = Append(Blur(Parent(p)), LastStep(b))
             /\ Parent(b) = Blur(Parent(p))
             /\ LastStep(b) = Item <=> LastStep(p)[1] = "item"
  <2>1. /\ p = Append(Parent(p), LastStep(p)) /\ LastStep(p) \in Step
        /\ Len(Parent(p)) = Len(p) - 1 /\ Len(p) \in Nat \ {0}
        /\ Parent(p) \in Seq(Step)
    BY <1>8, PathSplits
  <2>2. LastStep(b) = B(LastStep(p))
    <3>1. Len(p) \in 1..Len(p)
      BY <2>1
    <3> HIDE DEF b
    <3> QED BY <1>4, <1>5, <3>1 DEF LastStep
  <2>3. LastStep(b) = Item <=> LastStep(p)[1] = "item"
    BY <1>2, <2>1, <2>2
  <2> DEFINE q == Parent(p)
             c == Blur(q)
             s == LastStep(b)
  <2>4. DOMAIN q = 1..(Len(p) - 1) /\ \A i \in 1..(Len(p) - 1) : q[i] = p[i]
    BY <2>1 DEF Parent
  <2>5. c = [i \in 1..(Len(p) - 1) |-> B(q[i])]
    <3> HIDE DEF q
    <3> QED BY <2>4, Zenon DEF Blur, B
  <2>6. /\ DOMAIN c = 1..(Len(p) - 1)
        /\ \A i \in 1..(Len(p) - 1) : c[i] = b[i] /\ c[i] \in Step \cup {Item}
    <3>1. \A i \in 1..(Len(p) - 1) : i \in 1..Len(p)
      BY <1>1
    <3> HIDE DEF b, c, q
    <3> QED BY <1>4, <2>4, <2>5, <3>1
  <2> DEFINE S == Step \cup {Item}
  <2>7. c \in Seq(S) /\ Len(c) = Len(p) - 1
    <3>1. Len(p) - 1 \in Nat
      BY <2>1
    <3>2. c \in [1..(Len(p) - 1) -> S]
      BY <2>5, <2>6
    <3> HIDE DEF S, c
    <3>3. c \in Seq(S)
      BY <3>1, <3>2
    <3>4. Len(c) \in Nat /\ 1..Len(c) = 1..(Len(p) - 1)
      BY <2>6, <3>3
    <3> QED BY <3>1, <3>3, <3>4
  <2>8. s \in S
    BY <1>2, <2>1, <2>2
  <2>9. b[Len(p)] = s
    BY <1>5 DEF LastStep
  <2> HIDE DEF S, c, b, s, q
  <2>10. /\ Append(c, s) \in Seq(S) /\ Len(Append(c, s)) = Len(p)
         /\ \A i \in 1..Len(p) : Append(c, s)[i] = b[i]
    BY <2>1, <2>6, <2>7, <2>8, <2>9
  <2>11. b = Append(c, s)
    BY <1>5, <2>10, SeqEqual DEF S
  <2>12. Parent(b) = c
    <3>1. \A i \in 1..(Len(b) - 1) : i \in 1..Len(b)
      BY <1>1, <1>5
    <3>2. \A i \in 1..(Len(b) - 1) : b[i] \in S
      BY <1>5, <3>1 DEF S
    <3>3. 1 \in Int /\ Len(b) - 1 \in Int
      BY <1>1, <1>5
    <3>4. /\ SubSeq(b, 1, Len(b) - 1) \in Seq(S)
          /\ Len(SubSeq(b, 1, Len(b) - 1)) = IF 1 <= Len(b) - 1 THEN Len(b) - 1 - 1 + 1 ELSE 0
      BY <3>2, <3>3, SubSeqProperties
    <3>5. \A n \in Nat \ {0} : (IF 1 <= n - 1 THEN n - 1 - 1 + 1 ELSE 0) = n - 1
      OBVIOUS
    <3>6. Len(SubSeq(b, 1, Len(b) - 1)) = Len(p) - 1
      <4>1. Len(b) \in Nat \ {0}
        BY <2>1, <1>5
      <4> QED BY ONLY <4>1, <1>5, <3>4, <3>5
    <3>7. \A i \in 1..(Len(p) - 1) : SubSeq(b, 1, Len(b) - 1)[i] = b[i]
      BY <1>5, <2>1
    <3>8. SubSeq(b, 1, Len(b) - 1) = c
      BY <2>6, <2>7, <3>4, <3>6, <3>7, SeqEqual
    <3> QED BY <3>8 DEF Parent
  <2> QED BY <2>1, <2>3, <2>11, <2>12 DEF c, s, q
<1> QED BY <1>5, <1>6, <1>7, <1>8
\* Where a value lies in a document: in one object or array, and at a step of
\* that kind.
LEMMA Placed ==
    ASSUME NEW v, IsDocument(v), NEW i \in DOMAIN v, i # 1
    PROVE  \E h \in DOMAIN v :
              /\ i \in Inside(v, h) /\ \A g \in DOMAIN v : i \in Inside(v, g) => g = h
              /\ v[h].kind \in {"object", "array"}
              /\ Blur(v[i].path) = Append(Blur(v[h].path), LastStep(Blur(v[i].path)))
              /\ Parent(Blur(v[i].path)) = Blur(v[h].path)
              /\ LastStep(Blur(v[i].path)) = Item <=> v[h].kind = "array"
<1>1. v[i].path \in Seq(Step) /\ v[i].path # <<>> /\ DOMAIN v = 1..Len(v) /\ Len(v) \in Nat
  BY DocumentParts
<1>2. PICK h \in 1..(i - 1) :
         /\ v[h].path = Parent(v[i].path)
         /\ \/ v[h].kind = "object" /\ LastStep(v[i].path)[1] = "key"
            \/ v[h].kind = "array" /\ LastStep(v[i].path)[1] = "item"
  BY DEF IsDocument
<1>3. h \in DOMAIN v
  BY <1>1, <1>2
<1>4. i \in Inside(v, h)
  BY <1>1, <1>2 DEF Inside
<1>5. ASSUME NEW g \in DOMAIN v, i \in Inside(v, g) PROVE g = h
  BY <1>2, <1>3, <1>5 DEF Inside, IsDocument
<1>6. LastStep(Blur(v[i].path)) = Item <=> LastStep(v[i].path)[1] = "item"
  BY <1>1, BlurSplits
<1>7. LastStep(Blur(v[i].path)) = Item <=> v[h].kind = "array"
  BY <1>2, <1>6
<1>8. /\ Blur(v[i].path) = Append(Blur(v[h].path), LastStep(Blur(v[i].path)))
      /\ Parent(Blur(v[i].path)) = Blur(v[h].path)
  BY <1>1, <1>2, BlurSplits
<1>9. v[h].kind \in {"object", "array"}
  BY <1>2
<1> QED BY <1>3, <1>4, <1>5, <1>7, <1>8, <1>9

\* The items of an array have the path of the array and "[*]".
LEMMA ItemsOf ==
    ASSUME NEW v, IsDocument(v), NEW h \in DOMAIN v, v[h].kind = "array", NEW j \in Inside(v, h)
    PROVE  j \in DOMAIN v /\ j # 1 /\ Blur(v[j].path) = Append(Blur(v[h].path), Item)
<1>1. j \in DOMAIN v /\ j # 1
  BY DocumentParts DEF Inside
<1>2. PICK g \in DOMAIN v :
         /\ j \in Inside(v, g) /\ \A f \in DOMAIN v : j \in Inside(v, f) => f = g
         /\ Blur(v[j].path) = Append(Blur(v[g].path), LastStep(Blur(v[j].path)))
         /\ LastStep(Blur(v[j].path)) = Item <=> v[g].kind = "array"
  BY <1>1, Placed
<1>3. g = h
  BY <1>2
<1> QED BY <1>1, <1>2, <1>3

\* The items of an array of objects (schema_infer.py:91-106) are objects.
LEMMA ObjectItems ==
    ASSUME NEW v, IsDocument(v), NEW i \in DOMAIN v, InObjects(v, i)
    PROVE  v[i].kind = "object" /\ i # 1
BY DocumentParts DEF InObjects, OfObjects, Inside

\* array_item_type (schema_infer.py:87-119) is "object" for these arrays only.
LEMMA ObjectArrays ==
    ASSUME NEW v, IsDocument(v), NEW i \in DOMAIN v, v[i].kind = "array"
    PROVE  array_item_type(v, i) = "object" <=> Inside(v, i) # {} /\ OfObjects(v, i)
<1> DEFINE types == {scalar_type(v[j].kind) : j \in Inside(v, i)} \ {"null"}
           In == Inside(v, i)
           Of == OfObjects(v, i)
<1>1. array_item_type(v, i) = CASE In = {}                               -> "unknown"
                                [] In # {} /\ Of                         -> "object"
                                [] ~Of /\ types = {}                     -> "null"
                                [] ~Of /\ \E t \in types : types = {t}   -> CHOOSE t \in types : TRUE
                                [] OTHER                                 -> "mixed"
  BY DEF array_item_type
<1>2. "object" \notin types
  <2>1. \A k : scalar_type(k) # "object"
    BY DEF scalar_type
  <2> QED BY <2>1
<1>3. In = {} => Of
  BY DEF OfObjects
<1> HIDE DEF types, In, Of
<1>4. CASE In = {}
  BY <1>1, <1>3, <1>4 DEF In, Of
<1>5. CASE In # {} /\ Of
  BY <1>1, <1>5 DEF In, Of
<1>6. CASE ~Of /\ types = {}
  BY <1>1, <1>3, <1>6 DEF In, Of
<1>7. CASE ~Of /\ \E t \in types : types = {t}
  <2>1. array_item_type(v, i) = CHOOSE t \in types : TRUE
    BY <1>1, <1>3, <1>7
  <2>2. array_item_type(v, i) \in types
    BY <1>7, <2>1
  <2> QED BY <1>2, <1>7, <2>2 DEF In, Of
<1>8. CASE ~Of /\ types # {} /\ ~\E t \in types : types = {t}
  BY <1>1, <1>3, <1>8 DEF In, Of
<1> QED BY <1>3, <1>4, <1>5, <1>6, <1>7, <1>8

\* Which values are met for a path: those that are there, but for the items of
\* arrays of objects, and a body that is no object.
LEMMA MetMeans ==
    ASSUME NEW v, IsDocument(v), NEW i \in DOMAIN v, NEW p, p # <<>>
    PROVE  i \in MetAt(v, p) <=> \/ i \in At(v, p) /\ ~InObjects(v, i)
                                 \/ i = 1 /\ v[1].kind = "array" /\ p = <<Item>>
                                 \/ i = 1 /\ v[1].kind \in ScalarKinds /\ p = <<Root>>
<1>1. v[i].kind \in Kinds /\ v[i].path \in Seq(Step) /\ (v[i].path = <<>> <=> i = 1)
  BY DocumentParts
<1>2. "array" \notin ScalarKinds /\ "object" \notin ScalarKinds
  BY DEF ScalarKinds
<1>3. CASE i # 1
  <2>1. v[i].path # <<>>
    BY <1>1, <1>3
  <2>2. InObjects(v, i) => NodePath(v, i) = <<>>
    BY <2>1 DEF NodePath
  <2>3. ~InObjects(v, i) => NodePath(v, i) = Blur(v[i].path)
    BY <2>1 DEF NodePath
  <2> QED BY <1>3, <2>2, <2>3 DEF MetAt, At
<1>4. CASE i = 1
  <2>1. v[i].path = <<>> /\ Blur(v[i].path) = <<>>
    BY <1>1, <1>4, BlurSplits
  <2>2. i \notin At(v, p)
    BY <2>1 DEF At
  <2>3. CASE v[i].kind = "object"
    <3>1. NodePath(v, i) = <<>>
      BY <2>1, <2>3, <1>2 DEF NodePath
    <3> QED BY <1>2, <1>4, <2>2, <2>3, <3>1 DEF MetAt
  <2>4. CASE v[i].kind = "array"
    <3>1. NodePath(v, i) = <<Item>>
      BY <2>1, <2>4, <1>2 DEF NodePath
    <3> QED BY <1>2, <1>4, <2>2, <2>4, <3>1 DEF MetAt
  <2>5. CASE v[i].kind \in ScalarKinds
    <3>1. NodePath(v, i) = <<Root>>
      BY <2>1, <2>5, <1>2 DEF NodePath
    <3> QED BY <1>2, <1>4, <2>2, <2>5, <3>1 DEF MetAt
  <2> QED BY <1>1, <2>3, <2>4, <2>5 DEF Kinds
<1> QED BY <1>3, <1>4

\* The nodes of a schema.
LEMMA SchemaNodes ==
    ASSUME NEW v, NEW p
    PROVE  /\ p \in DOMAIN infer_schema(v) <=> p # <<>> /\ MetAt(v, p) # {}
           /\ p \in DOMAIN infer_schema(v) => infer_schema(v)[p] = finalize(v, p, MetAt(v, p))
<1> DEFINE place == [i \in DOMAIN v |-> NodePath(v, i)]
           D == {place[i] : i \in DOMAIN v} \ {<<>>}
           M(q) == {i \in DOMAIN v : place[i] = q}
<1>1. infer_schema(v) = [q \in D |-> finalize(v, q, M(q))]
  BY DEF infer_schema
<1>2. \A q : M(q) = MetAt(v, q)
  BY DEF MetAt
<1>3. p \in D <=> p # <<>> /\ MetAt(v, p) # {}
  BY DEF MetAt
<1> HIDE DEF D, M
<1> QED BY <1>1, <1>2, <1>3
\* A path at which inference does not depend on the order: the values met are of
\* all the kinds found there.
LEMMA PlainPath ==
    ASSUME NEW v, IsDocument(v), NEW p, p # <<>>, p # <<Root>>, ~Murky(v, p), MetAt(v, p) # {}
    PROVE  /\ MetAt(v, p) \subseteq At(v, p) /\ At(v, p) \subseteq DOMAIN v
           /\ KindsOf(v, MetAt(v, p)) = KindsAt(v, p)
           /\ KindsAt(v, p) \subseteq Kinds /\ KindsAt(v, p) # {} /\ Clean(KindsAt(v, p))
<1>1. MetAt(v, p) \subseteq DOMAIN v /\ At(v, p) \subseteq DOMAIN v
  BY DEF MetAt, At
<1>2. ASSUME NEW i \in MetAt(v, p) PROVE i \in At(v, p)
  <2>1. i \in DOMAIN v
    BY <1>1
  <2>2. ~(v[1].kind = "array" /\ p = <<Item>>)
    BY DEF Murky
  <2> QED BY <2>1, <2>2, MetMeans
<1>3. KindsAt(v, p) \subseteq Kinds
  BY <1>1, DocumentParts DEF KindsAt
<1>4. KindsOf(v, MetAt(v, p)) \subseteq KindsAt(v, p) /\ KindsOf(v, MetAt(v, p)) # {}
  BY <1>2 DEF KindsOf, KindsAt
<1>5. \A k \in {"object", "array"} : k \in KindsAt(v, p) => KindsAt(v, p) = {k}
  BY DEF Murky
<1>6. Clean(KindsAt(v, p))
  BY <1>3, <1>5 DEF Clean, Kinds
<1>7. ASSUME NEW i \in At(v, p), i \notin MetAt(v, p) PROVE v[i].kind \in KindsOf(v, MetAt(v, p))
  <2>1. InObjects(v, i)
    BY <1>1, <1>7, MetMeans
  <2>2. v[i].kind = "object"
    BY <1>1, <2>1, ObjectItems
  <2>3. KindsAt(v, p) = {"object"}
    BY <1>5, <2>2 DEF KindsAt
  <2> QED BY <1>4, <2>2, <2>3
<1>8. KindsAt(v, p) \subseteq KindsOf(v, MetAt(v, p))
  BY <1>7 DEF KindsAt, KindsOf
<1> QED BY <1>1, <1>2, <1>3, <1>4, <1>6, <1>8

\* The parts of a SchemaNode (schema_infer.py:166-178).
LEMMA FinalParts ==
    ASSUME NEW v, NEW p, NEW met
    PROVE  LET s == finalize(v, p, met)
               node == Walked(v, met)[Len(v)]
           IN  /\ s.type = node.type /\ s.nullable = node.nullable
               /\ s.item = IF v[1].kind = "array" /\ p = <<Item>> THEN array_item_type(v, 1) ELSE node.item
               /\ s.required = ~Optional(v, p) /\ s.enum = enum_values(v, met)
               /\ s = [type |-> s.type, nullable |-> s.nullable, item |-> s.item,
                       required |-> s.required, enum |-> s.enum]
<1>1. ASSUME NEW a, NEW b, NEW c, NEW d, NEW e
      PROVE  LET r == [type |-> a, nullable |-> b, item |-> c, required |-> d, enum |-> e]
             IN  r.type = a /\ r.nullable = b /\ r.item = c /\ r.required = d /\ r.enum = e
  OBVIOUS
<1> QED BY ONLY <1>1, Zenon DEF finalize

\* No strings, no enumeration (schema_infer.py:151-157).
LEMMA NoStrings ==
    ASSUME NEW v, NEW met, "str" \notin KindsOf(v, met)
    PROVE  enum_values(v, met) = {}
<1>1. {v[i].text : i \in {j \in met : v[j].kind = "str"}} = {}
  BY DEF KindsOf
<1> QED BY <1>1 DEF enum_values

\* The node of a path whose values are of one kind, or scalars.
LEMMA NodeMeans ==
    ASSUME NEW v, IsDocument(v), NEW p, p \in DOMAIN infer_schema(v), Clean(KindsOf(v, MetAt(v, p)))
    PROVE  LET s == infer_schema(v)[p]
               K == KindsOf(v, MetAt(v, p))
           IN  /\ TypeTells(s.type, K)
               /\ s.nullable = ("null" \in K)
               /\ "array" \in K => \E i \in MetAt(v, p) : v[i].kind = "array" /\ s.item = array_item_type(v, i)
               /\ "array" \notin K => s.item = ""
               /\ "str" \notin K => s.enum = {}
               /\ s.enum = enum_values(v, MetAt(v, p))
<1> DEFINE met == MetAt(v, p)
           K == KindsOf(v, met)
           node == Walked(v, met)[Len(v)]
           s == infer_schema(v)[p]
           I == {array_item_type(v, i) : i \in met}
<1>1. p # <<>> /\ met # {} /\ s = finalize(v, p, met) /\ met \in SUBSET DOMAIN v
  BY SchemaNodes DEF MetAt
<1>2. NodeTells(node, K, I)
  BY ONLY IsDocument(v), <1>1, Clean(KindsOf(v, MetAt(v, p))), WalkTells
<1>3. v[1].kind = "array" /\ p = <<Item>> => 1 \in met
  BY DocumentParts, MetMeans
<1>4. /\ s.type = node.type /\ s.nullable = node.nullable
      /\ s.item = IF v[1].kind = "array" /\ p = <<Item>> THEN array_item_type(v, 1) ELSE node.item
      /\ s.enum = enum_values(v, met)
  <2> HIDE DEF met, node, s
  <2>1. LET f == finalize(v, p, met)
        IN  /\ f.type = node.type /\ f.nullable = node.nullable
            /\ f.item = IF v[1].kind = "array" /\ p = <<Item>> THEN array_item_type(v, 1) ELSE node.item
            /\ f.enum = enum_values(v, met)
    BY ONLY FinalParts DEF node
  <2> QED BY <1>1, <2>1
<1>5. "array" \in K => \E i \in met : v[i].kind = "array" /\ s.item = array_item_type(v, i)
  <2> SUFFICES ASSUME "array" \in K
               PROVE  \E i \in met : v[i].kind = "array" /\ s.item = array_item_type(v, i)
    OBVIOUS
  <2>1. K = {"array"}
    BY DEF Clean, ScalarKinds
  <2>2. \A i \in met : v[i].kind = "array"
    BY <2>1 DEF KindsOf
  <2>3. node.item \in I
    <3> HIDE DEF met, node, s, I, K
    <3> QED BY <1>2 DEF NodeTells
  <2> HIDE DEF s, node, K, met
  <2> QED BY <1>3, <1>4, <2>2, <2>3
<1>6. "array" \notin K => s.item = ""
  <2>1. "array" \notin K => ~(v[1].kind = "array" /\ p = <<Item>>)
    BY <1>3 DEF KindsOf
  <2> HIDE DEF s, node, K, met, I
  <2> QED BY <1>2, <1>4, <2>1 DEF NodeTells
<1>7. "str" \notin K => s.enum = {}
  <2> HIDE DEF met, s, node
  <2> QED BY <1>4, NoStrings
<1>8. TypeTells(s.type, K) /\ s.nullable = ("null" \in K)
  <2> HIDE DEF met, s, node, K, I
  <2> QED BY <1>2, <1>4, Zenon DEF NodeTells
<1> HIDE DEF met, s, node, K, I
<1> QED BY <1>4, <1>5, <1>6, <1>7, <1>8, Zenon DEF met, s, K

\* The rest of a node, and all of it.
LEMMA NodeRest ==
    ASSUME NEW v, NEW p, p \in DOMAIN infer_schema(v)
    PROVE  LET s == infer_schema(v)[p]
           IN  /\ s.required = ~Optional(v, p)
               /\ s = [type |-> s.type, nullable |-> s.nullable, item |-> s.item,
                       required |-> s.required, enum |-> s.enum]
<1> DEFINE met == MetAt(v, p)
           f == finalize(v, p, met)
<1>1. infer_schema(v)[p] = f
  BY SchemaNodes
<1> HIDE DEF met
<1>2. /\ f.required = ~Optional(v, p)
      /\ f = [type |-> f.type, nullable |-> f.nullable, item |-> f.item,
              required |-> f.required, enum |-> f.enum]
  BY ONLY FinalParts
<1> QED BY ONLY <1>1, <1>2, Zenon

\* The node of a path at which the order does not matter.
LEMMA PlainNode ==
    ASSUME NEW v, IsDocument(v), NEW p, p \in DOMAIN infer_schema(v), p # <<Root>>, ~Murky(v, p)
    PROVE  LET s == infer_schema(v)[p]
               K == KindsAt(v, p)
           IN  /\ TypeTells(s.type, K)
               /\ s.nullable = ("null" \in K)
               /\ "array" \in K => \E i \in MetAt(v, p) : v[i].kind = "array" /\ s.item = array_item_type(v, i)
               /\ "str" \notin K => s.enum = {}
<1>1. p # <<>> /\ MetAt(v, p) # {}
  BY SchemaNodes
<1>2. KindsOf(v, MetAt(v, p)) = KindsAt(v, p) /\ Clean(KindsOf(v, MetAt(v, p)))
  BY <1>1, PlainPath
<1> DEFINE L == KindsOf(v, MetAt(v, p))
           s == infer_schema(v)[p]
<1>3. /\ TypeTells(s.type, L) /\ s.nullable = ("null" \in L)
      /\ "array" \in L => \E i \in MetAt(v, p) : v[i].kind = "array" /\ s.item = array_item_type(v, i)
      /\ "str" \notin L => s.enum = {}
  BY <1>2, NodeMeans
<1> HIDE DEF L, s
<1>4. L = KindsAt(v, p)
  BY <1>2 DEF L
<1> QED BY ONLY <1>3, <1>4, Zenon DEF s

\* A change that the severity table (severity.py) calls safe, or no change, keeps
\* the type and adds no null; and an array that can only differ in its items
\* keeps their type (_pick_change_type of schema_diff.py).
LEMMA SafeChange ==
    ASSUME NEW old, NEW new, NEW c, c = pick_change_type(old, new), c = "" \/ severity[c] = "safe"
    PROVE  /\ old.type = new.type
           /\ old.nullable = new.nullable \/ ~new.nullable
           /\ old.type = "array" /\ old.nullable = new.nullable /\ old.enum = {} => old.item = new.item
<1> DEFINE enums == old.enum # {} /\ new.enum # {} /\ old.enum # new.enum
           Type == old.type = new.type
           Null == old.nullable = new.nullable
<1>1. /\ severity["int_to_number"] = "risky" /\ severity["number_to_int"] = "breaking"
      /\ severity["type_changed"] = "breaking" /\ severity["nullable_added"] = "risky"
      /\ severity["array_item_type_changed"] = "breaking"
  BY DEF severity
<1>2. ~Type => c \in {"int_to_number", "number_to_int", "type_changed"}
  BY DEF pick_change_type
<1>3. Type
  BY <1>1, <1>2
<1>4. ~Null /\ new.nullable => c = "nullable_added"
  BY <1>3 DEF pick_change_type
<1>5. Null /\ ~enums /\ old.type = "array" /\ old.item # new.item => c = "array_item_type_changed"
  BY <1>3 DEF pick_change_type
<1> QED BY <1>1, <1>3, <1>4, <1>5

\* What diff_schemas (schema_diff.py:93) leaves when it finds nothing but safe
\* changes.
LEMMA SafeDiffs ==
    ASSUME NEW old, NEW new, \A d \in diff_schemas(old, new) : severity[d[2]] = "safe",
           NEW p \in DOMAIN old
    PROVE  /\ p \in DOMAIN new
           /\ LET c == pick_change_type(old[p], new[p]) IN c = "" \/ severity[c] = "safe"
<1>1. severity["nested_object_removed"] = "breaking" /\ severity["removed_field"] = "breaking"
  BY DEF severity
<1>2. \A a, b : <<a, b>>[2] = b
  OBVIOUS
<1>3. ASSUME p \notin DOMAIN new PROVE FALSE
  <2> DEFINE t == IF old[p].type = "object" THEN "nested_object_removed" ELSE "removed_field"
  <2>1. <<p, t>> \in diff_schemas(old, new)
    BY <1>3 DEF diff_schemas
  <2>2. severity[t] = "breaking"
    BY <1>1
  <2>3. severity[t] = "safe"
    <3> HIDE DEF t
    <3> QED BY <1>2, <2>1
  <2> QED BY <2>2, <2>3
<1>4. ASSUME p \in DOMAIN new, pick_change_type(old[p], new[p]) # ""
      PROVE  severity[pick_change_type(old[p], new[p])] = "safe"
  <2> DEFINE c == pick_change_type(old[p], new[p])
             C == {<<q, pick_change_type(old[q], new[q])>> : q \in DOMAIN old \cap DOMAIN new}
  <2>1. <<p, c>> \in C
    BY <1>4
  <2>2. <<p, c>>[2] = c
    BY <1>2
  <2>3. <<p, c>> \in {d \in C : d[2] # ""}
    <3> HIDE DEF C, c
    <3> QED BY <1>4, <2>1, <2>2 DEF c
  <2>4. <<p, c>> \in diff_schemas(old, new)
    BY <2>3 DEF diff_schemas
  <2> HIDE DEF c
  <2> QED BY <2>2, <2>4 DEF c
<1> QED BY <1>3, <1>4
\* A path with a node keeps its kinds, and its arrays their type of items, when
\* nothing but safe changes are found.
LEMMA SafeKeepsKinds ==
    ASSUME NEW v, IsDocument(v), NEW w, IsDocument(w),
           \A d \in diff_schemas(infer_schema(v), infer_schema(w)) : severity[d[2]] = "safe",
           NEW p \in DOMAIN infer_schema(v), p # <<Root>>, ~Murky(v, p), ~Murky(w, p),
           \A k, m \in KindsAt(v, p) \ {"null"} : k = m
    PROVE  /\ p \in DOMAIN infer_schema(w)
           /\ KindsAt(w, p) # {} /\ KindsAt(w, p) \subseteq KindsAt(v, p)
           /\ "array" \in KindsAt(v, p) => infer_schema(v)[p].item = infer_schema(w)[p].item
<1> DEFINE old == infer_schema(v)[p]
           new == infer_schema(w)[p]
           K == KindsAt(v, p)
           L == KindsAt(w, p)
<1>1. /\ p \in DOMAIN infer_schema(w)
      /\ LET c == pick_change_type(old, new) IN c = "" \/ severity[c] = "safe"
  BY SafeDiffs
<1>2. /\ p # <<>> /\ MetAt(v, p) # {} /\ MetAt(w, p) # {}
  BY <1>1, SchemaNodes
<1>3. K \subseteq Kinds /\ K # {} /\ Clean(K) /\ L \subseteq Kinds /\ L # {} /\ Clean(L)
  BY <1>2, PlainPath
<1>4. /\ TypeTells(old.type, K) /\ old.nullable = ("null" \in K)
      /\ "str" \notin K => old.enum = {}
  BY PlainNode
<1>5. TypeTells(new.type, L) /\ new.nullable = ("null" \in L)
  BY <1>1, PlainNode
<1> HIDE DEF old, new, K, L
<1>6. /\ old.type = new.type
      /\ old.nullable = new.nullable \/ ~new.nullable
      /\ old.type = "array" /\ old.nullable = new.nullable /\ old.enum = {} => old.item = new.item
  BY <1>1, SafeChange
<1>7. /\ L \ {"null"} = K \ {"null"}
      /\ "array" \in K <=> old.type = "array"
  <2>1. \A k, m \in K \ {"null"} : k = m
    BY DEF K
  <2> QED BY <1>3, <1>4, <1>5, <1>6, <2>1, TypeIsTold
<1>8. "null" \in L => "null" \in K
  BY <1>4, <1>5, <1>6
<1>9. L \subseteq K
  BY <1>7, <1>8
<1>10. "array" \in K => old.item = new.item
  <2> SUFFICES ASSUME "array" \in K PROVE old.item = new.item
    OBVIOUS
  <2>1. K = {"array"}
    BY <1>3 DEF Clean, ScalarKinds
  <2>2. old.enum = {} /\ old.type = "array"
    BY <1>4, <1>7, <2>1
  <2>3. ("null" \in L) = ("null" \in K)
    BY <1>8, <2>1
  <2>4. old.nullable = new.nullable
    BY <1>4, <1>5, <2>3, Zenon
  <2> QED BY <1>6, <2>2, <2>4
<1> QED BY <1>1, <1>3, <1>9, <1>10 DEF old, new, K, L

\* Drift that is reported as safe, or not at all, keeps every reader.
LEMMA SafeKeepsReadersOf ==
    ASSUME NEW v, IsDocument(v), NEW w, IsDocument(w),
           \A d \in diff_schemas(infer_schema(v), infer_schema(w)) : severity[d[2]] = "safe",
           NEW p \in FactPaths(v) \ {<<>>},
           \A q \in {p, Parent(p)} : ~Murky(v, q) /\ ~Murky(w, q),
           \A k, m \in KindsAt(v, p) \ {"null"} : k = m
    PROVE  KindsAt(w, p) # {} /\ KindsAt(w, p) \subseteq KindsAt(v, p)
<1>1. PICK i \in DOMAIN v : p = Blur(v[i].path)
  BY DEF FactPaths
<1>2. i # 1 /\ i \in At(v, p) /\ p # <<Root>>
  <2>1. v[i].path \in Seq(Step) /\ (v[i].path = <<>> <=> i = 1)
    BY DocumentParts
  <2> QED BY <1>1, <2>1, BlurSplits DEF At
<1>3. CASE MetAt(v, p) # {}
  <2>1. p \in DOMAIN infer_schema(v)
    BY <1>3, SchemaNodes
  <2> QED BY <1>2, <2>1, SafeKeepsKinds
<1>4. CASE MetAt(v, p) = {}
  <2>1. InObjects(v, i)
    BY <1>2, <1>4, MetMeans
  <2>2. v[i].kind = "object" /\ KindsAt(v, p) = {"object"}
    <3>1. v[i].kind = "object"
      BY <2>1, ObjectItems
    <3>2. "object" \in KindsAt(v, p) /\ ~Murky(v, p)
      BY <1>2, <3>1 DEF KindsAt
    <3> QED BY <3>1, <3>2 DEF Murky
  <2>3. PICK h \in DOMAIN v : i \in Inside(v, h) /\ OfObjects(v, h)
    BY <2>1 DEF InObjects
  <2> DEFINE q == Blur(v[h].path)
  <2>4. v[h].kind = "array"
    BY <2>3 DEF OfObjects
  <2>5. p = Append(q, Item)
    BY <1>1, <2>3, <2>4, ItemsOf
  <2>6. q = Parent(p)
    <3>1. PICK g \in DOMAIN v :
             /\ \A f \in DOMAIN v : i \in Inside(v, f) => f = g
             /\ Parent(Blur(v[i].path)) = Blur(v[g].path)
      BY <1>2, Placed
    <3> QED BY <1>1, <2>3, <3>1
  <2>7. h # 1 /\ q # <<>> /\ q # <<Root>>
    <3>1. h # 1
      <4> SUFFICES ASSUME h = 1 PROVE FALSE
        OBVIOUS
      <4>1. q = <<>>
        BY DocumentParts, BlurSplits
      <4>2. p = <<Item>>
        BY <2>5, <4>1
      <4> QED BY <2>4, <4>2 DEF Murky
    <3> QED BY <3>1, DocumentParts, BlurSplits
  <2>8. h \in At(v, q) /\ ~InObjects(v, h)
    BY <2>4, ObjectItems DEF At
  <2>9. q \in DOMAIN infer_schema(v)
    BY <2>7, <2>8, MetMeans, SchemaNodes
  <2>10. KindsAt(v, q) = {"array"} /\ ~Murky(v, q) /\ ~Murky(w, q)
    <3>1. ~Murky(v, q) /\ ~Murky(w, q)
      BY <2>6
    <3>2. "array" \in KindsAt(v, q)
      BY <2>4, <2>8 DEF KindsAt
    <3> HIDE DEF q
    <3> QED BY <3>1, <3>2 DEF Murky
  <2>11. infer_schema(v)[q].item = "object"
    <3>1. PICK j \in MetAt(v, q) : v[j].kind = "array" /\ infer_schema(v)[q].item = array_item_type(v, j)
      BY <2>7, <2>9, <2>10, PlainNode
    <3>2. j \in At(v, q)
      BY <2>7, <2>10, <3>1, PlainPath
    <3>3. array_item_type(v, j) = array_item_type(v, h)
      BY <2>4, <2>8, <2>10, <3>1, <3>2 DEF Murky
    <3>4. array_item_type(v, h) = "object"
      BY <2>3, <2>4, ObjectArrays
    <3> QED BY <3>1, <3>3, <3>4
  <2>12. /\ q \in DOMAIN infer_schema(w)
         /\ KindsAt(w, q) = {"array"}
         /\ infer_schema(w)[q].item = "object"
    <3>1. \A k, m \in KindsAt(v, q) \ {"null"} : k = m
      BY <2>10
    <3> HIDE DEF q
    <3> QED BY <2>7, <2>9, <2>10, <2>11, <3>1, SafeKeepsKinds
  <2>13. PICK x \in MetAt(w, q) : w[x].kind = "array" /\ array_item_type(w, x) = "object"
    <3>1. "array" \in KindsAt(w, q)
      BY <2>12
    <3> HIDE DEF q
    <3>2. q \in DOMAIN infer_schema(w) /\ q # <<Root>> /\ ~Murky(w, q)
      BY <2>7, <2>10, <2>12
    <3>3. \E j \in MetAt(w, q) : w[j].kind = "array" /\ infer_schema(w)[q].item = array_item_type(w, j)
      BY ONLY <3>1, <3>2, IsDocument(w), PlainNode
    <3> QED BY <2>12, <3>3
  <2>14. x \in DOMAIN w /\ Blur(w[x].path) = q
    BY <2>7, <2>10, <2>13, PlainPath DEF At
  <2>15. PICK j \in Inside(w, x) : w[j].kind = "object"
    BY <2>13, <2>14, ObjectArrays DEF OfObjects
  <2>16. j \in At(w, p)
    BY <2>5, <2>13, <2>14, <2>15, ItemsOf DEF At
  <2>17. KindsAt(w, p) = {"object"}
    BY <2>15, <2>16 DEF Murky, KindsAt
  <2> QED BY <2>2, <2>17
<1> QED BY <1>3, <1>4
\* The snapshots are of documents, and the diffs are those of their schemas
\* (_process_endpoint, monitor_runner.py:149-173).
MonitorInv ==
    /\ IsDocument(before) /\ IsDocument(after)
    /\ nodes = infer_schema(after)
    /\ diffs = diff_schemas(infer_schema(before), infer_schema(after))

\* A schema does not differ from itself.
LEMMA NoDiffs ==
    ASSUME NEW s PROVE diff_schemas(s, s) = {}
<1>1. \A p : pick_change_type(s[p], s[p]) = ""
  BY DEF pick_change_type
<1>2. \A a, b : <<a, b>>[2] = b
  OBVIOUS
<1> QED BY <1>1, <1>2 DEF diff_schemas

LEMMA MonitorInvariant == MonitorSpec => []MonitorInv
<1>1. ASSUME NEW v \in Bodies PROVE IsDocument(normalize(v))
  BY BodiesAssumption DEF normalize
<1>2. MonitorInit => MonitorInv
  BY <1>1, NoDiffs DEF MonitorInit, MonitorInv
<1>3. MonitorInv /\ [MonitorNext]_monitorVars => MonitorInv'
  <2> SUFFICES ASSUME MonitorInv, [MonitorNext]_monitorVars PROVE MonitorInv'
    OBVIOUS
  <2>1. ASSUME NEW v \in Bodies, Observe(v) PROVE MonitorInv'
    <3>1. IsDocument(before') /\ IsDocument(after') /\ nodes' = infer_schema(after')
      BY <1>1, <2>1 DEF Observe, MonitorInv
    <3>2. nodes = infer_schema(before')
      BY <2>1 DEF Observe, MonitorInv
    <3>3. diffs' = diff_schemas(nodes, nodes')
      <4>1. CASE nodes = nodes'
        BY <2>1, <4>1, NoDiffs DEF Observe, stable_schema_hash
      <4>2. CASE nodes # nodes'
        BY <2>1, <4>2 DEF Observe, stable_schema_hash
      <4> QED BY <4>1, <4>2
    <3> QED BY <3>1, <3>2, <3>3 DEF MonitorInv
  <2>2. CASE UNCHANGED monitorVars
    BY <2>2 DEF monitorVars, MonitorInv
  <2> QED BY <2>1, <2>2 DEF MonitorNext
<1> QED BY <1>2, <1>3, PTL DEF MonitorSpec

\* For all bodies of an endpoint: what the monitor reports as safe, or not at
\* all, keeps every reader (infer_schema, diff_schemas and the severity table).
THEOREM SafeDiffsKeepReadersCorrect == MonitorSpec => []SafeDiffsKeepReaders
<1>1. MonitorInv => SafeDiffsKeepReaders
  <2> SUFFICES ASSUME MonitorInv, \A d \in diffs : severity[d[2]] = "safe",
                      NEW p \in FactPaths(before) \ {<<>>},
                      ~\E q \in {p, Parent(p)} : Murky(before, q) \/ Murky(after, q),
                      ~\E k, m \in KindsAt(before, p) \ {"null"} : k # m
               PROVE  KindsAt(after, p) # {} /\ KindsAt(after, p) \subseteq KindsAt(before, p)
    BY DEF SafeDiffsKeepReaders
  <2> QED BY SafeKeepsReadersOf DEF MonitorInv
<1> QED BY <1>1, MonitorInvariant, PTL
-----------------------------------------------------------------------------
(***************************************************************************)
(* Bodies that differ in the order and the repetition of items only.       *)
(***************************************************************************)
Alike(v, w) ==
    /\ IsDocument(v) /\ IsDocument(w) /\ Gist(v) = Gist(w)
    /\ \A p \in FactPaths(v) : ~Murky(v, p)

\* What the gist of a document holds, found again in the other.
LEMMA GistTells ==
    ASSUME NEW v, IsDocument(v), NEW w, IsDocument(w), Gist(v) = Gist(w)
    PROVE  /\ \A i \in DOMAIN v : \E j \in DOMAIN w :
                 Blur(w[j].path) = Blur(v[i].path) /\ w[j].kind = v[i].kind /\ w[j].text = v[i].text
           /\ \A i \in DOMAIN v : v[i].kind = "array" => \E j \in DOMAIN w :
                 /\ Blur(w[j].path) = Blur(v[i].path) /\ w[j].kind = "array"
                 /\ array_item_type(w, j) = array_item_type(v, i)
           /\ \A p \in FactPaths(v) : Optional(v, p) => Optional(w, p)
<1>1. /\ \A i \in DOMAIN v : v[i].kind \in Kinds
      /\ \A i \in DOMAIN w : w[i].kind \in Kinds
  BY DocumentParts
<1>2. "optional" \notin Kinds /\ "items" \notin Kinds /\ "optional" # "items"
  BY DEF Kinds, ScalarKinds
<1>3. \A x, a, b, c : x = <<a, b, c>> => x[1] = a /\ x[2] = b /\ x[3] = c
  OBVIOUS
<1> DEFINE A(u) == {<<Blur(u[i].path), u[i].kind, u[i].text>> : i \in DOMAIN u}
           O(u) == {<<p, "optional", "">> : p \in {q \in FactPaths(u) : Optional(u, q)}}
           T(u) == {<<Blur(u[i].path), "items", array_item_type(u, i)>> :
                       i \in {j \in DOMAIN u : u[j].kind = "array"}}
<1>4. \A x \in Gist(v) : x \in A(w) \/ x \in O(w) \/ x \in T(w)
  BY DEF Gist
<1>5. \A x \in A(v) \cup O(v) \cup T(v) : x \in Gist(v)
  BY DEF Gist
<1>6. ASSUME NEW i \in DOMAIN v
      PROVE  \E j \in DOMAIN w :
                Blur(w[j].path) = Blur(v[i].path) /\ w[j].kind = v[i].kind /\ w[j].text = v[i].text
  <2> DEFINE x == <<Blur(v[i].path), v[i].kind, v[i].text>>
  <2>1. x \in Gist(v)
    BY <1>5
  <2>2. x \notin O(w) /\ x \notin T(w)
    BY <1>1, <1>2
  <2>3. x \in A(w)
    <3> HIDE DEF x, A, O, T
    <3> QED BY <1>4, <2>1, <2>2
  <2> QED BY <2>3
<1>7. ASSUME NEW i \in DOMAIN v, v[i].kind = "array"
      PROVE  \E j \in DOMAIN w :
                /\ Blur(w[j].path) = Blur(v[i].path) /\ w[j].kind = "array"
                /\ array_item_type(w, j) = array_item_type(v, i)
  <2> DEFINE x == <<Blur(v[i].path), "items", array_item_type(v, i)>>
  <2>1. x \in Gist(v)
    <3>1. x \in T(v)
      BY <1>7
    <3> HIDE DEF x, A, O, T
    <3> QED BY <1>5, <3>1
  <2>2. x \notin O(w) /\ x \notin A(w)
    BY <1>1, <1>2
  <2>3. x \in T(w)
    <3> HIDE DEF x, A, O, T
    <3> QED BY <1>4, <2>1, <2>2
  <2> QED BY <2>3
<1>8. ASSUME NEW p \in FactPaths(v), Optional(v, p) PROVE Optional(w, p)
  <2> DEFINE x == <<p, "optional", "">>
  <2>1. x \in Gist(v)
    <3>1. x \in O(v)
      BY <1>8
    <3> HIDE DEF x, A, O, T
    <3> QED BY <1>5, <3>1
  <2>2. x \notin T(w) /\ x \notin A(w)
    BY <1>1, <1>2
  <2>3. x \in O(w)
    <3> HIDE DEF x, A, O, T
    <3> QED BY <1>4, <2>1, <2>2
  <2> QED BY <2>3
<1> QED BY <1>6, <1>7, <1>8

\* Being alike is mutual, and alike documents have the same kinds at a path.
LEMMA AlikeIsMutual ==
    ASSUME NEW v, NEW w, Alike(v, w)
    PROVE  Alike(w, v) /\ FactPaths(v) = FactPaths(w) /\ \A p : KindsAt(v, p) = KindsAt(w, p)
<1>1. IsDocument(v) /\ IsDocument(w) /\ Gist(v) = Gist(w) /\ \A p \in FactPaths(v) : ~Murky(v, p)
  BY DEF Alike
<1>2. \A i \in DOMAIN v : \E j \in DOMAIN w :
         Blur(w[j].path) = Blur(v[i].path) /\ w[j].kind = v[i].kind
  BY <1>1, GistTells
<1>3. \A i \in DOMAIN w : \E j \in DOMAIN v :
         Blur(v[j].path) = Blur(w[i].path) /\ v[j].kind = w[i].kind
  BY <1>1, GistTells
<1>0. \A i \in DOMAIN w : w[i].kind = "array" => \E j \in DOMAIN v :
         /\ Blur(v[j].path) = Blur(w[i].path) /\ v[j].kind = "array"
         /\ array_item_type(v, j) = array_item_type(w, i)
  BY <1>1, GistTells
<1>4. FactPaths(v) = FactPaths(w)
  BY <1>2, <1>3 DEF FactPaths
<1>5. ASSUME NEW p PROVE KindsAt(v, p) = KindsAt(w, p)
  BY <1>2, <1>3 DEF KindsAt, At
<1>6. ASSUME NEW p \in FactPaths(w) PROVE ~Murky(w, p)
  <2>1. ~Murky(v, p)
    BY <1>1, <1>4
  <2>2. ~\E k \in {"object", "array"} \cap KindsAt(w, p) : KindsAt(w, p) # {k}
    BY <1>5, <2>1 DEF Murky
  <2>3. ASSUME NEW i \in At(w, p), NEW j \in At(w, p), w[i].kind = "array", w[j].kind = "array"
        PROVE  array_item_type(w, i) = array_item_type(w, j)
    <3>1. i \in DOMAIN w /\ j \in DOMAIN w /\ Blur(w[i].path) = p /\ Blur(w[j].path) = p
      BY DEF At
    <3>2. PICK f \in DOMAIN v : /\ Blur(v[f].path) = p /\ v[f].kind = "array"
                                /\ array_item_type(v, f) = array_item_type(w, i)
      BY <1>0, <2>3, <3>1
    <3>3. PICK g \in DOMAIN v : /\ Blur(v[g].path) = p /\ v[g].kind = "array"
                                /\ array_item_type(v, g) = array_item_type(w, j)
      BY <1>0, <2>3, <3>1
    <3>4. f \in At(v, p) /\ g \in At(v, p)
      BY <3>2, <3>3 DEF At
    <3> QED BY <2>1, <3>2, <3>3, <3>4 DEF Murky
  <2>4. w[1].kind = v[1].kind
    <3>1. /\ 1 \in DOMAIN w /\ w[1].path = <<>>
          /\ \A j \in DOMAIN v : v[j].path \in Seq(Step) /\ (v[j].path = <<>> <=> j = 1)
      BY <1>1, DocumentParts
    <3>2. PICK j \in DOMAIN v : Blur(v[j].path) = Blur(w[1].path) /\ v[j].kind = w[1].kind
      BY <1>3, <3>1
    <3>3. Blur(w[1].path) = <<>>
      BY <3>1, BlurSplits
    <3>4. j = 1
      BY <3>1, <3>2, <3>3, BlurSplits
    <3> QED BY <3>2, <3>4
  <2> QED BY <2>1, <2>2, <2>3, <2>4 DEF Murky
<1> QED BY <1>1, <1>4, <1>5, <1>6 DEF Alike
\* What is met for a path in a document is met for it in an alike one.
LEMMA MetAlike ==
    ASSUME NEW v, NEW w, Alike(v, w), NEW p, p # <<>>, NEW i \in MetAt(v, p)
    PROVE  /\ \E j \in MetAt(w, p) : w[j].kind = v[i].kind /\ w[j].text = v[i].text
           /\ v[i].kind = "array" => \E j \in MetAt(w, p) :
                 w[j].kind = "array" /\ array_item_type(w, j) = array_item_type(v, i)
<1>1. IsDocument(v) /\ IsDocument(w) /\ Gist(v) = Gist(w) /\ \A q \in FactPaths(v) : ~Murky(v, q)
  BY DEF Alike
<1>2. i \in DOMAIN v
  BY DEF MetAt
<1>3. PICK j \in DOMAIN w :
         Blur(w[j].path) = Blur(v[i].path) /\ w[j].kind = v[i].kind /\ w[j].text = v[i].text
  BY <1>1, <1>2, GistTells
<1>4. v[i].kind = "array" => \E g \in DOMAIN w :
         /\ Blur(w[g].path) = Blur(v[i].path) /\ w[g].kind = "array"
         /\ array_item_type(w, g) = array_item_type(v, i)
  BY <1>1, <1>2, GistTells
<1>5. ASSUME NEW g \in DOMAIN w, Blur(w[g].path) = Blur(v[i].path), w[g].kind = v[i].kind
      PROVE  g \in MetAt(w, p)
  <2>1. CASE i = 1
    <3>1. /\ v[i].path = <<>> /\ \A q \in Seq(Step) : q = <<>> <=> Blur(q) = <<>>
          /\ w[g].path \in Seq(Step) /\ (w[g].path = <<>> <=> g = 1)
      BY <1>1, <1>2, <2>1, DocumentParts, BlurSplits
    <3>2. g = 1
      <4>1. <<>> \in Seq(Step)
        OBVIOUS
      <4> QED BY <1>5, <3>1, <4>1
    <3>3. i \notin At(v, p)
      <4>1. v[i].path \in Seq(Step)
        BY <3>1
      <4>2. Blur(v[i].path) = <<>>
        BY <3>1, <4>1
      <4> QED BY <4>2 DEF At
    <3>4. \/ v[1].kind = "array" /\ p = <<Item>>
          \/ v[1].kind \in ScalarKinds /\ p = <<Root>>
      BY <1>1, <1>2, <3>3, MetMeans
    <3> QED BY <1>1, <1>5, <2>1, <3>2, <3>4, MetMeans
  <2>2. CASE i # 1
    <3>1. i \in At(v, p) /\ ~InObjects(v, i)
      BY <1>1, <1>2, <2>2, MetMeans
    <3>2. g \in At(w, p)
      BY <1>5, <3>1 DEF At
    <3>3. ASSUME InObjects(w, g) PROVE FALSE
      <4>1. g # 1 /\ p = Blur(w[g].path) /\ p = Blur(v[i].path)
        BY <1>1, <3>1, <3>2, <3>3, ObjectItems DEF At
      <4>2. PICK h \in DOMAIN w : g \in Inside(w, h) /\ OfObjects(w, h)
        BY <3>3 DEF InObjects
      <4>3. w[h].kind = "array" /\ array_item_type(w, h) = "object"
        BY <1>1, <4>2, ObjectArrays DEF OfObjects
      <4>4. Parent(p) = Blur(w[h].path) /\ LastStep(p) = Item
        <5>1. PICK e \in DOMAIN w :
                 /\ \A f \in DOMAIN w : g \in Inside(w, f) => f = e
                 /\ Parent(Blur(w[g].path)) = Blur(w[e].path)
                 /\ LastStep(Blur(w[g].path)) = Item <=> w[e].kind = "array"
          BY <1>1, <4>1, Placed
        <5> QED BY <4>1, <4>2, <4>3, <5>1
      <4>5. PICK e \in DOMAIN v : i \in Inside(v, e) /\ Blur(v[e].path) = Parent(p) /\ v[e].kind = "array"
        <5>1. PICK e \in DOMAIN v :
                 /\ i \in Inside(v, e)
                 /\ Parent(Blur(v[i].path)) = Blur(v[e].path)
                 /\ LastStep(Blur(v[i].path)) = Item <=> v[e].kind = "array"
          BY <1>1, <1>2, <2>2, Placed
        <5> QED BY <4>1, <4>4, <5>1
      <4>6. PICK f \in DOMAIN v : /\ Blur(v[f].path) = Parent(p) /\ v[f].kind = "array"
                                  /\ array_item_type(v, f) = "object"
        <5>1. \A x \in DOMAIN w : w[x].kind = "array" => \E y \in DOMAIN v :
                 /\ Blur(v[y].path) = Blur(w[x].path) /\ v[y].kind = "array"
                 /\ array_item_type(v, y) = array_item_type(w, x)
          BY <1>1, GistTells
        <5> QED BY <4>3, <4>4, <5>1
      <4>7. ~Murky(v, Parent(p)) /\ e \in At(v, Parent(p)) /\ f \in At(v, Parent(p))
        BY <1>1, <4>5, <4>6 DEF FactPaths, At
      <4>8. array_item_type(v, e) = "object"
        BY <4>5, <4>6, <4>7 DEF Murky
      <4>9. OfObjects(v, e)
        BY <1>1, <4>5, <4>8, ObjectArrays
      <4> QED BY <3>1, <4>5, <4>9 DEF InObjects
    <3> QED BY <1>1, <3>2, <3>3, MetMeans
  <2> QED BY <2>1, <2>2
<1>6. j \in MetAt(w, p)
  BY <1>3, <1>5
<1>7. v[i].kind = "array" => \E g \in MetAt(w, p) :
         w[g].kind = "array" /\ array_item_type(w, g) = array_item_type(v, i)
  BY <1>4, <1>5
<1> QED BY <1>3, <1>6, <1>7

\* In a document without murky paths every node is of clean kinds, and all its
\* arrays have the same type of items.
LEMMA AllClean ==
    ASSUME NEW v, IsDocument(v), \A q \in FactPaths(v) : ~Murky(v, q),
           NEW p, p # <<>>, MetAt(v, p) # {}
    PROVE  /\ KindsOf(v, MetAt(v, p)) \subseteq Kinds /\ KindsOf(v, MetAt(v, p)) # {}
           /\ Clean(KindsOf(v, MetAt(v, p)))
           /\ \A i, j \in MetAt(v, p) : v[i].kind = "array" /\ v[j].kind = "array" =>
                 array_item_type(v, i) = array_item_type(v, j)
           /\ p \notin FactPaths(v) => p \in {<<Item>>, <<Root>>}
<1>1. \A i \in MetAt(v, p) : i \in DOMAIN v /\ v[i].kind \in Kinds
  BY DocumentParts DEF MetAt
<1>2. CASE p \in FactPaths(v)
  <2>1. ~Murky(v, p)
    BY <1>2
  <2>2. p # <<Root>>
    <3>1. \A i \in DOMAIN v : Blur(v[i].path) # <<Root>>
      BY DocumentParts, BlurSplits
    <3> QED BY <1>2, <3>1 DEF FactPaths
  <2>3. /\ MetAt(v, p) \subseteq At(v, p) /\ KindsOf(v, MetAt(v, p)) = KindsAt(v, p)
        /\ KindsAt(v, p) \subseteq Kinds /\ KindsAt(v, p) # {} /\ Clean(KindsAt(v, p))
    BY <2>1, <2>2, PlainPath
  <2>4. \A i, j \in MetAt(v, p) : v[i].kind = "array" /\ v[j].kind = "array" =>
           array_item_type(v, i) = array_item_type(v, j)
    BY <2>1, <2>3 DEF Murky
  <2> QED BY <1>2, <2>3, <2>4
<1>3. CASE p \notin FactPaths(v)
  <2>1. ASSUME NEW i \in MetAt(v, p)
        PROVE  i = 1 /\ p \in {<<Item>>, <<Root>>}
    <3>1. i \in DOMAIN v /\ i \notin At(v, p)
      BY <1>1, <1>3 DEF At, FactPaths
    <3> QED BY <3>1, MetMeans
  <2>2. MetAt(v, p) = {1} /\ p \in {<<Item>>, <<Root>>}
    BY <2>1
  <2>3. KindsOf(v, MetAt(v, p)) = {v[1].kind} /\ v[1].kind \in Kinds
    BY <1>1, <2>2 DEF KindsOf
  <2>4. Clean({v[1].kind})
    BY <2>3 DEF Clean, Kinds
  <2> QED BY <2>2, <2>3, <2>4
<1> QED BY <1>2, <1>3
\* The field that some objects of an array do not have is never the array itself.
LEMMA NeverOptional ==
    ASSUME NEW v, IsDocument(v), NEW x
    PROVE  ~Optional(v, <<x>>)
<1>1. Parent(<<x>>) = <<>>
  BY DEF Parent
<1>2. ASSUME NEW h \in DOMAIN v PROVE Append(Blur(v[h].path), Item) # <<>>
  <2>1. Blur(v[h].path) \in Seq(Step \cup {Item})
    BY DocumentParts, BlurSplits
  <2> DEFINE S == Step \cup {Item}
  <2>2. Item \in S
    OBVIOUS
  <2> HIDE DEF S
  <2> QED BY <2>1, <2>2 DEF S
<1> QED BY <1>1, <1>2 DEF Optional

\* Alike documents have the same schema.
LEMMA AlikeSchemas ==
    ASSUME NEW v, NEW w, Alike(v, w)
    PROVE  infer_schema(v) = infer_schema(w)
<1>1. /\ Alike(w, v) /\ IsDocument(v) /\ IsDocument(w) /\ Gist(v) = Gist(w)
      /\ FactPaths(v) = FactPaths(w)
      /\ \A q \in FactPaths(v) : ~Murky(v, q)
      /\ \A q \in FactPaths(w) : ~Murky(w, q)
  BY AlikeIsMutual DEF Alike
<1>2. DOMAIN infer_schema(v) = DOMAIN infer_schema(w)
  <2>1. ASSUME NEW p, p # <<>> PROVE MetAt(v, p) # {} <=> MetAt(w, p) # {}
    BY <1>1, <2>1, MetAlike
  <2>2. \A p : p \in DOMAIN infer_schema(v) <=> p \in DOMAIN infer_schema(w)
    BY <2>1, SchemaNodes
  <2> QED BY <2>2
<1>3. ASSUME NEW p \in DOMAIN infer_schema(v)
      PROVE  infer_schema(v)[p] = infer_schema(w)[p]
  <2> DEFINE s == infer_schema(v)[p]
             t == infer_schema(w)[p]
             K == KindsOf(v, MetAt(v, p))
             L == KindsOf(w, MetAt(w, p))
  <2>1. p # <<>> /\ MetAt(v, p) # {} /\ MetAt(w, p) # {} /\ p \in DOMAIN infer_schema(w)
    BY <1>2, SchemaNodes
  <2>2. /\ K \subseteq Kinds /\ K # {} /\ Clean(K) /\ Clean(L)
        /\ \A i, j \in MetAt(w, p) : w[i].kind = "array" /\ w[j].kind = "array" =>
              array_item_type(w, i) = array_item_type(w, j)
        /\ p \notin FactPaths(v) => p \in {<<Item>>, <<Root>>}
    BY <1>1, <2>1, AllClean
  <2>3. K = L
    BY <1>1, <2>1, MetAlike DEF KindsOf
  <2>4. /\ TypeTells(s.type, K) /\ s.nullable = ("null" \in K)
        /\ "array" \in K => \E i \in MetAt(v, p) : v[i].kind = "array" /\ s.item = array_item_type(v, i)
        /\ "array" \notin K => s.item = ""
        /\ s.enum = enum_values(v, MetAt(v, p))
    BY <1>1, <2>2, NodeMeans
  <2>5. /\ TypeTells(t.type, L) /\ t.nullable = ("null" \in L)
        /\ "array" \in L => \E i \in MetAt(w, p) : w[i].kind = "array" /\ t.item = array_item_type(w, i)
        /\ "array" \notin L => t.item = ""
        /\ t.enum = enum_values(w, MetAt(w, p))
    BY <1>1, <2>1, <2>2, NodeMeans
  <2>6. s.enum = t.enum
    <3> DEFINE A == {v[i].text : i \in {j \in MetAt(v, p) : v[j].kind = "str"}}
               B == {w[i].text : i \in {j \in MetAt(w, p) : w[j].kind = "str"}}
    <3>1. \A i \in MetAt(v, p) : \E j \in MetAt(w, p) : w[j].kind = v[i].kind /\ w[j].text = v[i].text
      BY <2>1, MetAlike
    <3>2. \A i \in MetAt(w, p) : \E j \in MetAt(v, p) : v[j].kind = w[i].kind /\ v[j].text = w[i].text
      BY <1>1, <2>1, MetAlike
    <3>3. A = B
      BY <3>1, <3>2
    <3>4. /\ enum_values(v, MetAt(v, p)) = IF Cardinality(A) > ENUM_THRESHOLD THEN {} ELSE A
          /\ enum_values(w, MetAt(w, p)) = IF Cardinality(B) > ENUM_THRESHOLD THEN {} ELSE B
      BY DEF enum_values
    <3> HIDE DEF A, B, s, t
    <3> QED BY <2>4, <2>5, <3>3, <3>4
  <2>7. s.required = t.required
    <3>1. Optional(v, p) <=> Optional(w, p)
      <4>1. CASE p \in FactPaths(v)
        <5>1. Optional(v, p) => Optional(w, p)
          BY <1>1, <4>1, GistTells
        <5>2. Optional(w, p) => Optional(v, p)
          BY <1>1, <4>1, GistTells
        <5> QED BY <5>1, <5>2
      <4>2. CASE p \in {<<Item>>, <<Root>>}
        BY <1>1, <4>2, NeverOptional
      <4> QED BY <2>2, <4>1, <4>2
    <3>2. (~Optional(v, p)) = (~Optional(w, p))
      BY <3>1
    <3>3. s.required = ~Optional(v, p)
      BY NodeRest
    <3>4. t.required = ~Optional(w, p)
      BY <2>1, NodeRest
    <3> QED BY <3>2, <3>3, <3>4, Zenon
  <2>8. s.item = t.item
    <3>1. CASE "array" \in K
      <4>1. PICK i \in MetAt(v, p) : v[i].kind = "array" /\ s.item = array_item_type(v, i)
        BY <2>4, <3>1
      <4>2. PICK j \in MetAt(w, p) : w[j].kind = "array" /\ t.item = array_item_type(w, j)
        BY <2>3, <2>5, <3>1
      <4>3. PICK g \in MetAt(w, p) : w[g].kind = "array" /\ array_item_type(w, g) = array_item_type(v, i)
        BY <2>1, <4>1, MetAlike
      <4> QED BY <2>2, <4>1, <4>2, <4>3
    <3>2. CASE "array" \notin K
      BY <2>3, <2>4, <2>5, <3>2
    <3> QED BY <3>1, <3>2
  <2> HIDE DEF s, t, K, L
  <2>9. s.type = t.type
    <3>1. TypeTells(s.type, K) /\ TypeTells(t.type, K)
      BY <2>3, <2>4, <2>5, Zenon
    <3> QED BY ONLY <2>2, <3>1, TypeIsTold
  <2>10. s.nullable = t.nullable
    BY <2>3, <2>4, <2>5, Zenon
  <2>11. /\ s = [type |-> s.type, nullable |-> s.nullable, item |-> s.item,
                 required |-> s.required, enum |-> s.enum]
         /\ t = [type |-> t.type, nullable |-> t.nullable, item |-> t.item,
                 required |-> t.required, enum |-> t.enum]
    BY <2>1, NodeRest DEF s, t
  <2>12. s = t
    BY ONLY <2>6, <2>7, <2>8, <2>9, <2>10, <2>11, Zenon
  <2> QED BY <2>12 DEF s, t
<1>4. /\ infer_schema(v) = [p \in DOMAIN infer_schema(v) |-> infer_schema(v)[p]]
      /\ infer_schema(w) = [p \in DOMAIN infer_schema(w) |-> infer_schema(w)[p]]
  BY DEF infer_schema
<1> QED BY <1>2, <1>3, <1>4

\* For all bodies of an endpoint: the order and the repetition of items make no
\* drift (infer_schema, schema_infer.py:69, is "deterministic").
THEOREM OrderIsNoDriftCorrect == MonitorSpec => []OrderIsNoDrift
<1>1. MonitorInv => OrderIsNoDrift
  <2> SUFFICES ASSUME MonitorInv, Gist(before) = Gist(after),
                      \A p \in FactPaths(before) : ~Murky(before, p)
               PROVE  diffs = {} /\ infer_schema(before) = nodes
    BY DEF OrderIsNoDrift
  <2>1. Alike(before, after)
    BY DEF MonitorInv, Alike
  <2>2. infer_schema(before) = infer_schema(after)
    BY <2>1, AlikeSchemas
  <2> QED BY <2>2, NoDiffs DEF MonitorInv
<1> QED BY <1>1, MonitorInvariant, PTL
=============================================================================
