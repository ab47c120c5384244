--------------------------- MODULE SchemaDiffing ---------------------------
(***************************************************************************)
(* What the monitor makes of two successive bodies of an endpoint:         *)
(* normalize, infer_schema, stable_schema_hash and diff_schemas            *)
(* (backend/app/core), put together as _process_endpoint does.             *)
(*                                                                         *)
(* A body is the sequence of the values in it, in the order in which the   *)
(* code comes by them: each with its path, its kind and, for a string, its *)
(* text.  A path of the code, "a[*].b", is a path without the numbers of   *)
(* items; no key is empty or contains a dot or a bracket.  infer_schema    *)
(* walks the body once and updates the nodes of all paths; a node depends  *)
(* only on the values met for its own path, so here each node has a walk   *)
(* of its own.  example_value, which nothing reads but messages, is left   *)
(* out.                                                                    *)
(***************************************************************************)
EXTENDS JsonPayload, FiniteSets

CONSTANTS
    Bodies,         \* bodies that an endpoint may answer
    Oversized,      \* those above settings.raw_body_max_bytes
    ENUM_THRESHOLD  \* 10 in the code

VARIABLES
    before,         \* raw_sample_json of the prior snapshot
    after,          \* raw_sample_json of the newest snapshot
    nodes,          \* its normalized_schema_json
    diffs           \* what diff_schemas found between them

monitorVars == <<before, after, nodes, diffs>>

Value(path, kind, text) == [path |-> path, kind |-> kind, text |-> text]

\* The body itself comes first, every other value after the object or array that
\* it is in, and no place twice.
IsDocument(v) ==
    /\ v \in Seq([path: Seq(Step), kind: Kinds, text: STRING])
    /\ Len(v) > 0 /\ v[1].path = <<>>
    /\ \A i, j \in DOMAIN v : v[i].path = v[j].path => i = j
    /\ \A i \in DOMAIN v \ {1} : \E h \in 1..(i - 1) :
          /\ v[h].path = Parent(v[i].path)
          /\ \/ v[h].kind = "object" /\ LastStep(v[i].path)[1] = "key"
             \/ v[h].kind = "array" /\ LastStep(v[i].path)[1] = "item"

\* What takes the place of an oversized body.
Truncated ==
    <<Value(<<>>, "object", ""), Value(<<<<"key", "_truncated">>>>, "bool", ""),
      Value(<<<<"key", "_size_bytes">>>>, "int", "")>>

ASSUME BodiesAssumption == \A v \in Bodies \cup {Truncated} : IsDocument(v)

\* normalize: the cut off text of an object or array is no JSON any more, and
\* a marker takes its place.  The order of keys makes no difference here.
normalize(v) == IF v \in Oversized THEN Truncated ELSE v

-----------------------------------------------------------------------------
Item == <<"item">>
Root == <<"root">>

\* The values right inside value i.
Inside(v, i) == {j \in DOMAIN v : v[j].path # <<>> /\ Parent(v[j].path) = v[i].path}

\* An array of objects only, and the values that are items of such an array.
OfObjects(v, i) ==
    v[i].kind = "array" /\ \A j \in Inside(v, i) : v[j].kind = "object"
InObjects(v, i) == \E h \in DOMAIN v : i \in Inside(v, h) /\ OfObjects(v, h)

\* The path of the node that _walk and _emit_value update for value i, <<>> for
\* none.  The items of an array of objects get no node, only their fields; a
\* body that is an array shares the path "[*]" with its items.
NodePath(v, i) ==
    CASE v[i].path # <<>> /\ ~InObjects(v, i)        -> Blur(v[i].path)
      [] v[i].path # <<>> /\ InObjects(v, i)         -> <<>>
      [] v[i].path = <<>> /\ v[i].kind = "object"    -> <<>>
      [] v[i].path = <<>> /\ v[i].kind = "array"     -> <<Item>>
      [] v[i].path = <<>> /\ v[i].kind \in ScalarKinds -> <<Root>>

scalar_type(kind) ==
    CASE kind = "null"  -> "null"
      [] kind = "bool"  -> "boolean"
      [] kind = "int"   -> "integer"
      [] kind = "float" -> "number"
      [] kind = "str"   -> "string"
      [] OTHER          -> "unknown"

array_item_type(v, i) ==
    LET types == {scalar_type(v[j].kind) : j \in Inside(v, i)} \ {"null"}
    IN  CASE Inside(v, i) = {}                                   -> "unknown"
          [] Inside(v, i) # {} /\ OfObjects(v, i)                -> "object"
          [] ~OfObjects(v, i) /\ types = {}                      -> "null"
          [] ~OfObjects(v, i) /\ \E t \in types : types = {t}    -> CHOOSE t \in types : TRUE
          [] OTHER                                               -> "mixed"

\* Mutant: the last value decides.
EnsuredLast(node, type) == [node EXCEPT !.type = type]

\* _ensure: the first value at a path decides the type.
Ensured(node, type) == IF node.type = "" THEN [node EXCEPT !.type = type] ELSE node

\* The effect of value i on the node of its path.
Noted(node, v, i) ==
    CASE v[i].kind = "object" -> Ensured(node, "object")
      [] v[i].kind = "array"  -> [Ensured(node, "array") EXCEPT !.item = array_item_type(v, i)]
      [] v[i].kind = "null"   -> [Ensured(node, "null") EXCEPT !.nullable = TRUE]
      [] OTHER ->
            LET t == scalar_type(v[i].kind)
                n == Ensured(node, t)
            IN  CASE n.type = "null" -> [n EXCEPT !.type = t, !.nullable = TRUE]
                  [] n.type = t      -> n
                  [] OTHER           -> [n EXCEPT !.type = "mixed"]

NodeState == [type |-> "", nullable |-> FALSE, item |-> ""]

\* The node of a path after each value of the walk, when the values met for the
\* path are those in the set met.
Walked(v, met) ==
    LET node[i \in 0..Len(v)] ==
            IF i = 0 THEN NodeState
            ELSE IF i \in met THEN Noted(node[i - 1], v, i) ELSE node[i - 1]
    IN  node

\* A field that some, not all, objects of one array have.
Optional(v, p) ==
    \E h \in DOMAIN v :
       /\ OfObjects(v, h) /\ p # <<>> /\ Parent(p) = Append(Blur(v[h].path), Item)
       /\ LET Has(j) == \E x \in DOMAIN v : v[x].path = Append(v[j].path, LastStep(p))
          IN  \E i, j \in Inside(v, h) : Has(i) /\ ~Has(j)

\* enum_values, {} for None: too many different strings are no enumeration.
enum_values(v, met) ==
    LET strings == {v[i].text : i \in {j \in met : v[j].kind = "str"}}
    IN  IF Cardinality(strings) > ENUM_THRESHOLD THEN {} ELSE strings

\* The SchemaNode of path p.  An array sets its array_item_type after the walk
\* through its items, which matters where it shares the node with them.
finalize(v, p, met) ==
    LET node == Walked(v, met)[Len(v)]
    IN  [type |-> node.type, nullable |-> node.nullable,
         item |-> IF v[1].kind = "array" /\ p = <<Item>> THEN array_item_type(v, 1) ELSE node.item,
         required |-> ~Optional(v, p), enum |-> enum_values(v, met)]

infer_schema(v) ==
    LET place == [i \in DOMAIN v |-> NodePath(v, i)]
    IN  [p \in {place[i] : i \in DOMAIN v} \ {<<>>} |->
            finalize(v, p, {i \in DOMAIN v : place[i] = p})]

\* The hash covers all of these fields.
stable_schema_hash(schema) == schema

-----------------------------------------------------------------------------
severity == [removed_field |-> "breaking", added_field |-> "safe",
             type_changed |-> "breaking", int_to_number |-> "risky",
             number_to_int |-> "breaking", nullable_added |-> "risky",
             nullable_removed |-> "safe", enum_expanded |-> "risky",
             enum_narrowed |-> "safe", enum_changed |-> "risky",
             nested_object_removed |-> "breaking",
             array_item_type_changed |-> "breaking"]

\* _pick_change_type: the first difference found, "" for none that counts.
pick_change_type(old, new) ==
    LET enums == old.enum # {} /\ new.enum # {} /\ old.enum # new.enum
    IN  CASE old.type # new.type ->
                (CASE old.type = "integer" /\ new.type = "number" -> "int_to_number"
                   [] old.type = "number" /\ new.type = "integer" -> "number_to_int"
                   [] OTHER -> "type_changed")
          [] old.type = new.type /\ old.nullable # new.nullable ->
                IF new.nullable THEN "nullable_added" ELSE "nullable_removed"
          [] old.type = new.type /\ old.nullable = new.nullable /\ enums ->
                (CASE old.enum \subseteq new.enum -> "enum_expanded"
                   [] new.enum \subseteq old.enum -> "enum_narrowed"
                   [] OTHER -> "enum_changed")
          [] old.type = new.type /\ old.nullable = new.nullable /\ ~enums ->
                IF old.type = "array" /\ old.item # new.item
                THEN "array_item_type_changed" ELSE ""

\* The diffs as pairs of a path and a change type.
diff_schemas(old, new) ==
    {<<p, IF old[p].type = "object" THEN "nested_object_removed" ELSE "removed_field">> :
        p \in DOMAIN old \ DOMAIN new}
    \cup {<<p, "added_field">> : p \in DOMAIN new \ DOMAIN old}
    \cup {d \in {<<p, pick_change_type(old[p], new[p])>> : p \in DOMAIN old \cap DOMAIN new} :
            d[2] # ""}

-----------------------------------------------------------------------------
MonitorInit ==
    /\ \E v \in Bodies : after = normalize(v)
    /\ before = after
    /\ nodes = infer_schema(after)
    /\ diffs = {}

\* _process_endpoint for a body.
Observe(v) ==
    /\ before' = after
    /\ after' = normalize(v)
    /\ nodes' = infer_schema(after')
    /\ diffs' = IF stable_schema_hash(nodes) # stable_schema_hash(nodes')
                THEN diff_schemas(nodes, nodes') ELSE {}

MonitorNext == \E v \in Bodies : Observe(v)

MonitorSpec == MonitorInit /\ [][MonitorNext]_monitorVars

-----------------------------------------------------------------------------
(***************************************************************************)
(* The reference reads a body without regard to order: which kinds of      *)
(* values are found at which path, the body itself at <<>>.                *)
(***************************************************************************)
FactPaths(v) == {Blur(v[i].path) : i \in DOMAIN v}
At(v, p) == {i \in DOMAIN v : Blur(v[i].path) = p}
KindsAt(v, p) == {v[i].kind : i \in At(v, p)}

\* Paths at which inference depends on the order of a body's items: an object
\* or array next to another kind, or arrays with different types of items; and
\* "[*]" of a body that is itself an array, which has one node for both.
Murky(v, p) ==
    \/ \E k \in {"object", "array"} \cap KindsAt(v, p) : KindsAt(v, p) # {k}
    \/ \E i, j \in At(v, p) :
          /\ v[i].kind = "array" /\ v[j].kind = "array"
          /\ array_item_type(v, i) # array_item_type(v, j)
    \/ v[1].kind = "array" /\ p = <<Item>>

\* Drift that is reported as safe, or not at all, keeps every reader: where a
\* prior body had values of one kind (and null), the new one has values again,
\* and of no other kind (diff_schemas, severity table).  Objects in an array are
\* watched through the array only, which therefore must not be murky either.
\* The body itself is excluded: an object has no node of its own, so {} may turn
\* into [] or a scalar with nothing but a safe added_field reported.
SafeDiffsKeepReaders ==
    (\A d \in diffs : severity[d[2]] = "safe") =>
       \A p \in FactPaths(before) \ {<<>>} :
          \/ \E q \in {p, Parent(p)} : Murky(before, q) \/ Murky(after, q)
          \/ \E k, m \in KindsAt(before, p) \ {"null"} : k # m
          \/ KindsAt(after, p) # {} /\ KindsAt(after, p) \subseteq KindsAt(before, p)

\* What does not depend on the order and number of items: kinds, texts, and
\* which fields are sometimes missing.
Gist(v) ==
    {<<Blur(v[i].path), v[i].kind, v[i].text>> : i \in DOMAIN v}
    \cup {<<p, "optional", "">> : p \in {q \in FactPaths(v) : Optional(v, q)}}
    \cup {<<Blur(v[i].path), "items", array_item_type(v, i)>> :
             i \in {j \in DOMAIN v : v[j].kind = "array"}}

\* Bodies that differ in the order and the repetition of items only have one
\* schema hash, so that no drift is reported (infer_schema, "deterministic").
OrderIsNoDrift ==
    /\ Gist(before) = Gist(after)
    /\ \A p \in FactPaths(before) : ~Murky(before, p)
    => diffs = {} /\ infer_schema(before) = nodes
=============================================================================
