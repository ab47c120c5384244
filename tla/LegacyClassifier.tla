-------------------------- MODULE LegacyClassifier --------------------------
(***************************************************************************)
(* What the legacy half of POST /track (app/main.py) makes of a payload of *)
(* an endpoint that has a baseline: fingerprint_schema (app/core/parser.py),*)
(* structural_diff, classify_contract_drift and log_drift_violations       *)
(* (app/core/engine.py).  The other half classifies the same payload with  *)
(* the operators of CompatibilityClassifier.                               *)
(*                                                                         *)
(* The payload is an object.  Paths are the code's texts, but for one that *)
(* is empty; no key is.  The serialised structures that are hashed stand   *)
(* for what they are made from: no key contains one of the characters      *)
(* { } [ ] : ; , with which the code puts them together.                   *)
(***************************************************************************)
EXTENDS CompatibilityClassifier, FiniteSets

CONSTANT Submissions    \* payloads that may be submitted

ASSUME SubmissionsAssumption == \A v \in Submissions : IsJson(v)

VARIABLES
    baseline,       \* payload of the active baseline
    incoming,       \* payload of the newest request
    violations      \* rows of contract_drift_violations that it added

legacyVars == <<baseline, incoming, violations>>

primitive_type(kind) == IF kind = "str" THEN "string" ELSE kind

-----------------------------------------------------------------------------
\* Mutant: the items of an array are those of its first one.
resolve_first(kind, below) ==
    CASE kind = "object" -> <<"object", below>>
      [] kind = "array" /\ below # <<>> -> <<"array", below[<<"item", 1>>]>>
      [] OTHER -> <<"type", kind>>

\* extract_structural_type for a value of a kind, from what it yields for the
\* values below, by their steps.  An array is the set of the primitive types in
\* it and then the sorted list of its other structures: as often as they occur,
\* in whatever order.
resolve(kind, below) ==
    LET items == {s \in DOMAIN below : below[s][1] # "type"}
        inner_types == {below[s] : s \in DOMAIN below \ items}
        array_structures ==
            [t \in {below[s] : s \in items} |-> Cardinality({s \in items : below[s] = t})]
    IN  CASE kind = "object" -> <<"object", below>>
          [] kind = "array" /\ DOMAIN below = {} -> <<"array", {<<"type", "empty_array">>}, <<>>>>
          [] kind = "array" /\ DOMAIN below # {} -> <<"array", inner_types, array_structures>>
          [] OTHER -> <<"type", primitive_type(kind)>>

\* The structures of a payload and of all that is in it, by path.
extract_structural_type(v) ==
    LET structure[p \in DOMAIN v] ==
            resolve(v[p], [s \in Steps(v, p) |-> structure[Append(p, s)]])
    IN  structure

fingerprint_schema(v) == extract_structural_type(v)[<<>>]

-----------------------------------------------------------------------------
\* _flatten_schema after normalize_types.  An array has an entry of its own, an
\* object has none.
flatten_schema(v) ==
    Flat({p \in DOMAIN v : v[p] # "object"}, LAMBDA p : primitive_type(v[p]))

TypeAt(flat, x) == IF x \in DOMAIN flat THEN flat[x] ELSE "None"

structural_diff(old, new) ==
    LET o == flatten_schema(old)
        n == flatten_schema(new)
    IN  {d \in {[path |-> x, old |-> TypeAt(o, x), new |-> TypeAt(n, x)] :
                   x \in DOMAIN o \cup DOMAIN n} : d.old # d.new}

primitive_types == {"int", "float", "string", "bool"}

\* Mutants: other primitives in a field are no change; or an int that becomes a
\* float is no special case.
classify_presence(d) ==
    CASE d.old = "None" -> "SAFE"
      [] d.old # "None" /\ d.new = "None" -> "BREAKING"
      [] OTHER -> "None"

classify_no_widening(d) ==
    CASE d.old = "None" -> "SAFE"
      [] d.old \in primitive_types /\ d.new \in primitive_types -> "BREAKING"
      [] d.old # "None" /\ d.new = "None" -> "BREAKING"
      [] OTHER -> "None"

\* classify_contract_drift on one difference: SAFE, then RISKY mutations, then
\* BREAKING changes, each where nothing was found before.  No type begins with
\* "nullable_".  "None" stays for a change from or to null or an array.
classify_contract_drift(d) ==
    CASE d.old = "None" -> "SAFE"
      [] d.old \in primitive_types /\ d.new \in primitive_types ->
            IF d.old = "int" /\ d.new = "float" THEN "RISKY" ELSE "BREAKING"
      [] d.old # "None" /\ d.new = "None" -> "BREAKING"
      [] OTHER -> "None"

\* log_drift_violations: a row for each difference that has a severity.
Logged(differences) ==
    {<<d, classify_contract_drift(d)>> :
        d \in {x \in differences : classify_contract_drift(x) # "None"}}

-----------------------------------------------------------------------------
LegacyInit ==
    /\ baseline \in Submissions
    /\ incoming = baseline
    /\ violations = {}

\* A later payload is compared with the baseline unless they share their
\* fingerprint.
Submit(v) ==
    /\ incoming' = v
    /\ violations' = IF fingerprint_schema(baseline) # fingerprint_schema(v)
                     THEN Logged(structural_diff(baseline, v)) ELSE {}
    /\ UNCHANGED baseline

LegacyNext == \E v \in Submissions : Submit(v)

LegacySpec == LegacyInit /\ [][LegacyNext]_legacyVars

-----------------------------------------------------------------------------
InArray(path) == \E i \in DOMAIN path : path[i][1] = "item"

\* What can be seen in a payload, without the numbers of the items.
Blurred(v) == {<<Blur(x[1]), x[2]>> : x \in Sightings(v)}

\* A payload that is not compared because it has the fingerprint of the baseline
\* (main.py:161) differs from it in the order and number of array items only:
\* the same kinds of values are found in the same places.
UncomparedIsRearranged ==
    fingerprint_schema(baseline) = fingerprint_schema(incoming) =>
       Blurred(baseline) = Blurred(incoming)

\* If no violation above SAFE is logged, a consumer of the baseline still finds
\* every value, of the kind it had, outside arrays: except that null and arrays
\* may come and go (engine.py:203-231 leaves these without a severity), and
\* that a field may give way to one whose path has the same text.
UnloggedKeepsReaders ==
    (\A row \in violations : row[2] = "SAFE") /\ Told(baseline, incoming) =>
       \A x \in Readables(baseline) :
          ~InArray(x[1]) =>
             \E y \in Readables(incoming) :
                /\ y[1] = x[1]
                /\ y[2] = x[2] \/ {x[2], y[2]} \cap {"null", "array"} # {}

\* The answer of POST /track carries both reports (main.py:177-182).  Compared
\* with the same payload, the legacy report never warns of what the registry
\* calls harmless: a BREAKING violation is a BREAKING version, a RISKY one is
\* at least RISKY.
LegacyWarnsNoEarlier ==
    \A row \in violations :
       SeverityRank[row[2]] <= SeverityRank[Classification(baseline, incoming)]
=============================================================================
