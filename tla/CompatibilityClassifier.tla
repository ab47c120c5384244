---------------------- MODULE CompatibilityClassifier ----------------------
(***************************************************************************)
(* canonicalize (app/runtime/canonical.py), diff_and_classify and          *)
(* summarize_classification (app/runtime/classifier.py), run on one        *)
(* payload after another of an endpoint as track_contract runs them.       *)
(*                                                                         *)
(* A canonical schema has the paths of its payload; at each of them is     *)
(* <<"leaf", type, nullable>> for the code's {"type": t, "nullable": n},   *)
(* <<"object">> or <<"array">>.  In the code both objects and leaves are   *)
(* dicts, and _flatten takes every dict with a key "type" for a leaf.      *)
(* Payload fields named "nullable", "enum" and "required", which _classify *)
(* reads from such a dict, are left out.  Paths are compared by their      *)
(* texts, which need not tell two fields apart.                            *)
(***************************************************************************)
EXTENDS JsonPayload

CONSTANT Payloads   \* payloads that may be submitted

ASSUME PayloadsAssumption == \A v \in Payloads : IsJson(v)

VARIABLES
    base,           \* payload since which every version was classified SAFE
    prior,          \* payload of the previous version
    payload,        \* payload of the newest version
    class           \* its compatibility_classification

vars == <<base, prior, payload, class>>

CanonicalNode(kind) ==
    CASE kind = "null"  -> <<"leaf", "null", TRUE>>
      [] kind = "bool"  -> <<"leaf", "boolean", FALSE>>
      [] kind = "int"   -> <<"leaf", "integer", FALSE>>
      [] kind = "float" -> <<"leaf", "number", FALSE>>
      [] kind = "str"   -> <<"leaf", "string", FALSE>>
      [] OTHER          -> <<kind>>

canonicalize(v) == [p \in DOMAIN v |-> CanonicalNode(v[p])]

\* A dict of the payload that _flatten takes for a leaf, and does not look into.
TypeKey == <<"key", "type">>
IsTypedDict(c, p) == c[p][1] = "object" /\ Append(p, TypeKey) \in DOMAIN c
InTypedDict(c, p) == \E i \in 0..(Len(p) - 1) : IsTypedDict(c, SubSeq(p, 1, i))

\* _flatten: the dict from the texts of paths to nodes.
Listed(c) == {p \in DOMAIN c : (c[p][1] # "object" \/ IsTypedDict(c, p)) /\ ~InTypedDict(c, p)}
NodeOf(c, p) ==
    CASE c[p][1] = "leaf"   -> c[p]
      [] c[p][1] = "array"  -> <<"leaf", "array", FALSE>>
      [] c[p][1] = "object" -> <<"dict", Subtree(c, p)>>
flatten(c) == Flat(Listed(c), LAMBDA p : NodeOf(c, p))

\* _type_of: a typed dict of a payload yields the text of its "type" entry.
type_of(n) == IF n[1] = "dict" THEN <<"text", Subtree(n[2], <<TypeKey>>)>> ELSE <<"name", n[2]>>
\* _nullable_of, None for a dict without "nullable".
NullableIs(n, b) == n[1] # "dict" /\ n[3] = b

\* _classify, for a path present on one side only (None on the other).
Added == "SAFE"                 \* no canonical node has "required"
\* Mutant: a field that is gone counts as optional.
RemovedOptional == "RISKY"

Removed == "BREAKING"           \* required unless stated otherwise

\* Mutant: numbers are numbers.
ChangedNumeric(old, new) ==
    IF type_of(old) = <<"name", "integer">> /\ type_of(new) = <<"name", "number">>
    THEN "SAFE" ELSE "BREAKING"

\* _classify, for a path on both sides.
Changed(old, new) ==
    CASE type_of(old) # type_of(new) ->
            IF type_of(old) = <<"name", "integer">> /\ type_of(new) = <<"name", "number">>
            THEN "RISKY" ELSE "BREAKING"
      [] type_of(old) = type_of(new) /\ NullableIs(old, FALSE) /\ NullableIs(new, TRUE) ->
            "BACKWARD_COMPATIBLE"
      [] type_of(old) = type_of(new) /\ NullableIs(old, TRUE) /\ NullableIs(new, FALSE) ->
            "BREAKING"
      [] OTHER -> "SAFE"

\* diff_and_classify: the classifications of the paths that differ.
diff_and_classify(old, new) ==
    LET o == flatten(old)
        n == flatten(new)
        both == DOMAIN o \cap DOMAIN n
    IN  {Added : p \in DOMAIN n \ DOMAIN o}
          \cup {Removed : p \in DOMAIN o \ DOMAIN n}
          \cup {Changed(o[p], n[p]) : p \in {q \in both : o[q] # n[q]}}

SeverityRank == [SAFE |-> 0, BACKWARD_COMPATIBLE |-> 1, FORWARD_COMPATIBLE |-> 2,
                 RISKY |-> 3, BREAKING |-> 4]

\* The classification with the highest rank, SAFE when there is no difference.
summarize_classification(classes) ==
    IF classes = {} THEN "SAFE"
    ELSE CHOOSE c \in classes : \A d \in classes : SeverityRank[d] <= SeverityRank[c]

Classification(old, new) ==
    summarize_classification(diff_and_classify(canonicalize(old), canonicalize(new)))
-----------------------------------------------------------------------------
Init ==
    /\ payload \in Payloads
    /\ prior = payload
    /\ base = payload
    /\ class = "SAFE"

\* A payload with another canonical schema than the current one becomes the
\* next version, classified against the current one.
Track(p) ==
    /\ canonicalize(p) # canonicalize(payload)
    /\ prior' = payload
    /\ payload' = p
    /\ class' = Classification(payload, p)
    /\ base' = IF class' = "SAFE" THEN base ELSE p

Next == \E p \in Payloads : Track(p)

Spec == Init /\ [][Next]_vars
-----------------------------------------------------------------------------
\* tests/test_compatibility_classifier.py:20, "test_remove_required_field_breaking":
\* a version from which something readable in the previous one is gone is
\* BREAKING (classifier.py:62-66), however deep it was.  The texts of paths must
\* tell the fields apart: {"a.b": 1} and {"a": {"b": 1}} are one to _flatten.
RemovalIsBreaking ==
    ~(ReadablePaths(prior) \subseteq ReadablePaths(payload)) /\ Told(prior, payload) =>
       class = "BREAKING"

\* SAFE steps add up: a chain of versions each SAFE against its predecessor
\* (all that track_contract compares, service.py:184-231) is SAFE from its
\* first to its last, and every reader of the first still works: all that
\* could be read is still there and has the same kind, if the texts of paths
\* tell the fields of the first and the last apart (those in between need not).
SafeStepsCompose ==
    /\ Classification(base, payload) = "SAFE"
    /\ Told(base, payload) => Readables(base) \subseteq Readables(payload)
=============================================================================
