--------------------------- MODULE MCComparisons ---------------------------
(***************************************************************************)
(* The comparisons of successive payloads or documents of an endpoint:     *)
(* those of the contract registry (CompatibilityClassifier), of the legacy *)
(* tables (LegacyClassifier), of the monitor (SchemaDiffing) and of API    *)
(* documents (OpenApiReview).  A behaviour belongs to one of them, and     *)
(* leaves the variables of the others at a null value.                     *)
(***************************************************************************)
EXTENDS MCCompatibilityClassifier, LegacyClassifier, SchemaDiffing, OpenApiReview

LOCAL INSTANCE SequencesExt

UpToTwo(values) == UNION {[1..n -> values] : n \in 0..2}

\* Bodies of the monitor, put together from the values inside and their steps.
Plain(kind) == <<Value(<<>>, kind, "")>>
Text(t) == <<Value(<<>>, "str", t)>>
Document(kind, steps, values) ==
    Plain(kind) \o FlattenSeq([n \in DOMAIN values |->
        [i \in DOMAIN values[n] |-> [values[n][i] EXCEPT !.path = <<steps[n]>> \o @]]])
List(s) == Document("array", [n \in DOMAIN s |-> <<"item", n>>], s)
Field(k, v) == Document("object", <<<<"key", k>>>>, <<v>>)
Empty == Plain("object")

\* Rows of up to two objects with one field, lists of up to two scalars, and
\* nestings of these.
Leaves == {Plain("null"), Plain("int"), Text("x"), Text("y")}
Rows == {List(s) : s \in UpToTwo({Field("a", v) : v \in Leaves \ {Text("y")}} \cup {Empty})}
Lists == {List(s) : s \in UpToTwo(Leaves)}
RowsOfLists == {List(<<Field("a", v), Field("a", w)>>) :
                   v, w \in {List(<<>>), List(<<Empty>>), List(<<Plain("int")>>)}}
Nested == {Field("a", Plain("int")), List(<<List(<<Plain("int")>>)>>), List(<<Empty, Plain("int")>>)}
MCBodies ==
    {Field("a", v) : v \in Leaves \cup {Plain("float")} \cup Rows \cup Lists \cup RowsOfLists \cup Nested}
    \cup {List(s) : s \in UpToTwo({Plain("int"), Field("a", Plain("int"))})} \cup {Text("x")}
MCOversized == {Field("a", Text("y"))}

\* Objects whose field "a" is a scalar, an object, a list of up to two items or
\* rows of up to two objects, next to a field "b" or not.
LegacyValues == Scalars \cup Inner
                \cup {Arr(s) : s \in UpToTwo({Whole, Word}) \cup UpToTwo(Inner)}
                \cup {Arr(<<Arr(<<Whole>>), Whole>>), Arr(<<Whole, Arr(<<Whole>>)>>)}
MCSubmissions ==
    {Obj(<<>>), Obj([b |-> Whole])} \cup {Obj([a |-> v]) : v \in LegacyValues}
    \cup {Obj([a |-> v, b |-> w]) : v \in {Whole, Null}, w \in {Whole, Truth, Arr(<<Whole>>)}}
    \cup Dotted

\* Documents with at most one schema of up to two fields, the second of which
\* has a name with "no longer" in it; and single JSON schemas.
DocSchemas ==
    UNION {[props: [d -> {"", "integer", "string"}],
            required: SUBSET {"a", "no longer used"}] : d \in SUBSET {"a", "no longer used"}}
MCDocuments ==
    {[layout |-> "components", schemas |-> f] :
        f \in [{"S"} -> DocSchemas \cup {Other}] \cup [{} -> {Other}]}
    \cup {[layout |-> "schema", schema |-> s] :
             s \in [props: {[a |-> "integer"], <<>>}, required: {{}, {"a"}}]}

unusedMonitor == before = Plain("null") /\ after = before /\ nodes = infer_schema(after) /\ diffs = {}
unusedRegistry == base = Null /\ prior = Null /\ payload = Null /\ class = "SAFE"
unusedLegacy == baseline = Null /\ incoming = Null /\ violations = {}
unusedReview == accepted = Null /\ proposed = Null /\ report = "raised" /\ decision = "none"

MCInit ==
    \/ Init /\ unusedMonitor /\ unusedLegacy /\ unusedReview
    \/ MonitorInit /\ unusedRegistry /\ unusedLegacy /\ unusedReview
    \/ LegacyInit /\ unusedRegistry /\ unusedMonitor /\ unusedReview
    \/ ReviewInit /\ unusedRegistry /\ unusedMonitor /\ unusedLegacy

mcVars == <<vars, monitorVars, legacyVars, reviewVars>>

MCNext ==
    \/ /\ payload # Null /\ Next
       /\ UNCHANGED <<monitorVars, legacyVars, reviewVars>>
    \/ /\ after # Plain("null") /\ MonitorNext
       /\ UNCHANGED <<vars, legacyVars, reviewVars>>
    \/ /\ incoming # Null /\ LegacyNext
       /\ UNCHANGED <<vars, monitorVars, reviewVars>>
    \/ /\ decision # "none" /\ ReviewNext
       /\ UNCHANGED <<vars, monitorVars, legacyVars>>

MCSpec == MCInit /\ [][MCNext]_mcVars
=============================================================================
