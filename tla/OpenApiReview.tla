--------------------------- MODULE OpenApiReview ---------------------------
(***************************************************************************)
(* The two checks of a changed API document: scripts/openapi_diff.py and   *)
(* scripts/contract_review_agent.py, which has a diff of its own and turns *)
(* it into a CI decision.                                                  *)
(*                                                                         *)
(* A document has its schemas under "components", or is itself one JSON    *)
(* schema, as it stands or under "schema".  A schema is Other when it is   *)
(* no JSON object (true, for example), else [props, required]: the types   *)
(* of its fields, "" where "type" is missing or no string, and the fields  *)
(* that it requires.  Nested schemas are not looked at by either check.    *)
(***************************************************************************)
EXTENDS FiniteSets

CONSTANTS
    Documents,      \* documents that may be proposed
    Other,          \* a schema that is no object
    Types,          \* the types of fields
    NoLonger        \* field names that contain the words "no longer"

VARIABLES
    accepted,       \* the document before the change
    proposed,       \* the document after it
    report,         \* openapi_diff: "breaking", "compatible", "raised"
    decision        \* ci_decision of the review: "fail", "pass"

reviewVars == <<accepted, proposed, report, decision>>

NoSchema == [props |-> <<>>, required |-> {}]

\* _extract_schema: the schemas by name.  Of a single JSON schema the keywords
\* are taken for names; the fields below "properties" are seen as a schema
\* without properties.
extract_schema(doc) ==
    IF doc.layout = "components" THEN doc.schemas
    ELSE [k \in {"type", "properties"} \cup (IF doc.schema.required = {} THEN {} ELSE {"required"}) |->
             IF k = "properties" THEN NoSchema ELSE Other]

SchemaNames(doc) == DOMAIN extract_schema(doc)
Common(old, new) == SchemaNames(old) \cap SchemaNames(new)

\* A schema as the agent reads it; openapi_diff raises AttributeError instead.
Read(schema) == IF schema = Other THEN NoSchema ELSE schema

Fields(schema) == DOMAIN schema.props
SharedFields(o, n) == Fields(o) \cap Fields(n)

\* Fields whose type changed, where both schemas state one.
type_changes(o, n) ==
    {f \in SharedFields(o, n) :
        /\ o.props[f] # "" /\ n.props[f] # ""
        /\ o.props[f] # n.props[f]}

-----------------------------------------------------------------------------
(***************************************************************************)
(* openapi_diff.py                                                         *)
(***************************************************************************)
\* The texts of required_changes, as a kind and a field.
required_changes(o, n) ==
    ({"added required field"} \X ((Fields(n) \ Fields(o)) \cap n.required))
    \cup ({"field became required"} \X (n.required \ o.required))
    \cup ({"field no longer required"} \X (o.required \ n.required))

\* Mutant: a change counts by the word "required" alone.
RequiresAny(change) == change[2] \notin NoLonger

\* classify_diff looks for "no longer" in the text of a change, and so in the
\* name of its field as well.
Requires(change) == change[1] # "field no longer required" /\ change[2] \notin NoLonger

diff_schemas_break(o, n) ==
    \/ Fields(o) \ Fields(n) # {}
    \/ type_changes(o, n) # {}
    \/ \E c \in required_changes(o, n) : Requires(c)

openapi_diff(old, new) ==
    LET os == extract_schema(old)
        ns == extract_schema(new)
    IN  CASE \E s \in Common(old, new) : Other \in {os[s], ns[s]} -> "raised"
          [] \A s \in Common(old, new) : Other \notin {os[s], ns[s]} ->
                IF \/ SchemaNames(old) \ SchemaNames(new) # {}
                   \/ \E s \in Common(old, new) : diff_schemas_break(os[s], ns[s])
                THEN "breaking" ELSE "compatible"

-----------------------------------------------------------------------------
(***************************************************************************)
(* contract_review_agent.py                                                *)
(***************************************************************************)
\* Mutant: fields that are there already may become required.
schema_changes_new_only(s, o, n) ==
    ({<<s, "removed">>} \X (Fields(o) \ Fields(n)))
    \cup ({<<s, "added as required">>} \X ((Fields(n) \ Fields(o)) \cap n.required))
    \cup ({<<s, "type">>} \X type_changes(o, n))

\* breaking_changes within one schema.
schema_changes(s, o, n) ==
    ({<<s, "removed">>} \X (Fields(o) \ Fields(n)))
    \cup ({<<s, "added as required">>} \X ((Fields(n) \ Fields(o)) \cap n.required))
    \cup ({<<s, "type">>} \X type_changes(o, n))
    \cup ({<<s, "became required">>} \X (n.required \ o.required))

breaking_changes(old, new) ==
    {<<<<s, "schema removed">>, "">> : s \in SchemaNames(old) \ SchemaNames(new)}
    \cup UNION {schema_changes(s, Read(extract_schema(old)[s]), Read(extract_schema(new)[s])) :
                   s \in Common(old, new)}

\* build_review; the rest of it is text.
build_review(old, new) == IF breaking_changes(old, new) # {} THEN "fail" ELSE "pass"

-----------------------------------------------------------------------------
ReviewInit ==
    /\ accepted \in Documents
    /\ proposed = accepted
    /\ report = "compatible"
    /\ decision = "pass"

\* A change is proposed; both checks compare it with the accepted document.
Propose(doc) ==
    /\ proposed' = doc
    /\ report' = openapi_diff(accepted, doc)
    /\ decision' = build_review(accepted, doc)
    /\ UNCHANGED accepted

ReviewNext == \E doc \in Documents : Propose(doc)

ReviewSpec == ReviewInit /\ [][ReviewNext]_reviewVars

-----------------------------------------------------------------------------
(***************************************************************************)
(* The reference: payloads with the fields that a schema declares, as      *)
(* functions from fields to types.                                         *)
(***************************************************************************)
Accepts(schema, body) ==
    schema # Other =>
       /\ schema.required \subseteq DOMAIN body
       /\ \A f \in DOMAIN body \cap Fields(schema) : schema.props[f] \in {"", body[f]}

BodiesOf(schema) == UNION {[d -> Types] : d \in SUBSET Fields(Read(schema))}

Typed(schema) == \A f \in Fields(Read(schema)) : Read(schema).props[f] # ""

\* A change that the review lets pass keeps every client that sends the fields
\* of the old schema, if the fields of both have types and the documents have
\* components (contract_review_agent.py:37-84): what was accepted still is, as
\* far as types and required fields go, which is all that the review compares.
PassKeepsSenders ==
    /\ decision = "pass"
    /\ accepted.layout = "components" /\ proposed.layout = "components"
    => \A s \in DOMAIN accepted.schemas :
          /\ s \in DOMAIN proposed.schemas
          /\ LET o == accepted.schemas[s]
                 n == proposed.schemas[s]
             IN  Typed(o) /\ Typed(n) =>
                    \A body \in BodiesOf(o) : Accepts(o, body) => Accepts(n, body)

\* The two checks, written twice, agree wherever openapi_diff comes to an end:
\* they part only over fields whose name contains the words that openapi_diff
\* looks for in its own messages (openapi_diff.py:63).
ChecksAgree ==
    CASE report = "breaking" -> decision = "fail"
      [] report = "compatible" ->
            \A c \in breaking_changes(accepted, proposed) :
               /\ c[1][2] \in {"became required", "added as required"}
               /\ c[2] \in NoLonger
      [] report = "raised" -> TRUE
=============================================================================
