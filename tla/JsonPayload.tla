---------------------------- MODULE JsonPayload ----------------------------
(***************************************************************************)
(* The JSON values that POST /track compares, by the places in them: a     *)
(* value is the function from its paths to the kind found there.  A path   *)
(* is the sequence of the steps that lead to a place, <<"key", k>> into an *)
(* object and <<"item", i>> into an array; <<>> is the value itself.  Both *)
(* classifiers flatten a payload to its paths before they compare, so that *)
(* walking the payload becomes a choice among the paths.                   *)
(***************************************************************************)
EXTENDS Naturals, Sequences

LOCAL INSTANCE TLC      \* ToString

ScalarKinds == {"null", "bool", "int", "float", "str"}
Kinds == ScalarKinds \cup {"object", "array"}

Step == ({"key"} \X STRING) \cup ({"item"} \X (Nat \ {0}))

Parent(p) == SubSeq(p, 1, Len(p) - 1)
LastStep(p) == p[Len(p)]

\* A path without the numbers of the items.
Blur(p) == [i \in DOMAIN p |-> IF p[i][1] = "item" THEN <<"item">> ELSE p[i]]

\* The steps on from path p: the keys of an object, the items of an array.
Steps(v, p) == {LastStep(q) : q \in {r \in DOMAIN v : r # <<>> /\ Parent(r) = p}}

\* The value at path p of v, or of its canonical schema.
Subtree(v, p) ==
    LET below == {q \in DOMAIN v : Len(q) >= Len(p) /\ SubSeq(q, 1, Len(p)) = p}
    IN  [r \in {SubSeq(q, Len(p) + 1, Len(q)) : q \in below} |-> v[p \o r]]

\* Every place but the value itself lies in an object or an array, the items of
\* an array are numbered from 1, and some place is the deepest.
IsJson(v) ==
    /\ v \in [DOMAIN v -> Kinds]
    /\ DOMAIN v \subseteq Seq(Step)
    /\ <<>> \in DOMAIN v
    /\ \A p \in DOMAIN v \ {<<>>} :
          /\ Parent(p) \in DOMAIN v
          /\ \/ v[Parent(p)] = "object" /\ LastStep(p)[1] = "key"
             \/ /\ v[Parent(p)] = "array" /\ LastStep(p)[1] = "item"
                /\ \A i \in 1..LastStep(p)[2] : Append(Parent(p), <<"item", i>>) \in DOMAIN v
    /\ \E q \in DOMAIN v : \A p \in DOMAIN v : Len(p) <= Len(q)

-----------------------------------------------------------------------------
(***************************************************************************)
(* Flattening, by which both classifiers make a dict of a payload: its     *)
(* keys are texts, and different paths may have one text.                  *)
(***************************************************************************)

\* Keys are joined with dots, items are [*0], [*1] and so on.
PathText(p) ==
    LET text[i \in 0..Len(p)] ==
            IF i = 0 THEN ""
            ELSE CASE p[i][1] = "item" -> text[i - 1] \o "[*" \o ToString(p[i][2] - 1) \o "]"
                   [] p[i][1] = "key" /\ text[i - 1] = "" -> p[i][2]
                   [] p[i][1] = "key" /\ text[i - 1] # "" -> text[i - 1] \o "." \o p[i][2]
    IN  IF text[Len(p)] = "" THEN "[root]" ELSE text[Len(p)]

\* dict.update: of two places with one text the one that is reached later stays.
\* Where their paths part, one key begins with the other, and the longer one
\* comes later in the order of the keys.
Overrides(p, q) ==
    \E i \in DOMAIN p \cap DOMAIN q :
       /\ p[i] # q[i] /\ SubSeq(p, 1, i - 1) = SubSeq(q, 1, i - 1)
       /\ Len(p[i][2]) > Len(q[i][2])

Staying(paths) ==
    {p \in paths : \A q \in paths : PathText(q) = PathText(p) => ~Overrides(q, p)}

\* The dict for the places at the given paths, with the entries of NodeAt.
Flat(paths, NodeAt(_)) ==
    LET staying == Staying(paths)
    IN  [x \in {PathText(p) : p \in staying} |->
            NodeAt(CHOOSE p \in staying : PathText(p) = x)]

\* The texts tell the places of two values apart.
Told(u, v) ==
    \A p, q \in DOMAIN u \cup DOMAIN v : PathText(p) = PathText(q) => p = q

-----------------------------------------------------------------------------
(***************************************************************************)
(* What a consumer finds in a value, as pairs of a path and a kind: all    *)
(* that can be seen, and what can be read, which an object is only through *)
(* its fields.                                                             *)
(***************************************************************************)
Sightings(v) == {<<p, v[p]>> : p \in DOMAIN v}
Readables(v) == {x \in Sightings(v) : x[2] # "object"}
ReadablePaths(v) == {x[1] : x \in Readables(v)}
=============================================================================
