--------------------- MODULE MCCompatibilityClassifier ---------------------
(***************************************************************************)
(* Objects with up to two fields, whose values are scalars, arrays of up   *)
(* to two items and objects one level deeper; and some whose field names   *)
(* read like paths.                                                        *)
(***************************************************************************)
EXTENDS CompatibilityClassifier

LOCAL INSTANCE TLC

CONSTANT Names      \* names of the fields

Scalar(kind) == [p \in {<<>>} |-> kind]

\* The value of a kind with the values below it, by the step that leads there.
Compound(kind, kids) ==
    [p \in {<<>>} \cup UNION {{<<s>> \o q : q \in DOMAIN kids[s]} : s \in DOMAIN kids} |->
        IF p = <<>> THEN kind ELSE kids[p[1]][Tail(p)]]
Obj(f) == Compound("object", [s \in {"key"} \X DOMAIN f |-> f[s[2]]])
Arr(items) == Compound("array", [s \in {"item"} \X DOMAIN items |-> items[s[2]]])

Null == Scalar("null")
Truth == Scalar("bool")
Whole == Scalar("int")
Word == Scalar("str")

Scalars == {Null, Whole, Scalar("float"), Word}
Arrays == {Arr(<<>>), Arr(<<Whole>>), Arr(<<Whole, Word>>)}
Inner == {Obj(<<>>)} \cup {Obj([a |-> v]) : v \in {Whole, Word}}

ObjectsOver(values) == UNION {{Obj(f) : f \in [d -> values]} : d \in SUBSET Names}

\* Fields whose names read like paths: "a.a", alone and next to the path of that
\* text, and "a[*0]" next to the item.
Dotted == {Obj("a.a" :> v) : v \in {Whole, Word}}
          \cup {Obj("a.a" :> Whole @@ "a" :> Obj([a |-> v])) : v \in {Whole, Word}}
          \cup {Obj("a[*0]" :> Word @@ "a" :> v) : v \in {Whole, Arr(<<>>), Arr(<<Whole>>)}}

MCPayloads == ObjectsOver(Scalars \cup Inner) \cup {Obj(n :> v) : n \in Names, v \in Arrays} \cup Dotted
FewPayloads == ObjectsOver({Whole, Word, Truth} \cup Inner)
=============================================================================
