------------------------- MODULE ComparisonProofs -------------------------
(***************************************************************************)
(* Proofs about the comparisons of the contract registry                   *)
(* (CompatibilityClassifier), of the legacy tables (LegacyClassifier) and  *)
(* of API documents (OpenApiReview), for all sets of payloads and          *)
(* documents.                                                              *)
(***************************************************************************)
EXTENDS LegacyClassifier, OpenApiReview, SequenceTheorems, WellFoundedInduction, TLAPS

-----------------------------------------------------------------------------
(***************************************************************************)
(* The classifier of the registry.                                         *)
(***************************************************************************)
Severities == {"SAFE", "BACKWARD_COMPATIBLE", "FORWARD_COMPATIBLE", "RISKY", "BREAKING"}

\* What _flatten (classifier.py:36-52) puts at a path.
LeafTypes == {"null", "boolean", "integer", "number", "string", "array"}
Leaf(t) == <<"leaf", t, t = "null">>
FlatLeaves == {Leaf(t) : t \in LeafTypes}
IsFlatDict(n) == n = <<"dict", n[2]>>
IsFlatNode(n) == n \in FlatLeaves \/ IsFlatDict(n)

\* The parts of a leaf {"type": t, "nullable": n} (canonical.py:13-23).
LEMMA LeafParts ==
    ASSUME NEW t
    PROVE  Leaf(t)[1] = "leaf" /\ Leaf(t)[2] = t /\ Leaf(t)[3] = (t = "null")
<1>1. ASSUME NEW b PROVE LET n == <<"leaf", t, b>> IN n[1] = "leaf" /\ n[2] = t /\ n[3] = b
  OBVIOUS
<1> QED BY ONLY <1>1 DEF Leaf

\* A typed dict is told from a leaf by its first component.
LEMMA DictParts ==
    ASSUME NEW n, IsFlatDict(n)
    PROVE  n[1] = "dict" /\ n \notin FlatLeaves
<1>1. ASSUME NEW t PROVE <<"dict", t>>[1] = "dict"
  OBVIOUS
<1>2. n[1] = "dict"
  BY ONLY <1>1, n = <<"dict", n[2]>>, Zenon DEF IsFlatDict
<1>3. "dict" # "leaf"
  OBVIOUS
<1> QED BY <1>2, <1>3, LeafParts, Zenon DEF FlatLeaves

\* canonicalize (canonical.py:8-23): the leaves for the scalars,
LEMMA ScalarLeaves ==
    /\ CanonicalNode("null") = Leaf("null") /\ CanonicalNode("bool") = Leaf("boolean")
    /\ CanonicalNode("int") = Leaf("integer") /\ CanonicalNode("float") = Leaf("number")
    /\ CanonicalNode("str") = Leaf("string")
<1>1. <<"leaf", "null", TRUE>> = Leaf("null")
  BY Zenon DEF Leaf
<1>2. \A t \in LeafTypes \ {"null"} : <<"leaf", t, FALSE>> = Leaf(t)
  BY Zenon DEF Leaf
<1> QED BY <1>1, <1>2 DEF CanonicalNode, LeafTypes

\* while an object or array keeps its kind.
LEMMA CanonicalKinds ==
    ASSUME NEW k \in Kinds
    PROVE  /\ k \in ScalarKinds => CanonicalNode(k) \in FlatLeaves
           /\ k \in ScalarKinds => CanonicalNode(k)[1] = "leaf"
           /\ k \notin ScalarKinds => CanonicalNode(k) = <<k>> /\ CanonicalNode(k)[1] = k
<1>1. k \in ScalarKinds => \E t \in LeafTypes : CanonicalNode(k) = Leaf(t)
  BY ScalarLeaves DEF ScalarKinds, LeafTypes
<1>2. k \in {"object", "array"} => CanonicalNode(k) = <<k>>
  BY DEF CanonicalNode
<1>3. <<k>>[1] = k
  OBVIOUS
<1> QED BY <1>1, <1>2, <1>3, LeafParts DEF FlatLeaves, Kinds, ScalarKinds

\* The places that _flatten keeps, for the canonical schema of a payload, and
\* the nodes it puts there: leaves for all but objects.
LEMMA ListedNodes ==
    ASSUME NEW v, IsJson(v), NEW p
    PROVE  LET c == canonicalize(v) IN
           /\ p \in Listed(c) <=>
                 /\ p \in DOMAIN v
                 /\ v[p] # "object" \/ IsTypedDict(c, p)
                 /\ ~InTypedDict(c, p)
           /\ p \in Listed(c) =>
                 /\ IsFlatNode(NodeOf(c, p))
                 /\ v[p] \in ScalarKinds => NodeOf(c, p) = CanonicalNode(v[p])
                 /\ v[p] = "array" => NodeOf(c, p) = Leaf("array")
                 /\ v[p] # "object" => NodeOf(c, p) \in FlatLeaves
                 /\ v[p] = "object" => IsFlatDict(NodeOf(c, p))
<1> DEFINE c == canonicalize(v)
<1>1. DOMAIN c = DOMAIN v
  BY DEF canonicalize
<1>2. \A q \in DOMAIN v : v[q] \in Kinds /\ c[q] = CanonicalNode(v[q])
  BY DEF canonicalize, IsJson
<1>3. \A q \in DOMAIN v : c[q][1] # "object" <=> v[q] # "object"
  BY <1>2, CanonicalKinds DEF Kinds, ScalarKinds
<1> HIDE DEF c
<1>4. p \in Listed(c) <=>
                 /\ p \in DOMAIN v
                 /\ v[p] # "object" \/ IsTypedDict(c, p)
                 /\ ~InTypedDict(c, p)
  BY <1>1, <1>3 DEF Listed
<1>5. ASSUME p \in Listed(c)
      PROVE  /\ IsFlatNode(NodeOf(c, p))
             /\ v[p] \in ScalarKinds => NodeOf(c, p) = CanonicalNode(v[p])
             /\ v[p] = "array" => NodeOf(c, p) = Leaf("array")
             /\ v[p] # "object" => NodeOf(c, p) \in FlatLeaves
             /\ v[p] = "object" => IsFlatDict(NodeOf(c, p))
  <2>1. p \in DOMAIN v
    BY <1>4, <1>5
  <2>2. CASE v[p] \in ScalarKinds
    <3>1. c[p][1] = "leaf" /\ c[p] \in FlatLeaves
      BY <2>1, <2>2, <1>2, CanonicalKinds
    <3>2. NodeOf(c, p) = c[p]
      BY <3>1 DEF NodeOf
    <3> QED BY <2>1, <2>2, <3>1, <3>2, <1>2 DEF IsFlatNode, ScalarKinds
  <2>3. CASE v[p] = "array"
    <3>1. c[p][1] = "array"
      BY <2>1, <2>3, <1>2, CanonicalKinds DEF ScalarKinds
    <3>2. <<"leaf", "array", FALSE>> = Leaf("array")
      <4>1. ("array" = "null") = FALSE
        OBVIOUS
      <4> QED BY <4>1, Zenon DEF Leaf
    <3>3. NodeOf(c, p) = Leaf("array")
      BY <3>1, <3>2 DEF NodeOf
    <3>4. Leaf("array") \in FlatLeaves
      BY DEF FlatLeaves, LeafTypes
    <3> QED BY <2>1, <2>3, <3>3, <3>4 DEF IsFlatNode, ScalarKinds
  <2>4. CASE v[p] = "object"
    <3>1. c[p][1] = "object"
      BY <2>1, <2>4, <1>2, CanonicalKinds DEF ScalarKinds
    <3>2. NodeOf(c, p) = <<"dict", Subtree(c, p)>>
      BY <3>1 DEF NodeOf
    <3>3. IsFlatDict(NodeOf(c, p))
      <4>1. ASSUME NEW t PROVE IsFlatDict(<<"dict", t>>)
        BY DEF IsFlatDict
      <4> QED BY <3>2, <4>1
    <3> QED BY <2>1, <2>4, <3>3 DEF IsFlatNode, ScalarKinds
  <2> QED BY <2>1, <2>2, <2>3, <2>4, <1>2 DEF Kinds
<1> QED BY <1>4, <1>5 DEF c

\* The keys of the dict that _flatten and _flatten_schema (engine.py:16-29) make
\* of the places at some paths, and the place that a key stands for.
Texts(paths) == {PathText(p) : p \in Staying(paths)}
PathAt(paths, x) == CHOOSE p \in Staying(paths) : PathText(p) = x

\* A key stands for one of the places, whose path has this text.
LEMMA TextsStandForPaths ==
    ASSUME NEW S, NEW x \in Texts(S)
    PROVE  PathAt(S, x) \in S /\ PathText(PathAt(S, x)) = x
<1>1. \E p \in Staying(S) : PathText(p) = x
  BY DEF Texts
<1>2. PathAt(S, x) \in Staying(S) /\ PathText(PathAt(S, x)) = x
  BY <1>1 DEF PathAt
<1> QED BY <1>2 DEF Staying

\* Where the texts tell the places apart, none is overridden.
LEMMA ToldPathsStay ==
    ASSUME NEW S, \A p, q \in S : PathText(p) = PathText(q) => p = q, NEW p \in S
    PROVE  PathText(p) \in Texts(S) /\ PathAt(S, PathText(p)) = p
<1>1. ~Overrides(p, p)
  BY DEF Overrides
<1>2. p \in Staying(S)
  BY <1>1 DEF Staying
<1>3. PathText(p) \in Texts(S)
  BY <1>2 DEF Texts
<1> QED BY <1>3, TextsStandForPaths

\* The dict of _flatten (classifier.py:36-52) by its keys.
LEMMA Flattened ==
    ASSUME NEW v, IsJson(v)
    PROVE  LET c == canonicalize(v)
               f == flatten(c)
           IN  /\ DOMAIN f = Texts(Listed(c))
               /\ \A x \in DOMAIN f :
                     /\ f[x] = NodeOf(c, PathAt(Listed(c), x))
                     /\ PathAt(Listed(c), x) \in Listed(c)
                     /\ PathText(PathAt(Listed(c), x)) = x
                     /\ IsFlatNode(f[x])
<1> DEFINE c == canonicalize(v)
           f == flatten(c)
<1>1. f = [x \in Texts(Listed(c)) |-> NodeOf(c, PathAt(Listed(c), x))]
  BY DEF flatten, Flat, Texts, PathAt
<1>2. \A x \in Texts(Listed(c)) :
         PathAt(Listed(c), x) \in Listed(c) /\ PathText(PathAt(Listed(c), x)) = x
  BY TextsStandForPaths
<1>3. \A p \in Listed(c) : IsFlatNode(NodeOf(c, p))
  BY ListedNodes
<1> HIDE DEF f, c
<1> QED BY <1>1, <1>2, <1>3 DEF f, c

\* The entry of a listed place that is told from the others.
LEMMA FlattenedTold ==
    ASSUME NEW v, IsJson(v), Told(v, v), NEW p \in Listed(canonicalize(v))
    PROVE  /\ PathText(p) \in DOMAIN flatten(canonicalize(v))
           /\ flatten(canonicalize(v))[PathText(p)] = NodeOf(canonicalize(v), p)
<1>1. Listed(canonicalize(v)) \subseteq DOMAIN v
  BY DEF Listed, canonicalize
<1>2. /\ PathText(p) \in Texts(Listed(canonicalize(v)))
      /\ PathAt(Listed(canonicalize(v)), PathText(p)) = p
  BY <1>1, ToldPathsStay DEF Told
<1> QED BY <1>2, Flattened

\* _classify (classifier.py:55-99) of a path on both sides: one of four
\* answers; SAFE, or no difference at all, exactly when the types agree, for
\* the nullability of a leaf follows from its type.
LEMMA ChangedClasses ==
    ASSUME NEW m, NEW n, IsFlatNode(m), IsFlatNode(n)
    PROVE  /\ Changed(m, n) \in {"SAFE", "BACKWARD_COMPATIBLE", "RISKY", "BREAKING"}
           /\ (m = n \/ Changed(m, n) = "SAFE") <=> type_of(m) = type_of(n)
           /\ m \in FlatLeaves /\ IsFlatDict(n) => Changed(m, n) = "BREAKING" /\ m # n
<1>0. ASSUME NEW t, t \in LeafTypes
      PROVE  /\ type_of(Leaf(t)) = <<"name", t>> /\ Leaf(t)[1] = "leaf"
             /\ \A b \in BOOLEAN : NullableIs(Leaf(t), b) <=> b = (t = "null")
  <2>1. Leaf(t)[1] # "dict"
    BY LeafParts
  <2> QED BY <2>1, LeafParts, Zenon DEF type_of, NullableIs
<1>1. CASE m \in FlatLeaves /\ n \in FlatLeaves
  <2>1. PICK t, u \in LeafTypes : m = Leaf(t) /\ n = Leaf(u)
    BY <1>1 DEF FlatLeaves
  <2>2. type_of(m) = <<"name", t>> /\ type_of(n) = <<"name", u>>
    BY <2>1, <1>0
  <2>3. m = n <=> t = u
    BY <2>1, LeafParts
  <2>4. type_of(m) = type_of(n) <=> t = u
    BY <2>2
  <2>5. ~IsFlatDict(n)
    BY <1>1, DictParts
  <2>6. t = u => ~(NullableIs(m, FALSE) /\ NullableIs(n, TRUE))
                  /\ ~(NullableIs(m, TRUE) /\ NullableIs(n, FALSE))
    BY <2>1, <1>0, Zenon
  <2> HIDE DEF IsFlatNode
  <2> QED BY <2>3, <2>4, <2>5, <2>6 DEF Changed
<1>2. CASE m \in FlatLeaves /\ IsFlatDict(n)
  <2>1. m[1] = "leaf" /\ n[1] = "dict" /\ n \notin FlatLeaves
    BY <1>2, LeafParts, DictParts DEF FlatLeaves
  <2>2. type_of(n) = <<"text", Subtree(n[2], <<TypeKey>>)>> /\ type_of(m) = <<"name", m[2]>>
    BY <2>1 DEF type_of
  <2>3. type_of(n) # type_of(m) /\ type_of(n) # <<"name", "number">>
    BY <2>2
  <2> QED BY <1>2, <2>1, <2>3 DEF Changed
<1>3. CASE IsFlatDict(m) /\ n \in FlatLeaves
  <2>1. n[1] = "leaf" /\ m[1] = "dict" /\ m \notin FlatLeaves
    BY <1>3, LeafParts, DictParts DEF FlatLeaves
  <2>2. type_of(m) = <<"text", Subtree(m[2], <<TypeKey>>)>> /\ type_of(n) = <<"name", n[2]>>
    BY <2>1 DEF type_of
  <2>3. type_of(n) # type_of(m) /\ type_of(m) # <<"name", "integer">>
    BY <2>2
  <2> QED BY <1>3, <2>1, <2>3 DEF Changed
<1>4. CASE IsFlatDict(m) /\ IsFlatDict(n)
  <2>1. n[1] = "dict" /\ m[1] = "dict" /\ m \notin FlatLeaves
    BY <1>4, DictParts
  <2>2. ~NullableIs(m, FALSE) /\ ~NullableIs(m, TRUE)
    BY <2>1 DEF NullableIs
  <2>3. m = n => type_of(m) = type_of(n)
    OBVIOUS
  <2> QED BY <2>1, <2>2, <2>3 DEF Changed
<1> QED BY <1>1, <1>2, <1>3, <1>4 DEF IsFlatNode

\* summarize_classification (classifier.py:126-130) yields a class that ranks
\* at least as high as all of them.
LEMMA SummaryIsHighest ==
    ASSUME NEW classes, classes \subseteq Severities
    PROVE  LET top == summarize_classification(classes) IN
           /\ top \in Severities
           /\ \A d \in classes : SeverityRank[d] <= SeverityRank[top]
           /\ top = "SAFE" <=> classes \subseteq {"SAFE"}
           /\ "BREAKING" \in classes => top = "BREAKING"
<1> DEFINE Top(c) == c \in classes /\ \A d \in classes : SeverityRank[d] <= SeverityRank[c]
           top == summarize_classification(classes)
<1>1. CASE classes = {}
  BY <1>1 DEF summarize_classification, Severities
<1>2. CASE classes # {}
  <2>1. /\ SeverityRank["SAFE"] = 0 /\ SeverityRank["BACKWARD_COMPATIBLE"] = 1
        /\ SeverityRank["FORWARD_COMPATIBLE"] = 2 /\ SeverityRank["RISKY"] = 3
        /\ SeverityRank["BREAKING"] = 4
    BY DEF SeverityRank
  <2>2. \E c \in classes : Top(c)
    <3>1. CASE "BREAKING" \in classes
      BY <3>1, <2>1 DEF Severities
    <3>2. CASE "BREAKING" \notin classes /\ "RISKY" \in classes
      BY <3>2, <2>1 DEF Severities
    <3>3. CASE {"BREAKING", "RISKY"} \cap classes = {} /\ "FORWARD_COMPATIBLE" \in classes
      BY <3>3, <2>1 DEF Severities
    <3>4. CASE {"BREAKING", "RISKY", "FORWARD_COMPATIBLE"} \cap classes = {}
               /\ "BACKWARD_COMPATIBLE" \in classes
      BY <3>4, <2>1 DEF Severities
    <3>5. CASE {"BREAKING", "RISKY", "FORWARD_COMPATIBLE", "BACKWARD_COMPATIBLE"}
               \cap classes = {}
      <4>1. \A c \in classes : c = "SAFE"
        BY <3>5 DEF Severities
      <4> QED BY <4>1, <2>1, <1>2
    <3> QED BY <3>1, <3>2, <3>3, <3>4, <3>5
  <2>3. Top(top)
    BY <1>2, <2>2 DEF summarize_classification
  <2>4. top \in Severities
    BY <2>3
  <2>5. \A d \in classes : d \in Severities /\ SeverityRank[d] <= SeverityRank[top]
    BY <2>3
  <2>6. top \in classes
    BY <2>3
  <2> HIDE DEF top, Top
  <2>7. top = "SAFE" => \A d \in classes : d = "SAFE"
    BY <2>1, <2>5 DEF Severities
  <2>8. "BREAKING" \in classes => top = "BREAKING"
    BY <2>1, <2>4, <2>5 DEF Severities
  <2> QED BY <2>4, <2>5, <2>6, <2>7, <2>8 DEF top
<1> QED BY <1>1, <1>2
\* What diff_and_classify (classifier.py:102-123) reports of two payloads.
LEMMA ReportedClasses ==
    ASSUME NEW u, NEW v, IsJson(u), IsJson(v)
    PROVE  LET classes == diff_and_classify(canonicalize(u), canonicalize(v))
               fu == flatten(canonicalize(u))
               fv == flatten(canonicalize(v))
           IN  /\ classes \subseteq Severities
               /\ \A p \in DOMAIN fu \ DOMAIN fv : "BREAKING" \in classes
               /\ \A p \in DOMAIN fu \cap DOMAIN fv :
                     fu[p] # fv[p] => Changed(fu[p], fv[p]) \in classes
               /\ classes \subseteq {"SAFE"} <=>
                     /\ DOMAIN fu \subseteq DOMAIN fv
                     /\ \A p \in DOMAIN fu : type_of(fu[p]) = type_of(fv[p])
<1> DEFINE classes == diff_and_classify(canonicalize(u), canonicalize(v))
           fu == flatten(canonicalize(u))
           fv == flatten(canonicalize(v))
           both == {q \in DOMAIN fu \cap DOMAIN fv : fu[q] # fv[q]}
<1>1. classes = {Added : p \in DOMAIN fv \ DOMAIN fu} \cup {Removed : p \in DOMAIN fu \ DOMAIN fv}
                  \cup {Changed(fu[p], fv[p]) : p \in both}
  BY DEF diff_and_classify
<1>2. \A p \in DOMAIN fu : IsFlatNode(fu[p])
  BY Flattened
<1>3. \A p \in DOMAIN fv : IsFlatNode(fv[p])
  BY Flattened
<1> HIDE DEF classes, fu, fv
<1>4. \A p \in both :
         /\ Changed(fu[p], fv[p]) \in Severities
         /\ Changed(fu[p], fv[p]) = "SAFE" <=> type_of(fu[p]) = type_of(fv[p])
  BY <1>2, <1>3, ChangedClasses DEF Severities
<1>5. classes \subseteq Severities
  BY <1>1, <1>4 DEF Added, Removed, Severities
<1>6. \A p \in DOMAIN fu \ DOMAIN fv : "BREAKING" \in classes
  BY <1>1 DEF Removed
<1>7. \A p \in DOMAIN fu \cap DOMAIN fv :
         fu[p] # fv[p] => Changed(fu[p], fv[p]) \in classes
  BY <1>1
<1>8. ASSUME classes \subseteq {"SAFE"}
      PROVE  /\ DOMAIN fu \subseteq DOMAIN fv
             /\ \A p \in DOMAIN fu : type_of(fu[p]) = type_of(fv[p])
  <2>1. DOMAIN fu \subseteq DOMAIN fv
    BY <1>6, <1>8
  <2>2. ASSUME NEW p \in DOMAIN fu
        PROVE  type_of(fu[p]) = type_of(fv[p])
    <3>1. CASE fu[p] = fv[p]
      BY <3>1
    <3>2. CASE fu[p] # fv[p]
      BY <3>2, <2>1, <1>7, <1>8, <1>4
    <3> QED BY <3>1, <3>2
  <2> QED BY <2>1, <2>2
<1>9. ASSUME DOMAIN fu \subseteq DOMAIN fv,
             \A p \in DOMAIN fu : type_of(fu[p]) = type_of(fv[p])
      PROVE  classes \subseteq {"SAFE"}
  <2>1. \A p \in both : Changed(fu[p], fv[p]) = "SAFE"
    BY <1>4, <1>9
  <2> QED BY <1>1, <1>9, <2>1 DEF Added
<1> QED BY <1>5, <1>6, <1>7, <1>8, <1>9 DEF classes, fu, fv

\* A version is SAFE against another (summarize_classification) exactly when
\* each flattened path is still there with its type.
LEMMA SafeMeans ==
    ASSUME NEW u, NEW v, IsJson(u), IsJson(v)
    PROVE  LET fu == flatten(canonicalize(u))
               fv == flatten(canonicalize(v))
           IN  Classification(u, v) = "SAFE" <=>
                  /\ DOMAIN fu \subseteq DOMAIN fv
                  /\ \A p \in DOMAIN fu : type_of(fu[p]) = type_of(fv[p])
  BY ReportedClasses, SummaryIsHighest DEF Classification

\* SAFE against SAFE is SAFE, for payloads with typed dicts too: what
\* track_contract (service.py:184-231) relies on when it compares a version
\* with its predecessor only.
LEMMA SafeIsTransitive ==
    ASSUME NEW u, NEW v, NEW w, IsJson(u), IsJson(v), IsJson(w),
           Classification(u, v) = "SAFE", Classification(v, w) = "SAFE"
    PROVE  Classification(u, w) = "SAFE"
<1> DEFINE F(x) == flatten(canonicalize(x))
<1>1. /\ DOMAIN F(u) \subseteq DOMAIN F(v)
      /\ \A p \in DOMAIN F(u) : type_of(F(u)[p]) = type_of(F(v)[p])
  BY SafeMeans
<1>2. /\ DOMAIN F(v) \subseteq DOMAIN F(w)
      /\ \A p \in DOMAIN F(v) : type_of(F(v)[p]) = type_of(F(w)[p])
  BY SafeMeans
<1> HIDE DEF F
<1>3. /\ DOMAIN F(u) \subseteq DOMAIN F(w)
      /\ \A p \in DOMAIN F(u) : type_of(F(u)[p]) = type_of(F(w)[p])
  BY <1>1, <1>2
<1> QED BY <1>3, SafeMeans DEF F

\* A payload is SAFE against itself.
LEMMA SafeIsReflexive ==
    ASSUME NEW u, IsJson(u)
    PROVE  Classification(u, u) = "SAFE"
  BY SafeMeans

\* A value that is gone, outside typed dicts, is a removed path or one at which
\* _flatten now finds a typed dict: BREAKING both (classifier.py:62-66, 68-79).
LEMMA RemovalSeen ==
    ASSUME NEW u, NEW v, IsJson(u), IsJson(v), Told(u, v),
           NEW p \in DOMAIN u, u[p] # "object", ~InTypedDict(canonicalize(u), p),
           p \notin ReadablePaths(v)
    PROVE  Classification(u, v) = "BREAKING"
<1> DEFINE fu == flatten(canonicalize(u))
           fv == flatten(canonicalize(v))
           classes == diff_and_classify(canonicalize(u), canonicalize(v))
           x == PathText(p)
<1>0. Told(u, u) /\ Told(v, v)
  BY DEF Told
<1>1. x \in DOMAIN fu /\ fu[x] \in FlatLeaves
  BY <1>0, ListedNodes, FlattenedTold
<1>2. "BREAKING" \in classes
  <2>1. CASE x \notin DOMAIN fv
    BY <2>1, <1>1, ReportedClasses
  <2>2. CASE x \in DOMAIN fv
    <3>1. PICK q \in Listed(canonicalize(v)) : PathText(q) = x /\ fv[x] = NodeOf(canonicalize(v), q)
      BY <2>2, Flattened
    <3>2. q \in DOMAIN v
      BY <3>1, ListedNodes
    <3>3. q = p
      BY <3>1, <3>2 DEF Told
    <3>4. v[p] = "object"
      <4>1. ASSUME v[p] # "object" PROVE p \in ReadablePaths(v)
        <5>1. <<p, v[p]>> \in Readables(v)
          BY <3>2, <3>3, <4>1 DEF Readables, Sightings
        <5> QED BY <5>1 DEF ReadablePaths
      <4> QED BY <4>1
    <3>5. IsFlatDict(fv[x])
      BY <3>1, <3>3, <3>4, ListedNodes
    <3>6. Changed(fu[x], fv[x]) = "BREAKING" /\ fu[x] # fv[x]
      BY <1>1, <3>5, ChangedClasses DEF IsFlatNode
    <3> QED BY <1>1, <2>2, <3>6, ReportedClasses
  <2> QED BY <2>1, <2>2
<1> QED BY <1>2, ReportedClasses, SummaryIsHighest DEF Classification

\* No payload of a set has a field named "type", at any depth: no dict is taken
\* for a leaf (classifier.py:39).
TypeIsNoField(S) ==
    \A v \in S : \A p \in DOMAIN v : \A i \in 1..Len(p) : p[i] # TypeKey

\* Then _flatten looks into every dict.
LEMMA NoTypedDict ==
    ASSUME NEW S, TypeIsNoField(S), NEW v \in S, IsJson(v)
    PROVE  \A p \in DOMAIN v :
              ~IsTypedDict(canonicalize(v), p) /\ ~InTypedDict(canonicalize(v), p)
<1>1. DOMAIN canonicalize(v) = DOMAIN v /\ DOMAIN v \subseteq Seq(Step)
  BY DEF canonicalize, IsJson
<1>2. ASSUME NEW T, NEW q \in Seq(T), NEW e
      PROVE  Len(q) \in Nat /\ Len(Append(q, e)) = Len(q) + 1 /\ Append(q, e)[Len(q) + 1] = e
  OBVIOUS
<1>3. ASSUME NEW q \in Seq(Step)
      PROVE  Append(q, TypeKey) \notin DOMAIN v
  <2>1. /\ Len(Append(q, TypeKey)) = Len(q) + 1 /\ Len(q) \in Nat
        /\ Append(q, TypeKey)[Len(q) + 1] = TypeKey
    BY <1>2
  <2>2. Len(q) + 1 \in 1..Len(Append(q, TypeKey))
    BY <2>1
  <2>3. ASSUME Append(q, TypeKey) \in DOMAIN v PROVE Append(q, TypeKey)[Len(q) + 1] # TypeKey
    BY <2>2, <2>3, Zenon DEF TypeIsNoField
  <2> QED BY <2>1, <2>3
<1>4. ASSUME NEW p \in DOMAIN v, NEW i \in 0..(Len(p) - 1)
      PROVE  SubSeq(p, 1, i) \in Seq(Step)
  BY <1>1
<1> QED BY <1>1, <1>3, <1>4 DEF IsTypedDict, InTypedDict
\* Then the places it keeps are those that can be read.
LEMMA ListedIsReadable ==
    ASSUME NEW S, TypeIsNoField(S), NEW v \in S, IsJson(v)
    PROVE  Listed(canonicalize(v)) = {p \in DOMAIN v : v[p] # "object"}
  BY NoTypedDict, ListedNodes

\* _type_of (classifier.py:20-27) of a leaf names its type.
LEMMA LeafNames ==
    /\ \A t : type_of(Leaf(t)) = <<"name", t>>
    /\ \A t, x : type_of(Leaf(t)) = <<"name", x>> => t = x
    /\ \A t, x : type_of(Leaf(t)) = type_of(Leaf(x)) => t = x
<1>1. "leaf" # "dict"
  OBVIOUS
<1>2. \A t : type_of(Leaf(t)) = <<"name", t>>
  BY <1>1, LeafParts, Zenon DEF type_of
<1>3. \A t, x : <<"name", t>> = <<"name", x>> => t = x
  OBVIOUS
<1> QED BY <1>2, <1>3

\* So the type of a leaf tells the kind of the value that it stands for.
LEMMA TypeTellsKind ==
    ASSUME NEW u, NEW v, IsJson(u), IsJson(v),
           NEW p \in Listed(canonicalize(u)), NEW q \in Listed(canonicalize(v)),
           u[p] # "object", v[q] # "object",
           type_of(NodeOf(canonicalize(u), p)) = type_of(NodeOf(canonicalize(v), q))
    PROVE  u[p] = v[q]
<1> DEFINE m == NodeOf(canonicalize(u), p)
           n == NodeOf(canonicalize(v), q)
           T(k) == IF k = "array" THEN Leaf("array") ELSE CanonicalNode(k)
<1>1. p \in DOMAIN u /\ q \in DOMAIN v
  BY ListedNodes
<1>2. /\ u[p] \in Kinds /\ v[q] \in Kinds
      /\ m \in FlatLeaves /\ m = T(u[p])
      /\ n \in FlatLeaves /\ n = T(v[q])
  BY <1>1, ListedNodes DEF IsJson, Kinds
<1>5. m = n
  BY <1>2, LeafNames DEF FlatLeaves
<1>6. \A k \in Kinds \ {"object"} :
         /\ k = "null" => T(k) = Leaf("null")
         /\ k = "bool" => T(k) = Leaf("boolean")
         /\ k = "int" => T(k) = Leaf("integer")
         /\ k = "float" => T(k) = Leaf("number")
         /\ k = "str" => T(k) = Leaf("string")
         /\ k = "array" => T(k) = Leaf("array")
  BY ScalarLeaves DEF Kinds, ScalarKinds
<1>7. \A k, l \in Kinds \ {"object"} : T(k) = T(l) => k = l
  <2> HIDE DEF T
  <2>1. \A t, x : Leaf(t) = Leaf(x) => t = x
    BY LeafParts
  <2> QED BY <1>6, <2>1 DEF Kinds, ScalarKinds
<1> HIDE DEF T
<1> QED BY <1>2, <1>5, <1>7

\* SAFE keeps every reader, where the texts of paths tell the fields apart: what
\* could be read is there and has its kind.
LEMMA SafeKeepsReaders ==
    ASSUME NEW S, TypeIsNoField(S), NEW u \in S, NEW v \in S, IsJson(u), IsJson(v),
           Told(u, v), Classification(u, v) = "SAFE"
    PROVE  Readables(u) \subseteq Readables(v)
<1> DEFINE fu == flatten(canonicalize(u))
           fv == flatten(canonicalize(v))
<1>0. Told(u, u)
  BY DEF Told
<1>1. /\ Listed(canonicalize(u)) = {p \in DOMAIN u : u[p] # "object"}
      /\ Listed(canonicalize(v)) = {p \in DOMAIN v : v[p] # "object"}
  BY ListedIsReadable
<1>2. /\ DOMAIN fu \subseteq DOMAIN fv
      /\ \A x \in DOMAIN fu : type_of(fu[x]) = type_of(fv[x])
  BY SafeMeans
<1>3. ASSUME NEW p \in DOMAIN u, u[p] # "object"
      PROVE  p \in DOMAIN v /\ v[p] # "object" /\ u[p] = v[p]
  <2>1. p \in Listed(canonicalize(u))
    BY <1>1, <1>3
  <2>2. PathText(p) \in DOMAIN fu /\ fu[PathText(p)] = NodeOf(canonicalize(u), p)
    BY <1>0, <2>1, FlattenedTold
  <2>3. PICK q \in Listed(canonicalize(v)) :
           PathText(q) = PathText(p) /\ fv[PathText(p)] = NodeOf(canonicalize(v), q)
    BY <1>2, <2>2, Flattened
  <2>4. q \in DOMAIN v /\ v[q] # "object"
    BY <1>1, <2>3
  <2>5. q = p
    BY <2>3, <2>4 DEF Told
  <2>6. type_of(NodeOf(canonicalize(u), p)) = type_of(NodeOf(canonicalize(v), p))
    BY <1>2, <2>2, <2>3, <2>5
  <2> QED BY <2>1, <2>3, <2>4, <2>5, <2>6, <1>3, TypeTellsKind
<1> QED BY <1>3 DEF Readables, Sightings

\* What Track maintains: the three payloads are among those submitted, the class
\* is that of the newest two, and base is where a chain of SAFE versions began.
ChainInv ==
    /\ base \in Payloads /\ prior \in Payloads /\ payload \in Payloads
    /\ class = Classification(prior, payload)
    /\ Classification(base, payload) = "SAFE"

\* track_contract (service.py:145-231) keeps that, for all sets of payloads.
LEMMA ChainInvariant == Spec => []ChainInv
<1>1. Init => ChainInv
  BY PayloadsAssumption, SafeIsReflexive DEF Init, ChainInv
<1>2. ChainInv /\ [Next]_vars => ChainInv'
  <2> SUFFICES ASSUME ChainInv, [Next]_vars PROVE ChainInv'
    OBVIOUS
  <2>1. ASSUME NEW p \in Payloads, Track(p) PROVE ChainInv'
    <3>1. IsJson(base) /\ IsJson(payload) /\ IsJson(p)
      BY PayloadsAssumption DEF ChainInv
    <3>2. /\ prior' = payload /\ payload' = p /\ class' = Classification(payload, p)
          /\ base' = IF class' = "SAFE" THEN base ELSE p
      BY <2>1 DEF Track
    <3>3. CASE class' = "SAFE"
      <4>1. Classification(base, p) = "SAFE"
        BY <3>1, <3>2, <3>3, SafeIsTransitive DEF ChainInv
      <4> QED BY <3>2, <3>3, <4>1 DEF ChainInv
    <3>4. CASE class' # "SAFE"
      <4>1. Classification(p, p) = "SAFE"
        BY <3>1, SafeIsReflexive
      <4> QED BY <3>2, <3>4, <4>1 DEF ChainInv
    <3> QED BY <3>3, <3>4
  <2>2. CASE UNCHANGED vars
    BY <2>2 DEF ChainInv, vars
  <2> QED BY <2>1, <2>2 DEF Next
<1> QED BY <1>1, <1>2, PTL DEF Spec

\* A value that is gone from a version, unless it was inside a dict that has a
\* field "type" or another field's path has the same text.
RemovalSeenIsBreaking ==
    Told(prior, payload) =>
       \A p \in ReadablePaths(prior) \ ReadablePaths(payload) :
          ~InTypedDict(canonicalize(prior), p) => class = "BREAKING"

\* The paths that can be read (JsonPayload), spelled out for the proofs.
LEMMA ReadablePathsAre ==
    ASSUME NEW v
    PROVE  ReadablePaths(v) = {p \in DOMAIN v : v[p] # "object"}
<1>1. ASSUME NEW p \in ReadablePaths(v) PROVE p \in DOMAIN v /\ v[p] # "object"
  <2>1. PICK x \in Sightings(v) : x[2] # "object" /\ p = x[1]
    BY DEF ReadablePaths, Readables
  <2>2. PICK q \in DOMAIN v : x = <<q, v[q]>>
    BY DEF Sightings
  <2>3. x[1] = q /\ x[2] = v[q]
    BY <2>2
  <2> QED BY <2>1, <2>3
<1>2. ASSUME NEW p \in DOMAIN v, v[p] # "object" PROVE p \in ReadablePaths(v)
  <2>1. <<p, v[p]>> \in Readables(v)
    BY <1>2 DEF Readables, Sightings
  <2> QED BY <2>1 DEF ReadablePaths
<1> QED BY <1>1, <1>2

\* A removal that _flatten sees is BREAKING (classifier.py:36-66): where the texts
\* of paths tell the fields apart, classifier_type_field's counterexamples, with
\* a field "type", are the only ones.
THEOREM RemovalSeenIsBreakingCorrect == Spec => []RemovalSeenIsBreaking
<1>1. ChainInv => RemovalSeenIsBreaking
  <2> SUFFICES ASSUME ChainInv, Told(prior, payload),
                      NEW p \in ReadablePaths(prior) \ ReadablePaths(payload),
                      ~InTypedDict(canonicalize(prior), p)
               PROVE  class = "BREAKING"
    BY DEF RemovalSeenIsBreaking
  <2>1. IsJson(prior) /\ IsJson(payload)
    BY PayloadsAssumption DEF ChainInv
  <2>2. p \in DOMAIN prior /\ prior[p] # "object" /\ p \notin ReadablePaths(payload)
    BY ReadablePathsAre
  <2>3. class = Classification(prior, payload)
    BY DEF ChainInv
  <2> QED BY <2>1, <2>2, <2>3, RemovalSeen
<1> QED BY <1>1, ChainInvariant, PTL

\* Where no payload has a field "type", every removal is seen: a version from
\* which something readable is gone is BREAKING (classifier.py:62-66), if the
\* texts of paths (classifier.py:43, 49) tell the fields of the two apart.
THEOREM RemovalIsBreakingCorrect ==
    ASSUME TypeIsNoField(Payloads)
    PROVE  Spec => []RemovalIsBreaking
<1>1. ChainInv /\ RemovalSeenIsBreaking => RemovalIsBreaking
  <2> SUFFICES ASSUME ChainInv, RemovalSeenIsBreaking, Told(prior, payload),
                      NEW p \in ReadablePaths(prior), p \notin ReadablePaths(payload)
               PROVE  class = "BREAKING"
    BY DEF RemovalIsBreaking
  <2>1. prior \in Payloads /\ IsJson(prior)
    BY PayloadsAssumption DEF ChainInv
  <2>2. p \in DOMAIN prior
    BY ReadablePathsAre
  <2>3. ~InTypedDict(canonicalize(prior), p)
    BY <2>1, <2>2, NoTypedDict
  <2> QED BY <2>3 DEF RemovalSeenIsBreaking
<1> QED BY <1>1, ChainInvariant, RemovalSeenIsBreakingCorrect, PTL

\* Without a field "type", versions that are SAFE one against the other are SAFE
\* from the first to the last; they keep all readers of the first if the texts of
\* paths (classifier.py:43, 49) tell the fields of the first and the last apart
\* (service.py:184-231, classifier.py:55-130).
THEOREM SafeStepsComposeCorrect ==
    ASSUME TypeIsNoField(Payloads)
    PROVE  Spec => []SafeStepsCompose
<1>1. ChainInv => SafeStepsCompose
  <2> SUFFICES ASSUME ChainInv PROVE SafeStepsCompose
    OBVIOUS
  <2>1. /\ base \in Payloads /\ payload \in Payloads /\ IsJson(base) /\ IsJson(payload)
        /\ Classification(base, payload) = "SAFE"
    BY PayloadsAssumption DEF ChainInv
  <2>2. Told(base, payload) => Readables(base) \subseteq Readables(payload)
    BY <2>1, SafeKeepsReaders
  <2> QED BY <2>1, <2>2 DEF SafeStepsCompose
<1> QED BY <1>1, ChainInvariant, PTL
-----------------------------------------------------------------------------
(***************************************************************************)
(* The comparison of the legacy tables.                                    *)
(***************************************************************************)

\* The rows of a request are those of its comparison with the baseline, none
\* where the fingerprints agree.
LegacyInv ==
    /\ baseline \in Submissions /\ incoming \in Submissions
    /\ violations = IF fingerprint_schema(baseline) # fingerprint_schema(incoming)
                    THEN Logged(structural_diff(baseline, incoming)) ELSE {}

\* track_payload (main.py:161-175) keeps that, for all sets of payloads.
LEMMA LegacyInvariant == LegacySpec => []LegacyInv
<1>1. LegacyInit => LegacyInv
  BY DEF LegacyInit, LegacyInv
<1>2. LegacyInv /\ [LegacyNext]_legacyVars => LegacyInv'
  <2> SUFFICES ASSUME LegacyInv, [LegacyNext]_legacyVars PROVE LegacyInv'
    OBVIOUS
  <2>1. ASSUME NEW v \in Submissions, Submit(v) PROVE LegacyInv'
    BY <2>1 DEF Submit, LegacyInv
  <2>2. CASE UNCHANGED legacyVars
    BY <2>2 DEF LegacyInv, legacyVars
  <2> QED BY <2>1, <2>2 DEF LegacyNext
<1> QED BY <1>1, <1>2, PTL DEF LegacySpec

\* The places that _flatten_schema (engine.py:16-29) keeps, and the kind of the
\* one that a text stands for.
LeafPaths(v) == {p \in DOMAIN v : v[p] # "object"}
KindAt(v, x) == v[PathAt(LeafPaths(v), x)]

\* A text among its keys has the name of that kind.
LEMMA LegacyTypes ==
    ASSUME NEW v, IsJson(v), NEW x
    PROVE  LET t == TypeAt(flatten_schema(v), x) IN
           /\ DOMAIN flatten_schema(v) = Texts(LeafPaths(v))
           /\ x \in Texts(LeafPaths(v)) =>
                 /\ t = primitive_type(KindAt(v, x)) /\ t # "None"
                 /\ KindAt(v, x) \in Kinds \ {"object"}
           /\ x \notin Texts(LeafPaths(v)) => t = "None"
<1>1. flatten_schema(v) = [y \in Texts(LeafPaths(v)) |-> primitive_type(KindAt(v, y))]
  BY DEF flatten_schema, Flat, Texts, PathAt, LeafPaths, KindAt
<1>2. x \in Texts(LeafPaths(v)) => KindAt(v, x) \in Kinds \ {"object"}
  <2>1. x \in Texts(LeafPaths(v)) => PathAt(LeafPaths(v), x) \in LeafPaths(v)
    BY TextsStandForPaths
  <2>2. \A p \in LeafPaths(v) : v[p] \in Kinds \ {"object"}
    BY DEF LeafPaths, IsJson
  <2> QED BY <2>1, <2>2 DEF KindAt
<1>3. \A k \in Kinds : primitive_type(k) # "None"
  BY DEF Kinds, ScalarKinds, primitive_type
<1> QED BY <1>1, <1>2, <1>3 DEF TypeAt

\* What a row of contract_drift_violations says: a path was removed, or its
\* primitive type is another (engine.py:196-231); or it is a SAFE addition.
LEMMA RowMeans ==
    ASSUME NEW u, NEW v, IsJson(u), IsJson(v), NEW row \in Logged(structural_diff(u, v))
    PROVE  \/ row[2] = "SAFE"
           \/ \E x \in Texts(LeafPaths(u)) :
                 \/ row[2] = "BREAKING" /\ x \notin Texts(LeafPaths(v))
                 \/ /\ x \in Texts(LeafPaths(v)) /\ KindAt(u, x) # KindAt(v, x)
                    /\ \/ row[2] = "BREAKING" /\ ~(KindAt(u, x) = "int" /\ KindAt(v, x) = "float")
                       \/ row[2] = "RISKY"
<1>1. PICK d \in structural_diff(u, v) :
         classify_contract_drift(d) # "None" /\ row = <<d, classify_contract_drift(d)>>
  BY DEF Logged
<1>2. row[2] = classify_contract_drift(d)
  BY <1>1
<1>3. PICK x : d = [path |-> x, old |-> TypeAt(flatten_schema(u), x),
                    new |-> TypeAt(flatten_schema(v), x)] /\ d.old # d.new
  BY DEF structural_diff
<1>4. d.old = TypeAt(flatten_schema(u), x) /\ d.new = TypeAt(flatten_schema(v), x)
  BY <1>3
<1>5. CASE x \notin Texts(LeafPaths(u))
  <2>1. d.old = "None"
    BY <1>4, <1>5, LegacyTypes
  <2> QED BY <1>2, <2>1 DEF classify_contract_drift, primitive_types
<1>6. CASE x \in Texts(LeafPaths(u)) /\ x \notin Texts(LeafPaths(v))
  <2>1. d.old # "None" /\ d.new = "None"
    BY <1>4, <1>6, LegacyTypes
  <2>2. row[2] = "BREAKING"
    BY <2>1, <1>2 DEF classify_contract_drift, primitive_types
  <2> QED BY <1>6, <2>2
<1>7. CASE x \in Texts(LeafPaths(u)) /\ x \in Texts(LeafPaths(v))
  <2>1. /\ d.old = primitive_type(KindAt(u, x)) /\ d.new = primitive_type(KindAt(v, x))
        /\ d.old # "None" /\ d.new # "None"
        /\ KindAt(u, x) \in Kinds /\ KindAt(v, x) \in Kinds
    BY <1>4, <1>7, LegacyTypes
  <2>2. KindAt(u, x) # KindAt(v, x)
    BY <1>3, <2>1
  <2>3. row[2] = IF d.old = "int" /\ d.new = "float" THEN "RISKY" ELSE "BREAKING"
    BY <2>1, <1>1, <1>2 DEF classify_contract_drift
  <2>4. (d.old = "int" /\ d.new = "float") <=> (KindAt(u, x) = "int" /\ KindAt(v, x) = "float")
    BY <2>1 DEF primitive_type, Kinds, ScalarKinds
  <2> QED BY <1>7, <2>2, <2>3, <2>4
<1> QED BY <1>5, <1>6, <1>7

\* Without a field "type" both classifiers flatten to the same texts, and of two
\* places with one text the same one stays.
LEMMA FlattenedAlike ==
    ASSUME NEW S, TypeIsNoField(S), NEW v \in S, IsJson(v)
    PROVE  LET f == flatten(canonicalize(v)) IN
           /\ DOMAIN f = Texts(LeafPaths(v))
           /\ \A x \in DOMAIN f :
                 LET p == PathAt(LeafPaths(v), x) IN
                 /\ p \in Listed(canonicalize(v)) /\ v[p] # "object" /\ p \in DOMAIN v
                 /\ f[x] = NodeOf(canonicalize(v), p)
<1>1. Listed(canonicalize(v)) = LeafPaths(v)
  BY ListedIsReadable DEF LeafPaths
<1>2. \A p \in LeafPaths(v) : v[p] # "object" /\ p \in DOMAIN v
  BY DEF LeafPaths
<1> QED BY <1>1, <1>2, Flattened

\* Then the registry's class of a change is at least as severe as the difference
\* in kind at one text (classifier.py:68-79).
LEMMA ChangeSeen ==
    ASSUME NEW S, TypeIsNoField(S), NEW u \in S, NEW v \in S, IsJson(u), IsJson(v),
           NEW x, x \in Texts(LeafPaths(u)), x \in Texts(LeafPaths(v)), KindAt(u, x) # KindAt(v, x)
    PROVE  /\ Classification(u, v) \in {"RISKY", "BREAKING"}
           /\ ~(KindAt(u, x) = "int" /\ KindAt(v, x) = "float") => Classification(u, v) = "BREAKING"
<1> DEFINE fu == flatten(canonicalize(u))
           fv == flatten(canonicalize(v))
           p == PathAt(LeafPaths(u), x)
           q == PathAt(LeafPaths(v), x)
           classes == diff_and_classify(canonicalize(u), canonicalize(v))
           cl == Changed(fu[x], fv[x])
<1>1. /\ x \in DOMAIN fu /\ p \in Listed(canonicalize(u)) /\ u[p] # "object" /\ p \in DOMAIN u
      /\ fu[x] = NodeOf(canonicalize(u), p)
  BY FlattenedAlike
<1>2. /\ x \in DOMAIN fv /\ q \in Listed(canonicalize(v)) /\ v[q] # "object" /\ q \in DOMAIN v
      /\ fv[x] = NodeOf(canonicalize(v), q)
  BY FlattenedAlike
<1>3. KindAt(u, x) = u[p] /\ KindAt(v, x) = v[q]
  BY DEF KindAt
<1>4. type_of(fu[x]) # type_of(fv[x])
  <2> HIDE DEF p, q, fu, fv
  <2> QED BY <1>1, <1>2, <1>3, TypeTellsKind
<1>5. fu[x] # fv[x] /\ cl \in {"RISKY", "BREAKING"}
  BY <1>4 DEF Changed
<1>6. ASSUME cl # "BREAKING" PROVE u[p] = "int" /\ v[q] = "float"
  <2>1. type_of(fu[x]) = <<"name", "integer">> /\ type_of(fv[x]) = <<"name", "number">>
    BY <1>4, <1>6 DEF Changed
  <2>2. \A k \in Kinds \ {"object"} :
           LET n == IF k = "array" THEN Leaf("array") ELSE CanonicalNode(k) IN
           /\ type_of(n) = <<"name", "integer">> => k = "int"
           /\ type_of(n) = <<"name", "number">> => k = "float"
    BY LeafNames, ScalarLeaves DEF Kinds, ScalarKinds
  <2> HIDE DEF fu, fv, p, q
  <2>3. /\ u[p] \in Kinds \ {"object"} /\ v[q] \in Kinds \ {"object"}
        /\ fu[x] = (IF u[p] = "array" THEN Leaf("array") ELSE CanonicalNode(u[p]))
        /\ fv[x] = (IF v[q] = "array" THEN Leaf("array") ELSE CanonicalNode(v[q]))
    <3>1. u[p] \in Kinds \ {"object"} /\ v[q] \in Kinds \ {"object"}
      BY <1>1, <1>2 DEF IsJson
    <3>2. /\ u[p] \in ScalarKinds => fu[x] = CanonicalNode(u[p])
          /\ u[p] = "array" => fu[x] = Leaf("array")
      BY <1>1, ListedNodes
    <3>3. /\ v[q] \in ScalarKinds => fv[x] = CanonicalNode(v[q])
          /\ v[q] = "array" => fv[x] = Leaf("array")
      BY <1>2, ListedNodes
    <3> QED BY <3>1, <3>2, <3>3 DEF Kinds
  <2> QED BY <2>1, <2>2, <2>3
<1>7. cl \in classes /\ classes \subseteq Severities
  BY <1>1, <1>2, <1>5, ReportedClasses
<1> HIDE DEF fu, fv, cl, classes, p, q
<1>8. /\ SeverityRank["SAFE"] = 0 /\ SeverityRank["BACKWARD_COMPATIBLE"] = 1
      /\ SeverityRank["FORWARD_COMPATIBLE"] = 2 /\ SeverityRank["RISKY"] = 3
      /\ SeverityRank["BREAKING"] = 4
  BY DEF SeverityRank
<1>9. /\ Classification(u, v) \in Severities
      /\ SeverityRank[cl] <= SeverityRank[Classification(u, v)]
  BY <1>7, SummaryIsHighest DEF Classification, classes
<1>10. /\ Classification(u, v) \in {"RISKY", "BREAKING"}
       /\ cl = "BREAKING" => Classification(u, v) = "BREAKING"
  BY <1>5, <1>8, <1>9 DEF Severities
<1> QED BY <1>3, <1>6, <1>10

\* Without a field "type", the legacy report of POST /track (main.py:177-182)
\* never warns of what the registry's classifier finds harmless.
THEOREM LegacyWarnsNoEarlierCorrect ==
    ASSUME TypeIsNoField(Submissions)
    PROVE  LegacySpec => []LegacyWarnsNoEarlier
<1>1. LegacyInv => LegacyWarnsNoEarlier
  <2> SUFFICES ASSUME LegacyInv, NEW row \in violations
               PROVE  SeverityRank[row[2]] <= SeverityRank[Classification(baseline, incoming)]
    BY DEF LegacyWarnsNoEarlier
  <2>1. /\ baseline \in Submissions /\ incoming \in Submissions
        /\ IsJson(baseline) /\ IsJson(incoming)
    BY SubmissionsAssumption DEF LegacyInv
  <2>2. row \in Logged(structural_diff(baseline, incoming))
    BY DEF LegacyInv
  <2>3. Classification(baseline, incoming) \in Severities
    BY <2>1, ReportedClasses, SummaryIsHighest DEF Classification
  <2>4. /\ SeverityRank["SAFE"] = 0 /\ SeverityRank["BACKWARD_COMPATIBLE"] = 1
        /\ SeverityRank["FORWARD_COMPATIBLE"] = 2 /\ SeverityRank["RISKY"] = 3
        /\ SeverityRank["BREAKING"] = 4
    BY DEF SeverityRank
  <2>5. CASE row[2] = "SAFE"
    BY <2>3, <2>4, <2>5 DEF Severities
  <2>6. CASE row[2] # "SAFE"
    <3>1. PICK x \in Texts(LeafPaths(baseline)) :
             \/ row[2] = "BREAKING" /\ x \notin Texts(LeafPaths(incoming))
             \/ /\ x \in Texts(LeafPaths(incoming)) /\ KindAt(baseline, x) # KindAt(incoming, x)
                /\ \/ /\ row[2] = "BREAKING"
                      /\ ~(KindAt(baseline, x) = "int" /\ KindAt(incoming, x) = "float")
                   \/ row[2] = "RISKY"
      BY <2>1, <2>2, <2>6, RowMeans
    <3>2. CASE x \notin Texts(LeafPaths(incoming))
      <4>1. /\ DOMAIN flatten(canonicalize(baseline)) = Texts(LeafPaths(baseline))
            /\ DOMAIN flatten(canonicalize(incoming)) = Texts(LeafPaths(incoming))
        BY <2>1, FlattenedAlike
      <4>2. Classification(baseline, incoming) = "BREAKING"
        BY <2>1, <3>2, <4>1, ReportedClasses, SummaryIsHighest DEF Classification
      <4> QED BY <3>1, <3>2, <4>2, <2>4
    <3>3. CASE x \in Texts(LeafPaths(incoming))
      <4>1. /\ Classification(baseline, incoming) \in {"RISKY", "BREAKING"}
            /\ ~(KindAt(baseline, x) = "int" /\ KindAt(incoming, x) = "float") =>
                  Classification(baseline, incoming) = "BREAKING"
        BY <2>1, <3>1, <3>3, ChangeSeen
      <4> QED BY <3>1, <3>3, <4>1, <2>4
    <3> QED BY <3>2, <3>3
  <2> QED BY <2>5, <2>6
<1> QED BY <1>1, LegacyInvariant, PTL
-----------------------------------------------------------------------------
(***************************************************************************)
(* Fingerprints of the legacy tables.  extract_structural_type is a        *)
(* recursive function; that it satisfies its own equation, and what equal  *)
(* fingerprints say, is shown by induction on the length of paths: a       *)
(* non-empty set of numbers, here of counterexamples, has a least element. *)
(***************************************************************************)

\* The least number of a set, for inductions over the depth of the recursion of
\* extract_structural_type (parser.py:29-52).
LEMMA LeastNumber ==
    ASSUME NEW T, T \subseteq Nat, T # {}
    PROVE  \E n \in T : \A m \in T : n <= m
<1>1. PICK n \in T : \A m \in T : ~(<<m, n>> \in OpToRel(<, Nat))
  BY NatLessThanWellFounded, WFMin
<1>2. \A m \in T : ~(m < n)
  BY <1>1 DEF OpToRel
<1>3. \A m \in T : n <= m
  BY ONLY <1>2, n \in T, T \subseteq Nat
<1> QED BY ONLY <1>3, n \in T

\* A path is the path to the object or array it leads into, and a step.
LEMMA PathSplits ==
    ASSUME NEW q \in Seq(Step), q # <<>>
    PROVE  /\ q = Append(Parent(q), LastStep(q)) /\ LastStep(q) \in Step
           /\ Len(Parent(q)) = Len(q) - 1 /\ Len(q) \in Nat \ {0}
           /\ Parent(q) \in Seq(Step)
<1>1. q \in Seq(Step) /\ Len(q) \in Nat \ {0}
  OBVIOUS
<1>2. Len(q) \in 1..Len(q) /\ LastStep(q) \in Step
  BY <1>1 DEF LastStep
<1>3. Parent(q) \in Seq(Step) /\ Len(Parent(q)) = Len(q) - 1
  <2>1. \A i \in 1..(Len(q) - 1) : q[i] \in Step
    BY <1>1
  <2>2. 1 \in Int /\ Len(q) - 1 \in Int
    BY <1>1
  <2>3. /\ SubSeq(q, 1, Len(q) - 1) \in Seq(Step)
        /\ Len(SubSeq(q, 1, Len(q) - 1)) = IF 1 <= Len(q) - 1 THEN Len(q) - 1 - 1 + 1 ELSE 0
    BY <2>1, <2>2, SubSeqProperties
  <2>4. \A n \in Nat \ {0} : (IF 1 <= n - 1 THEN n - 1 - 1 + 1 ELSE 0) = n - 1
    OBVIOUS
  <2>5. Len(SubSeq(q, 1, Len(q) - 1)) = Len(q) - 1
    BY ONLY <1>1, <2>3, <2>4, Zenon
  <2> QED BY <2>3, <2>5, Zenon DEF Parent
<1>4. \A i \in 1..(Len(q) - 1) : Parent(q)[i] = q[i]
  BY <1>1 DEF Parent
<1>5. LET a == Append(Parent(q), LastStep(q)) IN
      /\ a \in Seq(Step) /\ Len(a) = Len(q)
      /\ \A i \in 1..Len(q) : a[i] = q[i]
  BY <1>1, <1>2, <1>3, <1>4 DEF LastStep
<1>6. q = Append(Parent(q), LastStep(q))
  BY <1>1, <1>5, SeqEqual
<1> QED BY <1>1, <1>2, <1>3, <1>6

\* The steps into a value of a payload are those that lead to another of its
\* values, one longer.
LEMMA StepsLead ==
    ASSUME NEW v, IsJson(v), NEW p \in DOMAIN v
    PROVE  /\ p \in Seq(Step) /\ Len(p) \in Nat
           /\ \A s \in Steps(v, p) :
                 /\ s \in Step /\ Append(p, s) \in DOMAIN v
                 /\ Append(p, s) # <<>> /\ Len(Append(p, s)) = Len(p) + 1
                 /\ Parent(Append(p, s)) = p /\ LastStep(Append(p, s)) = s
           /\ p # <<>> => /\ Parent(p) \in DOMAIN v /\ LastStep(p) \in Steps(v, Parent(p))
                          /\ p = Append(Parent(p), LastStep(p))
                          /\ Len(Parent(p)) = Len(p) - 1
                          /\ LastStep(p) \in Step
<1>1. DOMAIN v \subseteq Seq(Step)
  BY DEF IsJson
<1>2. ASSUME NEW q \in DOMAIN v, q # <<>>
      PROVE  /\ q = Append(Parent(q), LastStep(q)) /\ LastStep(q) \in Step
             /\ Len(Parent(q)) = Len(q) - 1 /\ Len(q) \in Nat \ {0}
             /\ Parent(q) \in Seq(Step)
  BY <1>1, <1>2, PathSplits
<1>3. ASSUME NEW s \in Steps(v, p)
      PROVE  /\ s \in Step /\ Append(p, s) \in DOMAIN v
             /\ Append(p, s) # <<>> /\ Len(Append(p, s)) = Len(p) + 1
             /\ Parent(Append(p, s)) = p /\ LastStep(Append(p, s)) = s
  <2>1. PICK q \in DOMAIN v : q # <<>> /\ Parent(q) = p /\ s = LastStep(q)
    BY <1>3 DEF Steps
  <2>2. q = Append(p, s) /\ s \in Step /\ Len(p) = Len(q) - 1 /\ Len(q) \in Nat
    BY <1>2, <2>1
  <2> QED BY <2>1, <2>2
<1>4. ASSUME p # <<>>
      PROVE  /\ Parent(p) \in DOMAIN v /\ LastStep(p) \in Steps(v, Parent(p))
             /\ p = Append(Parent(p), LastStep(p))
             /\ Len(Parent(p)) = Len(p) - 1 /\ LastStep(p) \in Step
  <2>1. Parent(p) \in DOMAIN v
    BY <1>4 DEF IsJson
  <2>2. LastStep(p) \in Steps(v, Parent(p))
    BY <1>4 DEF Steps
  <2> QED BY <1>2, <1>4, <2>1, <2>2
<1> QED BY <1>1, <1>3, <1>4

\* The structures below a value, as a function of those at all paths.
Kids(g, v, p) == [s \in Steps(v, p) |-> g[Append(p, s)]]

\* The structures of a payload exist, level by level from its deepest values up:
\* the recursion of extract_structural_type (parser.py:29-52) ends.
LEMMA StructuresExist ==
    ASSUME NEW v, IsJson(v)
    PROVE  \E g : g = [p \in DOMAIN v |-> resolve(v[p], Kids(g, v, p))]
<1>1. PICK deepest \in DOMAIN v : \A p \in DOMAIN v : Len(p) <= Len(deepest)
  BY DEF IsJson
<1>2. Len(deepest) \in Nat /\ \A p \in DOMAIN v : Len(p) \in Nat
  BY StepsLead
<1> DEFINE L(n) == {p \in DOMAIN v : Len(p) + n > Len(deepest)}
           Good(g, n) == /\ g = [p \in L(n) |-> g[p]]
                         /\ \A p \in L(n) : g[p] = resolve(v[p], Kids(g, v, p))
           Missing == {n \in Nat : ~\E g : Good(g, n)}
<1>3. \E g : Good(g, 0)
  <2>1. L(0) = {}
    BY <1>1, <1>2
  <2>2. Good([p \in {} |-> 0], 0)
    <3> HIDE DEF L
    <3>1. [p \in {} |-> 0] = [p \in L(0) |-> [q \in {} |-> 0][p]]
      BY <2>1
    <3> QED BY <2>1, <3>1
  <2> QED BY <2>2
<1>4. ASSUME NEW n \in Nat, \E g : Good(g, n)
      PROVE  \E g : Good(g, n + 1)
  <2>1. PICK g : Good(g, n)
    BY <1>4
  <2> DEFINE h == [p \in L(n + 1) |-> IF p \in L(n) THEN g[p] ELSE resolve(v[p], Kids(g, v, p))]
  <2>2. L(n) \subseteq L(n + 1)
    BY <1>2
  <2>3. ASSUME NEW p \in L(n + 1), NEW s \in Steps(v, p)
        PROVE  Append(p, s) \in L(n)
    BY <1>2, StepsLead
  <2> HIDE DEF L
  <2>4. \A p \in L(n) : h[p] = g[p]
    BY <2>2
  <2>5. ASSUME NEW p \in L(n + 1) PROVE Kids(h, v, p) = Kids(g, v, p)
    <3>1. \A s \in Steps(v, p) : h[Append(p, s)] = g[Append(p, s)]
      BY <2>3, <2>4
    <3> HIDE DEF h
    <3> QED BY <3>1 DEF Kids
  <2>6. ASSUME NEW p \in L(n + 1) PROVE h[p] = resolve(v[p], Kids(h, v, p))
    <3>1. h[p] = resolve(v[p], Kids(g, v, p))
      <4>1. CASE p \in L(n)
        BY <4>1, <2>1, <2>4
      <4>2. CASE p \notin L(n)
        BY <4>2
      <4> QED BY <4>1, <4>2
    <3> HIDE DEF h
    <3> QED BY <3>1, <2>5
  <2>7. h = [p \in L(n + 1) |-> h[p]]
    OBVIOUS
  <2> HIDE DEF h
  <2>8. Good(h, n + 1)
    BY <2>6, <2>7
  <2> QED BY <2>8
<1> HIDE DEF Good, L
<1>5. Missing = {}
  <2> SUFFICES ASSUME Missing # {} PROVE FALSE
    OBVIOUS
  <2>1. PICK n \in Missing : \A m \in Missing : n <= m
    BY LeastNumber
  <2>2. n \in Nat /\ n # 0
    BY <1>3
  <2>3. n - 1 \in Nat /\ (n - 1) + 1 = n /\ ~(n <= n - 1)
    BY <2>2
  <2>4. \E g : Good(g, n - 1)
    BY <2>1, <2>3
  <2>5. \E g : Good(g, n)
    BY <1>4, <2>3, <2>4
  <2> QED BY <2>5
<1>6. PICK g : Good(g, Len(deepest) + 1)
  <2>1. Len(deepest) + 1 \in Nat
    BY <1>2
  <2>2. Len(deepest) + 1 \notin Missing
    <3> HIDE DEF Missing
    <3> QED BY <1>5
  <2> QED BY <2>1, <2>2
<1>7. L(Len(deepest) + 1) = DOMAIN v
  BY <1>2 DEF L
<1>8. g = [p \in DOMAIN v |-> resolve(v[p], Kids(g, v, p))]
  BY <1>6, <1>7 DEF Good
<1> QED BY <1>8

\* So extract_structural_type is what its recursion says at every path.
LEMMA StructureUnfolds ==
    ASSUME NEW v, IsJson(v), NEW p \in DOMAIN v
    PROVE  extract_structural_type(v)[p] = resolve(v[p], Kids(extract_structural_type(v), v, p))
<1> DEFINE Eq(g) == g = [q \in DOMAIN v |-> resolve(v[q], [s \in Steps(v, q) |-> g[Append(q, s)]])]
           st == extract_structural_type(v)
<1>1. st = CHOOSE g : Eq(g)
  BY DEF extract_structural_type
<1>2. \E g : Eq(g)
  BY StructuresExist DEF Kids
<1> HIDE DEF Eq
<1>3. Eq(st)
  BY <1>1, <1>2
<1> HIDE DEF st
<1>4. st = [q \in DOMAIN v |-> resolve(v[q], Kids(st, v, q))]
  BY <1>3 DEF Eq, Kids
<1> QED BY <1>4 DEF st
\* A structure tells an object, an array and a primitive type apart, and is
\* never the "empty_array" that stands for no items (parser.py:34).
LEMMA ResolveParts ==
    ASSUME NEW k \in Kinds, NEW b
    PROVE  /\ k = "object" => resolve(k, b) = <<"object", b>>
           /\ resolve(k, b)[1] = IF k \in ScalarKinds THEN "type" ELSE k
           /\ k \in ScalarKinds => resolve(k, b)[2] = primitive_type(k)
           /\ resolve(k, b) # <<"type", "empty_array">>
<1> DEFINE items == {s \in DOMAIN b : b[s][1] # "type"}
           inner == {b[s] : s \in DOMAIN b \ items}
           structures == [t \in {b[s] : s \in items} |-> Cardinality({s \in items : b[s] = t})]
<1>1. /\ k = "object" => resolve(k, b) = <<"object", b>>
      /\ k = "array" /\ DOMAIN b = {} => resolve(k, b) = <<"array", {<<"type", "empty_array">>}, <<>>>>
      /\ k = "array" /\ DOMAIN b # {} => resolve(k, b) = <<"array", inner, structures>>
      /\ k \in ScalarKinds => resolve(k, b) = <<"type", primitive_type(k)>>
  <2> HIDE DEF items, structures, inner
  <2>1. resolve(k, b) = CASE k = "object" -> <<"object", b>>
          [] k = "array" /\ DOMAIN b = {} -> <<"array", {<<"type", "empty_array">>}, <<>>>>
          [] k = "array" /\ DOMAIN b # {} -> <<"array", inner, structures>>
          [] OTHER -> <<"type", primitive_type(k)>>
    BY DEF resolve, items, inner, structures
  <2> QED BY <2>1 DEF ScalarKinds
<1>2. /\ \A x, y : <<x, y>>[1] = x /\ <<x, y>>[2] = y
      /\ \A x, y, z : <<x, y, z>>[1] = x
  OBVIOUS
<1>3. k \in ScalarKinds => primitive_type(k) # "empty_array"
  BY DEF primitive_type, ScalarKinds
<1>4. k \in ScalarKinds \/ k = "object" \/ k = "array"
  BY DEF Kinds
<1>5. "type" # "object" /\ "type" # "array" /\ "object" \notin ScalarKinds /\ "array" \notin ScalarKinds
  BY DEF ScalarKinds
<1> HIDE DEF items, inner, structures
<1>6. CASE k = "object"
  BY <1>1, <1>2, <1>5, <1>6
<1>7. CASE k = "array"
  <2>1. \E x, y : resolve(k, b) = <<"array", x, y>>
    BY <1>1, <1>7, Zenon
  <2>2. resolve(k, b)[1] = "array"
    BY ONLY <1>2, <2>1
  <2> QED BY <1>2, <1>5, <1>7, <2>2
<1>8. CASE k \in ScalarKinds
  <2>1. resolve(k, b)[1] = "type" /\ resolve(k, b)[2] = primitive_type(k)
    BY <1>1, <1>2, <1>8
  <2> QED BY <1>2, <1>3, <1>5, <1>8, <2>1
<1> QED BY <1>4, <1>6, <1>7, <1>8

\* Equal structures are of values of one kind; of objects with equal structures
\* by key, or of arrays in which each item's structure occurs in the other.
LEMMA EqualStructures ==
    ASSUME NEW k \in Kinds, NEW m \in Kinds, NEW a, NEW b,
           \A s \in DOMAIN a : a[s] # <<"type", "empty_array">>,
           resolve(k, a) = resolve(m, b)
    PROVE  /\ k = m
           /\ k = "object" => a = b
           /\ k = "array" => \A s \in DOMAIN a : \E t \in DOMAIN b : b[t] = a[s]
<1>1. \A x, y : primitive_type(x) = primitive_type(y) /\ x \in ScalarKinds /\ y \in ScalarKinds => x = y
  BY DEF primitive_type, ScalarKinds
<1>2. k = m
  <2>1. /\ resolve(k, a)[1] = IF k \in ScalarKinds THEN "type" ELSE k
        /\ resolve(m, b)[1] = IF m \in ScalarKinds THEN "type" ELSE m
        /\ k \in ScalarKinds => resolve(k, a)[2] = primitive_type(k)
        /\ m \in ScalarKinds => resolve(m, b)[2] = primitive_type(m)
    BY ResolveParts
  <2>2. "type" # "object" /\ "type" # "array" /\ "type" \notin ScalarKinds
    BY DEF ScalarKinds
  <2>3. k \in ScalarKinds <=> m \in ScalarKinds
    BY <2>1, <2>2 DEF Kinds
  <2> QED BY <1>1, <2>1, <2>3
<1>3. ASSUME k = "object" PROVE a = b
  <2>1. <<"object", a>> = <<"object", b>>
    BY <1>2, <1>3, ResolveParts
  <2> QED BY ONLY <2>1
<1>4. ASSUME k = "array", NEW s \in DOMAIN a
      PROVE  \E t \in DOMAIN b : b[t] = a[s]
  <2> DEFINE items(f) == {x \in DOMAIN f : f[x][1] # "type"}
             inner(f) == {f[x] : x \in DOMAIN f \ items(f)}
             structures(f) == [y \in {f[x] : x \in items(f)} |->
                                  Cardinality({x \in items(f) : f[x] = y})]
  <2>1. resolve("array", a) = <<"array", inner(a), structures(a)>>
    BY <1>4 DEF resolve
  <2>2. resolve("array", b) = IF DOMAIN b = {}
                               THEN <<"array", {<<"type", "empty_array">>}, <<>>>>
                               ELSE <<"array", inner(b), structures(b)>>
    BY DEF resolve
  <2>3. \A x, y, z, w : <<"array", x, y>> = <<"array", z, w>> => x = z /\ y = w
    OBVIOUS
  <2>4. DOMAIN structures(a) = {a[x] : x \in items(a)}
        /\ DOMAIN structures(b) = {b[x] : x \in items(b)}
    OBVIOUS
  <2>5. a[s] \in inner(a) \/ a[s] \in {a[x] : x \in items(a)}
    OBVIOUS
  <2>6. resolve("array", a) = resolve("array", b)
    BY <1>2, <1>4
  <2>7. CASE DOMAIN b = {}
    <3>1. inner(a) = {<<"type", "empty_array">>} /\ structures(a) = <<>>
      <4> HIDE DEF inner, structures
      <4> QED BY <2>1, <2>2, <2>3, <2>6, <2>7
    <3>2. DOMAIN structures(a) = {}
      BY <3>1
    <3> HIDE DEF structures, inner
    <3> QED BY <3>1, <3>2, <2>4, <2>5
  <2>8. CASE DOMAIN b # {}
    <3>1. inner(a) = inner(b) /\ structures(a) = structures(b)
      <4> HIDE DEF inner, structures
      <4> QED BY <2>1, <2>2, <2>3, <2>6, <2>8
    <3> HIDE DEF structures
    <3> QED BY <3>1, <2>4, <2>5
  <2> QED BY <2>7, <2>8
<1> QED BY <1>2, <1>3, <1>4

\* Blur forgets the numbers of items step by step.
LEMMA BlurAppends ==
    ASSUME NEW p \in Seq(Step), NEW q \in Seq(Step), NEW s \in Step, NEW t \in Step,
           Blur(p) = Blur(q), s = t \/ (s[1] = "item" /\ t[1] = "item")
    PROVE  Blur(Append(p, s)) = Blur(Append(q, t))
<1> DEFINE B(x) == IF x[1] = "item" THEN <<"item">> ELSE x
<1>1. DOMAIN Blur(p) = 1..Len(p) /\ DOMAIN Blur(q) = 1..Len(q)
  BY DEF Blur
<1>2. Len(p) = Len(q)
  <2>1. Len(p) \in Nat /\ Len(q) \in Nat /\ 1..Len(p) = 1..Len(q)
    BY <1>1
  <2> QED BY <2>1
<1>3. \A i \in 1..Len(p) : B(p[i]) = B(q[i])
  <2>1. \A i \in 1..Len(p) : Blur(p)[i] = B(p[i]) /\ Blur(q)[i] = B(q[i])
    BY <1>2 DEF Blur
  <2> HIDE DEF B
  <2> QED BY <2>1
<1>4. B(s) = B(t)
  OBVIOUS
<1>5. /\ DOMAIN Append(p, s) = 1..(Len(p) + 1) /\ DOMAIN Append(q, t) = 1..(Len(p) + 1)
      /\ \A i \in 1..Len(p) : Append(p, s)[i] = p[i] /\ Append(q, t)[i] = q[i]
      /\ Append(p, s)[Len(p) + 1] = s /\ Append(q, t)[Len(p) + 1] = t
  BY <1>2
<1>6. \A i \in 1..(Len(p) + 1) : i \in 1..Len(p) \/ i = Len(p) + 1
  OBVIOUS
<1> HIDE DEF B
<1>7. \A i \in 1..(Len(p) + 1) : B(Append(p, s)[i]) = B(Append(q, t)[i])
  BY <1>3, <1>4, <1>5, <1>6
<1>8. /\ Blur(Append(p, s)) = [i \in 1..(Len(p) + 1) |-> B(Append(p, s)[i])]
      /\ Blur(Append(q, t)) = [i \in 1..(Len(p) + 1) |-> B(Append(q, t)[i])]
  BY <1>5, Zenon DEF Blur, B
<1> QED BY <1>7, <1>8
\* Of two payloads with one fingerprint, every value of the one has a value of
\* the other with its structure, in its place up to the numbers of items.
LEMMA SameFingerprint ==
    ASSUME NEW u, NEW v, IsJson(u), IsJson(v), fingerprint_schema(u) = fingerprint_schema(v),
           NEW p \in DOMAIN u
    PROVE  \E q \in DOMAIN v :
              Blur(q) = Blur(p) /\ v[q] = u[p] /\ (~InArray(p) => q = p)
<1> DEFINE su == extract_structural_type(u)
           sv == extract_structural_type(v)
           Match(r, q) == /\ q \in DOMAIN v /\ Blur(q) = Blur(r) /\ sv[q] = su[r]
                          /\ ~InArray(r) => q = r
           Failing == {Len(r) : r \in {x \in DOMAIN u : ~\E q : Match(x, q)}}
<1>1. \A x \in {u, v} : \A r \in DOMAIN x : x[r] \in Kinds /\ r \in Seq(Step) /\ Len(r) \in Nat
  BY DEF IsJson
<1>2. ASSUME NEW r \in DOMAIN u, NEW q \in DOMAIN v, su[r] = sv[q]
      PROVE  /\ u[r] = v[q]
             /\ u[r] = "object" => Kids(su, u, r) = Kids(sv, v, q)
             /\ u[r] = "array" => \A s \in DOMAIN Kids(su, u, r) :
                   \E t \in DOMAIN Kids(sv, v, q) : Kids(sv, v, q)[t] = Kids(su, u, r)[s]
  <2>1. su[r] = resolve(u[r], Kids(su, u, r)) /\ sv[q] = resolve(v[q], Kids(sv, v, q))
    BY StructureUnfolds
  <2>2. ASSUME NEW s \in DOMAIN Kids(su, u, r)
        PROVE  Kids(su, u, r)[s] # <<"type", "empty_array">>
    <3>1. s \in Steps(u, r) /\ Kids(su, u, r)[s] = su[Append(r, s)]
      BY DEF Kids
    <3>2. Append(r, s) \in DOMAIN u
      BY <3>1, StepsLead
    <3>3. su[Append(r, s)] = resolve(u[Append(r, s)], Kids(su, u, Append(r, s)))
      BY <3>2, StructureUnfolds
    <3> HIDE DEF su
    <3> QED BY <3>1, <3>2, <3>3, <1>1, ResolveParts
  <2> DEFINE a == Kids(su, u, r)
             b == Kids(sv, v, q)
  <2> HIDE DEF su, sv
  <2>3. /\ u[r] \in Kinds /\ v[q] \in Kinds /\ resolve(u[r], a) = resolve(v[q], b)
        /\ \A s \in DOMAIN a : a[s] # <<"type", "empty_array">>
    BY <1>1, <1>2, <2>1, <2>2
  <2> HIDE DEF a, b
  <2>4. /\ u[r] = v[q]
        /\ u[r] = "object" => a = b
        /\ u[r] = "array" => \A s \in DOMAIN a : \E t \in DOMAIN b : b[t] = a[s]
    BY <2>3, EqualStructures
  <2> QED BY <2>4 DEF a, b
<1>3. <<>> \in DOMAIN u /\ <<>> \in DOMAIN v /\ Match(<<>>, <<>>)
  BY DEF IsJson, fingerprint_schema
<1>4. ASSUME NEW r \in DOMAIN u, r # <<>>, \E q : Match(Parent(r), q)
      PROVE  \E q : Match(r, q)
  <2>1. PICK q : Match(Parent(r), q)
    BY <1>4
  <2> DEFINE o == Parent(r)
             s == LastStep(r)
  <2>2. /\ o \in DOMAIN u /\ s \in Steps(u, o) /\ r = Append(o, s) /\ s \in Step
        /\ o \in Seq(Step) /\ q \in DOMAIN v /\ q \in Seq(Step)
        /\ sv[q] = su[o] /\ Blur(q) = Blur(o)
    BY <1>1, <1>4, <2>1, StepsLead
  <2>3. \/ u[o] = "object" /\ s[1] = "key"
        \/ u[o] = "array" /\ s[1] = "item"
    BY <1>4 DEF IsJson
  <2>4. ~InArray(r) => s[1] # "item" /\ q = o
    <3>1. /\ DOMAIN r = 1..(Len(o) + 1) /\ DOMAIN o = 1..Len(o) /\ Len(o) \in Nat
          /\ \A i \in 1..Len(o) : r[i] = o[i]
          /\ r[Len(o) + 1] = s /\ Len(o) + 1 \in 1..(Len(o) + 1)
          /\ \A i \in 1..Len(o) : i \in 1..(Len(o) + 1)
      BY <2>2
    <3>2. ~InArray(r) => s[1] # "item" /\ ~InArray(o)
      <4> HIDE DEF o, s
      <4> QED BY ONLY <3>1, Zenon DEF InArray
    <3> QED BY <2>1, <3>2
  <2> HIDE DEF su, sv, o, s
  <2>5. CASE u[o] = "object"
    <3>1. Kids(su, u, o) = Kids(sv, v, q)
      BY <1>2, <2>2, <2>5
    <3>2. s \in Steps(v, q) /\ su[Append(o, s)] = sv[Append(q, s)]
      <4>1. DOMAIN Kids(su, u, o) = Steps(u, o) /\ DOMAIN Kids(sv, v, q) = Steps(v, q)
        BY DEF Kids
      <4>2. s \in Steps(v, q)
        BY <2>2, <3>1, <4>1
      <4>3. Kids(su, u, o)[s] = su[Append(o, s)] /\ Kids(sv, v, q)[s] = sv[Append(q, s)]
        BY <2>2, <4>2 DEF Kids
      <4> QED BY <3>1, <4>2, <4>3
    <3>3. Append(q, s) \in DOMAIN v
      BY <2>2, <3>2, StepsLead
    <3>4. Blur(Append(q, s)) = Blur(Append(o, s))
      BY <2>2, BlurAppends
    <3>5. Match(r, Append(q, s))
      BY <2>2, <2>4, <3>2, <3>3, <3>4
    <3> HIDE DEF Match
    <3> QED BY <3>5
  <2>6. CASE u[o] = "array"
    <3>1. s \in DOMAIN Kids(su, u, o) /\ Kids(su, u, o)[s] = su[Append(o, s)]
      BY <2>2 DEF Kids
    <3>2. PICK t \in DOMAIN Kids(sv, v, q) : Kids(sv, v, q)[t] = Kids(su, u, o)[s]
      BY <1>2, <2>2, <2>6, <3>1
    <3>3. t \in Steps(v, q) /\ Kids(sv, v, q)[t] = sv[Append(q, t)]
      BY <3>2 DEF Kids
    <3>4. /\ Append(q, t) \in DOMAIN v /\ t \in Step /\ Append(q, t) # <<>>
          /\ Parent(Append(q, t)) = q /\ LastStep(Append(q, t)) = t
      <4>1. q \in DOMAIN v /\ t \in Steps(v, q)
        BY <2>2, <3>3
      <4> HIDE DEF Match
      <4> QED BY ONLY <4>1, IsJson(v), StepsLead
    <3>5. v[q] = "array"
      BY <1>2, <2>2, <2>6
    <3>6. t[1] = "item"
      BY <3>4, <3>5 DEF IsJson
    <3>7. s[1] = "item"
      BY <2>3, <2>6
    <3>8. Blur(Append(q, t)) = Blur(Append(o, s))
      BY <2>2, <3>4, <3>6, <3>7, BlurAppends
    <3>9. Match(r, Append(q, t))
      BY <2>2, <2>4, <3>1, <3>2, <3>3, <3>4, <3>7, <3>8
    <3> HIDE DEF Match
    <3> QED BY <3>9
  <2> QED BY <2>3, <2>5, <2>6
<1>5. Failing = {}
  <2> SUFFICES ASSUME Failing # {} PROVE FALSE
    OBVIOUS
  <2> HIDE DEF Match
  <2>1. Failing \subseteq Nat
    BY <1>1
  <2>2. PICK n \in Failing : \A m \in Failing : n <= m
    BY <2>1, LeastNumber
  <2>3. PICK r \in DOMAIN u : Len(r) = n /\ ~\E q : Match(r, q)
    OBVIOUS
  <2>4. r # <<>>
    BY <1>3, <2>3
  <2>5. Parent(r) \in DOMAIN u /\ Len(Parent(r)) = n - 1 /\ n \in Nat
    BY <2>1, <2>3, <2>4, StepsLead
  <2>6. ~(n <= n - 1)
    BY <2>5
  <2>7. \E q : Match(Parent(r), q)
    BY <2>2, <2>5, <2>6
  <2> QED BY <1>4, <2>3, <2>4, <2>7
<1>6. PICK q : Match(p, q)
  <2> HIDE DEF Match
  <2> QED BY <1>5
<1> QED BY <1>2, <1>6
\* A payload that is not compared, for it has the fingerprint of the baseline
\* (main.py:161), shows the same kinds in the same places as the baseline but
\* for the order and number of items: fingerprint_schema hides nothing else.
THEOREM UncomparedIsRearrangedCorrect == LegacySpec => []UncomparedIsRearranged
<1>1. ASSUME NEW u, NEW v, IsJson(u), IsJson(v), fingerprint_schema(u) = fingerprint_schema(v)
      PROVE  Blurred(u) \subseteq Blurred(v)
  <2> SUFFICES ASSUME NEW y \in Blurred(u) PROVE y \in Blurred(v)
    OBVIOUS
  <2>1. PICK p \in DOMAIN u : y = <<Blur(p), u[p]>>
    <3>1. PICK x \in Sightings(u) : y = <<Blur(x[1]), x[2]>>
      BY DEF Blurred
    <3>2. PICK p \in DOMAIN u : x = <<p, u[p]>>
      BY DEF Sightings
    <3>3. x[1] = p /\ x[2] = u[p]
      BY <3>2
    <3> QED BY <3>1, <3>3
  <2>2. PICK q \in DOMAIN v : Blur(q) = Blur(p) /\ v[q] = u[p]
    BY <1>1, SameFingerprint
  <2>3. <<q, v[q]>> \in Sightings(v) /\ <<q, v[q]>>[1] = q /\ <<q, v[q]>>[2] = v[q]
    BY DEF Sightings
  <2>4. <<Blur(q), v[q]>> \in Blurred(v)
    BY <2>3, Zenon DEF Blurred
  <2> QED BY <2>1, <2>2, <2>4
<1>2. LegacyInv => UncomparedIsRearranged
  <2> SUFFICES ASSUME LegacyInv, fingerprint_schema(baseline) = fingerprint_schema(incoming)
               PROVE  Blurred(baseline) = Blurred(incoming)
    BY DEF UncomparedIsRearranged
  <2>1. IsJson(baseline) /\ IsJson(incoming)
    BY SubmissionsAssumption DEF LegacyInv
  <2>2. Blurred(baseline) \subseteq Blurred(incoming)
    BY <2>1, <1>1
  <2>3. Blurred(incoming) \subseteq Blurred(baseline)
    BY <2>1, <1>1
  <2> QED BY <2>2, <2>3
<1> QED BY <1>2, LegacyInvariant, PTL

\* A path whose removal or change of primitive type has no row above SAFE
\* (engine.py:196-231) is there with its kind, or is null or an array.
LEMMA UnloggedIsThere ==
    ASSUME NEW u, NEW v, IsJson(u), IsJson(v), Told(u, v),
           \A row \in Logged(structural_diff(u, v)) : row[2] = "SAFE",
           NEW p \in DOMAIN u, u[p] # "object"
    PROVE  /\ p \in DOMAIN v /\ v[p] # "object"
           /\ v[p] = u[p] \/ {u[p], v[p]} \cap {"null", "array"} # {}
<1> DEFINE o == flatten_schema(u)
           n == flatten_schema(v)
           x == PathText(p)
           d == [path |-> x, old |-> TypeAt(o, x), new |-> TypeAt(n, x)]
<1>1. x \in Texts(LeafPaths(u)) /\ KindAt(u, x) = u[p]
  <2>1. p \in LeafPaths(u) /\ LeafPaths(u) \subseteq DOMAIN u
    BY DEF LeafPaths
  <2>2. x \in Texts(LeafPaths(u)) /\ PathAt(LeafPaths(u), x) = p
    BY <2>1, ToldPathsStay DEF Told
  <2> QED BY <2>2 DEF KindAt
<1>2. d.old = primitive_type(u[p]) /\ d.old # "None" /\ d.new = TypeAt(n, x) /\ x \in DOMAIN o
  BY <1>1, LegacyTypes
<1>3. ASSUME d.old # d.new PROVE classify_contract_drift(d) \in {"SAFE", "None"}
  <2>1. d \in structural_diff(u, v)
    BY <1>2, <1>3 DEF structural_diff
  <2>2. <<d, classify_contract_drift(d)>>[2] = classify_contract_drift(d)
    OBVIOUS
  <2>3. classify_contract_drift(d) # "None" =>
           <<d, classify_contract_drift(d)>> \in Logged(structural_diff(u, v))
    BY <2>1 DEF Logged
  <2> HIDE DEF d
  <2> QED BY <2>2, <2>3
<1> HIDE DEF d, n, o
<1>4. x \in Texts(LeafPaths(v))
  <2> SUFFICES ASSUME x \notin Texts(LeafPaths(v)) PROVE FALSE
    OBVIOUS
  <2>1. d.new = "None"
    BY <1>2, LegacyTypes DEF n
  <2>2. classify_contract_drift(d) = "BREAKING"
    BY <1>2, <2>1 DEF classify_contract_drift, primitive_types
  <2> QED BY <1>2, <1>3, <2>1, <2>2
<1>5. p \in DOMAIN v /\ v[p] # "object" /\ KindAt(v, x) = v[p]
  <2>1. PathAt(LeafPaths(v), x) \in LeafPaths(v) /\ PathText(PathAt(LeafPaths(v), x)) = x
    BY <1>4, TextsStandForPaths
  <2>2. PathAt(LeafPaths(v), x) = p
    BY <2>1 DEF Told, LeafPaths
  <2> QED BY <2>1, <2>2 DEF LeafPaths, KindAt
<1>6. /\ d.new = primitive_type(v[p]) /\ d.new # "None"
      /\ u[p] \in Kinds \ {"object"} /\ v[p] \in Kinds \ {"object"}
  BY <1>1, <1>2, <1>4, <1>5, LegacyTypes DEF n
<1>7. \A k \in Kinds \ {"object"} :
         k \notin {"null", "array"} => primitive_type(k) \in primitive_types
  BY DEF primitive_type, primitive_types, Kinds, ScalarKinds
<1>8. ASSUME v[p] # u[p], {u[p], v[p]} \cap {"null", "array"} = {} PROVE FALSE
  <2>1. d.old \in primitive_types /\ d.new \in primitive_types
    BY <1>2, <1>6, <1>7, <1>8
  <2>2. d.old # d.new
    BY <1>2, <1>6, <1>8 DEF primitive_type, Kinds, ScalarKinds
  <2>3. classify_contract_drift(d) \in {"RISKY", "BREAKING"}
    BY <1>2, <1>6, <2>1 DEF classify_contract_drift
  <2> QED BY <1>3, <2>2, <2>3
<1> QED BY <1>5, <1>8

\* A request that logs no violation above SAFE, compared or not, keeps what a
\* consumer of the baseline reads outside arrays (engine.py:196-264,
\* main.py:161-175), but for null and arrays, if the texts of paths
\* (engine.py:20, 26) tell the fields apart.
THEOREM UnloggedKeepsReadersCorrect == LegacySpec => []UnloggedKeepsReaders
<1>1. LegacyInv => UnloggedKeepsReaders
  <2> SUFFICES ASSUME LegacyInv, \A row \in violations : row[2] = "SAFE",
                      Told(baseline, incoming), NEW x \in Readables(baseline), ~InArray(x[1])
               PROVE  \E y \in Readables(incoming) :
                         /\ y[1] = x[1]
                         /\ y[2] = x[2] \/ {x[2], y[2]} \cap {"null", "array"} # {}
    BY DEF UnloggedKeepsReaders
  <2>1. IsJson(baseline) /\ IsJson(incoming)
    BY SubmissionsAssumption DEF LegacyInv
  <2>2. PICK p \in DOMAIN baseline :
           x[1] = p /\ x[2] = baseline[p] /\ baseline[p] # "object"
    <3>1. PICK p \in DOMAIN baseline : x = <<p, baseline[p]>> /\ x[2] # "object"
      BY DEF Readables, Sightings
    <3>2. x[1] = p /\ x[2] = baseline[p]
      BY <3>1
    <3> QED BY <3>1, <3>2
  <2>3. /\ p \in DOMAIN incoming /\ incoming[p] # "object"
        /\ \/ incoming[p] = baseline[p]
           \/ {baseline[p], incoming[p]} \cap {"null", "array"} # {}
    <3>1. CASE fingerprint_schema(baseline) = fingerprint_schema(incoming)
      BY <2>1, <2>2, <3>1, SameFingerprint
    <3>2. CASE fingerprint_schema(baseline) # fingerprint_schema(incoming)
      <4>1. \A row \in Logged(structural_diff(baseline, incoming)) : row[2] = "SAFE"
        BY <3>2 DEF LegacyInv
      <4> QED BY <2>1, <2>2, <4>1, UnloggedIsThere
    <3> QED BY <3>1, <3>2
  <2> DEFINE y == <<p, incoming[p]>>
  <2>4. y[1] = p /\ y[2] = incoming[p]
    OBVIOUS
  <2>5. y \in Readables(incoming)
    BY <2>3, <2>4 DEF Readables, Sightings
  <2> HIDE DEF y
  <2> QED BY <2>2, <2>3, <2>4, <2>5
<1> QED BY <1>1, LegacyInvariant, PTL

-----------------------------------------------------------------------------
(***************************************************************************)
(* The review of API documents: any number of schemas and fields, any      *)
(* types and any field names.  The report and the decision are those of    *)
(* the two documents (a document compared with itself has no changes), and *)
(* what one check counts as breaking the other counts as well, field by    *)
(* field, but for the names that openapi_diff mistakes for its own words.  *)
(***************************************************************************)
\* The inductive invariant: both checks speak of the two documents at hand.
ReviewInv ==
    /\ decision = build_review(accepted, proposed)
    /\ \/ report = openapi_diff(accepted, proposed)
       \/ report = "compatible" /\ proposed = accepted

-----------------------------------------------------------------------------
\* A schema has no changes against itself, so a document passes its own review.
LEMMA SelfHasNoChanges ==
    ASSUME NEW doc
    PROVE  breaking_changes(doc, doc) = {}
<1>1. ASSUME NEW s, NEW o PROVE schema_changes(s, o, o) = {}
  BY DEF schema_changes, type_changes
<1>2. UNION {schema_changes(s, Read(extract_schema(doc)[s]), Read(extract_schema(doc)[s])) :
                s \in Common(doc, doc)} = {}
  BY <1>1
<1>3. SchemaNames(doc) \ SchemaNames(doc) = {} OBVIOUS
<1> QED BY <1>2, <1>3 DEF breaking_changes

\* What breaking_changes of the agent consists of.
LEMMA ChangesOfSchemas ==
    ASSUME NEW old, NEW new
    PROVE  /\ \A s \in SchemaNames(old) \ SchemaNames(new) :
                 <<<<s, "schema removed">>, "">> \in breaking_changes(old, new)
           /\ \A s \in Common(old, new) :
                 schema_changes(s, Read(extract_schema(old)[s]), Read(extract_schema(new)[s]))
                    \subseteq breaking_changes(old, new)
           /\ \A c \in breaking_changes(old, new) :
                 \/ SchemaNames(old) \ SchemaNames(new) # {}
                 \/ \E s \in Common(old, new) :
                       c \in schema_changes(s, Read(extract_schema(old)[s]),
                                            Read(extract_schema(new)[s]))
  BY DEF breaking_changes

\* The documents and the answers of the checks fit together after any sequence
\* of proposed changes.
LEMMA ReviewInvariant == ReviewSpec => []ReviewInv
<1>1. ReviewInit => ReviewInv BY SelfHasNoChanges DEF ReviewInit, ReviewInv, build_review
<1>2. ReviewInv /\ [ReviewNext]_reviewVars => ReviewInv' BY DEF ReviewInv, ReviewNext, Propose, reviewVars
<1> QED BY <1>1, <1>2, PTL DEF ReviewSpec

-----------------------------------------------------------------------------
\* Fields that the agent lets pass: nothing is gone, no stated type differs and
\* nothing is required that was not.
LEMMA NoChanges ==
    ASSUME NEW s, NEW o, NEW n, schema_changes(s, o, n) = {}
    PROVE  /\ Fields(o) \subseteq Fields(n)
           /\ n.required \subseteq o.required
           /\ type_changes(o, n) = {}
<1>1. \A f : f \notin Fields(o) \ Fields(n)
  <2>1. \A f \in Fields(o) \ Fields(n) : <<<<s, "removed">>, f>> \in schema_changes(s, o, n)
    BY DEF schema_changes
  <2> QED BY <2>1
<1>2. \A f : f \notin n.required \ o.required
  <2>1. \A f \in n.required \ o.required :
           <<<<s, "became required">>, f>> \in schema_changes(s, o, n)
    BY DEF schema_changes
  <2> QED BY <2>1
<1>3. \A f : f \notin type_changes(o, n)
  <2>1. \A f \in type_changes(o, n) : <<<<s, "type">>, f>> \in schema_changes(s, o, n)
    BY DEF schema_changes
  <2> QED BY <2>1
<1> QED BY <1>1, <1>2, <1>3

\* A body with the fields of the old schema that the old one accepts.
LEMMA SendersKept ==
    ASSUME NEW s, NEW o, NEW n, schema_changes(s, Read(o), Read(n)) = {},
           Typed(o), Typed(n), NEW body \in BodiesOf(o), Accepts(o, body)
    PROVE  Accepts(n, body)
<1> SUFFICES ASSUME n # Other
             PROVE  /\ n.required \subseteq DOMAIN body
                    /\ \A f \in DOMAIN body \cap Fields(n) : n.props[f] \in {"", body[f]}
  BY DEF Accepts
<1>1. Read(n) = n BY DEF Read
<1>2. /\ n.required \subseteq Read(o).required
      /\ type_changes(Read(o), n) = {}
  BY <1>1, NoChanges
<1>3. DOMAIN body \subseteq Fields(Read(o)) BY DEF BodiesOf
<1>4. CASE o = Other
  <2>1. Read(o).required = {} /\ Fields(Read(o)) = {}
    BY <1>4 DEF Read, NoSchema, Fields
  <2> QED BY <1>2, <1>3, <2>1
<1>5. CASE o # Other
  <2>1. Read(o) = o BY <1>5 DEF Read
  <2>2. /\ o.required \subseteq DOMAIN body
        /\ \A f \in DOMAIN body \cap Fields(o) : o.props[f] \in {"", body[f]}
    BY <1>5 DEF Accepts
  <2>3. ASSUME NEW f \in DOMAIN body \cap Fields(n) PROVE n.props[f] = body[f]
    <3>1. f \in Fields(o) /\ f \in SharedFields(o, n) BY <1>3, <2>1 DEF SharedFields
    <3>2. o.props[f] # "" /\ n.props[f] # "" BY <1>1, <2>1, <3>1 DEF Typed
    <3>3. o.props[f] = n.props[f] BY <1>2, <2>1, <3>1, <3>2 DEF type_changes
    <3> QED BY <2>2, <3>1, <3>2, <3>3
  <2> QED BY <1>2, <2>1, <2>2, <2>3
<1> QED BY <1>4, <1>5

\* A document change that contract_review_agent.py lets pass keeps every client
\* that sends the fields of the old schemas, whatever the documents are.
THEOREM PassKeepsSendersCorrect == ReviewSpec => []PassKeepsSenders
<1>1. ReviewInv => PassKeepsSenders
  <2> SUFFICES ASSUME ReviewInv, decision = "pass",
                      accepted.layout = "components", proposed.layout = "components",
                      NEW s \in DOMAIN accepted.schemas
               PROVE  /\ s \in DOMAIN proposed.schemas
                      /\ Typed(accepted.schemas[s]) /\ Typed(proposed.schemas[s]) =>
                           \A body \in BodiesOf(accepted.schemas[s]) :
                              Accepts(accepted.schemas[s], body) =>
                                 Accepts(proposed.schemas[s], body)
    BY DEF PassKeepsSenders
  <2>1. breaking_changes(accepted, proposed) = {} BY DEF ReviewInv, build_review
  <2>2. extract_schema(accepted) = accepted.schemas /\ extract_schema(proposed) = proposed.schemas
    BY DEF extract_schema
  <2>3. s \in DOMAIN proposed.schemas BY <2>1, <2>2, ChangesOfSchemas DEF SchemaNames
  <2>4. schema_changes(s, Read(accepted.schemas[s]), Read(proposed.schemas[s])) = {}
    <3>1. s \in Common(accepted, proposed) BY <2>2, <2>3 DEF Common, SchemaNames
    <3> QED BY <2>1, <2>2, <3>1, ChangesOfSchemas
  <2> QED BY <2>3, <2>4, SendersKept
<1> QED BY <1>1, ReviewInvariant, PTL

-----------------------------------------------------------------------------
\* What openapi_diff counts as breaking in a schema, the agent does too; ...
LEMMA BreakIsChange ==
    ASSUME NEW s, NEW o, NEW n, diff_schemas_break(o, n)
    PROVE  schema_changes(s, o, n) # {}
<1>1. CASE Fields(o) \ Fields(n) # {}
  <2>1. PICK f : f \in Fields(o) \ Fields(n) BY <1>1
  <2>2. <<<<s, "removed">>, f>> \in schema_changes(s, o, n) BY <2>1 DEF schema_changes
  <2> QED BY <2>2
<1>2. CASE type_changes(o, n) # {}
  <2>1. PICK f : f \in type_changes(o, n) BY <1>2
  <2>2. <<<<s, "type">>, f>> \in schema_changes(s, o, n) BY <2>1 DEF schema_changes
  <2> QED BY <2>2
<1>3. CASE \E c \in required_changes(o, n) : Requires(c)
  <2>1. PICK c \in required_changes(o, n) : Requires(c) BY <1>3
  <2>2. CASE \E f \in (Fields(n) \ Fields(o)) \cap n.required : c = <<"added required field", f>>
    <3>1. PICK f \in (Fields(n) \ Fields(o)) \cap n.required : TRUE BY <2>2
    <3>2. <<<<s, "added as required">>, f>> \in schema_changes(s, o, n) BY DEF schema_changes
    <3> QED BY <3>2
  <2>3. CASE \E f \in n.required \ o.required : c = <<"field became required", f>>
    <3>1. PICK f \in n.required \ o.required : TRUE BY <2>3
    <3>2. <<<<s, "became required">>, f>> \in schema_changes(s, o, n) BY DEF schema_changes
    <3> QED BY <3>2
  <2>4. c[1] # "field no longer required" BY <2>1 DEF Requires
  <2>5. ASSUME NEW f, c = <<"field no longer required", f>> PROVE FALSE BY <2>4, <2>5
  <2>6. ASSUME NEW k, NEW S, c \in {k} \X S PROVE \E f \in S : c = <<k, f>>
    BY <2>6
  <2>7. \/ c \in {"added required field"} \X ((Fields(n) \ Fields(o)) \cap n.required)
        \/ c \in {"field became required"} \X (n.required \ o.required)
        \/ c \in {"field no longer required"} \X (o.required \ n.required)
    BY <2>1, Zenon DEF required_changes
  <2> QED BY <2>2, <2>3, <2>5, <2>6, <2>7
<1> QED BY <1>1, <1>2, <1>3 DEF diff_schemas_break

\* ... and what only the agent counts is a requirement on a field whose name
\* has the words "no longer" in it.
LEMMA ChangeIsBreak ==
    ASSUME NEW s, NEW o, NEW n, ~diff_schemas_break(o, n), NEW c \in schema_changes(s, o, n)
    PROVE  c[1][2] \in {"became required", "added as required"} /\ c[2] \in NoLonger
<1>1. /\ Fields(o) \ Fields(n) = {} /\ type_changes(o, n) = {}
      /\ \A d \in required_changes(o, n) : ~Requires(d)
  BY DEF diff_schemas_break
<1>2. CASE c \in {<<s, "added as required">>} \X ((Fields(n) \ Fields(o)) \cap n.required)
  <2>1. <<"added required field", c[2]>> \in required_changes(o, n)
    BY <1>2 DEF required_changes
  <2>2. c[2] \in NoLonger BY <1>1, <2>1 DEF Requires
  <2>3. c[1] = <<s, "added as required">> BY <1>2
  <2>4. <<s, "added as required">>[2] = "added as required" OBVIOUS
  <2>5. c[1][2] = "added as required" BY <2>3, <2>4, Zenon
  <2> QED BY <2>2, <2>5
<1>3. CASE c \in {<<s, "became required">>} \X (n.required \ o.required)
  <2>1. <<"field became required", c[2]>> \in required_changes(o, n)
    BY <1>3 DEF required_changes
  <2>2. c[2] \in NoLonger BY <1>1, <2>1 DEF Requires
  <2>3. c[1] = <<s, "became required">> BY <1>3
  <2>4. <<s, "became required">>[2] = "became required" OBVIOUS
  <2>5. c[1][2] = "became required" BY <2>3, <2>4, Zenon
  <2> QED BY <2>2, <2>5
<1> QED BY <1>1, <1>2, <1>3 DEF schema_changes

\* openapi_diff.py and contract_review_agent.py, which repeat the comparison,
\* agree on all documents, but for fields with "no longer" in their names.
THEOREM ChecksAgreeCorrect == ReviewSpec => []ChecksAgree
<1> DEFINE os == extract_schema(accepted)
           ns == extract_schema(proposed)
           Readable == \A s \in Common(accepted, proposed) : Other \notin {os[s], ns[s]}
           Breaks == \/ SchemaNames(accepted) \ SchemaNames(proposed) # {}
                     \/ \E s \in Common(accepted, proposed) : diff_schemas_break(os[s], ns[s])
           Excused == \A c \in breaking_changes(accepted, proposed) :
                         /\ c[1][2] \in {"became required", "added as required"}
                         /\ c[2] \in NoLonger
<1>1. ASSUME Readable PROVE Breaks => breaking_changes(accepted, proposed) # {}
  <2>1. CASE SchemaNames(accepted) \ SchemaNames(proposed) # {} BY <2>1, ChangesOfSchemas
  <2>2. ASSUME NEW s \in Common(accepted, proposed), diff_schemas_break(os[s], ns[s])
        PROVE  breaking_changes(accepted, proposed) # {}
    <3>1. Read(os[s]) = os[s] /\ Read(ns[s]) = ns[s] BY <1>1 DEF Read
    <3>2. schema_changes(s, Read(os[s]), Read(ns[s])) # {} BY <2>2, <3>1, BreakIsChange
    <3> QED BY <3>2, ChangesOfSchemas
  <2> QED BY <2>1, <2>2
<1>2. ASSUME Readable, ~Breaks PROVE Excused
  <2> SUFFICES ASSUME NEW c \in breaking_changes(accepted, proposed)
               PROVE  c[1][2] \in {"became required", "added as required"} /\ c[2] \in NoLonger
    OBVIOUS
  <2>1. PICK s \in Common(accepted, proposed) : c \in schema_changes(s, Read(os[s]), Read(ns[s]))
    BY <1>2, ChangesOfSchemas
  <2>2. Read(os[s]) = os[s] /\ Read(ns[s]) = ns[s] BY <1>2 DEF Read
  <2> QED BY <1>2, <2>1, <2>2, ChangeIsBreak
<1>3. openapi_diff(accepted, proposed) =
         IF Readable THEN (IF Breaks THEN "breaking" ELSE "compatible") ELSE "raised"
  BY DEF openapi_diff
<1>4. ReviewInv => ChecksAgree
  <2> SUFFICES ASSUME ReviewInv PROVE ChecksAgree OBVIOUS
  <2>1. CASE report = openapi_diff(accepted, proposed)
    <3> HIDE DEF Readable, Breaks, Excused
    <3>1. CASE Readable /\ Breaks
      <4>1. report = "breaking" /\ decision = "fail"
        BY <2>1, <3>1, <1>1, <1>3 DEF ReviewInv, build_review
      <4> QED BY <4>1 DEF ChecksAgree
    <3>2. CASE Readable /\ ~Breaks
      <4>1. report = "compatible" /\ Excused BY <2>1, <3>2, <1>2, <1>3
      <4> QED BY <4>1 DEF ChecksAgree, Excused
    <3>3. CASE ~Readable
      <4>1. report = "raised" BY <2>1, <3>3, <1>3
      <4> QED BY <4>1 DEF ChecksAgree
    <3> QED BY <3>1, <3>2, <3>3
  <2>2. CASE report = "compatible" /\ proposed = accepted
    <3>1. breaking_changes(accepted, proposed) = {} BY <2>2, SelfHasNoChanges
    <3> QED BY <2>2, <3>1 DEF ChecksAgree
  <2> QED BY <2>1, <2>2 DEF ReviewInv
<1> QED BY <1>4, ReviewInvariant, PTL
=============================================================================
