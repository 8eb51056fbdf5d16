---------------------------- MODULE ToolProjection ----------------------------
\* The projection a caller of broker.call_tool asks for: dotted paths to keep and
\* a cap on the length of every list.  Values are scalars, lists and dictionaries.
EXTENDS Naturals, FiniteSets, Sequences, SequencesExt

CONSTANTS Payloads,      \* JSON values an upstream answers with
          PathChoices,   \* the path sets a caller asks for; {} for none
          CapChoices,    \* caps a caller asks for
          NoCap

Scalar(v) == [kind |-> "scalar", value |-> v]
List(s) == [kind |-> "list", items |-> s]
Dict(f) == [kind |-> "dict", at |-> f]

-----------------------------------------------------------------------------
\* _build_path_tree: nodes keyed by the next component.  A path that is a prefix of
\* another adds nothing to it.
RECURSIVE PathTree(_)
PathTree(paths) ==
    LET longer == {p \in paths : p # <<>>}
    IN [key \in {Head(p) : p \in longer} |->
           PathTree({Tail(p) : p \in {q \in longer : Head(q) = key}})]

NoTree == <<>>   \* None and the empty tree alike: no selector remains

Capped(items, cap) == IF cap = NoCap THEN items
                      ELSE SubSeq(items, 1, IF cap < Len(items) THEN cap ELSE Len(items))

\* _project
RECURSIVE ProjectForgetsCap(_, _, _)
ProjectForgetsCap(value, tree, cap) ==
    CASE value.kind = "scalar" -> value
      [] value.kind = "list" ->
            List(Capped([i \in 1..Len(value.items) |->
                            ProjectForgetsCap(value.items[i], tree, cap)], cap))
      [] value.kind = "dict" /\ DOMAIN tree = {} -> value
      [] value.kind = "dict" /\ DOMAIN tree # {} ->
            Dict([key \in DOMAIN tree \cap DOMAIN value.at |->
                     ProjectForgetsCap(value.at[key], tree[key], cap)])
RECURSIVE ProjectValue(_, _, _)
ProjectValue(value, tree, cap) ==
    CASE value.kind = "scalar" -> value
      [] value.kind = "list" ->
            List(Capped([i \in 1..Len(value.items) |->
                            ProjectValue(value.items[i], tree, cap)], cap))
      [] value.kind = "dict" /\ DOMAIN tree = {} ->
            Dict([key \in DOMAIN value.at |-> ProjectValue(value.at[key], NoTree, cap)])
      [] value.kind = "dict" /\ DOMAIN tree # {} ->
            Dict([key \in DOMAIN tree \cap DOMAIN value.at |->
                     ProjectValue(value.at[key], tree[key], cap)])

\* project_value
Projected(value, paths, cap) ==
    ProjectValue(value, IF paths = {} THEN NoTree ELSE PathTree(paths), cap)

-----------------------------------------------------------------------------
\* apply_projection: a structured answer is pruned and its text is written anew from
\* the pruned value; otherwise every text block that holds JSON is pruned.

VARIABLES received,    \* what the upstream returned: [structured, blocks]
          asked,       \* the projection: [paths, cap]
          seen         \* what the caller gets, with the _meta.projection note

projectionVars == <<received, asked, seen>>

NoAnswer == [structured |-> <<>>, blocks |-> <<>>]   \* a structured part is a 0/1 sequence

JsonText(v) == [json |-> <<v>>]
PlainText == [json |-> <<>>]

Applied(response, paths, cap) ==
    IF paths = {} /\ cap = NoCap
    THEN [response |-> response, note |-> "none"]
    ELSE IF response.structured # <<>>
    THEN LET pruned == Projected(response.structured[1], paths, cap)
         IN [response |-> [structured |-> <<pruned>>, blocks |-> <<JsonText(pruned)>>],
             note |-> "applied"]
    ELSE LET Pruned(block) == IF block.json = <<>> THEN block
                              ELSE JsonText(Projected(block.json[1], paths, cap))
         IN [response |-> [structured |-> <<>>,
                           blocks |-> [i \in 1..Len(response.blocks) |->
                                          Pruned(response.blocks[i])]],
             note |-> IF \E i \in 1..Len(response.blocks) : response.blocks[i].json # <<>>
                      THEN "applied" ELSE "not applied"]

\* Only an object or a list counts as a structured part.
AnswerForms ==
    {[structured |-> <<v>>, blocks |-> <<JsonText(v)>>] :
        v \in {p \in Payloads : p.kind # "scalar"}}
    \cup {[structured |-> <<>>, blocks |-> bs] :
             bs \in {<<JsonText(v)>> : v \in Payloads} \cup
                    {<<PlainText, JsonText(v)>> : v \in Payloads} \cup {<<PlainText>>}}

NoNote == [response |-> NoAnswer, note |-> "asked"]

ProjectionInit ==
    /\ received \in AnswerForms
    /\ asked \in [paths : PathChoices, cap : CapChoices]
    /\ seen = NoNote

ApplyProjection ==
    /\ seen = NoNote
    /\ seen' = Applied(received, asked.paths, asked.cap)
    /\ UNCHANGED <<received, asked>>

ProjectionSpec == ProjectionInit /\ [][ApplyProjection]_projectionVars

-----------------------------------------------------------------------------
\* Reference: the scalars of a value, each with its keys and its list positions.

RECURSIVE ScalarsOf(_, _, _)
ScalarsOf(value, keys, places) ==
    CASE value.kind = "scalar" -> {[keys |-> keys, places |-> places, value |-> value.value]}
      [] value.kind = "list" ->
            UNION {ScalarsOf(value.items[i], keys, Append(places, i)) :
                      i \in 1..Len(value.items)}
      [] value.kind = "dict" ->
            UNION {ScalarsOf(value.at[key], Append(keys, key), places) :
                      key \in DOMAIN value.at}

\* A scalar is wanted if it lies within the cap in every list above it and a path
\* that no other path prolongs leads to it, past it, or above it.
WantedScalar(scalar, paths, cap) ==
    /\ cap # NoCap => \A i \in 1..Len(scalar.places) : scalar.places[i] <= cap
    /\ \/ paths = {}
       \/ \E p \in paths :
             /\ \A q \in paths : IsPrefix(p, q) => q = p
             /\ IsPrefix(p, scalar.keys) \/ IsPrefix(scalar.keys, p)

ExactProjection(value, pruned, paths, cap) ==
    ScalarsOf(pruned, <<>>, <<>>) =
        {s \in ScalarsOf(value, <<>>, <<>>) : WantedScalar(s, paths, cap)}

\* The caller gets exactly the scalars it asked for, at their places, in the
\* structured part and in every JSON text alike, and a text that is not JSON as it was.
ProjectionExact ==
    seen # NoNote =>
        /\ received.structured # <<>> =>
              /\ ExactProjection(received.structured[1], seen.response.structured[1],
                                 asked.paths, asked.cap)
              /\ seen.response.blocks = <<JsonText(seen.response.structured[1])>>
        /\ received.structured = <<>> =>
              \A i \in 1..Len(received.blocks) :
                 /\ (received.blocks[i].json = <<>>) = (seen.response.blocks[i].json = <<>>)
                 /\ received.blocks[i].json # <<>> =>
                       ExactProjection(received.blocks[i].json[1],
                                       seen.response.blocks[i].json[1],
                                       asked.paths, asked.cap)
        /\ seen.note = "none" => seen.response = received
=============================================================================
