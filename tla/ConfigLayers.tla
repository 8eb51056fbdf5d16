----------------------------- MODULE ConfigLayers -----------------------------
\* Composing a configuration from layers (organisation, team, add-ons, user): later
\* layers override earlier ones, and the result says which layer each value is from
\* and which overrides took place.  A document is a set of nodes: paths of keys,
\* each holding a mapping or a scalar.  Keys hold no dot, which would make two paths one.
EXTENDS Naturals, FiniteSets, Sequences, SequencesExt

CONSTANTS LayerKeys,
          LayerDocuments,   \* documents _validate_layer lets pass
          MaxLayers

Mapping == "mapping"
Root == <<>>

ParentOf(path) == Front(path)

\* A document is a mapping, and so is whatever is above a node of it.
IsTree(tree) ==
    /\ DOMAIN tree \subseteq Seq(LayerKeys)
    /\ Root \in DOMAIN tree
    /\ tree[Root] = Mapping
    /\ \A path \in DOMAIN tree : \A n \in 0 .. Len(path) - 1 :
          /\ SubSeq(path, 1, n) \in DOMAIN tree
          /\ tree[SubSeq(path, 1, n)] = Mapping

ASSUME DocumentsAssumption ==
    /\ "secret_ref" \in LayerKeys
    /\ \A document \in LayerDocuments : IsTree(document)

\* compose_layered_config's locals; provenance maps a path to the layer's position.
VARIABLES layers,       \* the documents merged so far, in order
          effective,    \* the configuration composed from them
          provenance,
          conflicts,    \* overrides: [path, previous, new]; previous 0 for "mixed"
          composed      \* "composing", "done", or "refused" when composing raised

layerVars == <<layers, effective, provenance, conflicts, composed>>

EmptyDocument == [path \in {Root} |-> Mapping]

LayersInit ==
    /\ layers = <<>>
    /\ effective = EmptyDocument
    /\ provenance = [path \in {} |-> 0]
    /\ conflicts = {}
    /\ composed = "composing"

-----------------------------------------------------------------------------
Under(path, node) == IsPrefix(path, node)

Children(tree, path) == {n \in DOMAIN tree : n # Root /\ ParentOf(n) = path}

Subtree(tree, path) == [n \in {m \in DOMAIN tree : Under(path, m)} |-> tree[n]]

\* A mapping whose only key is secret_ref stands for one value; the document does not.
IsSecretRef(tree, path) ==
    /\ path # Root
    /\ tree[path] = Mapping
    /\ Children(tree, path) = {Append(path, "secret_ref")}

WithinSecretRef(tree, path) ==
    \E n \in 1 .. Len(path) - 1 : IsSecretRef(tree, SubSeq(path, 1, n))

\* The paths that hold a value of their own
LeavesOf(tree) ==
    {path \in DOMAIN tree :
        /\ tree[path] # Mapping \/ IsSecretRef(tree, path)
        /\ ~WithinSecretRef(tree, path)}

\* _merge_mapping descends while both sides are mappings and the incoming one is not
\* a secret reference; what the present one is does not matter.
Descends(tree, document, path) ==
    \A n \in 1..Len(path) :
        LET step == SubSeq(path, 1, n)
        IN /\ step \in DOMAIN tree /\ tree[step] = Mapping
           /\ document[step] = Mapping /\ ~IsSecretRef(document, step)

\* The nodes the layer puts in place, each with everything below it
Placed(tree, document) ==
    {path \in DOMAIN document :
        /\ ~Descends(tree, document, path)
        /\ Len(path) > 0
        /\ Descends(tree, document, ParentOf(path))}

Overridden(tree, document) ==
    {path \in Placed(tree, document) :
        path \in DOMAIN tree /\ Subtree(tree, path) # Subtree(document, path)}

Merged(tree, document) ==
    LET placed == Placed(tree, document)
        kept == {n \in DOMAIN tree : \A path \in placed : ~Under(path, n)}
        added == {n \in DOMAIN document : \E path \in placed : Under(path, n)}
    IN [n \in kept \cup added |-> IF n \in added THEN document[n] ELSE tree[n]]

\* _record_provenance: one entry for a scalar and one for a secret reference; a
\* mapping without entries leaves none.
RecordedPaths(document, placed) ==
    {n \in LeavesOf(document) : \E path \in placed : Under(path, n)}

\* _previous_layer_for_path: the path's own entry, else the layers found below it
PreviousLayers(path) ==
    IF path \in DOMAIN provenance
    THEN {provenance[path]}
    ELSE {provenance[n] : n \in {m \in DOMAIN provenance : Under(path, m)}}

\* _clear_provenance, then the layer's own entries
ProvenanceKeepsOld(cleared, recorded, layer) ==
    [n \in DOMAIN provenance \cup recorded |-> IF n \in recorded THEN layer ELSE provenance[n]]
Provenance(cleared, recorded, layer) ==
    LET kept == {n \in DOMAIN provenance : \A path \in cleared : ~Under(path, n)}
    IN [n \in kept \cup recorded |-> IF n \in recorded THEN layer ELSE provenance[n]]

\* One layer is merged.  An override of a path no entry speaks for raises.
MergeLayer(document) ==
    /\ composed = "composing"
    /\ Len(layers) < MaxLayers
    /\ LET placed == Placed(effective, document)
           overridden == Overridden(effective, document)
           layer == Len(layers) + 1
       IN IF \E path \in overridden : PreviousLayers(path) = {}
          THEN /\ composed' = "refused"
               /\ UNCHANGED <<layers, effective, provenance, conflicts>>
          ELSE /\ layers' = Append(layers, document)
               /\ effective' = Merged(effective, document)
               /\ provenance' = Provenance(overridden, RecordedPaths(document, placed), layer)
               /\ conflicts' = conflicts \cup
                     {[path |-> path, new |-> layer, previous |->
                         IF Cardinality(PreviousLayers(path)) = 1
                         THEN CHOOSE l \in PreviousLayers(path) : TRUE ELSE 0] :
                      path \in overridden}
               /\ UNCHANGED composed

\* At least one layer is required.
Compose ==
    /\ composed = "composing"
    /\ layers # <<>>
    /\ composed' = "done"
    /\ UNCHANGED <<layers, effective, provenance, conflicts>>

LayersNext == Compose \/ \E document \in LayerDocuments : MergeLayer(document)

LayersSpec == LayersInit /\ [][LayersNext]_layerVars

-----------------------------------------------------------------------------
\* Properties

\* Secret references a later mapping was merged into: the mapping keeps the entry of
\* the reference it no longer is, and its secret_ref has that entry or a second one.
Outgrown == {n \in DOMAIN provenance :
                n \in DOMAIN effective /\ effective[n] = Mapping /\ ~IsSecretRef(effective, n)}

\* Outside those, every value of the effective configuration is accounted to the last
\* layer that gave it and nothing else is accounted for.  The last layer always holds.
ProvenanceIsLast ==
    /\ \A leaf \in LeavesOf(effective) :
          \/ \E path \in Outgrown : Under(Append(path, "secret_ref"), leaf)
          \/ /\ leaf \in DOMAIN provenance
             /\ Subtree(layers[provenance[leaf]], leaf) = Subtree(effective, leaf)
             /\ \A later \in provenance[leaf] + 1 .. Len(layers) :
                   leaf \notin LeavesOf(layers[later])
    /\ DOMAIN provenance \subseteq LeavesOf(effective) \cup Outgrown
    /\ layers # <<>> =>
          \A leaf \in LeavesOf(Last(layers)) :
              Subtree(Last(layers), leaf) = Subtree(effective, leaf)

\* No value is overridden in silence: a scalar that some layer gave, in a secret
\* reference or not, and that no longer holds is under a conflict of a later layer.
OverridesReported ==
    \A i \in 1..Len(layers) : \A path \in DOMAIN layers[i] :
        \/ layers[i][path] = Mapping
        \/ path \in DOMAIN effective /\ effective[path] = layers[i][path]
        \/ \E c \in conflicts : c.new > i /\ Under(c.path, path)

\* Both, of the composition of layers.
LayersAccounted == ProvenanceIsLast /\ OverridesReported
=============================================================================
