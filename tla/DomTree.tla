--------------------------------- MODULE DomTree ---------------------------------
(***************************************************************************)
(* The node tree of a document and what must follow it: the in-document    *)
(* flags, the map of id attributes, hover and focus, the paint lists that  *)
(* hit tests walk, and the sheets of <style> elements (mutator.rs,         *)
(* document.rs, query_selector.rs).                                        *)
(*                                                                         *)
(* The document is one record, and each method of DocumentMutator an       *)
(* operator from such a record to the next: callers run several of them    *)
(* under one mutator, which flushes when it is dropped.  A NodeId is never *)
(* given out again (tree.rs), so a dropped node never comes back to life.  *)
(***************************************************************************)
EXTENDS Naturals, FiniteSets, SequencesExt, Vectors

CONSTANTS
    Nodes,      \* the NodeIds there are, but for the root's
    Document,   \* the root node
    Ids,        \* values of id attributes
    Kind        \* what each node is: see Kinds

Kinds == {"element", "style", "fragment"}

ASSUME KindsAssumption ==
    /\ IsFiniteSet(Nodes)
    /\ Kind \in [Nodes -> Kinds]
    /\ Document \notin Nodes
    /\ None \notin Nodes \cup Ids \cup {Document}

VARIABLES
    dom,        \* the document: see Documents
    panicked    \* the main thread indexed the node map with a dropped node

domVars == <<dom, panicked>>

AllNodes == Nodes \cup {Document}

Documents ==
    [unused : SUBSET Nodes,                      \* ids not given out yet
     live : SUBSET Nodes,
     parent : [Nodes -> Option(AllNodes)],
     children : [AllNodes -> Seq(Nodes)],
     in_document : SUBSET AllNodes,              \* IS_IN_DOCUMENT is set
     id : [Nodes -> Option(Ids)],
     nodes_to_id : [Ids -> SUBSET Nodes],
     hover : Option(Nodes),
     focus : Option(Nodes),
     paint_children : [AllNodes -> SUBSET Nodes],
     nodes_to_stylesheet : SUBSET Nodes,         \* inline sheets only
     style_nodes : SUBSET Nodes]                 \* queued for the flush

TreeTypeOK == dom \in Documents /\ panicked \in BOOLEAN

TreeInit ==
    /\ dom = [unused |-> Nodes, live |-> {},
              parent |-> [n \in Nodes |-> None],
              children |-> [n \in AllNodes |-> <<>>],
              in_document |-> {Document},
              id |-> [n \in Nodes |-> None],
              nodes_to_id |-> [i \in Ids |-> {}],
              hover |-> None, focus |-> None,
              paint_children |-> [n \in AllNodes |-> {}],
              nodes_to_stylesheet |-> {}, style_nodes |-> {}]
    /\ panicked = FALSE

-----------------------------------------------------------------------------
(* Traversal.                                                              *)

(* All that is met from these nodes on, where each leads to others.        *)
Reached(leads, from) ==
    LET met[depth \in 0..Cardinality(Nodes)] ==
            IF depth = 0 THEN from
            ELSE LET before == met[depth - 1] IN before \cup UNION {leads[m] : m \in before}
    IN  met[Cardinality(Nodes)]

(* iter_subtree_mut: n and all below it, by the lists of children.         *)
Subtree(t, n) == Reached([m \in AllNodes |-> ToSet(t.children[m])], {n})

(* What AncestorTraverser meets, by the parent links.                      *)
Up(t, m) == IF m \in Nodes THEN {t.parent[m]} \ {None} ELSE {}
Ancestors(t, n) == Reached([m \in AllNodes |-> Up(t, m)], Up(t, n))

(* nearest_surviving_element_ancestor.  Mutant: any node will do.          *)
NearestNode(t, n, in_document) ==
    LET surviving == Ancestors(t, n) \cap in_document IN
    IF surviving = {} THEN None
    ELSE CHOOSE m \in surviving : \A a \in surviving \ {m} : a \in Ancestors(t, m)
NearestSurviving(t, n, in_document) ==
    LET surviving == Ancestors(t, n) \cap in_document \cap Nodes IN
    IF surviving = {} THEN None
    ELSE CHOOSE m \in surviving : \A a \in surviving \ {m} : a \in Ancestors(t, m)

(* The nodes below n in tree order.                                        *)
TreeOrder(t, n) ==
    LET order[depth \in 0..Cardinality(Nodes)] ==
            IF depth = 0 THEN [m \in AllNodes |-> <<m>>]
            ELSE LET below == order[depth - 1]
                 IN  [m \in AllNodes |->
                         <<m>> \o FlattenSeq([i \in DOMAIN t.children[m] |->
                                                  below[t.children[m][i]]])]
    IN  order[Cardinality(Nodes)][n]

(* get_element_by_id: the candidates of the map, first in tree order when  *)
(* there are several.  Mutant: any of them.                                *)
AnyCandidate(t, i) ==
    IF t.nodes_to_id[i] = {} THEN None ELSE CHOOSE n \in t.nodes_to_id[i] : TRUE
GetElementById(t, i) ==
    LET candidates == t.nodes_to_id[i]
        found == Filtered(TreeOrder(t, Document), candidates)
    IN  IF Cardinality(candidates) = 1 THEN CHOOSE n \in candidates : TRUE
        ELSE IF found = <<>> THEN None ELSE Head(found)

-----------------------------------------------------------------------------
(* Bookkeeping of the mutator.                                             *)

(* maybe_record_node: a style element whose children changed is processed  *)
(* by the flush, in the document or not.                                   *)
Recorded(t, n) ==
    IF n \in Nodes /\ Kind[n] = "style" THEN [t EXCEPT !.style_nodes = @ \cup {n}] ELSE t

(* process_added_subtree, with the node of a new parent already linked.    *)
ProcessAdded(t, n) ==
    LET added == Subtree(t, n) IN
    [t EXCEPT !.in_document = @ \cup added,
              !.nodes_to_id = [i \in Ids |-> @[i] \cup {m \in added : t.id[m] = i}],
              !.style_nodes = @ \cup {m \in added : Kind[m] = "style"}]

(* clear_interaction_state_for_removed_node for the nodes gone, root       *)
(* first.                                                                  *)
InteractionCleared(t, gone) ==
    [t EXCEPT !.hover = IF @ \in gone
                        THEN NearestSurviving(t, @, t.in_document \ gone) ELSE @,
              !.focus = IF @ \in gone THEN None ELSE @]

(* process_removed_subtree: flags, interaction state, id map and sheets    *)
(* (unload_stylesheet) of the whole subtree.                               *)
ProcessRemoved(t, n) ==
    LET gone == Subtree(t, n) IN
    [InteractionCleared(t, gone) EXCEPT
        !.in_document = @ \ gone,
        !.nodes_to_id = [i \in Ids |-> @[i] \ {m \in gone : t.id[m] = i}],
        !.nodes_to_stylesheet = @ \ gone]

(* Both ends of the link of n to its parent.                               *)
Unlinked(t, n) ==
    LET p == t.parent[n] IN
    Recorded([t EXCEPT !.parent[n] = None,
                       !.children[p] = Filtered(@, Nodes \ {n})], p)

(* detach_node_no_record: the subtree is processed before the link to the  *)
(* parent is cut, so that hover finds a surviving ancestor.  Mutant: after.*)
DetachedFirst(t, n) ==
    IF t.parent[n] = None THEN ProcessRemoved(t, n) ELSE ProcessRemoved(Unlinked(t, n), n)
RemoveNode(t, n) ==
    LET removed == ProcessRemoved(t, n) IN
    IF t.parent[n] = None THEN removed ELSE Unlinked(removed, n)

(* detach_all, in the mutator and in the JavaScript bindings.              *)
DetachAll(t, ns) ==
    Folded(LAMBDA u, n : IF u.parent[n] = None THEN u ELSE RemoveNode(u, n), t, ns)

(* remove_node for each child of p.                                        *)
RemoveChildren(t, p) == Folded(RemoveNode, t, t.children[p])

-----------------------------------------------------------------------------
(* Insertion.                                                              *)

(* Where a node goes in a list of children; None: at the end.              *)
Spliced(seq, anchor, ns) ==
    IF anchor = None THEN seq \o ns
    ELSE LET at == SelectInSeq(seq, LAMBDA m : m = anchor)
         IN  SubSeq(seq, 1, at - 1) \o ns \o SubSeq(seq, at, Len(seq))

(* The end of add_children_to_parent for one child: flags follow those of  *)
(* the new parent.  Mutant: a node that leaves the document is not         *)
(* processed.                                                              *)
AdoptAdded(t, p, n) ==
    LET linked == [t EXCEPT !.parent[n] = p] IN
    IF p \in t.in_document /\ n \notin t.in_document THEN ProcessAdded(linked, n) ELSE linked
Adopted(t, p, n) ==
    LET linked == [t EXCEPT !.parent[n] = p] IN
    CASE p \in t.in_document /\ n \notin t.in_document -> ProcessAdded(linked, n)
      [] p \notin t.in_document /\ n \in t.in_document -> ProcessRemoved(linked, n)
      [] OTHER -> linked

(* add_children_to_parent: every node leaves its old parent before the     *)
(* first one is inserted.                                                  *)
InsertNodes(t, p, ns, anchor) ==
    LET unlinked == Folded(LAMBDA u, n : IF u.parent[n] = None THEN u ELSE Unlinked(u, n), t, ns)
        inserted == [unlinked EXCEPT !.children[p] = Spliced(@, anchor, ns)]
    IN  Recorded(Folded(LAMBDA u, n : Adopted(u, p, n), inserted, ns), p)

AppendChildren(t, p, ns) == InsertNodes(t, p, ns, None)
InsertNodesBefore(t, anchor, ns) == InsertNodes(t, t.parent[anchor], ns, anchor)

FirstChild(t, p) == IF t.children[p] = <<>> THEN None ELSE Head(t.children[p])

(* The nearest sibling on one side that is not among ns: viable_sibling,   *)
(* and next_sibling_id with no ns.                                         *)
ViableNext(t, anchor, ns) ==
    LET siblings == t.children[t.parent[anchor]]
        at == SelectInSeq(siblings, LAMBDA m : m = anchor)
        after == Filtered(SubSeq(siblings, at + 1, Len(siblings)), Nodes \ ToSet(ns))
    IN  IF after = <<>> THEN None ELSE Head(after)
ViablePrevious(t, anchor, ns) ==
    LET siblings == t.children[t.parent[anchor]]
        at == SelectInSeq(siblings, LAMBDA m : m = anchor)
        before == Filtered(SubSeq(siblings, 1, at - 1), Nodes \ ToSet(ns))
    IN  IF before = <<>> THEN None ELSE Last(before)

(* insert_nodes_after: before the next sibling, or at the end.             *)
InsertNodesAfter(t, anchor, ns) ==
    InsertNodes(t, t.parent[anchor], ns, ViableNext(t, anchor, <<>>))

(* replace_node_with.                                                      *)
ReplaceNodeWith(t, anchor, ns) == RemoveNode(InsertNodesBefore(t, anchor, ns), anchor)

(* prepend_nodes, before_node, after_node and replace_with_nodes: the      *)
(* nodes are detached first.                                               *)
PrependNodes(t, p, ns) ==
    LET u == DetachAll(t, ns) IN InsertNodes(u, p, ns, FirstChild(u, p))
BeforeNode(t, anchor, ns) ==
    LET p == t.parent[anchor]
        previous == ViablePrevious(t, anchor, ns)
        u == DetachAll(t, ns)
    IN  IF previous = None THEN InsertNodes(u, p, ns, FirstChild(u, p))
        ELSE InsertNodesAfter(u, previous, ns)
AfterNode(t, anchor, ns) ==
    InsertNodes(DetachAll(t, ns), t.parent[anchor], ns, ViableNext(t, anchor, ns))
ReplaceWithNodes(t, anchor, ns) ==
    LET u == DetachAll(t, ns) IN
    IF u.parent[anchor] # None THEN ReplaceNodeWith(u, anchor, ns)
    ELSE InsertNodes(u, t.parent[anchor], ns, ViableNext(t, anchor, ns))

(* replace_children.                                                       *)
ReplaceChildren(t, p, ns) ==
    LET u == DetachAll(t, ns) IN
    AppendChildren(RemoveChildren(u, p), p, ns)

-----------------------------------------------------------------------------
(* Creation, dropping, attributes, the flush.                              *)

(* create_element, create_text_node, create_comment_node.                  *)
CreateNode(t, n) == [t EXCEPT !.unused = @ \ {n}, !.live = @ \cup {n}]

(* deep_clone_node of node n with these fresh ids for its subtree: the     *)
(* attributes are cloned, nothing of the document follows.                 *)
DeepClone(t, fresh) ==
    LET of == [m \in ToSet(fresh) |-> CHOOSE n \in DOMAIN fresh : fresh[n] = m]
        CopyOf(n) == IF n = None \/ n \notin DOMAIN fresh THEN None ELSE fresh[n]
    IN  [t EXCEPT
            !.unused = @ \ ToSet(fresh), !.live = @ \cup ToSet(fresh),
            !.id = [m \in Nodes |-> IF m \in DOMAIN of THEN @[of[m]] ELSE @[m]],
            !.parent = [m \in Nodes |-> IF m \in DOMAIN of THEN CopyOf(@[of[m]]) ELSE @[m]],
            !.children = [m \in AllNodes |->
                IF m \in DOMAIN of THEN [i \in DOMAIN @[of[m]] |-> fresh[@[of[m]][i]]] ELSE @[m]]]

(* drop_node_ignoring_parent: the ids in gone are no nodes any more.       *)
Freed(t, gone) ==
    [t EXCEPT !.live = @ \ gone,
              !.id = [n \in Nodes |-> IF n \in gone THEN None ELSE @[n]],
              !.parent = [n \in Nodes |-> IF n \in gone THEN None ELSE @[n]],
              !.children = [n \in AllNodes |-> IF n \in gone THEN <<>> ELSE @[n]],
              !.paint_children = [n \in AllNodes |-> IF n \in gone THEN {} ELSE @[n]]]

(* purge_derived_paint_refs: in the lists of p and of its ancestors.       *)
Purged(t, p, gone) ==
    [t EXCEPT !.paint_children =
        [n \in AllNodes |-> IF n \in {p} \cup Ancestors(t, p) THEN @[n] \ gone ELSE @[n]]]

(* remove_and_drop_node.                                                   *)
RemoveAndDrop(t, n) ==
    LET gone == Subtree(t, n)
        p == t.parent[n]
        freed == Freed(ProcessRemoved(t, n), gone)
    IN  IF p = None THEN freed
        ELSE Recorded(Purged([freed EXCEPT !.children[p] = Filtered(@, Nodes \ {n})],
                             p, gone), p)

(* remove_and_drop_all_children.                                           *)
DropAllChildren(t, p) ==
    LET gone == UNION {Subtree(t, n) : n \in ToSet(t.children[p])}
        removed == Folded(ProcessRemoved, [t EXCEPT !.children[p] = <<>>], t.children[p])
    IN  Recorded(Purged(Freed(removed, gone), p, gone), p)

(* set_attribute and clear_attribute of the id; i = None clears it.        *)
SetId(t, n, i) ==
    [t EXCEPT !.id[n] = i,
              !.nodes_to_id = IF n \notin t.in_document THEN @
                              ELSE [j \in Ids |-> IF j = i THEN @[j] \cup {n} ELSE @[j] \ {n}]]

(* parse_inner_html_into_mutator for p: html5ever builds the nodes under a *)
(* root of its own in the document, from which they move to p; the root,   *)
(* here the id root, is dropped.  The markup is one element n with id i.   *)
ParseInnerHtml(t, p, root, n, i) ==
    LET parsed == AppendChildren(SetId(CreateNode(CreateNode(t, root), n), n, i), Document, <<root>>)
    IN  RemoveAndDrop(AppendChildren(AppendChildren(parsed, root, <<n>>), p, <<n>>), root)

(* DocumentMutator::flush, when the mutator is dropped: it makes a sheet   *)
(* of every queued style element, and panics at one that was dropped since.*)
Flushed(t) ==
    [t EXCEPT !.nodes_to_stylesheet = @ \cup t.style_nodes, !.style_nodes = {}]
Flush(t) ==
    IF t.style_nodes \subseteq t.live
    THEN dom' = Flushed(t) /\ UNCHANGED panicked
    ELSE dom' = t /\ panicked' = TRUE

-----------------------------------------------------------------------------
(* Layout and the pointer.                                                 *)

(* resolve, as far as hit tests see it: every node in the document names   *)
(* its children, and the lists of other nodes stay as they are.  The       *)
(* children of a style element are not laid out.                           *)
Painted(t) ==
    [t EXCEPT !.paint_children =
        [n \in AllNodes |-> IF n \in t.in_document THEN ToSet(t.children[n]) ELSE @[n]]]

(* What a hit test may visit, from the root element down.                  *)
Visited(t) == Reached(t.paint_children, {FirstChild(t, Document)} \ {None})

(* set_hover_to: the hit is any of the nodes visited, or nothing.  A list  *)
(* that names a dropped node makes Node::with panic when it is reached.    *)
SetHover ==
    /\ ~panicked
    /\ \/ \E n \in Option(Visited(dom) \cap dom.live) :
             dom' = [dom EXCEPT !.hover = n] /\ UNCHANGED panicked
       \/ /\ ~(Visited(dom) \subseteq dom.live)
          /\ panicked' = TRUE
          /\ UNCHANGED dom

(* resolve: the lists are rebuilt, and refresh_hover hits again.           *)
Resolve ==
    /\ ~panicked
    /\ \E n \in Option(Visited(Painted(dom))) : dom' = [Painted(dom) EXCEPT !.hover = n]
    /\ UNCHANGED panicked
-----------------------------------------------------------------------------
(* Properties.                                                             *)

(* The two ends of every link agree, no node is below itself, and exactly  *)
(* the nodes reached from the root carry the in-document flag, whatever    *)
(* the order in which subtrees are moved, replaced and dropped             *)
(* (mutator.rs:805-1068).                                                  *)
TreeIsConsistent ==
    /\ \A n \in Nodes, p \in AllNodes :
          Cardinality({i \in DOMAIN dom.children[p] : dom.children[p][i] = n})
              = IF dom.parent[n] = p THEN 1 ELSE 0
    /\ \A n \in Nodes : n \notin Ancestors(dom, n)
    /\ Subtree(dom, Document) = dom.in_document
    /\ dom.in_document \ {Document} \subseteq dom.live

(* m comes before n in tree order: it is above n, or below an earlier      *)
(* sibling of a node n is below.                                           *)
Precedes(t, m, n) ==
    \/ m \in Ancestors(t, n)
    \/ \E p \in AllNodes : \E i, j \in DOMAIN t.children[p] :
          /\ i < j
          /\ m \in Subtree(t, t.children[p][i])
          /\ n \in Subtree(t, t.children[p][j])

(* get_element_by_id answers the first node in tree order with that id     *)
(* attribute, and None only if the document has none, whatever was moved,  *)
(* removed, renamed or cloned since (query_selector.rs:14-55).             *)
FirstInTreeOrder(t, i) ==
    LET named == {n \in Nodes : t.id[n] = i /\ Document \in Ancestors(t, n)} IN
    IF named = {} THEN None
    ELSE CHOOSE n \in named : \A m \in named \ {n} : Precedes(t, n, m)
ElementsAreFoundById ==
    \A i \in Ids : GetElementById(dom, i) = FirstInTreeOrder(dom, i)

(* What the document refers to by NodeId is a node: hover and focus, which *)
(* the next event indexes, and the elements that own a sheet               *)
(* (document.rs:889-973).                                                  *)
ReferencesAreLive ==
    /\ dom.hover \in Option(dom.live)
    /\ dom.focus \in Option(dom.live)
    /\ dom.nodes_to_stylesheet \subseteq dom.live
=============================================================================
