------------------------------ MODULE MutationWriter ------------------------------
(***************************************************************************)
(* Dioxus drives the document: MutationWriter turns the mutations of one   *)
(* render into calls of one DocumentMutator, which flushes at the end of   *)
(* the render (dioxus-native-dom/src/mutation_writer.rs).  A node that     *)
(* Dioxus removed is dropped when its ElementId is assigned again.         *)
(*                                                                         *)
(* dioxus-core, which issues the mutations, is external: it gives out      *)
(* ElementIds that no mounted element has, and those of a removed element  *)
(* and of all below it are free again, unless it means to put the element  *)
(* back.                                                                   *)
(***************************************************************************)
EXTENDS DomTree

CONSTANT ElementIds

ASSUME ElementIdsAssumption == None \notin ElementIds

VARIABLES
    node_id_mapping,    \* ElementId -> NodeId
    element_id_mapping, \* NodeId -> ElementId
    stack,              \* nodes made and not inserted yet
    mounted,            \* the ElementIds dioxus-core has in use
    rendering           \* a render is under way

writerVars == <<node_id_mapping, element_id_mapping, stack, mounted, rendering>>

WriterTypeOK ==
    /\ node_id_mapping \in [ElementIds -> Option(Nodes)]
    /\ element_id_mapping \in [Nodes -> Option(ElementIds)]
    /\ stack \in Seq(Nodes)
    /\ mounted \subseteq ElementIds
    /\ rendering \in BOOLEAN

(* Element 0, the root, is always mapped to the document's root.           *)
WriterInit ==
    /\ node_id_mapping = [e \in ElementIds |-> None]
    /\ element_id_mapping = [n \in Nodes |-> None]
    /\ stack = <<>>
    /\ mounted = {}
    /\ rendering = FALSE

Rendering == ~panicked /\ rendering /\ UNCHANGED <<panicked, rendering>>

(* A batch of nodes on the top of the stack: m_stack_nodes.                *)
TopNodes(m) == SubSeq(stack, Len(stack) - m + 1, Len(stack))
BelowTop(m) == SubSeq(stack, 1, Len(stack) - m)

(* The node of a mounted element; the root's, for None.                    *)
NodeOf(e) == IF e = None THEN Document ELSE node_id_mapping[e]

(* dioxus-core puts what is on the stack in its place before it turns to   *)
(* what is above or below it.                                              *)
BelowStack == UNION {Subtree(dom, n) : n \in ToSet(stack)}
Apart(e) ==
    NodeOf(e) \notin BelowStack /\ Subtree(dom, NodeOf(e)) \cap ToSet(stack) = {}

(* set_id_mapping, from these two maps, with both directions in step.      *)
SetIdMapping(to_node, to_element, e, n) ==
    LET old == to_node[e]
        cleared == IF old # None /\ to_element[old] = e
                   THEN [to_element EXCEPT ![old] = None] ELSE to_element
    IN  /\ node_id_mapping' = [to_node EXCEPT ![e] = n]
        /\ element_id_mapping' = [cleared EXCEPT ![n] = e]
        /\ mounted' = mounted \cup {e}

(* The maps after these nodes were dropped: the on_drop callback of        *)
(* assign_node_id.  Mutant: only the entry that is assigned again.         *)
UnmappedNothing(gone) == node_id_mapping
Unmapped(gone) ==
    [e \in ElementIds |->
        IF \E n \in gone : element_id_mapping[n] = e /\ node_id_mapping[e] = n
        THEN None ELSE node_id_mapping[e]]
Forgotten(gone) ==
    [n \in Nodes |-> IF n \in gone THEN None ELSE element_id_mapping[n]]

-----------------------------------------------------------------------------
(* The mutations of a render.                                              *)

(* MutationWriter::new makes the mutator of the render.                    *)
StartRender ==
    /\ ~panicked /\ ~rendering
    /\ rendering' = TRUE
    /\ UNCHANGED <<domVars, node_id_mapping, element_id_mapping, stack, mounted>>

(* The writer is dropped and its mutator flushes; what dioxus-core made it *)
(* also inserted.                                                          *)
EndRender ==
    /\ ~panicked /\ rendering /\ stack = <<>>
    /\ rendering' = FALSE
    /\ Flush(dom)
    /\ UNCHANGED <<node_id_mapping, element_id_mapping, stack, mounted>>

(* create_text_node, create_placeholder, and load_template of a template   *)
(* of one node: the node is mapped and pushed.  Nothing is dropped for it. *)
CreateMapped(e, n) ==
    /\ Rendering
    /\ e \notin mounted /\ n \in dom.unused
    /\ dom' = CreateNode(dom, n)
    /\ SetIdMapping(node_id_mapping, element_id_mapping, e, n)
    /\ stack' = Append(stack, n)

(* load_template of a template with an inner node that will be assigned:   *)
(* the clone of its tree.                                                  *)
LoadTemplate(e, n, inner) ==
    /\ Rendering
    /\ e \notin mounted /\ {n, inner} \subseteq dom.unused /\ n # inner
    /\ dom' = [AppendChildren(CreateNode(CreateNode(dom, n), inner), n, <<inner>>)
                  EXCEPT !.style_nodes = dom.style_nodes]
    /\ SetIdMapping(node_id_mapping, element_id_mapping, e, n)
    /\ stack' = Append(stack, n)

(* assign_node_id, of a node in the template just loaded: the node this    *)
(* ElementId had before is dropped, if it has no parent, with its subtree. *)
AssignNodeId(e, n) ==
    LET old == node_id_mapping[e]
        drops == old # None /\ dom.parent[old] = None
        gone == IF drops THEN Subtree(dom, old) ELSE {}
    IN  /\ Rendering
        /\ e \notin mounted /\ stack # <<>> /\ dom.parent[Last(stack)] = None
        /\ n \in ToSet(dom.children[Last(stack)]) /\ element_id_mapping[n] = None
        /\ dom' = IF drops THEN RemoveAndDrop(dom, old) ELSE dom
        /\ SetIdMapping(Unmapped(gone), Forgotten(gone), e, n)
        /\ UNCHANGED stack

(* append_children, insert_nodes_before, insert_nodes_after.  The nodes    *)
(* dioxus-core moves are those out of order, so that none of them follows  *)
(* its anchor already.                                                     *)
Inserting(m, t) ==
    /\ Rendering
    /\ dom' = t
    /\ stack' = BelowTop(m)
    /\ UNCHANGED <<node_id_mapping, element_id_mapping, mounted>>

AppendToElement(e, m) ==
    /\ NodeOf(e) \notin BelowStack
    /\ Inserting(m, AppendChildren(dom, NodeOf(e), TopNodes(m)))

InsertBeforeElement(e, m) ==
    /\ dom.parent[NodeOf(e)] # None
    /\ Inserting(m, InsertNodesBefore(dom, NodeOf(e), TopNodes(m)))

InsertAfterElement(e, m) ==
    /\ dom.parent[NodeOf(e)] # None
    /\ ViableNext(dom, NodeOf(e), <<>>) \notin ToSet(TopNodes(m))
    /\ Inserting(m, InsertNodesAfter(dom, NodeOf(e), TopNodes(m)))

(* The ElementIds of n and of what is below it.                            *)
IdsBelow(n) == {e \in mounted : node_id_mapping[e] \in Subtree(dom, n)}

(* replace_node_with, by nodes that are on the stack.                      *)
ReplaceElementWith(e, m) ==
    /\ Rendering
    /\ dom.parent[NodeOf(e)] # None
    /\ dom' = ReplaceNodeWith(dom, NodeOf(e), TopNodes(m))
    /\ stack' = BelowTop(m)
    /\ mounted' = mounted \ IdsBelow(NodeOf(e))
    /\ UNCHANGED <<node_id_mapping, element_id_mapping>>

(* replace_placeholder_with_nodes: the nodes leave the stack first, then   *)
(* the placeholder is looked up in the template below them.                *)
ReplacePlaceholder(m, n) ==
    /\ Rendering
    /\ m < Len(stack)
    /\ LET template == Last(BelowTop(m)) IN
       /\ dom.parent[template] = None
       /\ n \in ToSet(dom.children[template]) /\ element_id_mapping[n] = None
    /\ dom' = ReplaceNodeWith(dom, n, TopNodes(m))
    /\ stack' = BelowTop(m)
    /\ UNCHANGED <<node_id_mapping, element_id_mapping, mounted>>

(* remove_node: dioxus-core may keep the element to put it back later.     *)
RemoveElement(e, kept) ==
    /\ Rendering
    /\ dom' = RemoveNode(dom, NodeOf(e))
    /\ mounted' = mounted \ (IF kept THEN {} ELSE IdsBelow(NodeOf(e)))
    /\ UNCHANGED <<node_id_mapping, element_id_mapping, stack>>

(* push_root, of an element that is moved or put back.                     *)
PushRoot(e) ==
    /\ Rendering
    /\ stack' = Append(stack, NodeOf(e))
    /\ UNCHANGED <<dom, node_id_mapping, element_id_mapping, mounted>>

(* set_attribute of the id.                                                *)
SetElementId(e, i) ==
    /\ Rendering
    /\ dom' = SetId(dom, NodeOf(e), i)
    /\ UNCHANGED <<node_id_mapping, element_id_mapping, stack, mounted>>

(* set_attribute of dangerous_inner_html, on an element that has no other  *)
(* children of Dioxus: the old content is dropped.                         *)
DangerousInnerHtml(e, root, n) ==
    /\ Rendering
    /\ {root, n} \subseteq dom.unused /\ root # n /\ Kind[root] = "element"
    /\ \A c \in ToSet(dom.children[NodeOf(e)]) : IdsBelow(c) = {}
    /\ dom' = ParseInnerHtml(DropAllChildren(dom, NodeOf(e)), NodeOf(e), root, n, None)
    /\ UNCHANGED <<node_id_mapping, element_id_mapping, stack, mounted>>

Mutation ==
    \/ \E e \in ElementIds, n \in Nodes :
          \/ CreateMapped(e, n)
          \/ AssignNodeId(e, n)
          \/ \E inner \in Nodes : LoadTemplate(e, n, inner)
    \/ \E m \in 1..Len(stack), e \in Option(mounted) : AppendToElement(e, m)
    \/ \E m \in 1..Len(stack), n \in Nodes : ReplacePlaceholder(m, n)
    \/ \E e \in mounted :
          /\ Apart(e)
          /\ \/ \E m \in 1..Len(stack) :
                   \/ InsertBeforeElement(e, m)
                   \/ InsertAfterElement(e, m)
                   \/ ReplaceElementWith(e, m)
             \/ PushRoot(e)
             \/ \E kept \in BOOLEAN : RemoveElement(e, kept)
             \/ \E root, n \in Nodes : DangerousInnerHtml(e, root, n)
-----------------------------------------------------------------------------
(* Properties.                                                             *)

(* Every ElementId that is mapped is mapped to a node that exists, so that *)
(* neither a later render nor an event indexes the node map with the id of *)
(* a dropped node; no mounted element and no node on the stack was dropped *)
(* for an ElementId that came free (mutation_writer.rs:117-143).           *)
MappedElementsAreLive ==
    /\ \A e \in ElementIds : node_id_mapping[e] \in Option(dom.live)
    /\ \A e \in mounted : node_id_mapping[e] # None
    /\ \A n \in Nodes : element_id_mapping[n] # None =>
          n \in dom.live /\ node_id_mapping[element_id_mapping[n]] = n
    /\ ToSet(stack) \subseteq dom.live

(* No NodeId kept outside the tree names a dropped node.                   *)
NothingDangles == ReferencesAreLive /\ MappedElementsAreLive

(* After a render, a hit test that runs before the next resolve finds no   *)
(* dropped node in the paint lists it follows (mutator.rs:661-669).        *)
PaintListsAreLive == ~rendering => Visited(dom) \subseteq dom.live
=============================================================================
