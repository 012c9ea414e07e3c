------------------------------- MODULE DomBindings -------------------------------
(***************************************************************************)
(* The DOM as scripts call it (strake-vibey-script/src/dom/node.rs,        *)
(* element.rs, document.rs).  A call makes its own mutator, which flushes  *)
(* before the call returns; nodes are detached and never dropped, since a  *)
(* wrapper may refer to them.                                              *)
(*                                                                         *)
(* Nodes inserted are distinct and none is an ancestor of the place they   *)
(* go to.  replaceChild throws otherwise; the other calls rely on the page.*)
(***************************************************************************)
EXTENDS DomTree

CONSTANT MaxInserted    \* bound: nodes that one call inserts

ASSUME InsertedAssumption == MaxInserted \in Nat

(* Lists of nodes that a call may be given for parent p.                   *)
Insertable(p) ==
    {ns \in UNION {[1..k -> dom.live] : k \in 1..MaxInserted} :
        /\ IsInjective(ns)
        /\ p \notin UNION {Subtree(dom, n) : n \in ToSet(ns)}
        /\ \A i \in DOMAIN ns : Kind[ns[i]] = "fragment" => Len(ns) = 1}

Parents == dom.live \cup {Document}
Parented == {n \in dom.live : dom.parent[n] # None}

(* insertable_node_ids: a fragment stands for its children, which a        *)
(* mutator of their own detaches; with the document after it.              *)
Expanded(t, ns) ==
    IF Len(ns) = 1 /\ Kind[Head(ns)] = "fragment" THEN t.children[Head(ns)] ELSE ns
Emptied(t, ns) ==
    IF Len(ns) = 1 /\ Kind[Head(ns)] = "fragment"
    THEN Flushed(RemoveChildren(t, Head(ns))) ELSE t

(* document.createElement, createDocumentFragment, createTextNode.         *)
CreateElement ==
    \E n \in dom.unused : Flush(CreateNode(dom, n))

(* node.appendChild(new): detached, then appended.                         *)
AppendChild ==
    \E p \in Parents : \E new \in {ns \in Insertable(p) : Len(ns) = 1} :
        LET ns == Expanded(dom, new) IN
        Flush(AppendChildren(DetachAll(Emptied(dom, new), ns), p, ns))

(* parent.insertBefore(new, ref): before ref wherever that is, and at the  *)
(* end of the parent when ref has lost its parent meanwhile.               *)
InsertBefore ==
    \E ref \in Parented : \E p \in Parents : \E new \in Insertable(p) :
        /\ Len(new) = 1 /\ Head(new) # ref
        /\ \A n \in ToSet(Expanded(dom, new)) : dom.parent[ref] \notin Subtree(dom, n)
        /\ LET ns == Expanded(dom, new)
               t == DetachAll(Emptied(dom, new), ns)
           IN  Flush(IF t.parent[ref] # None THEN InsertNodesBefore(t, ref, ns)
                     ELSE AppendChildren(t, p, ns))

(* parent.replaceChild(new, old).                                          *)
ReplaceChild ==
    \E old \in Parented : \E new \in Insertable(dom.parent[old]) :
        /\ Len(new) = 1 /\ Head(new) # old
        /\ LET ns == Expanded(dom, new) IN
           Flush(RemoveNode(InsertNodesBefore(DetachAll(Emptied(dom, new), ns), old, ns), old))

(* node.remove(), parent.removeChild(node).  Without a parent, removeChild *)
(* still runs the bookkeeping of a removal.                                *)
RemoveChild(n) == n \in dom.live /\ Flush(RemoveNode(dom, n))

(* append, prepend and replaceChildren.                                    *)
Append2 ==
    \E p \in Parents : \E new \in Insertable(p) :
        Flush(AppendChildren(Emptied(dom, new), p, Expanded(dom, new)))
Prepend ==
    \E p \in Parents : \E new \in Insertable(p) :
        Flush(PrependNodes(Emptied(dom, new), p, Expanded(dom, new)))
ReplaceAllChildren ==
    \E p \in Parents : \E new \in Insertable(p) :
        Flush(ReplaceChildren(Emptied(dom, new), p, Expanded(dom, new)))

(* before, after and replaceWith.                                          *)
Before ==
    \E n \in Parented : \E new \in Insertable(dom.parent[n]) :
        Flush(BeforeNode(Emptied(dom, new), n, Expanded(dom, new)))
After ==
    \E n \in Parented : \E new \in Insertable(dom.parent[n]) :
        Flush(AfterNode(Emptied(dom, new), n, Expanded(dom, new)))
ReplaceWith ==
    \E n \in Parented : \E new \in Insertable(dom.parent[n]) :
        Flush(ReplaceWithNodes(Emptied(dom, new), n, Expanded(dom, new)))

(* element.textContent = "", element.innerHTML = markup: the children are  *)
(* detached first.                                                         *)
SetTextContent(p) == p \in Parents /\ Flush(RemoveChildren(dom, p))
SetInnerHtml ==
    \E p \in Parents \ {Document}, root, n \in dom.unused, i \in Option(Ids) :
        /\ root # n /\ Kind[root] = "element" /\ Kind[n] # "fragment"
        /\ Flush(ParseInnerHtml(DropAllChildren(RemoveChildren(dom, p), p),
                                p, root, n, i))

(* element.id = i, removeAttribute("id").                                  *)
SetAttribute == \E n \in {m \in dom.live : Kind[m] # "fragment"}, i \in Option(Ids) : Flush(SetId(dom, n, i))

(* node.cloneNode(true), of a node without style elements.                 *)
CloneNode ==
    \E n \in dom.live :
        \E fresh \in [Subtree(dom, n) -> dom.unused] :
            /\ IsInjective(fresh)
            /\ \A m \in DOMAIN fresh : Kind[fresh[m]] = Kind[m] /\ Kind[m] # "style"
            /\ Flush(DeepClone(dom, fresh))

(* element.focus(), in the document or not; blur().                        *)
Focus == \E n \in Option(dom.live) : Flush([dom EXCEPT !.focus = n])

TreeCall ==
    \/ CreateElement
    \/ AppendChild \/ InsertBefore \/ ReplaceChild \/ \E n \in Nodes : RemoveChild(n)
    \/ Append2 \/ Prepend \/ ReplaceAllChildren
    \/ Before \/ After \/ ReplaceWith
    \/ \E p \in AllNodes : SetTextContent(p)
-----------------------------------------------------------------------------
(* A removal hands hover to the parent of what was removed: the chain of   *)
(* hovered elements that survives is not interrupted (document.rs:911-918).*)
BridgedTo(n) == IF dom.parent[n] \in Nodes THEN dom.parent[n] ELSE None
HoverIsBridged ==
    [][\A n \in Nodes :
          (RemoveChild(n) /\ n \in dom.in_document /\ dom.hover \in Subtree(dom, n))
              => dom'.hover = BridgedTo(n)]_domVars
=============================================================================
