-------------------------------- MODULE MCDomTree --------------------------------
(* A document is driven by scripts or by Dioxus.  Scenarios, one of which a *)
(* behaviour keeps to, share the work: scripts that set ids, clone and      *)
(* parse; scripts while the pointer moves; Dioxus renders; and renders      *)
(* while the pointer and the focus move.                                    *)
EXTENDS DomBindings, MutationWriter

CONSTANTS style_node, fragment_node, Scenarios, HitElements

VARIABLE scenario
vars == <<domVars, writerVars, scenario>>

MCKind == [n \in Nodes |-> CASE n = style_node -> "style" [] n = fragment_node -> "fragment"
                              [] OTHER -> "element"]

Symmetric == Permutations(Nodes \ {style_node, fragment_node}) \cup Permutations(ElementIds)

Init == TreeInit /\ WriterInit /\ scenario \in Scenarios

TypeOK == TreeTypeOK /\ WriterTypeOK

Scripts ==
    /\ ~panicked
    /\ UNCHANGED <<writerVars, scenario>>
    /\ \/ TreeCall
       \/ scenario = "ids" /\ (CloneNode \/ SetAttribute \/ SetInnerHtml)
       \/ scenario = "pointer" /\ (SetHover \/ Resolve)

Dioxus ==
    /\ UNCHANGED scenario
    /\ \/ StartRender
       \/ Mutation
       \/ EndRender
       \/ scenario = "renders" /\ \E e \in mounted, i \in Option(Ids) : SetElementId(e, i)
       \/ scenario = "hits" /\ ~rendering /\ (Focus \/ SetHover \/ Resolve) /\ UNCHANGED writerVars

(* How many nodes of each kind, and how many ElementIds, a scenario uses.   *)
Used(elements, styles, fragments, mapped) ==
    [element |-> elements, style |-> styles, fragment |-> fragments, mapped |-> mapped]
Most == CASE scenario = "ids" -> Used(2, 1, 1, 0)
          [] scenario = "pointer" -> Used(3, 0, 0, 0)
          [] scenario = "renders" -> Used(3, 1, 0, 3)
          [] scenario = "hits" -> Used(HitElements, 0, 0, HitElements - 1)
Bounded ==
    /\ \A k \in Kinds : Cardinality({n \in Nodes \ dom'.unused : Kind[n] = k}) <= Most[k]
    /\ Cardinality({e \in ElementIds : node_id_mapping'[e] # None}) <= Most.mapped

Next ==
    /\ \/ scenario \in {"ids", "pointer"} /\ Scripts
       \/ scenario \in {"renders", "hits"} /\ Dioxus
    /\ Bounded

Spec == Init /\ [][Next]_vars
=============================================================================
