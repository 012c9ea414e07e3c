---------------------------- MODULE StylesheetLoading ----------------------------
(***************************************************************************)
(* <link rel=stylesheet> in a document: the mutator starts and undoes      *)
(* loads as scripts change the tree (mutator.rs), a response becomes the   *)
(* sheet of its element and takes its place in the cascade (document.rs),  *)
(* and resolve computes no styles while a sheet of the <head> is awaited   *)
(* (resolve.rs).                                                           *)
(*                                                                         *)
(* A sheet is identified by the request that brought it.  Stylo's list of  *)
(* author sheets is a sequence.  NodeIds are numbers, in the order the     *)
(* slot map gives them out, which is the order of nodes_to_stylesheet.     *)
(***************************************************************************)
EXTENDS ResourceRequests, SequencesExt

VARIABLES
    place,              \* where the element is: see Places
    rel,                \* its rel attribute names "stylesheet"
    href,               \* its href attribute, resolved
    nodes_to_stylesheet,
    special,            \* the Stylesheet in its special_data
    stylist,            \* the author sheets of Stylo's cascade, in order
    pending_critical_resources,
    blocking,           \* history: ids of the loads of links in the <head>
    resolved,           \* the latest resolve of a document with a root went
                        \* on to styles and layout
    panicked            \* what made the main thread panic

linkVars == <<place, rel, href, nodes_to_stylesheet, special, stylist,
              pending_critical_resources, blocking, resolved, panicked>>
vars == <<requestVars, linkVars>>

Places == {"detached", "head", "body", "dropped"}
InDocument(n) == place[n] \in {"head", "body"}

TypeOK ==
    /\ RequestsTypeOK
    /\ inflight \subseteq [id : Nat, node : Nodes, url : Urls]
    /\ channel \in Seq([id : Nat, node : Nodes, url : Urls, ok : BOOLEAN])
    /\ place \in [Nodes -> Places]
    /\ rel \in [Nodes -> BOOLEAN]
    /\ href \in [Nodes -> Option(Urls)]
    /\ nodes_to_stylesheet \in [Nodes -> Option(Nat)]
    /\ special \in [Nodes -> Option(Nat)]
    /\ stylist \in Seq(Nat)
    /\ pending_critical_resources \subseteq Nat
    /\ blocking \subseteq Nat
    /\ resolved \in BOOLEAN
    /\ panicked \in {"no", "no sheet to unload", "no such node"}

Styled == {n \in Nodes : nodes_to_stylesheet[n] # None}

Init ==
    /\ RequestsInit
    /\ place = [n \in Nodes |-> "detached"]
    /\ rel = [n \in Nodes |-> FALSE]
    /\ href = [n \in Nodes |-> None]
    /\ nodes_to_stylesheet = [n \in Nodes |-> None]
    /\ special = [n \in Nodes |-> None]
    /\ stylist = <<>>
    /\ pending_critical_resources = {}
    /\ blocking = {}
    /\ resolved = FALSE
    /\ panicked = "no"

-----------------------------------------------------------------------------
(* Pieces of the handlers.                                                 *)

(* Stylist::insert_stylesheet_before, append_stylesheet.                   *)
InsertBefore(seq, sheet, next) ==
    IF next = None THEN Append(seq, sheet)
    ELSE LET i == CHOOSE j \in 1..Len(seq) : seq[j] = next
         IN  InsertAt(seq, i, sheet)

(* The sheet of the first styled node after n.  Mutant: of the first       *)
(* styled node at all.                                                     *)
FirstSheet(n) ==
    IF Styled \ {n} = {} THEN None
    ELSE nodes_to_stylesheet[CHOOSE k \in Styled \ {n} : \A l \in Styled \ {n} : k <= l]
SheetAfter(n) ==
    LET later == {k \in Styled : k > n} IN
    IF later = {} THEN None
    ELSE nodes_to_stylesheet[CHOOSE k \in later : \A l \in later : k <= l]

(* The stylist without the sheet that n had.                               *)
RemoveOld(n) == RemoveFirst(stylist, nodes_to_stylesheet[n])

(* BaseDocument::add_stylesheet_for_node: the sheet replaces the one of    *)
(* the node, in the place its NodeId gives it.                             *)
AddStylesheetForNode(n, sheet) ==
    /\ nodes_to_stylesheet' = [nodes_to_stylesheet EXCEPT ![n] = sheet]
    /\ special' = [special EXCEPT ![n] = sheet]
    /\ stylist' = InsertBefore(RemoveOld(n), sheet, SheetAfter(n))

(* DocumentMutator::unload_stylesheet of a node that has a sheet.          *)
Unload(n) ==
    /\ special' = [special EXCEPT ![n] = None]
    /\ stylist' = RemoveFirst(stylist, special[n])
    /\ nodes_to_stylesheet' = [nodes_to_stylesheet EXCEPT ![n] = None]

NoSheetChange == UNCHANGED <<nodes_to_stylesheet, special, stylist>>

(* Is a load render-blocking.                                              *)
IsInHead(where) == where = "head"

(* DocumentMutator::load_linked_stylesheet for n, with these attributes,   *)
(* at this place.                                                          *)
LoadLinkedStylesheet(n, is_sheet, url, where) ==
    IF is_sheet /\ url # None
    THEN /\ Fetch({n}, url)
         /\ pending_critical_resources' =
               pending_critical_resources \cup (IF IsInHead(where) THEN {next_request} ELSE {})
         /\ blocking' = blocking \cup (IF where = "head" THEN {next_request} ELSE {})
    ELSE NoFetch /\ UNCHANGED <<pending_critical_resources, blocking>>

(* Scripts run between resolves, on the same thread.  Mutant: also while   *)
(* handle_messages runs.                                                   *)
ScriptingAnyTime ==
    /\ panicked = "no"
    /\ UNCHANGED <<signalling, channel, redraw, resolving, rooted, resolved>>
Scripting ==
    /\ ~resolving
    /\ panicked = "no"
    /\ UNCHANGED <<signalling, channel, redraw, resolving, rooted, resolved>>

NoLoad == NoFetch /\ UNCHANGED <<pending_critical_resources, blocking>>
-----------------------------------------------------------------------------
(* Scripts.                                                                *)

(* set_attribute of link href or rel.                                      *)
SetAttributes(n, is_sheet, url) ==
    /\ Scripting
    /\ place[n] # "dropped"
    /\ rel' = [rel EXCEPT ![n] = is_sheet]
    /\ href' = [href EXCEPT ![n] = url]
    /\ IF InDocument(n) THEN LoadLinkedStylesheet(n, is_sheet, url, place[n])
                        ELSE NoLoad
    /\ NoSheetChange
    /\ UNCHANGED <<place, panicked>>

SetHref(n, url) == SetAttributes(n, rel[n], url)
SetRel(n, is_sheet) == SetAttributes(n, is_sheet, href[n])

(* clear_attribute of link href: unload_stylesheet, sheet or no sheet.     *)
ClearHref(n) ==
    /\ Scripting
    /\ place[n] # "dropped"
    /\ href[n] # None
    /\ href' = [href EXCEPT ![n] = None]
    /\ IF special[n] = None
       THEN panicked' = "no sheet to unload" /\ NoSheetChange
       ELSE Unload(n) /\ UNCHANGED panicked
    /\ NoLoad
    /\ UNCHANGED <<place, rel>>

(* append_children and its kin: a node that enters the document is loaded  *)
(* by process_added_subtree.                                               *)
Insert(n, where) ==
    /\ Scripting
    /\ rooted
    /\ place[n] = "detached"
    /\ place' = [place EXCEPT ![n] = where]
    /\ LoadLinkedStylesheet(n, rel[n], href[n], where)
    /\ NoSheetChange
    /\ UNCHANGED <<rel, href, panicked>>

(* ... but one that moves within it is not.                                *)
Move(n, where) ==
    /\ Scripting
    /\ InDocument(n)
    /\ place[n] # where
    /\ place' = [place EXCEPT ![n] = where]
    /\ NoLoad /\ NoSheetChange
    /\ UNCHANGED <<rel, href, panicked>>

(* remove_node; remove_and_drop_node, also of a detached node.             *)
Leave(n, to) ==
    /\ Scripting
    /\ place[n] \notin {to, "dropped"}
    /\ place' = [place EXCEPT ![n] = to]
    /\ IF special[n] # None THEN Unload(n) ELSE NoSheetChange
    /\ NoLoad
    /\ UNCHANGED <<rel, href, panicked>>

RemoveNode(n) == Leave(n, "detached")
DropNode(n) == Leave(n, "dropped")

(* reload_resource_by_href: every link that has a sheet and this href.     *)
ReloadByHref(url) ==
    /\ Scripting
    /\ LET links == {n \in Styled : href[n] = url} IN links # {} /\ Fetch(links, url)
    /\ NoSheetChange
    /\ UNCHANGED <<place, rel, href, pending_critical_resources, blocking, panicked>>

Script ==
    \/ \E n \in Nodes, url \in Urls : SetHref(n, url)
    \/ \E n \in Nodes, is_sheet \in BOOLEAN : SetRel(n, is_sheet)
    \/ \E n \in Nodes : ClearHref(n)
    \/ \E n \in Nodes, where \in {"head", "body"} : Insert(n, where) \/ Move(n, where)
    \/ \E n \in Nodes : RemoveNode(n) \/ DropNode(n)
    \/ \E url \in Urls : ReloadByHref(url)

(* The root element goes and comes.  The links below it leave before it,   *)
(* in the same script, and enter after it.                                 *)
MoveRoot ==
    /\ panicked = "no"
    /\ \/ RemoveRoot /\ \A n \in Nodes : ~InDocument(n)
       \/ InsertRoot
    /\ UNCHANGED linkVars

-----------------------------------------------------------------------------
(* Resolve.                                                                *)

(* An answered request is awaited no longer, whatever the answer.  Mutant: *)
(* only a success counts.                                                  *)
AwaitSuccess(msg) == pending_critical_resources \ (IF msg.ok THEN {msg.id} ELSE {})
StillAwaited(msg) == pending_critical_resources \ {msg.id}

(* BaseDocument::load_resource of a stylesheet's response.                 *)
LoadResource ==
    LET msg == Head(channel) IN
    /\ panicked = "no"
    /\ TakeMessage
    /\ pending_critical_resources' = StillAwaited(msg)
    /\ IF ~msg.ok
       THEN NoSheetChange /\ UNCHANGED panicked
       ELSE IF place[msg.node] = "dropped"
       THEN NoSheetChange /\ panicked' = "no such node"
       ELSE AddStylesheetForNode(msg.node, msg.id) /\ UNCHANGED panicked
    /\ NoFetch
    /\ UNCHANGED <<redraw, place, rel, href, blocking, resolved>>

(* The gate of resolve behind handle_messages.  Mutant: a first sheet is   *)
(* enough to start with.                                                   *)
SomeSheet == pending_critical_resources = {} \/ stylist # <<>>
HasNoPendingCriticalResources == pending_critical_resources = {}

EndResolve ==
    /\ panicked = "no"
    /\ ChannelDrained
    /\ resolved' = HasNoPendingCriticalResources
    /\ UNCHANGED <<place, rel, href, nodes_to_stylesheet, special, stylist,
                   pending_critical_resources, blocking, panicked>>

StartResolve ==
    /\ panicked = "no"
    /\ BeginResolve \/ ResolveWithoutRoot
    /\ UNCHANGED linkVars

Next ==
    \/ Provider /\ UNCHANGED linkVars
    \/ Script
    \/ MoveRoot
    \/ StartResolve
    \/ LoadResource
    \/ EndResolve

Spec == Init /\ [][Next]_vars

(* Providers answer, or drop, each request and ask for their redraws; the  *)
(* shell delivers redraws; resolve comes to its end.  Scripts owe nothing. *)
FairSpec ==
    /\ Spec
    /\ WF_vars(Provider /\ UNCHANGED linkVars)
    /\ WF_vars(StartResolve /\ redraw)
    /\ WF_vars(LoadResource)
    /\ WF_vars(EndResolve)

-----------------------------------------------------------------------------
(* The document awaits exactly the loads of <head> links that are still to *)
(* be answered: no request blocks rendering for ever (net.rs Drop,         *)
(* issue #65), and none is forgotten before its sheet is in.               *)
CriticalRequestsAreOutstanding ==
    panicked = "no" => pending_critical_resources = blocking \cap Outstanding

(* Styles are not computed while the sheet of a link in the <head> is on   *)
(* its way: no transition starts from unstyled values (resolve.rs,         *)
(* issue #689).                                                            *)
NoUnstyledContent ==
    [][EndResolve /\ resolved' => blocking \cap Outstanding = {}]_vars

(* Each render-blocking request stops blocking, in a document that has a   *)
(* root element from some time on: without one resolve handles no answer.  *)
RenderingUnblocks ==
    <>[]rooted =>
        \A id \in 0 .. MaxRequests - 1 :
            id \in pending_critical_resources
                ~> (id \notin pending_critical_resources \/ panicked # "no")

(* The cascade is the sheets of the nodes, each once, in NodeId order,     *)
(* through every load, reload and unload; the sheet an element would       *)
(* unload is the one in the cascade.  (document.rs                         *)
(* add_stylesheet_for_node, mutator.rs unload_stylesheet.)                 *)
StylistMatchesNodes ==
    /\ special = nodes_to_stylesheet
    /\ {stylist[i] : i \in 1..Len(stylist)} = {nodes_to_stylesheet[n] : n \in Styled}
    /\ \A i, j \in 1..Len(stylist) : \A m, n \in Styled :
          i < j /\ stylist[i] = nodes_to_stylesheet[m] /\ stylist[j] = nodes_to_stylesheet[n]
              => m < n

(* No sheet outlives its element: what was dropped styles nothing.         *)
DroppedNodesStyleNothing == \A n \in Styled : place[n] # "dropped"

(* What styles the document is what its elements own: in their order, and  *)
(* nothing of an element that is gone.                                     *)
CascadeFollowsNodes == StylistMatchesNodes /\ DroppedNodesStyleNothing

(* Stylesheet requests obey the protocol of requests.                      *)
ImplementsRequests == RequestsSpec

(* The assertions of the loading code hold: unload_stylesheet runs only on *)
(* an element that has a sheet (mutator.rs, unreachable!()), and the       *)
(* element a sheet arrives for exists (document.rs, index and unwrap).     *)
NeverPanics == panicked = "no"
=============================================================================
