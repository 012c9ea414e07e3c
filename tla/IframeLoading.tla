------------------------------ MODULE IframeLoading ------------------------------
(***************************************************************************)
(* <iframe> in a document (iframe.rs): srcdoc content is attached at once, *)
(* src and clicks inside the frame fetch HTML and attach it when it        *)
(* arrives.  Each load starts a new generation of the frame's content and  *)
(* aborts the one before: its signal covers the HTML fetch and everything  *)
(* the sub-document fetches later.  An aborted fetch may still answer.     *)
(*                                                                         *)
(* A generation is the number of its AbortSignal.                          *)
(***************************************************************************)
EXTENDS ResourceRequests

CONSTANT MaxGenerations   \* bound: generations ever started
ASSUME GenerationsAssumption == MaxGenerations \in Nat

VARIABLES
    place,               \* where the element is: see Places
    src,                 \* its src attribute, resolved
    srcdoc,              \* it has a srcdoc attribute
    sub_document,        \* the SubDocument in its special_data
    sub_document_nodes,
    iframe_loads,        \* the IframeLoad of each element
    next_signal,         \* AbortControllers created so far
    aborted,             \* generations aborted
    signal_of            \* the signal stamped on each request, by id

frameVars == <<place, src, srcdoc, sub_document, sub_document_nodes,
               iframe_loads, next_signal, aborted, signal_of>>
framesVars == <<requestVars, frameVars>>

Places == {"detached", "in", "dropped"}

(* A SubDocument: its generation, and the request it came from (none: a    *)
(* srcdoc).                                                                *)
Content == [signal : Nat, request : Option(Nat)]
IframeLoad == [request_id : Option(Nat), signal : Nat]

ASSUME FramesAssumption == None \notin Content \cup IframeLoad

FramesTypeOK ==
    /\ RequestsTypeOK
    /\ place \in [Nodes -> Places]
    /\ src \in [Nodes -> Option(Urls)]
    /\ srcdoc \in [Nodes -> BOOLEAN]
    /\ sub_document \in [Nodes -> Option(Content)]
    /\ sub_document_nodes \subseteq Nodes
    /\ iframe_loads \in [Nodes -> Option(IframeLoad)]
    /\ next_signal \in Nat
    /\ aborted \subseteq 0 .. next_signal - 1
    /\ signal_of \in Seq(Nat)
    /\ Len(signal_of) = next_request

FramesInit ==
    /\ RequestsInit
    /\ place = [n \in Nodes |-> "detached"]
    /\ src = [n \in Nodes |-> None]
    /\ srcdoc = [n \in Nodes |-> FALSE]
    /\ sub_document = [n \in Nodes |-> None]
    /\ sub_document_nodes = {}
    /\ iframe_loads = [n \in Nodes |-> None]
    /\ next_signal = 0
    /\ aborted = {}
    /\ signal_of = <<>>

-----------------------------------------------------------------------------
(* Pieces of the handlers.                                                 *)

(* The signals that are aborted when the load of n is replaced or removed. *)
Aborts(n) == IF iframe_loads[n] = None THEN {} ELSE {iframe_loads[n].signal}

(* new_iframe_generation.                                                  *)
NewGeneration(n, request) ==
    /\ aborted' = aborted \cup Aborts(n)
    /\ iframe_loads' = [iframe_loads EXCEPT ![n] = [request_id |-> request, signal |-> next_signal]]
    /\ next_signal' = next_signal + 1

(* attach_iframe_document, set_sub_document.                              *)
Attach(n, signal, request) ==
    /\ redraw' = TRUE
    /\ sub_document' = [sub_document EXCEPT ![n] = [signal |-> signal, request |-> request]]
    /\ sub_document_nodes' = sub_document_nodes \cup {n}

SameContent == UNCHANGED <<redraw, sub_document, sub_document_nodes>>
NoLoad == NoFetch /\ UNCHANGED <<iframe_loads, next_signal, aborted, signal_of>>

(* load_iframe_srcdoc.                                                     *)
LoadSrcdoc(n) ==
    /\ NewGeneration(n, None)
    /\ Attach(n, next_signal, None)
    /\ NoFetch
    /\ UNCHANGED signal_of

(* start_iframe_load: the request carries the new generation's signal.     *)
StartIframeLoad(n, url) ==
    /\ Fetch({n}, url)
    /\ NewGeneration(n, next_request)
    /\ signal_of' = Append(signal_of, next_signal)
    /\ SameContent

(* DocumentMutator::load_iframe with these attributes: srcdoc goes first.  *)
LoadIframe(n, has_srcdoc, url) ==
    IF has_srcdoc THEN LoadSrcdoc(n)
    ELSE IF url # None THEN StartIframeLoad(n, url)
    ELSE NoLoad /\ SameContent

(* Scripts, clicks: on the main thread between resolves.  A generation is  *)
(* kept free for each navigation still in the channel.                     *)
Navigations == Cardinality({i \in 1..Len(channel) : channel[i].id = None})
MayLoad == next_signal + Navigations < MaxGenerations

Scripting ==
    /\ ~resolving
    /\ UNCHANGED <<signalling, channel, resolving, rooted>>

-----------------------------------------------------------------------------
(* Scripts.                                                                *)

(* set_attribute of iframe src or srcdoc; clear_attribute of iframe        *)
(* srcdoc, which falls back to src.                                        *)
SetAttributes(n, has_srcdoc, url) ==
    /\ Scripting
    /\ place[n] # "dropped"
    /\ src' = [src EXCEPT ![n] = url]
    /\ srcdoc' = [srcdoc EXCEPT ![n] = has_srcdoc]
    /\ IF place[n] = "in" THEN MayLoad /\ LoadIframe(n, has_srcdoc, url)
                          ELSE NoLoad /\ SameContent
    /\ UNCHANGED place

SetSrc(n, url) == SetAttributes(n, srcdoc[n], url)
SetSrcdoc(n) == SetAttributes(n, TRUE, src[n])
ClearSrcdoc(n) == srcdoc[n] /\ SetAttributes(n, FALSE, src[n])

(* The element enters the document: process_added_subtree.                 *)
Insert(n) ==
    /\ Scripting
    /\ rooted
    /\ MayLoad
    /\ place[n] = "detached"
    /\ place' = [place EXCEPT ![n] = "in"]
    /\ LoadIframe(n, srcdoc[n], src[n])
    /\ UNCHANGED <<src, srcdoc>>

(* remove_sub_document.                                                   *)
RemoveSubDocument(n) ==
    /\ sub_document' = [sub_document EXCEPT ![n] = None]
    /\ sub_document_nodes' = sub_document_nodes \ {n}
    /\ aborted' = aborted \cup Aborts(n)
    /\ iframe_loads' = [iframe_loads EXCEPT ![n] = None]

(* remove_node, remove_and_drop_node: process_removed_subtree unloads a    *)
(* sub-document, if there is one already.                                  *)
Leave(n, to) ==
    /\ Scripting
    /\ place[n] \notin {to, "dropped"}
    /\ place' = [place EXCEPT ![n] = to]
    /\ IF sub_document[n] # None
       THEN RemoveSubDocument(n)
       ELSE UNCHANGED <<sub_document, sub_document_nodes, aborted, iframe_loads>>
    /\ NoFetch
    /\ UNCHANGED <<redraw, src, srcdoc, next_signal, signal_of>>

(* A link in the sub-document on screen is clicked.                        *)
ClickInIframe(n, url) ==
    /\ ~resolving
    /\ MayLoad
    /\ place[n] = "in"
    /\ sub_document[n] # None
    /\ SendNavigation(n, url)
    /\ UNCHANGED frameVars

Script ==
    \/ \E n \in Nodes, url \in Urls : SetSrc(n, url) \/ ClickInIframe(n, url)
    \/ \E n \in Nodes : SetSrcdoc(n) \/ ClearSrcdoc(n) \/ Insert(n)
    \/ \E n \in Nodes, to \in {"detached", "dropped"} : Leave(n, to)

(* The root element goes and comes.  The frames below it leave before it,  *)
(* in the same script, and enter after it.                                 *)
MoveRoot ==
    /\ \/ RemoveRoot /\ \A n \in Nodes : place[n] # "in"
       \/ InsertRoot
    /\ UNCHANGED frameVars

-----------------------------------------------------------------------------
(* Messages.                                                               *)

(* Is this the answer the frame is waiting for.  Mutants: any answer will  *)
(* do, or any while it waits.                                              *)
IsLoaded(n, id) == iframe_loads[n] # None
Waits(n, id) == iframe_loads[n] # None /\ iframe_loads[n].request_id # None
IsCurrent(n, id) == iframe_loads[n] # None /\ iframe_loads[n].request_id = id

(* navigate_iframe.                                                        *)
NavigateIframe(msg) ==
    IF place[msg.node] = "in" THEN StartIframeLoad(msg.node, msg.url)
                              ELSE NoLoad /\ SameContent

(* apply_iframe_html: the generation of the answered load is attached,     *)
(* unless its element has been dropped.                                    *)
ApplyIframeHtml(n, id) ==
    IF ~IsCurrent(n, id) THEN UNCHANGED iframe_loads /\ SameContent
    ELSE /\ iframe_loads' = [iframe_loads EXCEPT ![n].request_id = None]
         /\ IF place[n] = "dropped" THEN SameContent
            ELSE Attach(n, iframe_loads[n].signal, id)

(* handle_message.  The html of a failed load goes nowhere.                *)
HandleMessage ==
    LET msg == Head(channel) IN
    /\ TakeMessage
    /\ IF msg.id = None THEN NavigateIframe(msg)
       ELSE /\ IF msg.ok THEN ApplyIframeHtml(msg.node, msg.id)
                         ELSE UNCHANGED iframe_loads /\ SameContent
            /\ NoFetch
            /\ UNCHANGED <<next_signal, aborted, signal_of>>
    /\ UNCHANGED <<place, src, srcdoc>>

StartResolve == (BeginResolve \/ ResolveWithoutRoot) /\ UNCHANGED frameVars
EndResolve == ChannelDrained /\ UNCHANGED frameVars

FramesNext ==
    \/ Provider /\ UNCHANGED frameVars
    \/ Script
    \/ MoveRoot
    \/ StartResolve
    \/ HandleMessage
    \/ EndResolve

FramesSpec == FramesInit /\ [][FramesNext]_framesVars

-----------------------------------------------------------------------------
(* What runs, and may still fetch, is what some element owns: replacing or *)
(* removing a frame's content aborts all of it (iframe.rs IframeLoad).     *)
LiveSignalsAreOwned ==
    (0 .. next_signal - 1) \ aborted = {iframe_loads[n].signal : n \in {m \in Nodes : iframe_loads[m] # None}}

(* A frame shows the generation it owns, or the one before while a newer   *)
(* one is being fetched; and what it shows came with a request of that     *)
(* very generation, never with the late answer of an abandoned one.        *)
ShowsItsGeneration ==
    \A n \in Nodes :
        LET doc == sub_document[n]
            load == iframe_loads[n]
        IN  doc # None =>
                /\ load # None
                /\ load.request_id = None => doc.signal = load.signal
                /\ doc.signal # load.signal => doc.signal < load.signal
                /\ doc.request # None => signal_of[doc.request + 1] = doc.signal

(* Frames only move on to the answers of later requests.                   *)
NeverGoesBack ==
    [][\A n \in Nodes :
          (/\ sub_document[n] # None /\ sub_document[n].request # None
           /\ sub_document'[n] # None /\ sub_document'[n].request # None)
              => sub_document'[n].request >= sub_document[n].request]_framesVars

(* resolve visits, by index, exactly the elements with a sub-document, all *)
(* of which exist (resolve.rs:156).                                        *)
SubDocumentsAreListed ==
    /\ sub_document_nodes = {n \in Nodes : sub_document[n] # None}
    /\ \A n \in sub_document_nodes : place[n] # "dropped"

(* What runs is owned; every frame on screen is of the generation its      *)
(* element owns, and can be resolved.                                      *)
FramesAreConsistent == LiveSignalsAreOwned /\ ShowsItsGeneration /\ SubDocumentsAreListed

(* A navigation does not stay in the channel, if the document has a root   *)
(* element from some time on: without one resolve handles no message.      *)
NavigationsAreHandled == <>[]rooted => (Navigations > 0 ~> Navigations = 0)

(* An element outside the document has no sub-document: the response for a *)
(* removed iframe is discarded (iframe.rs apply_iframe_html).              *)
RemovedFramesAreEmpty ==
    \A n \in Nodes : sub_document[n] # None => place[n] = "in"
=============================================================================
