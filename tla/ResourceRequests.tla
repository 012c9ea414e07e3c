---------------------------- MODULE ResourceRequests ----------------------------
(***************************************************************************)
(* Resource requests of a document (strake-dom net.rs): the handler that a *)
(* NetProvider calls back on a thread of its own, the mpsc channel back to *)
(* the document, the redraw request that makes the shell resolve the       *)
(* document, and handle_messages at the start of resolve, which drains the *)
(* channel.  What a message does to the document is the business of the    *)
(* modules that extend this one.                                           *)
(*                                                                         *)
(* The main thread runs scripts and resolve, which drains only a document  *)
(* that has a root element; provider threads answer at any time, also      *)
(* between two messages of handle_messages, and stop between the send and  *)
(* the request_redraw of ResourceHandler::respond.                         *)
(***************************************************************************)
EXTENDS Integers, Sequences, FiniteSets

CONSTANTS
    Nodes,        \* elements that load a resource (their NodeIds)
    Urls,         \* resolved URLs
    FinalUrl,     \* the URL a provider reports for the bytes of a URL:
                  \* another one after an HTTP redirect
    None,         \* Option::None
    MaxRequests   \* bound: requests ever issued

ASSUME RequestsAssumption ==
    /\ Nodes \subseteq Nat
    /\ IsFiniteSet(Nodes)
    /\ FinalUrl \in [Urls -> Urls]
    /\ None \notin Nat \cup Urls
    /\ MaxRequests \in Nat

VARIABLES
    next_request,   \* REQUEST_ID_COUNTER
    inflight,       \* requests whose handler the provider still holds
    signalling,     \* ids sent, with request_redraw still to come
    channel,        \* DocumentEvents sent to the document (tx, rx)
    redraw,         \* the shell owes the document a redraw
    resolving,      \* handle_messages is draining the channel
    rooted          \* the document has a root element

requestVars == <<next_request, inflight, signalling, channel, redraw, resolving, rooted>>

Option(S) == S \cup {None}

(* A ResourceHandler: its request_id, node_id and request_url.             *)
Request == [id : Nat, node : Option(Nodes), url : Urls]

(* DocumentEvent: ResourceLoad with the outcome of the load, or a          *)
(* NavigateIframe, which has no request.                                   *)
Message == [id : Option(Nat), node : Option(Nodes), url : Urls, ok : BOOLEAN]

RequestsTypeOK ==
    /\ next_request \in Nat
    /\ inflight \subseteq Request
    /\ signalling \subseteq Nat
    /\ channel \in Seq(Message)
    /\ redraw \in BOOLEAN
    /\ resolving \in BOOLEAN
    /\ rooted \in BOOLEAN

Messages == {channel[i] : i \in 1..Len(channel)}

(* Requests not answered yet, as far as the document can know.             *)
Outstanding == {q.id : q \in inflight} \cup ({msg.id : msg \in Messages} \ {None})

RequestsInit ==
    /\ next_request = 0
    /\ inflight = {}
    /\ signalling = {}
    /\ channel = <<>>
    /\ redraw = FALSE
    /\ resolving = FALSE
    /\ rooted = TRUE

(* Numbers for new handlers, one for each of S, from REQUEST_ID_COUNTER.   *)
(* Which of several gets which is not told apart.                          *)
Numberings(S) ==
    {f \in [S -> next_request .. next_request + Cardinality(S) - 1] :
        \A m, n \in S : f[m] = f[n] => m = n}

(* ResourceHandler::new and NetProvider::fetch of url, once for each of S  *)
(* (one node, or no node: an image).                                       *)
Fetch(S, url) ==
    /\ next_request + Cardinality(S) <= MaxRequests
    /\ next_request' = next_request + Cardinality(S)
    /\ \E f \in Numberings(S) :
          inflight' = inflight \cup {[id |-> f[n], node |-> n, url |-> url] : n \in S}

NoFetch == UNCHANGED <<next_request, inflight>>

(* ResourceHandler::respond: send; request_redraw comes next.  Mutant: it  *)
(* does not come.                                                          *)
SendSilently(msg) == channel' = Append(channel, msg) /\ UNCHANGED signalling
Send(msg) == channel' = Append(channel, msg) /\ signalling' = signalling \cup {msg.id}

Respond(q, url, ok) ==
    /\ q \in inflight
    /\ inflight' = inflight \ {q}
    /\ Send([id |-> q.id, node |-> q.node, url |-> url, ok |-> ok])
    /\ UNCHANGED <<next_request, redraw, resolving, rooted>>

-----------------------------------------------------------------------------
(* Provider threads.                                                       *)

(* NetHandler::bytes: the bytes of the final URL arrive; they may not      *)
(* parse as what was asked for.                                            *)
BytesArrive(q) == \E parsed \in BOOLEAN : Respond(q, FinalUrl[q.url], parsed)

(* ResourceHandler.request_url, reported with a failure.  Mutant: a        *)
(* failure reports no URL.                                                 *)
NoUrl(q) == None
RequestUrl(q) == q.url

(* NetHandler::error: a transport failure, an HTTP status, an abort.       *)
FetchFails(q) == Respond(q, RequestUrl(q), FALSE)

(* The provider drops the handler without a call: its Drop answers for it. *)
(* Mutant: it does not.                                                    *)
ForgetRequest(q) ==
    /\ q \in inflight
    /\ inflight' = inflight \ {q}
    /\ UNCHANGED <<next_request, signalling, channel, redraw, resolving, rooted>>
DropHandler(q) == Respond(q, RequestUrl(q), FALSE)

(* ShellProvider::request_redraw after the send.                           *)
RequestRedraw(id) ==
    /\ id \in signalling
    /\ signalling' = signalling \ {id}
    /\ redraw' = TRUE
    /\ UNCHANGED <<next_request, inflight, channel, resolving, rooted>>

Provider ==
    \/ \E q \in inflight : BytesArrive(q) \/ FetchFails(q) \/ DropHandler(q)
    \/ \E id \in signalling : RequestRedraw(id)

-----------------------------------------------------------------------------
(* The main thread.                                                        *)

(* The shell redraws the window and resolves the document first; or it     *)
(* resolves it for a reason of its own (a resize, a forced layout).        *)
BeginResolve ==
    /\ ~resolving
    /\ rooted
    /\ resolving' = TRUE
    /\ redraw' \in {redraw, FALSE}
    /\ UNCHANGED <<next_request, inflight, signalling, channel, rooted>>

(* Without a root element resolve returns at once: the redraw is spent,    *)
(* the channel is not looked at.                                           *)
ResolveWithoutRoot ==
    /\ ~resolving
    /\ ~rooted
    /\ redraw' = FALSE
    /\ UNCHANGED <<next_request, inflight, signalling, channel, resolving, rooted>>

(* A script takes the root element out of the document node, or puts one   *)
(* in: a mutation of the document, for which the mutator's Drop asks for a *)
(* redraw.                                                                 *)
ChangeRoot(has_root) ==
    /\ ~resolving
    /\ rooted # has_root
    /\ rooted' = has_root
    /\ redraw' = TRUE
    /\ UNCHANGED <<next_request, inflight, signalling, channel, resolving>>
RemoveRoot == ChangeRoot(FALSE)
InsertRoot == ChangeRoot(TRUE)

(* Requests issued, or that a navigation in the channel may yet issue.     *)
Reserved ==
    next_request + Cardinality({i \in 1..Len(channel) : channel[i].id = None})

(* A click in a sub-document: IframeNavigationProvider::navigate_to sends  *)
(* and asks for a redraw, on the main thread.  Mutant: it only sends.      *)
NavigateSilently(node, url) ==
    /\ Reserved < MaxRequests
    /\ channel' = Append(channel, [id |-> None, node |-> node, url |-> url, ok |-> TRUE])
    /\ UNCHANGED <<next_request, inflight, signalling, redraw, resolving, rooted>>
SendNavigation(node, url) ==
    /\ Reserved < MaxRequests
    /\ channel' = Append(channel, [id |-> None, node |-> node, url |-> url, ok |-> TRUE])
    /\ redraw' = TRUE
    /\ UNCHANGED <<next_request, inflight, signalling, resolving, rooted>>

(* handle_messages takes the next message; handling it may fetch, and ask  *)
(* for a redraw.                                                           *)
TakeMessage ==
    /\ resolving
    /\ channel # <<>>
    /\ channel' = Tail(channel)
    /\ UNCHANGED <<signalling, resolving, rooted>>

(* ... and ends when there is none.                                        *)
ChannelDrained ==
    /\ resolving
    /\ channel = <<>>
    /\ resolving' = FALSE
    /\ UNCHANGED <<next_request, inflight, signalling, channel, redraw, rooted>>

(* What a script or handler does to the requests.                          *)
MayFetch ==
    /\ NoFetch \/ \E S \in SUBSET Option(Nodes), url \in Urls : Fetch(S, url)
    /\ redraw' \in {redraw, TRUE}

RunScript ==
    /\ ~resolving
    /\ MayFetch
    /\ UNCHANGED <<signalling, channel, resolving, rooted>>

RequestsNext ==
    \/ Provider
    \/ BeginResolve \/ ResolveWithoutRoot
    \/ TakeMessage /\ MayFetch
    \/ ChannelDrained
    \/ RunScript \/ RemoveRoot \/ InsertRoot
    \/ ~resolving /\ \E n \in Nodes, url \in Urls : SendNavigation(n, url)

RequestsSpec == RequestsInit /\ [][RequestsNext]_requestVars

-----------------------------------------------------------------------------
(* A request is answered at most once, and its id is never given out       *)
(* again: what the document files under an id belongs to one request.      *)
(* (net.rs: the Box<Self> a provider consumes, and respond's flag.)        *)
AnsweredOnce ==
    /\ \A q, r \in inflight : q.id = r.id => q = r
    /\ \A q \in inflight, msg \in Messages : q.id # msg.id
    /\ \A i, j \in 1..Len(channel) :
          channel[i].id = channel[j].id /\ channel[i].id # None => i = j
    /\ \A id \in Outstanding : id < next_request

(* A message is never stranded in the channel of a document that has a     *)
(* root element: while no handle_messages is running, a redraw that will   *)
(* start one is owed, or about to be asked for.  Without a root, messages  *)
(* wait, and the redraws asked for on their account are spent in vain; the *)
(* insertion that brings a root in asks for the one that drains them.      *)
(* (net.rs respond: the send comes before request_redraw; resolve.rs.)     *)
NoMessageStranded ==
    channel # <<>> /\ ~resolving /\ rooted => redraw \/ signalling # {}

(* The delivery promise of the protocol: one answer, and it is heard.      *)
AnswersArriveOnce == AnsweredOnce /\ NoMessageStranded
=============================================================================
