---------------------------- MODULE Navigation_proofs ----------------------------
(***************************************************************************)
(* Proofs about documents that are navigated, for any number of elements,  *)
(* generations, loads and entries.                                         *)
(*                                                                         *)
(* Iframes: their requests follow the protocol of ResourceRequests; every  *)
(* signal that is not aborted is owned by an element; a frame shows the    *)
(* generation it owns or the one before, and never goes back.  What has to *)
(* be added for that to be inductive is what the generations hide: no two  *)
(* elements own one signal, the request a load waits for was stamped with  *)
(* the load's signal, and what is on screen came with an earlier one.      *)
(*                                                                         *)
(* History: memory and disk stay within the cap, in whatever order the     *)
(* writes are made; and the disk, once it was written in order, holds the  *)
(* memory.  In between it is behind by the writes outstanding, so what is  *)
(* inductive is a chain of memories: the first is the disk's, each write   *)
(* makes the next of the one before, and the last is the app's.            *)
(*                                                                         *)
(* Tabs: only the latest load may fetch, and a tab at rest shows the entry *)
(* it is at.  The invariant follows a page from the load to the commit:    *)
(* a load, its value, or the document, whichever there is first, is of the *)
(* current entry unless the resource has still to run; and the about       *)
(* page's chrome is due, or is on screen.  Over the history, the probes of *)
(* its pages name visits that are theirs, or gone.                         *)
(***************************************************************************)
EXTENDS MCNavigation, ResourceRequests_proofs

(* The HTML of an iframe is fetched for the element.                       *)
RequestsAreOfNodes ==
    /\ \A q \in inflight : q.node \in Nodes
    /\ \A msg \in Messages : msg.node \in Nodes

SignalsAreDistinct ==
    \A m, n \in Nodes :
        (/\ iframe_loads[m] # None /\ iframe_loads[n] # None
         /\ iframe_loads[m].signal = iframe_loads[n].signal) => m = n

LoadIsStamped(n) ==
    (iframe_loads[n] # None /\ iframe_loads[n].request_id # None) =>
        /\ iframe_loads[n].request_id < next_request
        /\ signal_of[iframe_loads[n].request_id + 1] = iframe_loads[n].signal

ContentIsOwned(n) ==
    sub_document[n] # None =>
        /\ place[n] # "dropped"
        /\ iframe_loads[n] # None
        /\ sub_document[n].signal <= iframe_loads[n].signal
        /\ iframe_loads[n].request_id = None => sub_document[n].signal = iframe_loads[n].signal
        /\ sub_document[n].request # None =>
              /\ sub_document[n].request < next_request
              /\ signal_of[sub_document[n].request + 1] = sub_document[n].signal
              /\ iframe_loads[n].request_id # None =>
                    sub_document[n].request < iframe_loads[n].request_id

(* The invariant in its parts: the requests, the signals, the contents.    *)
FrameRequestsInv == RequestsInv /\ RequestsAreOfNodes
SignalsInv == LiveSignalsAreOwned /\ SignalsAreDistinct
ContentsInv ==
    /\ sub_document_nodes = {n \in Nodes : sub_document[n] # None}
    /\ \A n \in Nodes : LoadIsStamped(n) /\ ContentIsOwned(n)
FrameState == FramesTypeOK /\ SignalsInv /\ ContentsInv
FramesInv == FrameRequestsInv /\ FrameState

-----------------------------------------------------------------------------
(* Every step of the frames is a step of the protocol.                     *)

LEMMA NodesAreRequesters == ASSUME NEW n \in Nodes PROVE {n} \in SUBSET Option(Nodes)
BY DEF Option

LEMMA LoadIframeIsMayFetch ==
    ASSUME NEW n \in Nodes, NEW has_srcdoc, NEW url \in Option(Urls),
           redraw \in BOOLEAN, LoadIframe(n, has_srcdoc, url)
    PROVE  MayFetch
<1>1. CASE has_srcdoc
    BY <1>1 DEF LoadIframe, LoadSrcdoc, Attach, MayFetch
<1>2. CASE ~has_srcdoc /\ url # None
  <2>1. url \in Urls /\ Fetch({n}, url) /\ redraw' = redraw
      BY <1>2 DEF LoadIframe, StartIframeLoad, SameContent, Option
  <2> QED
      BY <2>1, NodesAreRequesters DEF MayFetch
<1>3. CASE ~has_srcdoc /\ url = None
    BY <1>3 DEF LoadIframe, NoLoad, SameContent, MayFetch
<1> QED
    BY <1>1, <1>2, <1>3

LEMMA ScriptIsOfTheProtocol ==
    ASSUME FramesTypeOK, Script
    PROVE  \/ RunScript
           \/ ~resolving /\ \E n \in Nodes, url \in Urls : SendNavigation(n, url)
<1> USE DEF FramesTypeOK
<1>0. redraw \in BOOLEAN
    BY DEF RequestsTypeOK
<1>1. ASSUME NEW n \in Nodes, NEW has_srcdoc, NEW url \in Option(Urls),
             SetAttributes(n, has_srcdoc, url)
      PROVE  RunScript
  <2>1. MayFetch
    <3>1. CASE place[n] = "in"
        BY <1>0, <1>1, <3>1, LoadIframeIsMayFetch DEF SetAttributes
    <3>2. CASE place[n] # "in"
        BY <1>1, <3>2 DEF SetAttributes, NoLoad, SameContent, MayFetch
    <3> QED
        BY <3>1, <3>2
  <2> QED
      BY <1>1, <2>1 DEF SetAttributes, Scripting, RunScript
<1>2. ASSUME NEW n \in Nodes, NEW url \in Urls, SetSrc(n, url) PROVE RunScript
    BY <1>1, <1>2 DEF SetSrc, Option
<1>3. ASSUME NEW n \in Nodes, SetSrcdoc(n) \/ ClearSrcdoc(n) PROVE RunScript
    BY <1>1, <1>3 DEF SetSrcdoc, ClearSrcdoc
<1>4. ASSUME NEW n \in Nodes, Insert(n) PROVE RunScript
  <2>1. MayFetch
      BY <1>0, <1>4, LoadIframeIsMayFetch DEF Insert
  <2> QED
      BY <1>4, <2>1 DEF Insert, Scripting, RunScript
<1>5. ASSUME NEW n \in Nodes, NEW to, Leave(n, to) PROVE RunScript
    BY <1>5 DEF Leave, Scripting, RunScript, MayFetch
<1>6. ASSUME NEW n \in Nodes, NEW url \in Urls, ClickInIframe(n, url)
      PROVE  ~resolving /\ \E m \in Nodes, u \in Urls : SendNavigation(m, u)
    BY <1>6 DEF ClickInIframe
<1> QED
    BY <1>2, <1>3, <1>4, <1>5, <1>6 DEF Script

(* The message at hand, of a type and an element that are known.           *)
LEMMA HeadMessage ==
    ASSUME FrameRequestsInv, channel # <<>>
    PROVE  /\ Head(channel) \in Message
           /\ Head(channel) \in Messages
           /\ Head(channel).node \in Nodes
           /\ Head(channel).url \in Urls
           /\ Head(channel).id \in Option(Nat)
<1>1. channel \in Seq(Message)
    BY DEF FrameRequestsInv, RequestsInv, RequestsTypeOK
<1>2. Head(channel) = channel[1] /\ 1 \in 1..Len(channel)
    BY <1>1
<1>3. Head(channel) \in Message /\ Head(channel) \in Messages
    BY <1>1, <1>2 DEF Messages
<1> QED
    BY <1>3 DEF FrameRequestsInv, RequestsAreOfNodes, Message

LEMMA HandlingIsMayFetch ==
    ASSUME FrameRequestsInv, HandleMessage
    PROVE  TakeMessage /\ MayFetch
<1> DEFINE msg == Head(channel)
<1>0. TakeMessage /\ redraw \in BOOLEAN
    BY DEF HandleMessage, FrameRequestsInv, RequestsInv, RequestsTypeOK
<1>1. msg.node \in Nodes /\ msg.url \in Urls
    BY <1>0, HeadMessage DEF TakeMessage
<1>2. CASE msg.id = None /\ place[msg.node] = "in"
  <2>1. Fetch({msg.node}, msg.url) /\ redraw' = redraw
      BY <1>2 DEF HandleMessage, NavigateIframe, StartIframeLoad, SameContent
  <2> QED
      BY <1>0, <1>1, <2>1, NodesAreRequesters DEF MayFetch
<1>3. CASE ~(msg.id = None /\ place[msg.node] = "in")
  <2>1. NoFetch /\ redraw' \in {redraw, TRUE}
      BY <1>0, <1>3 DEF HandleMessage, NavigateIframe, NoLoad, SameContent, ApplyIframeHtml, Attach
  <2> QED
      BY <1>0, <2>1 DEF MayFetch
<1> QED
    BY <1>2, <1>3

LEMMA FrameStepImplementsRequests ==
    ASSUME FrameRequestsInv, FramesTypeOK, [FramesNext]_framesVars
    PROVE  [RequestsNext]_requestVars
<1>1. CASE Provider
    BY <1>1 DEF RequestsNext
<1>2. CASE Script
    BY <1>2, ScriptIsOfTheProtocol DEF RequestsNext
<1>3. CASE StartResolve \/ MoveRoot
    BY <1>3 DEF StartResolve, MoveRoot, RequestsNext
<1>4. CASE HandleMessage
    BY <1>4, HandlingIsMayFetch DEF RequestsNext
<1>5. CASE EndResolve
    BY <1>5 DEF EndResolve, RequestsNext
<1>6. CASE UNCHANGED framesVars
    BY <1>6 DEF framesVars
<1> QED
    BY <1>1, <1>2, <1>3, <1>4, <1>5, <1>6 DEF FramesNext

-----------------------------------------------------------------------------
(* Signals: what a step does to the loads of one element.                  *)

LEMMA LoadsAreTyped ==
    ASSUME FramesTypeOK, NEW n \in Nodes, iframe_loads[n] # None
    PROVE  /\ iframe_loads[n].signal \in Nat
           /\ iframe_loads[n].request_id \in Option(Nat)
BY DEF FramesTypeOK, Option, IframeLoad

(* A signal is live exactly if it is owned.                                *)
LEMMA OwnedSignals ==
    ASSUME FramesTypeOK, SignalsInv
    PROVE  /\ \A n \in Nodes : iframe_loads[n] # None =>
                 /\ iframe_loads[n].signal \in 0 .. next_signal - 1
                 /\ iframe_loads[n].signal \notin aborted
           /\ \A s \in (0 .. next_signal - 1) \ aborted :
                 \E n \in Nodes : iframe_loads[n] # None /\ iframe_loads[n].signal = s
BY DEF SignalsInv, LiveSignalsAreOwned

(* ... and that is all there is to LiveSignalsAreOwned.                    *)
LEMMA OwnedSignalsNext ==
    ASSUME \A n \in Nodes : iframe_loads'[n] # None =>
               /\ iframe_loads'[n].signal \in 0 .. next_signal' - 1
               /\ iframe_loads'[n].signal \notin aborted',
           \A s \in (0 .. next_signal' - 1) \ aborted' :
               \E n \in Nodes : iframe_loads'[n] # None /\ iframe_loads'[n].signal = s
    PROVE  LiveSignalsAreOwned'
BY DEF LiveSignalsAreOwned

LEMMA NewGenerationKeepsSignals ==
    ASSUME FramesTypeOK, SignalsInv, NEW n \in Nodes, NEW request \in Option(Nat),
           NewGeneration(n, request)
    PROVE  /\ SignalsInv'
           /\ iframe_loads' \in [Nodes -> Option(IframeLoad)]
           /\ next_signal' \in Nat
           /\ aborted' \subseteq 0 .. next_signal' - 1
<1> DEFINE fresh == [request_id |-> request, signal |-> next_signal]
<1>0. /\ next_signal \in Nat /\ next_signal' = next_signal + 1
      /\ aborted \subseteq 0 .. next_signal - 1
      /\ aborted' = aborted \cup Aborts(n)
      /\ iframe_loads \in [Nodes -> Option(IframeLoad)]
      /\ iframe_loads' = [iframe_loads EXCEPT ![n] = fresh]
    BY DEF FramesTypeOK, NewGeneration
<1>1. fresh \in IframeLoad /\ fresh # None /\ fresh.signal = next_signal
    BY <1>0, FramesAssumption DEF IframeLoad
<1> HIDE DEF fresh
<1>2. /\ iframe_loads' \in [Nodes -> Option(IframeLoad)]
      /\ iframe_loads'[n] = fresh
      /\ \A m \in Nodes \ {n} : iframe_loads'[m] = iframe_loads[m]
    BY <1>0, <1>1 DEF Option
<1>3. Aborts(n) \subseteq 0 .. next_signal - 1
    BY OwnedSignals DEF Aborts
<1>4. \A m \in Nodes : iframe_loads'[m] # None =>
          /\ iframe_loads'[m].signal \in 0 .. next_signal' - 1
          /\ iframe_loads'[m].signal \notin aborted'
  <2>1. next_signal \in 0 .. next_signal' - 1 /\ next_signal \notin aborted'
      BY <1>0, <1>3
  <2>2. ASSUME NEW m \in Nodes \ {n}, iframe_loads[m] # None
        PROVE  /\ iframe_loads[m].signal \in 0 .. next_signal' - 1
               /\ iframe_loads[m].signal \notin aborted'
    <3>1. iframe_loads[m].signal \in 0 .. next_signal - 1 /\ iframe_loads[m].signal \notin aborted
        BY <2>2, OwnedSignals
    <3>2. iframe_loads[m].signal \notin Aborts(n)
        BY <2>2 DEF SignalsInv, SignalsAreDistinct, Aborts
    <3> QED
        BY <1>0, <3>1, <3>2
  <2> QED
      BY <1>1, <1>2, <2>1, <2>2
<1>5. \A s \in (0 .. next_signal' - 1) \ aborted' :
          \E m \in Nodes : iframe_loads'[m] # None /\ iframe_loads'[m].signal = s
  <2> SUFFICES ASSUME NEW s \in (0 .. next_signal' - 1) \ aborted'
               PROVE  \E m \in Nodes : iframe_loads'[m] # None /\ iframe_loads'[m].signal = s
      OBVIOUS
  <2>1. CASE s = next_signal
      BY <1>1, <1>2, <2>1
  <2>2. CASE s # next_signal
    <3>1. s \in (0 .. next_signal - 1) \ aborted /\ s \notin Aborts(n)
        BY <1>0, <2>2
    <3>2. PICK m \in Nodes : iframe_loads[m] # None /\ iframe_loads[m].signal = s
        BY <3>1, OwnedSignals
    <3>3. m # n
        BY <3>1, <3>2 DEF Aborts
    <3> QED
        BY <1>2, <3>2, <3>3
  <2> QED
      BY <2>1, <2>2
<1>6. SignalsAreDistinct'
  <2>1. \A m \in Nodes \ {n} : iframe_loads[m] # None => iframe_loads[m].signal # next_signal
      BY <1>0, OwnedSignals
  <2> QED
      BY <1>1, <1>2, <2>1 DEF SignalsInv, SignalsAreDistinct
<1>7. next_signal' \in Nat /\ aborted' \subseteq 0 .. next_signal' - 1
  <2>1. /\ next_signal \in Nat /\ next_signal' = next_signal + 1
        /\ aborted \subseteq 0 .. next_signal - 1
        /\ aborted' = aborted \cup Aborts(n)
      BY <1>0
  <2>2. 0 .. next_signal - 1 \subseteq 0 .. next_signal' - 1
      BY <2>1
  <2>3. next_signal' \in Nat
      BY <2>1
  <2> QED
      BY <1>3, <2>1, <2>2, <2>3, Zenon
<1> QED
    BY <1>2, <1>4, <1>5, <1>6, <1>7, OwnedSignalsNext DEF SignalsInv

LEMMA RemovalKeepsSignals ==
    ASSUME FramesTypeOK, SignalsInv, NEW n \in Nodes, RemoveSubDocument(n),
           next_signal' = next_signal
    PROVE  /\ SignalsInv'
           /\ iframe_loads' \in [Nodes -> Option(IframeLoad)]
           /\ aborted' \subseteq 0 .. next_signal' - 1
<1>0. /\ next_signal \in Nat /\ aborted \subseteq 0 .. next_signal - 1
      /\ aborted' = aborted \cup Aborts(n)
      /\ iframe_loads \in [Nodes -> Option(IframeLoad)]
      /\ iframe_loads' = [iframe_loads EXCEPT ![n] = None]
    BY DEF FramesTypeOK, RemoveSubDocument
<1>1. /\ iframe_loads' \in [Nodes -> Option(IframeLoad)]
      /\ iframe_loads'[n] = None
      /\ \A m \in Nodes \ {n} : iframe_loads'[m] = iframe_loads[m]
    BY <1>0 DEF Option
<1>2. Aborts(n) \subseteq 0 .. next_signal - 1
    BY OwnedSignals DEF Aborts
<1>3. \A m \in Nodes : iframe_loads'[m] # None =>
          /\ iframe_loads'[m].signal \in 0 .. next_signal' - 1
          /\ iframe_loads'[m].signal \notin aborted'
  <2> SUFFICES ASSUME NEW m \in Nodes, iframe_loads'[m] # None
               PROVE  /\ iframe_loads[m].signal \in 0 .. next_signal - 1
                      /\ iframe_loads[m].signal \notin aborted'
      BY <1>1
  <2>1. m # n /\ iframe_loads[m] # None
      BY <1>1
  <2>2. iframe_loads[m].signal \notin Aborts(n)
      BY <2>1 DEF SignalsInv, SignalsAreDistinct, Aborts
  <2> QED
      BY <1>0, <2>1, <2>2, OwnedSignals
<1>4. \A s \in (0 .. next_signal' - 1) \ aborted' :
          \E m \in Nodes : iframe_loads'[m] # None /\ iframe_loads'[m].signal = s
  <2> SUFFICES ASSUME NEW s \in (0 .. next_signal - 1) \ aborted'
               PROVE  \E m \in Nodes : iframe_loads'[m] # None /\ iframe_loads'[m].signal = s
      OBVIOUS
  <2>1. PICK m \in Nodes : iframe_loads[m] # None /\ iframe_loads[m].signal = s
      BY <1>0, OwnedSignals
  <2>2. m # n
      BY <1>0, <2>1 DEF Aborts
  <2> QED
      BY <1>1, <2>1, <2>2
<1>5. SignalsAreDistinct'
    BY <1>1 DEF SignalsInv, SignalsAreDistinct
<1> QED
    BY <1>0, <1>1, <1>2, <1>3, <1>4, <1>5, OwnedSignalsNext DEF SignalsInv

-----------------------------------------------------------------------------
(* Contents: what a step does to one element, and to the others.           *)

(* A step may replace, remove or move element n only.                      *)
OnlyElement(n) ==
    /\ place' \in [Nodes -> Places]
    /\ src' \in [Nodes -> Option(Urls)]
    /\ srcdoc' \in [Nodes -> BOOLEAN]
    /\ \A m \in Nodes \ {n} : place'[m] = place[m]

(* What was stamped on a request stays.                                    *)
StampsKept ==
    /\ next_request' \in Nat /\ next_request' >= next_request
    /\ \A i \in 1 .. next_request : signal_of'[i] = signal_of[i]

LEMMA ContentsAreTyped ==
    ASSUME FramesTypeOK, NEW n \in Nodes, sub_document[n] # None
    PROVE  /\ sub_document[n].signal \in Nat
           /\ sub_document[n].request \in Option(Nat)
BY DEF FramesTypeOK, Option, Content

LEMMA OtherContents ==
    ASSUME FramesInv, NEW m \in Nodes, StampsKept,
           sub_document'[m] = sub_document[m], iframe_loads'[m] = iframe_loads[m],
           sub_document[m] # None => place'[m] # "dropped"
    PROVE  LoadIsStamped(m)' /\ ContentIsOwned(m)'
<1>1. next_request \in Nat
    BY DEF FramesInv, FrameRequestsInv, RequestsInv, RequestsTypeOK
<1>2. FramesTypeOK /\ LoadIsStamped(m) /\ ContentIsOwned(m)
    BY DEF FramesInv, FrameState, ContentsInv
<1>3. LoadIsStamped(m)'
  <2>1. SUFFICES ASSUME iframe_loads[m] # None, iframe_loads[m].request_id # None
                 PROVE  /\ iframe_loads[m].request_id < next_request'
                        /\ signal_of'[iframe_loads[m].request_id + 1] = iframe_loads[m].signal
      BY DEF LoadIsStamped
  <2>2. iframe_loads[m].request_id \in Nat /\ iframe_loads[m].request_id < next_request
      BY <1>2, <2>1, LoadsAreTyped DEF LoadIsStamped, Option
  <2>3. iframe_loads[m].request_id + 1 \in 1 .. next_request
      BY <1>1, <2>2
  <2> QED
      BY <1>1, <1>2, <2>1, <2>2, <2>3 DEF LoadIsStamped, StampsKept
<1>4. ContentIsOwned(m)'
  <2>1. SUFFICES ASSUME sub_document[m] # None PROVE ContentIsOwned(m)'
      BY DEF ContentIsOwned
  <2>2. ASSUME sub_document[m].request # None
        PROVE  /\ sub_document[m].request < next_request'
               /\ signal_of'[sub_document[m].request + 1] = signal_of[sub_document[m].request + 1]
    <3>1. sub_document[m].request \in Nat /\ sub_document[m].request < next_request
        BY <1>2, <2>1, <2>2, ContentsAreTyped DEF ContentIsOwned, Option
    <3>2. sub_document[m].request + 1 \in 1 .. next_request
        BY <1>1, <3>1
    <3> QED
        BY <1>1, <3>1, <3>2 DEF StampsKept
  <2> QED
      BY <1>2, <2>1, <2>2 DEF ContentIsOwned
<1> QED
    BY <1>3, <1>4

(* A fetch is stamped with the signal of the generation it starts.         *)
LEMMA Stamping ==
    ASSUME FramesInv, NEW n \in Nodes, NEW url \in Urls, StartIframeLoad(n, url)
    PROVE  /\ next_request \in Nat /\ next_request' = next_request + 1
           /\ StampsKept
           /\ signal_of' \in Seq(Nat)
           /\ Len(signal_of') = next_request'
           /\ signal_of'[next_request + 1] = next_signal
<1>1. next_request \in Nat /\ next_request' = next_request + 1
    BY FetchOne DEF StartIframeLoad, FramesInv, FrameRequestsInv, RequestsInv
<1>2. /\ signal_of \in Seq(Nat) /\ Len(signal_of) = next_request /\ next_signal \in Nat
      /\ signal_of' = Append(signal_of, next_signal)
    BY DEF StartIframeLoad, FramesInv, FrameState, FramesTypeOK
<1> QED
    BY <1>1, <1>2 DEF StampsKept

LEMMA StartIframeLoadKeepsFrames ==
    ASSUME FramesInv, RequestsTypeOK', NEW n \in Nodes, NEW url \in Urls,
           StartIframeLoad(n, url), OnlyElement(n), place'[n] # "dropped"
    PROVE  FrameState'
<1> DEFINE fresh == [request_id |-> next_request, signal |-> next_signal]
<1>0. FramesTypeOK /\ SignalsInv /\ ContentsInv
    BY DEF FramesInv, FrameState
<1>1. /\ next_request \in Nat /\ next_request' = next_request + 1
      /\ StampsKept
      /\ signal_of' \in Seq(Nat)
      /\ Len(signal_of') = next_request'
      /\ signal_of'[next_request + 1] = next_signal
    BY Stamping
<1>2. /\ SignalsInv'
      /\ iframe_loads' \in [Nodes -> Option(IframeLoad)]
      /\ next_signal' \in Nat
      /\ aborted' \subseteq 0 .. next_signal' - 1
  <2>1. next_request \in Option(Nat) /\ NewGeneration(n, next_request)
      BY <1>1 DEF StartIframeLoad, Option
  <2> QED
      BY <1>0, <2>1, NewGenerationKeepsSignals
<1>3. /\ UNCHANGED <<sub_document, sub_document_nodes>>
      /\ iframe_loads' = [iframe_loads EXCEPT ![n] = fresh]
      /\ iframe_loads'[n] = fresh
      /\ \A m \in Nodes \ {n} : iframe_loads'[m] = iframe_loads[m]
    BY <1>0 DEF StartIframeLoad, SameContent, NewGeneration, FramesTypeOK
<1>4. /\ fresh.request_id = next_request /\ fresh.signal = next_signal
      /\ fresh # None /\ next_request # None
    BY <1>0, <1>1, FramesAssumption, RequestsAssumption DEF IframeLoad, FramesTypeOK, Option
<1> HIDE DEF fresh
<1>5. LoadIsStamped(n)'
    BY <1>1, <1>3, <1>4 DEF LoadIsStamped
<1>6. ContentIsOwned(n)'
  <2>1. SUFFICES ASSUME sub_document[n] # None PROVE ContentIsOwned(n)'
      BY <1>3 DEF ContentIsOwned
  <2>2. /\ iframe_loads[n] # None
        /\ sub_document[n].signal <= iframe_loads[n].signal
        /\ sub_document[n].request # None =>
              /\ sub_document[n].request < next_request
              /\ signal_of[sub_document[n].request + 1] = sub_document[n].signal
      BY <1>0, <2>1 DEF ContentsInv, ContentIsOwned
  <2>3. sub_document[n].signal <= next_signal
    <3>1. /\ iframe_loads[n].signal \in 0 .. next_signal - 1
          /\ sub_document[n].signal \in Nat /\ next_signal \in Nat
        BY <1>0, <2>1, <2>2, OwnedSignals, ContentsAreTyped DEF FramesTypeOK
    <3> QED
        BY <2>2, <3>1
  <2>4. ASSUME sub_document[n].request # None
        PROVE  /\ sub_document[n].request < next_request
               /\ sub_document[n].request < next_request'
               /\ signal_of'[sub_document[n].request + 1] = sub_document[n].signal
    <3>1. sub_document[n].request \in Nat
        BY <1>0, <2>1, <2>4, ContentsAreTyped DEF Option
    <3>2. sub_document[n].request + 1 \in 1 .. next_request
        BY <1>1, <2>2, <2>4, <3>1
    <3> QED
        BY <1>1, <2>2, <2>4, <3>1, <3>2 DEF StampsKept
  <2> QED
      BY <1>3, <1>4, <2>3, <2>4 DEF ContentIsOwned
<1>7. \A m \in Nodes \ {n} : LoadIsStamped(m)' /\ ContentIsOwned(m)'
  <2>1. \A m \in Nodes : sub_document[m] # None => place[m] # "dropped"
      BY <1>0 DEF ContentsInv, ContentIsOwned
  <2> QED
      BY <1>1, <1>3, <2>1, OtherContents DEF OnlyElement
<1>8. ContentsInv'
    BY <1>0, <1>3, <1>5, <1>6, <1>7 DEF ContentsInv
<1>9. FramesTypeOK'
    BY <1>0, <1>1, <1>2, <1>3 DEF FramesTypeOK, OnlyElement
<1> QED
    BY <1>2, <1>8, <1>9 DEF FrameState

LEMMA LoadSrcdocKeepsFrames ==
    ASSUME FramesInv, RequestsTypeOK', NEW n \in Nodes,
           LoadSrcdoc(n), OnlyElement(n), place'[n] # "dropped"
    PROVE  FrameState'
<1> DEFINE fresh == [request_id |-> None, signal |-> next_signal]
           doc == [signal |-> next_signal, request |-> None]
<1>0. FramesTypeOK /\ SignalsInv /\ ContentsInv
    BY DEF FramesInv, FrameState
<1>1. /\ next_signal \in Nat /\ next_request \in Nat /\ next_request' = next_request
      /\ signal_of' = signal_of
      /\ StampsKept
    BY <1>0 DEF LoadSrcdoc, NoFetch, FramesTypeOK, RequestsTypeOK, StampsKept
<1>2. /\ SignalsInv'
      /\ iframe_loads' \in [Nodes -> Option(IframeLoad)]
      /\ next_signal' \in Nat
      /\ aborted' \subseteq 0 .. next_signal' - 1
  <2>1. None \in Option(Nat) /\ NewGeneration(n, None)
      BY DEF LoadSrcdoc, Option
  <2> QED
      BY <1>0, <2>1, NewGenerationKeepsSignals
<1>3. /\ iframe_loads'[n] = fresh
      /\ \A m \in Nodes \ {n} : iframe_loads'[m] = iframe_loads[m]
    BY <1>0 DEF LoadSrcdoc, NewGeneration, FramesTypeOK
<1>4. doc \in Content /\ doc # None
    BY <1>1, FramesAssumption DEF Content, Option
<1>5. /\ sub_document' \in [Nodes -> Option(Content)]
      /\ sub_document'[n] = doc
      /\ \A m \in Nodes \ {n} : sub_document'[m] = sub_document[m]
      /\ sub_document_nodes' = sub_document_nodes \cup {n}
    BY <1>0, <1>4 DEF LoadSrcdoc, Attach, FramesTypeOK, Option
<1>6. /\ fresh.request_id = None /\ fresh.signal = next_signal
      /\ doc.request = None /\ doc.signal = next_signal
    OBVIOUS
<1>7. fresh # None
    BY <1>1, FramesAssumption DEF IframeLoad, Option
<1> HIDE DEF fresh, doc
<1>8. LoadIsStamped(n)' /\ ContentIsOwned(n)'
    BY <1>1, <1>3, <1>5, <1>6, <1>7 DEF LoadIsStamped, ContentIsOwned
<1>9. \A m \in Nodes \ {n} : LoadIsStamped(m)' /\ ContentIsOwned(m)'
  <2>1. \A m \in Nodes : sub_document[m] # None => place[m] # "dropped"
      BY <1>0 DEF ContentsInv, ContentIsOwned
  <2> QED
      BY <1>1, <1>3, <1>5, <2>1, OtherContents DEF OnlyElement
<1>10. ContentsInv'
    BY <1>0, <1>4, <1>5, <1>8, <1>9 DEF ContentsInv
<1>11. FramesTypeOK'
  <2>1. sub_document_nodes' \subseteq Nodes
      BY <1>0, <1>5 DEF FramesTypeOK
  <2> QED
      BY <1>0, <1>1, <1>2, <1>5, <2>1 DEF FramesTypeOK, OnlyElement
<1> QED
    BY <1>2, <1>10, <1>11 DEF FrameState

(* No load, and the same contents.                                         *)
LEMMA NothingKeepsFrames ==
    ASSUME FramesInv, RequestsTypeOK', NoLoad,
           UNCHANGED <<sub_document, sub_document_nodes>>,
           place' \in [Nodes -> Places],
           src' \in [Nodes -> Option(Urls)],
           srcdoc' \in [Nodes -> BOOLEAN],
           \A m \in Nodes : sub_document[m] # None => place'[m] # "dropped"
    PROVE  FrameState'
<1>0. FramesTypeOK /\ SignalsInv /\ ContentsInv
    BY DEF FramesInv, FrameState
<1>1. StampsKept
    BY <1>0 DEF NoLoad, NoFetch, StampsKept, FramesTypeOK, RequestsTypeOK
<1>2. SignalsInv'
    BY <1>0 DEF NoLoad, SignalsInv, LiveSignalsAreOwned, SignalsAreDistinct
<1>3. \A m \in Nodes : LoadIsStamped(m)' /\ ContentIsOwned(m)'
    BY <1>1, OtherContents DEF NoLoad
<1>4. ContentsInv'
    BY <1>0, <1>3 DEF ContentsInv
<1>5. FramesTypeOK'
    BY <1>0 DEF FramesTypeOK, NoLoad, NoFetch
<1> QED
    BY <1>2, <1>4, <1>5 DEF FrameState

LEMMA LoadIframeKeepsFrames ==
    ASSUME FramesInv, RequestsTypeOK', NEW n \in Nodes, NEW has_srcdoc, NEW url \in Option(Urls),
           LoadIframe(n, has_srcdoc, url), OnlyElement(n), place'[n] # "dropped"
    PROVE  FrameState'
<1>1. CASE has_srcdoc
    BY <1>1, LoadSrcdocKeepsFrames DEF LoadIframe
<1>2. CASE ~has_srcdoc /\ url # None
    BY <1>2, StartIframeLoadKeepsFrames DEF LoadIframe, Option
<1>3. CASE ~has_srcdoc /\ url = None
  <2>1. \A m \in Nodes : sub_document[m] # None => place[m] # "dropped"
      BY DEF FramesInv, FrameState, ContentsInv, ContentIsOwned
  <2> QED
      BY <1>3, <2>1, NothingKeepsFrames DEF LoadIframe, SameContent, OnlyElement
<1> QED
    BY <1>1, <1>2, <1>3

-----------------------------------------------------------------------------
(* The steps.                                                              *)

LEMMA LeaveKeepsFrames ==
    ASSUME FramesInv, RequestsTypeOK', NEW n \in Nodes, NEW to \in {"detached", "dropped"},
           Leave(n, to)
    PROVE  FrameState'
<1>0. FramesTypeOK /\ SignalsInv /\ ContentsInv
    BY DEF FramesInv, FrameState
<1>1. /\ place' \in [Nodes -> Places]
      /\ \A m \in Nodes \ {n} : place'[m] = place[m]
      /\ UNCHANGED <<src, srcdoc, next_signal, signal_of, next_request>>
    BY <1>0 DEF Leave, NoFetch, FramesTypeOK, Places
<1>2. \A m \in Nodes : sub_document[m] # None => place[m] # "dropped"
    BY <1>0 DEF ContentsInv, ContentIsOwned
<1>3. CASE sub_document[n] = None
  <2>1. UNCHANGED <<sub_document, sub_document_nodes, aborted, iframe_loads>> /\ NoFetch
      BY <1>3 DEF Leave
  <2>2. \A m \in Nodes : sub_document[m] # None => place'[m] # "dropped"
      BY <1>1, <1>2, <1>3
  <2> QED
      BY <1>0, <1>1, <2>1, <2>2, NothingKeepsFrames DEF NoLoad, FramesTypeOK
<1>4. CASE sub_document[n] # None
  <2>1. RemoveSubDocument(n)
      BY <1>4 DEF Leave
  <2>2. /\ SignalsInv'
        /\ iframe_loads' \in [Nodes -> Option(IframeLoad)]
        /\ aborted' \subseteq 0 .. next_signal' - 1
      BY <1>0, <1>1, <2>1, RemovalKeepsSignals
  <2>3. /\ iframe_loads'[n] = None
        /\ \A m \in Nodes \ {n} : iframe_loads'[m] = iframe_loads[m]
      BY <1>0, <2>1 DEF RemoveSubDocument, FramesTypeOK
  <2>4. /\ sub_document' \in [Nodes -> Option(Content)]
        /\ sub_document'[n] = None
        /\ \A m \in Nodes \ {n} : sub_document'[m] = sub_document[m]
        /\ sub_document_nodes' = sub_document_nodes \ {n}
      BY <1>0, <2>1 DEF RemoveSubDocument, FramesTypeOK, Option
  <2>5. LoadIsStamped(n)' /\ ContentIsOwned(n)'
      BY <2>3, <2>4 DEF LoadIsStamped, ContentIsOwned
  <2>6. StampsKept
      BY <1>0, <1>1 DEF StampsKept, FramesTypeOK, RequestsTypeOK
  <2>7. \A m \in Nodes \ {n} : LoadIsStamped(m)' /\ ContentIsOwned(m)'
      BY <1>1, <1>2, <2>3, <2>4, <2>6, OtherContents
  <2>8. ContentsInv'
      BY <1>0, <2>4, <2>5, <2>7 DEF ContentsInv
  <2>9. FramesTypeOK'
    <3>1. sub_document_nodes' \subseteq Nodes
        BY <1>0, <2>4 DEF FramesTypeOK
    <3> QED
        BY <1>0, <1>1, <2>2, <2>4, <3>1 DEF FramesTypeOK
  <2> QED
      BY <2>2, <2>8, <2>9 DEF FrameState
<1> QED
    BY <1>3, <1>4

LEMMA ScriptKeepsFrames ==
    ASSUME FramesInv, RequestsTypeOK', Script
    PROVE  FrameState'
<1>0. FramesTypeOK /\ SignalsInv /\ ContentsInv
    BY DEF FramesInv, FrameState
<1>2. \A m \in Nodes : sub_document[m] # None => place[m] # "dropped"
    BY <1>0 DEF ContentsInv, ContentIsOwned
<1>3. ASSUME NEW n \in Nodes, NEW has_srcdoc \in BOOLEAN, NEW url \in Option(Urls),
             SetAttributes(n, has_srcdoc, url)
      PROVE  FrameState'
  <2>1. /\ place' \in [Nodes -> Places] /\ place' = place
        /\ src' \in [Nodes -> Option(Urls)]
        /\ srcdoc' \in [Nodes -> BOOLEAN]
        /\ place[n] # "dropped"
      BY <1>0, <1>3 DEF SetAttributes, FramesTypeOK
  <2>2. CASE place[n] = "in"
      BY <1>3, <2>1, <2>2, LoadIframeKeepsFrames DEF SetAttributes, OnlyElement
  <2>3. CASE place[n] # "in"
      BY <1>2, <1>3, <2>1, <2>3, NothingKeepsFrames DEF SetAttributes, SameContent
  <2> QED
      BY <2>2, <2>3
<1>4. ASSUME NEW n \in Nodes, NEW url \in Urls, SetSrc(n, url) PROVE FrameState'
  <2>1. srcdoc[n] \in BOOLEAN /\ url \in Option(Urls)
      BY <1>0 DEF FramesTypeOK, Option
  <2> QED
      BY <1>3, <1>4, <2>1 DEF SetSrc
<1>5. ASSUME NEW n \in Nodes, SetSrcdoc(n) \/ ClearSrcdoc(n) PROVE FrameState'
  <2>1. src[n] \in Option(Urls)
      BY <1>0 DEF FramesTypeOK
  <2> QED
      BY <1>3, <1>5, <2>1 DEF SetSrcdoc, ClearSrcdoc
<1>6. ASSUME NEW n \in Nodes, Insert(n) PROVE FrameState'
  <2>1. /\ src[n] \in Option(Urls)
        /\ place' = [place EXCEPT ![n] = "in"] /\ src' = src /\ srcdoc' = srcdoc
        /\ LoadIframe(n, srcdoc[n], src[n])
      BY <1>0, <1>6 DEF Insert, FramesTypeOK
  <2>2. OnlyElement(n) /\ place'[n] # "dropped"
      BY <1>0, <2>1 DEF OnlyElement, FramesTypeOK, Places
  <2> QED
      BY <2>1, <2>2, LoadIframeKeepsFrames
<1>7. ASSUME NEW n \in Nodes, NEW url \in Urls, ClickInIframe(n, url) PROVE FrameState'
  <2>1. UNCHANGED frameVars /\ NoFetch
      BY <1>7 DEF ClickInIframe, SendNavigation, NoFetch
  <2> QED
      BY <1>0, <1>2, <2>1, NothingKeepsFrames DEF frameVars, NoLoad, FramesTypeOK
<1> QED
    BY <1>4, <1>5, <1>6, <1>7, LeaveKeepsFrames DEF Script

(* The answer that a frame waits for: its generation takes over.           *)
LEMMA ApplyKeepsFrames ==
    ASSUME FramesInv, RequestsTypeOK', NEW n \in Nodes, NEW id \in Nat,
           ApplyIframeHtml(n, id), NoFetch,
           UNCHANGED <<next_signal, aborted, signal_of, place, src, srcdoc>>
    PROVE  FrameState'
<1>0. FramesTypeOK /\ SignalsInv /\ ContentsInv
    BY DEF FramesInv, FrameState
<1>1. \A m \in Nodes : sub_document[m] # None => place[m] # "dropped"
    BY <1>0 DEF ContentsInv, ContentIsOwned
<1>2. CASE ~IsCurrent(n, id)
    BY <1>0, <1>1, <1>2, NothingKeepsFrames
       DEF ApplyIframeHtml, SameContent, NoLoad, FramesTypeOK
<1>3. CASE IsCurrent(n, id)
  <2> DEFINE done == [iframe_loads[n] EXCEPT !.request_id = None]
             doc == [signal |-> iframe_loads[n].signal, request |-> id]
  <2>1. /\ iframe_loads[n] \in IframeLoad /\ iframe_loads[n] # None
        /\ iframe_loads[n].request_id = id /\ id # None
        /\ iframe_loads[n].signal \in Nat
      BY <1>0, <1>3, RequestsAssumption DEF IsCurrent, FramesTypeOK, Option, IframeLoad
  <2>2. /\ done \in IframeLoad
        /\ done.request_id = None /\ done.signal = iframe_loads[n].signal
      BY <2>1 DEF IframeLoad, Option
  <2>3. done # None
      BY <2>2, FramesAssumption
  <2>4. /\ iframe_loads' = [iframe_loads EXCEPT ![n] = done]
        /\ place[n] = "dropped" => SameContent
        /\ place[n] # "dropped" => Attach(n, iframe_loads[n].signal, id)
      BY <1>3 DEF ApplyIframeHtml
  <2>5. doc \in Content /\ doc # None
      BY <2>1, FramesAssumption DEF Content, Option
  <2>6. doc.signal = iframe_loads[n].signal /\ doc.request = id
      OBVIOUS
  <2> HIDE DEF done
  <2>7. /\ iframe_loads' \in [Nodes -> Option(IframeLoad)]
        /\ iframe_loads'[n] = done
        /\ \A m \in Nodes \ {n} : iframe_loads'[m] = iframe_loads[m]
      BY <1>0, <2>2, <2>4 DEF FramesTypeOK, Option
  <2>8. \A m \in Nodes : /\ iframe_loads'[m] = None <=> iframe_loads[m] = None
                         /\ iframe_loads[m] # None => iframe_loads'[m].signal = iframe_loads[m].signal
      BY <2>1, <2>2, <2>3, <2>7
  <2>9. SignalsInv'
      BY <1>0, <2>8, OwnedSignals, OwnedSignalsNext DEF SignalsInv, SignalsAreDistinct
  <2>10. LoadIsStamped(n)'
      BY <2>2, <2>7 DEF LoadIsStamped
  <2>11. StampsKept /\ next_request' = next_request
      BY <1>0 DEF NoFetch, StampsKept, FramesTypeOK, RequestsTypeOK
  <2>12. id < next_request /\ signal_of[id + 1] = iframe_loads[n].signal
      BY <1>0, <2>1 DEF ContentsInv, LoadIsStamped
  <2>13. CASE place[n] = "dropped"
    <3>1. UNCHANGED <<sub_document, sub_document_nodes>> /\ sub_document[n] = None
        BY <1>1, <2>4, <2>13 DEF SameContent
    <3>2. ContentIsOwned(n)'
        BY <3>1 DEF ContentIsOwned
    <3>3. \A m \in Nodes \ {n} : LoadIsStamped(m)' /\ ContentIsOwned(m)'
        BY <1>1, <2>7, <2>11, <3>1, OtherContents
    <3>4. ContentsInv'
        BY <1>0, <2>10, <3>1, <3>2, <3>3 DEF ContentsInv
    <3>5. FramesTypeOK'
        BY <1>0, <2>7, <2>11, <3>1 DEF FramesTypeOK
    <3> QED
        BY <2>9, <3>4, <3>5 DEF FrameState
  <2>14. CASE place[n] # "dropped"
    <3> HIDE DEF doc
    <3>1. sub_document' = [sub_document EXCEPT ![n] = doc]
      <4>1. Attach(n, iframe_loads[n].signal, id)
          BY <2>4, <2>14
      <4> QED
          BY <4>1 DEF Attach, doc
    <3>2. /\ sub_document' \in [Nodes -> Option(Content)]
          /\ sub_document'[n] = doc
          /\ \A m \in Nodes \ {n} : sub_document'[m] = sub_document[m]
          /\ sub_document_nodes' = sub_document_nodes \cup {n}
        BY <1>0, <2>4, <2>5, <2>14, <3>1 DEF Attach, FramesTypeOK, Option
    <3>3. ContentIsOwned(n)'
        BY <2>1, <2>2, <2>3, <2>6, <2>7, <2>11, <2>12, <2>14, <3>2 DEF ContentIsOwned
    <3>4. \A m \in Nodes \ {n} : LoadIsStamped(m)' /\ ContentIsOwned(m)'
        BY <1>1, <2>7, <2>11, <3>2, OtherContents
    <3>5. ContentsInv'
        BY <1>0, <2>5, <2>10, <3>2, <3>3, <3>4 DEF ContentsInv
    <3>6. FramesTypeOK'
      <4>1. sub_document_nodes' \subseteq Nodes
          BY <1>0, <3>2 DEF FramesTypeOK
      <4> QED
          BY <1>0, <2>7, <2>11, <3>2, <4>1 DEF FramesTypeOK
    <3> QED
        BY <2>9, <3>5, <3>6 DEF FrameState
  <2> QED
      BY <2>13, <2>14
<1> QED
    BY <1>2, <1>3

LEMMA HandleMessageKeepsFrames ==
    ASSUME FramesInv, RequestsTypeOK', HandleMessage
    PROVE  FrameState'
<1> DEFINE msg == Head(channel)
<1>0. FramesTypeOK /\ FrameRequestsInv
    BY DEF FramesInv, FrameState
<1>1. /\ msg.node \in Nodes /\ msg.url \in Urls /\ msg.id \in Option(Nat)
      /\ UNCHANGED <<place, src, srcdoc>>
    BY <1>0, HeadMessage DEF HandleMessage, TakeMessage
<1>2. \A m \in Nodes : sub_document[m] # None => place[m] # "dropped"
    BY DEF FramesInv, FrameState, ContentsInv, ContentIsOwned
<1>3. CASE msg.id = None /\ place[msg.node] = "in"
  <2>1. StartIframeLoad(msg.node, msg.url)
      BY <1>3 DEF HandleMessage, NavigateIframe
  <2>2. OnlyElement(msg.node) /\ place'[msg.node] # "dropped"
      BY <1>0, <1>1, <1>3 DEF OnlyElement, FramesTypeOK
  <2> QED
      BY <1>1, <2>1, <2>2, StartIframeLoadKeepsFrames
<1>4. CASE msg.id = None /\ place[msg.node] # "in"
  <2>1. NoLoad /\ SameContent
      BY <1>4 DEF HandleMessage, NavigateIframe
  <2> QED
      BY <1>0, <1>1, <1>2, <2>1, NothingKeepsFrames DEF SameContent, FramesTypeOK
<1>5. CASE msg.id # None /\ msg.ok
  <2>1. msg.id \in Nat
      BY <1>1, <1>5 DEF Option
  <2>2. /\ ApplyIframeHtml(msg.node, msg.id) /\ NoFetch
        /\ UNCHANGED <<next_signal, aborted, signal_of>>
      BY <1>5 DEF HandleMessage
  <2> QED
      BY <1>1, <2>1, <2>2, ApplyKeepsFrames
<1>6. CASE msg.id # None /\ ~msg.ok
  <2>1. NoLoad /\ SameContent
      BY <1>6 DEF HandleMessage, NoLoad
  <2> QED
      BY <1>0, <1>1, <1>2, <2>1, NothingKeepsFrames DEF SameContent, FramesTypeOK
<1> QED
    BY <1>3, <1>4, <1>5, <1>6

LEMMA StepKeepsFrames ==
    ASSUME FramesInv, RequestsTypeOK', [FramesNext]_framesVars
    PROVE  FrameState'
<1>0. FramesTypeOK
    BY DEF FramesInv, FrameState
<1>1. CASE UNCHANGED <<frameVars, next_request>>
  <2>1. FrameState => FrameState'
    <3>1. /\ SignalsInv => SignalsInv'
          /\ ContentsInv => ContentsInv'
        BY <1>1 DEF frameVars, SignalsInv, LiveSignalsAreOwned, SignalsAreDistinct,
                    ContentsInv, LoadIsStamped, ContentIsOwned
    <3>2. FramesTypeOK'
        BY <1>0, <1>1 DEF frameVars, FramesTypeOK
    <3> QED
        BY <3>1, <3>2 DEF FrameState
  <2> QED
      BY <2>1 DEF FramesInv
<1>2. CASE Provider /\ UNCHANGED frameVars
    BY <1>1, <1>2 DEF Provider, BytesArrive, FetchFails, DropHandler, Respond, RequestRedraw
<1>3. CASE StartResolve \/ MoveRoot \/ EndResolve
    BY <1>1, <1>3 DEF StartResolve, BeginResolve, ResolveWithoutRoot, MoveRoot, RemoveRoot,
                      InsertRoot, ChangeRoot, EndResolve, ChannelDrained
<1>4. CASE UNCHANGED framesVars
    BY <1>1, <1>4 DEF framesVars, requestVars
<1> QED
    BY <1>2, <1>3, <1>4, ScriptKeepsFrames, HandleMessageKeepsFrames DEF FramesNext

-----------------------------------------------------------------------------
(* Requests and messages name elements.                                    *)

LEMMA AppendKeepsNodes ==
    ASSUME FrameRequestsInv, NEW msg \in Message, msg.node \in Nodes,
           channel' = Append(channel, msg), inflight' \subseteq inflight
    PROVE  RequestsAreOfNodes'
<1>1. Messages' = Messages \cup {msg}
    BY AppendedMessages DEF FrameRequestsInv, RequestsInv, RequestsTypeOK
<1> QED
    BY <1>1 DEF FrameRequestsInv, RequestsAreOfNodes

LEMMA FetchKeepsNodes ==
    ASSUME FrameRequestsInv, NEW n \in Nodes, NEW url \in Urls, Fetch({n}, url)
    PROVE  \A q \in inflight' : q.node \in Nodes
<1> DEFINE request == [id |-> next_request, node |-> n, url |-> url]
<1>1. inflight' = inflight \cup {request} /\ request.node = n
    BY FetchOne DEF FrameRequestsInv, RequestsInv
<1> HIDE DEF request
<1> QED
    BY <1>1 DEF FrameRequestsInv, RequestsAreOfNodes

LEMMA LoadIframeKeepsNodes ==
    ASSUME FrameRequestsInv, NEW n \in Nodes, NEW has_srcdoc, NEW url \in Option(Urls),
           LoadIframe(n, has_srcdoc, url)
    PROVE  \A q \in inflight' : q.node \in Nodes
<1>1. NoFetch \/ (url \in Urls /\ Fetch({n}, url))
    BY DEF LoadIframe, LoadSrcdoc, StartIframeLoad, NoLoad, Option
<1> QED
    BY <1>1, FetchKeepsNodes DEF NoFetch, FrameRequestsInv, RequestsAreOfNodes

LEMMA ScriptKeepsNodes ==
    ASSUME FrameRequestsInv, FramesTypeOK, Script
    PROVE  RequestsAreOfNodes'
<1>1. ASSUME NEW n \in Nodes, NEW has_srcdoc, NEW url \in Option(Urls),
             SetAttributes(n, has_srcdoc, url) \/ (Insert(n) /\ url = src[n] /\ has_srcdoc = srcdoc[n])
      PROVE  RequestsAreOfNodes'
  <2>1. channel' = channel /\ (NoFetch \/ LoadIframe(n, has_srcdoc, url))
      BY <1>1 DEF SetAttributes, Insert, Scripting, NoLoad
  <2>2. \A q \in inflight' : q.node \in Nodes
      BY <2>1, LoadIframeKeepsNodes DEF NoFetch, FrameRequestsInv, RequestsAreOfNodes
  <2> QED
      BY <2>1, <2>2 DEF FrameRequestsInv, RequestsAreOfNodes, Messages
<1>2. ASSUME NEW n \in Nodes, NEW url \in Urls, SetSrc(n, url) PROVE RequestsAreOfNodes'
    BY <1>1, <1>2 DEF SetSrc, Option
<1>3. ASSUME NEW n \in Nodes, SetSrcdoc(n) \/ ClearSrcdoc(n) \/ Insert(n)
      PROVE  RequestsAreOfNodes'
  <2>1. src[n] \in Option(Urls)
      BY DEF FramesTypeOK
  <2> QED
      BY <1>1, <1>3, <2>1 DEF SetSrcdoc, ClearSrcdoc
<1>4. ASSUME NEW n \in Nodes, NEW url \in Urls, ClickInIframe(n, url)
      PROVE  RequestsAreOfNodes'
  <2> DEFINE msg == [id |-> None, node |-> n, url |-> url, ok |-> TRUE]
  <2>1. msg \in Message /\ msg.node = n
      BY DEF Message, Option
  <2>2. channel' = Append(channel, msg) /\ inflight' = inflight
      BY <1>4 DEF ClickInIframe, SendNavigation
  <2> HIDE DEF msg
  <2> QED
      BY <2>1, <2>2, AppendKeepsNodes
<1>5. ASSUME NEW n \in Nodes, NEW to, Leave(n, to) PROVE RequestsAreOfNodes'
    BY <1>5 DEF Leave, Scripting, NoFetch, FrameRequestsInv, RequestsAreOfNodes, Messages
<1> QED
    BY <1>2, <1>3, <1>4, <1>5 DEF Script

LEMMA ProviderKeepsNodes ==
    ASSUME FrameRequestsInv, Provider
    PROVE  RequestsAreOfNodes'
<1>1. ASSUME NEW q \in inflight, BytesArrive(q) \/ FetchFails(q) \/ DropHandler(q)
      PROVE  RequestsAreOfNodes'
  <2>1. q \in Request /\ q.url \in Urls /\ FinalUrl[q.url] \in Urls /\ q.node \in Nodes
      BY RequestsAssumption
         DEF FrameRequestsInv, RequestsAreOfNodes, RequestsInv, RequestsTypeOK, Request
  <2>2. PICK url \in Urls, ok \in BOOLEAN : Respond(q, url, ok)
      BY <1>1, <2>1 DEF BytesArrive, FetchFails, DropHandler, RequestUrl
  <2> DEFINE msg == [id |-> q.id, node |-> q.node, url |-> url, ok |-> ok]
  <2>3. msg \in Message /\ msg.node = q.node
      BY <2>1 DEF Request, Message, Option
  <2>4. channel' = Append(channel, msg) /\ inflight' \subseteq inflight
      BY <2>2 DEF Respond, Send
  <2> HIDE DEF msg
  <2> QED
      BY <2>1, <2>3, <2>4, AppendKeepsNodes
<1>2. ASSUME NEW id \in signalling, RequestRedraw(id) PROVE RequestsAreOfNodes'
    BY <1>2 DEF RequestRedraw, FrameRequestsInv, RequestsAreOfNodes, Messages
<1> QED
    BY <1>1, <1>2 DEF Provider

LEMMA StepKeepsNodes ==
    ASSUME FramesInv, [FramesNext]_framesVars
    PROVE  RequestsAreOfNodes'
<1>0. FrameRequestsInv /\ FramesTypeOK
    BY DEF FramesInv, FrameState
<1>1. CASE HandleMessage
  <2> DEFINE msg == Head(channel)
  <2>1. channel # <<>> /\ channel' = Tail(channel) /\ msg.node \in Nodes /\ msg.url \in Urls
      BY <1>0, <1>1, HeadMessage DEF HandleMessage, TakeMessage
  <2>2. Messages' \subseteq Messages
      BY <1>0, <2>1, TakenMessages DEF FrameRequestsInv, RequestsInv, RequestsTypeOK
  <2>3. NoFetch \/ Fetch({msg.node}, msg.url)
      BY <1>1 DEF HandleMessage, NavigateIframe, StartIframeLoad, NoLoad
  <2>4. \A q \in inflight' : q.node \in Nodes
      BY <1>0, <2>1, <2>3, FetchKeepsNodes DEF NoFetch, FrameRequestsInv, RequestsAreOfNodes
  <2> QED
      BY <1>0, <2>2, <2>4 DEF FrameRequestsInv, RequestsAreOfNodes
<1>2. CASE UNCHANGED <<inflight, channel>>
    BY <1>0, <1>2 DEF FrameRequestsInv, RequestsAreOfNodes, Messages
<1>3. CASE StartResolve \/ MoveRoot \/ EndResolve \/ UNCHANGED framesVars
    BY <1>2, <1>3 DEF StartResolve, BeginResolve, ResolveWithoutRoot, MoveRoot, RemoveRoot,
                      InsertRoot, ChangeRoot, EndResolve, ChannelDrained, framesVars, requestVars
<1> QED
    BY <1>0, <1>1, <1>3, ProviderKeepsNodes, ScriptKeepsNodes DEF FramesNext

-----------------------------------------------------------------------------
(* The invariant, and what it gives.                                       *)

LEMMA InitFramesInv == FramesInit => FramesInv
<1> SUFFICES ASSUME FramesInit PROVE FramesInv
    OBVIOUS
<1>1. RequestsInv
    BY InitRequestsInv DEF FramesInit
<1>2. RequestsAreOfNodes
    BY DEF FramesInit, RequestsInit, RequestsAreOfNodes, Messages
<1>3. FramesTypeOK
  <2>1. signal_of \in Seq(Nat) /\ Len(signal_of) = next_request
      BY DEF FramesInit, RequestsInit
  <2>2. RequestsTypeOK /\ next_signal = 0 /\ aborted = {} /\ sub_document_nodes = {}
      BY <1>1 DEF RequestsInv, FramesInit
  <2>3. srcdoc \in [Nodes -> BOOLEAN]
      BY DEF FramesInit
  <2>4. /\ place \in [Nodes -> Places] /\ src \in [Nodes -> Option(Urls)]
        /\ sub_document \in [Nodes -> Option(Content)]
        /\ iframe_loads \in [Nodes -> Option(IframeLoad)]
      BY DEF FramesInit, Places, Option
  <2> QED
      BY <2>1, <2>2, <2>3, <2>4 DEF FramesTypeOK
<1>4. SignalsInv
    BY DEF FramesInit, SignalsInv, LiveSignalsAreOwned, SignalsAreDistinct
<1>5. ContentsInv
    BY DEF FramesInit, ContentsInv, LoadIsStamped, ContentIsOwned
<1> QED
    BY <1>1, <1>2, <1>3, <1>4, <1>5 DEF FramesInv, FrameRequestsInv, FrameState

LEMMA NextFramesInv == FramesInv /\ [FramesNext]_framesVars => FramesInv'
<1> SUFFICES ASSUME FramesInv, [FramesNext]_framesVars PROVE FramesInv'
    OBVIOUS
<1>1. RequestsInv'
    BY FrameStepImplementsRequests, NextRequestsInv DEF FramesInv, FrameState, FrameRequestsInv
<1>2. FrameState'
    BY <1>1, StepKeepsFrames DEF RequestsInv
<1> QED
    BY <1>1, <1>2, StepKeepsNodes DEF FramesInv, FrameRequestsInv

LEMMA FramesInvariance == FramesSpec => []FramesInv
BY InitFramesInv, NextFramesInv, PTL DEF FramesSpec

(* The frames of a document obey the request protocol, navigations in the  *)
(* channel included.                                                       *)
THEOREM FramesImplementRequests == FramesSpec => RequestsSpec
<1>1. FramesInit => RequestsInit
    BY DEF FramesInit
<1>2. FramesInv /\ [FramesNext]_framesVars => [RequestsNext]_requestVars
    BY FrameStepImplementsRequests DEF FramesInv, FrameState
<1> QED
    BY <1>1, <1>2, FramesInvariance, PTL DEF FramesSpec, RequestsSpec

(* So the answers to their requests arrive once, and are heard.            *)
THEOREM FramesAreAnswered == FramesSpec => []AnswersArriveOnce
BY FramesImplementRequests, RequestsAreAnswered, PTL

(* Ids, signals and stamps of frames keep their types: every request has   *)
(* its stamp, and no signal is aborted that was not created.               *)
THEOREM FramesAreTyped == FramesSpec => []FramesTypeOK
<1>1. FramesInv => FramesTypeOK
    BY DEF FramesInv, FrameState
<1> QED
    BY <1>1, FramesInvariance, PTL

(* What runs is owned, and what is on screen is of its owner's generation  *)
(* or of the one before: however loads, clicks, late answers of abandoned  *)
(* loads, removals and re-insertions interleave.                           *)
THEOREM FramesStayConsistent == FramesSpec => []FramesAreConsistent
<1>1. FramesInv => FramesAreConsistent
  <2> SUFFICES ASSUME FramesInv PROVE FramesAreConsistent
      OBVIOUS
  <2>1. FramesTypeOK /\ LiveSignalsAreOwned /\ ContentsInv
      BY DEF FramesInv, FrameState, SignalsInv
  <2>2. ShowsItsGeneration
    <3> SUFFICES ASSUME NEW n \in Nodes, sub_document[n] # None
                 PROVE  /\ iframe_loads[n] # None
                        /\ iframe_loads[n].request_id = None =>
                              sub_document[n].signal = iframe_loads[n].signal
                        /\ sub_document[n].signal # iframe_loads[n].signal =>
                              sub_document[n].signal < iframe_loads[n].signal
                        /\ sub_document[n].request # None =>
                              signal_of[sub_document[n].request + 1] = sub_document[n].signal
        BY DEF ShowsItsGeneration
    <3>1. ContentIsOwned(n) /\ iframe_loads[n] # None
        BY <2>1 DEF ContentsInv, ContentIsOwned
    <3>2. sub_document[n].signal \in Nat /\ iframe_loads[n].signal \in Nat
        BY <2>1, <3>1, ContentsAreTyped, LoadsAreTyped
    <3> QED
        BY <3>1, <3>2 DEF ContentIsOwned
  <2>3. SubDocumentsAreListed
      BY <2>1 DEF SubDocumentsAreListed, ContentsInv, ContentIsOwned
  <2> QED
      BY <2>1, <2>2, <2>3 DEF FramesAreConsistent
<1> QED
    BY <1>1, FramesInvariance, PTL

(* A frame never goes back to the answer of an earlier request.            *)
THEOREM FramesNeverGoBack == FramesSpec => NeverGoesBack
<1> DEFINE Forward(n) ==
        (/\ sub_document[n] # None /\ sub_document[n].request # None
         /\ sub_document'[n] # None /\ sub_document'[n].request # None)
            => sub_document'[n].request >= sub_document[n].request
<1>1. ASSUME FramesInv, [FramesNext]_framesVars, NEW n \in Nodes PROVE Forward(n)
  <2>0. FramesTypeOK /\ FrameRequestsInv
      BY <1>1 DEF FramesInv, FrameState
  <2>1. CASE sub_document'[n] = sub_document[n]
    <3>1. (sub_document[n] # None /\ sub_document[n].request # None) => sub_document[n].request \in Nat
        BY <2>0, ContentsAreTyped DEF Option
    <3> QED
        BY <2>1, <3>1
  <2>2. CASE sub_document'[n] = None
      BY <2>2
  <2>3. ASSUME NEW m \in Nodes, LoadSrcdoc(m)
        PROVE  sub_document'[n] = sub_document[n] \/ sub_document'[n].request = None
      BY <2>0, <2>3 DEF LoadSrcdoc, Attach, FramesTypeOK
  <2>4. ASSUME NEW m \in Nodes, NEW has_srcdoc, NEW url, LoadIframe(m, has_srcdoc, url)
        PROVE  sub_document'[n] = sub_document[n] \/ sub_document'[n].request = None
      BY <2>3, <2>4 DEF LoadIframe, StartIframeLoad, SameContent
  <2>5. ASSUME NEW m \in Nodes, NEW has_srcdoc, NEW url, SetAttributes(m, has_srcdoc, url)
        PROVE  sub_document'[n] = sub_document[n] \/ sub_document'[n].request = None
      BY <2>4, <2>5 DEF SetAttributes, SameContent
  <2>6. CASE Script
    <3>1. ASSUME NEW m \in Nodes, NEW to, Leave(m, to)
          PROVE  sub_document'[n] = sub_document[n] \/ sub_document'[n] = None
        BY <2>0, <3>1 DEF Leave, RemoveSubDocument, FramesTypeOK
    <3>2. ASSUME NEW m \in Nodes, NEW url, ClickInIframe(m, url)
          PROVE  sub_document'[n] = sub_document[n]
        BY <3>2 DEF ClickInIframe, frameVars
    <3>3. \/ sub_document'[n] = sub_document[n]
          \/ sub_document'[n] = None
          \/ sub_document'[n].request = None
        BY <2>4, <2>5, <2>6, <3>1, <3>2 DEF Script, SetSrc, SetSrcdoc, ClearSrcdoc, Insert
    <3> QED
        BY <2>1, <2>2, <3>3
  <2>7. CASE HandleMessage
    <3> DEFINE msg == Head(channel)
    <3>1. msg.node \in Nodes /\ msg.id \in Option(Nat)
        BY <2>0, <2>7, HeadMessage DEF HandleMessage, TakeMessage
    <3>2. \/ sub_document' = sub_document
          \/ /\ msg.id # None /\ IsCurrent(msg.node, msg.id)
             /\ Attach(msg.node, iframe_loads[msg.node].signal, msg.id)
        BY <2>7 DEF HandleMessage, NavigateIframe, StartIframeLoad, NoLoad, SameContent, ApplyIframeHtml
    <3>3. CASE msg.node = n /\ IsCurrent(n, msg.id) /\ msg.id # None
               /\ Attach(n, iframe_loads[n].signal, msg.id)
      <4>1. sub_document'[n].request = msg.id
          BY <2>0, <3>3 DEF Attach, FramesTypeOK
      <4>2. (sub_document[n] # None /\ sub_document[n].request # None) =>
                sub_document[n].request \in Nat /\ sub_document[n].request < msg.id
          BY <1>1, <2>0, <3>3, ContentsAreTyped
             DEF FramesInv, FrameState, ContentsInv, ContentIsOwned, IsCurrent, Option
      <4>3. msg.id \in Nat
          BY <3>1, <3>3 DEF Option
      <4> QED
          BY <4>1, <4>2, <4>3
    <3>4. CASE sub_document' = sub_document \/ msg.node # n
      <4>1. sub_document'[n] = sub_document[n]
          BY <2>0, <3>1, <3>2, <3>4 DEF Attach, FramesTypeOK
      <4> QED
          BY <2>1, <4>1
    <3> QED
        BY <3>2, <3>3, <3>4
  <2>8. CASE UNCHANGED frameVars
      BY <2>1, <2>8 DEF frameVars
  <2> QED
      BY <1>1, <2>6, <2>7, <2>8 DEF FramesNext, StartResolve, MoveRoot, EndResolve, framesVars
<1>2. FramesInv /\ [FramesNext]_framesVars => [\A n \in Nodes : Forward(n)]_framesVars
    BY <1>1
<1> QED
    BY <1>2, FramesInvariance, PTL DEF FramesSpec, NeverGoesBack

-----------------------------------------------------------------------------
(* The browsing history: types and caps.                                   *)

HistoryInv == HistoryTypeOK /\ IsFiniteSet(rows) /\ HistoryIsCapped

LEMMA RecordVisitKeepsHistory ==
    ASSUME HistoryInv, NEW url \in Locations, RecordVisit(url)
    PROVE  HistoryInv'
<1> USE HistoryAssumption
<1>0. /\ entries \in Seq(Entry) /\ Len(entries) <= MAX_HISTORY_ENTRIES
      /\ next_id \in Nat /\ now \in Nat /\ writes \in Seq(DiskWrite) /\ mishaps \subseteq Mishaps
    BY DEF HistoryInv, HistoryTypeOK, HistoryIsCapped
<1>1. PICK time \in {now, now + 1} :
          /\ now' = time
          /\ entries' = Recorded([id |-> next_id, url |-> url, icon |-> Nil, visited_at |-> time])
          /\ writes' = Append(writes, [op |-> "visit", url |-> url, visited_at |-> time])
          /\ mishaps' = IF time = now THEN mishaps \cup {"tied"} ELSE mishaps
    BY DEF RecordVisit
<1> DEFINE entry == [id |-> next_id, url |-> url, icon |-> Nil, visited_at |-> time]
           write == [op |-> "visit", url |-> url, visited_at |-> time]
<1>2. time \in Nat
    BY <1>0
<1>3. entry \in Entry
    BY <1>0, <1>2 DEF Entry, Icons
<1>4. write \in DiskWrite
    BY <1>2 DEF DiskWrite
<1>5. writes' \in Seq(DiskWrite)
  <2> HIDE DEF write
  <2> QED
      BY <1>0, <1>1, <1>4 DEF write
<1>6. entries' \in Seq(Entry) /\ Len(entries') <= MAX_HISTORY_ENTRIES
  <2>1. CASE Folds(url)
    <3> DEFINE folded == [entry EXCEPT !.id = entries[1].id]
    <3>1. entries[1] \in Entry /\ 1 \in DOMAIN entries
        BY <1>0, <2>1 DEF Folds
    <3>2. folded \in Entry
        BY <1>3, <3>1 DEF Entry
    <3>3. entries' = [entries EXCEPT ![1] = folded]
        BY <1>1, <2>1 DEF Recorded
    <3> HIDE DEF folded
    <3> QED
        BY <1>0, <3>1, <3>2, <3>3
  <2>2. CASE ~Folds(url)
    <3> DEFINE all == <<entry>> \o entries
               size == IF Len(all) < MAX_HISTORY_ENTRIES THEN Len(all) ELSE MAX_HISTORY_ENTRIES
    <3>1. entries' = SubSeq(all, 1, size)
        BY <1>1, <2>2 DEF Recorded, AtMost
    <3> HIDE DEF entry
    <3>2. all \in Seq(Entry) /\ Len(all) \in Nat
        BY <1>0, <1>3
    <3>3. size \in Nat /\ size <= Len(all) /\ size <= MAX_HISTORY_ENTRIES
        BY <3>2
    <3> HIDE DEF all, size
    <3> QED
        BY <3>1, <3>2, <3>3
  <2> QED
      BY <2>1, <2>2
<1>7. mishaps' \subseteq Mishaps /\ next_id' \in Nat /\ now' \in Nat /\ rows' = rows
    BY <1>0, <1>1, <1>2 DEF RecordVisit, Mishaps
<1> QED
    BY <1>5, <1>6, <1>7 DEF HistoryInv, HistoryTypeOK, HistoryIsCapped

LEMMA SetFaviconKeepsHistory ==
    ASSUME HistoryInv, NEW id, NEW url \in Locations, NEW icon \in Locations,
           SetFavicon(id, url, icon)
    PROVE  HistoryInv'
<1> DEFINE patched(i) == IF entries[i].id = id THEN [entries[i] EXCEPT !.icon = icon] ELSE entries[i]
           write == [op |-> "favicon", url |-> url, icon |-> icon]
<1>0. /\ entries \in Seq(Entry) /\ Len(entries) <= MAX_HISTORY_ENTRIES
      /\ writes \in Seq(DiskWrite)
    BY DEF HistoryInv, HistoryTypeOK, HistoryIsCapped
<1>1. \A i \in DOMAIN entries : patched(i) \in Entry
  <2> TAKE i \in DOMAIN entries
  <2>1. entries[i] \in Entry
      BY <1>0
  <2> QED
      BY <2>1 DEF Entry, Icons
<1>2. entries' = [i \in DOMAIN entries |-> patched(i)] /\ writes' = Append(writes, write)
    BY DEF SetFavicon
<1>3. write \in DiskWrite
    BY DEF DiskWrite
<1> HIDE DEF patched, write
<1>4. DOMAIN entries = 1 .. Len(entries) /\ Len(entries) \in Nat
    BY <1>0
<1>5. entries' \in Seq(Entry) /\ Len(entries') = Len(entries)
    BY <1>1, <1>2, <1>4
<1>6. writes' \in Seq(DiskWrite)
    BY <1>0, <1>2, <1>3
<1> QED
    BY <1>0, <1>5, <1>6 DEF SetFavicon, HistoryInv, HistoryTypeOK, HistoryIsCapped

LEMMA ClearKeepsHistory ==
    ASSUME HistoryInv, ClearHistory
    PROVE  HistoryInv'
<1> DEFINE write == [op |-> "clear"]
<1>1. write \in DiskWrite /\ writes' = Append(writes, write) /\ entries' = <<>>
    BY DEF DiskWrite, ClearHistory
<1> HIDE DEF write
<1>2. writes' \in Seq(DiskWrite)
    BY <1>1 DEF HistoryInv, HistoryTypeOK
<1>3. entries' \in Seq(Entry) /\ Len(entries') = 0
    BY <1>1
<1> QED
    BY <1>2, <1>3, HistoryAssumption
       DEF ClearHistory, HistoryInv, HistoryTypeOK, HistoryIsCapped

(* What LIMIT keeps.                                                       *)
LEMMA KeptIsCapped ==
    ASSUME NEW R, IsFiniteSet(R), NEW limit \in Nat, NEW K \in Kept(R, limit)
    PROVE  /\ K \subseteq R /\ IsFiniteSet(K)
           /\ Cardinality(K) \in Nat /\ Cardinality(K) <= limit
<1>1. /\ K \in SUBSET R
      /\ Cardinality(K) = IF Cardinality(R) < limit THEN Cardinality(R) ELSE limit
    BY DEF Kept
<1>2. IsFiniteSet(K) /\ Cardinality(R) \in Nat
    BY <1>1, FS_Subset, FS_CardinalityType
<1> QED
    BY <1>1, <1>2, FS_CardinalityType

(* An insert finds an id that no row has.                                  *)
LEMMA FreshRowExists ==
    ASSUME NEW R \in SUBSET Row, IsFiniteSet(R)
    PROVE  FreshRow(R) \in Nat
<1> DEFINE ids == {r.id : r \in R}
           f == [r \in R |-> r.id]
<1>1. Cardinality(R) \in Nat
    BY FS_CardinalityType
<1>2. f \in Surjection(R, ids)
    BY DEF Surjection
<1>3. IsFiniteSet(ids) /\ Cardinality(ids) <= Cardinality(R) /\ Cardinality(ids) \in Nat
    BY <1>2, FS_Surjection, FS_CardinalityType
<1>4. ~(0 .. Cardinality(R) \subseteq ids)
  <2> SUFFICES ASSUME 0 .. Cardinality(R) \subseteq ids PROVE FALSE
      OBVIOUS
  <2>1. Cardinality(0 .. Cardinality(R)) = Cardinality(R) + 1
      BY <1>1, FS_Interval
  <2>2. Cardinality(0 .. Cardinality(R)) <= Cardinality(ids)
      BY <1>3, FS_Subset
  <2> QED
      BY <1>1, <1>3, <2>1, <2>2
<1>5. \E id \in 0 .. Cardinality(R) : \A r \in R : r.id # id
    BY <1>4
<1>6. FreshRow(R) \in 0 .. Cardinality(R)
    BY <1>5 DEF FreshRow
<1> QED
    BY <1>1, <1>6

LEMMA WithVisitKeepsRows ==
    ASSUME rows \subseteq Row, IsFiniteSet(rows),
           NEW w, w.url \in Locations, w.visited_at \in Nat,
           rows' \in WithVisit(w)
    PROVE  /\ rows' \subseteq Row /\ IsFiniteSet(rows')
           /\ Cardinality(rows') <= MAX_HISTORY_ENTRIES
<1> DEFINE visit(id) == [id |-> id, url |-> w.url, icon |-> Nil, visited_at |-> w.visited_at]
           updated == {(rows \ {r}) \cup {visit(r.id)} : r \in Foldable(w.url)}
           inserted == IF Foldable(w.url) = {} \/ MayInsert(w.url)
                       THEN {rows \cup {visit(FreshRow(rows))}} ELSE {}
<1>1. \A id \in Nat : visit(id) \in Row
    BY DEF Row, Icons
<1>2. PICK R \in updated \cup inserted : rows' \in Kept(R, MAX_HISTORY_ENTRIES)
    BY DEF WithVisit
<1> HIDE DEF visit
<1>3. R \subseteq Row /\ IsFiniteSet(R)
  <2>1. CASE R \in updated
    <3>1. PICK r \in Foldable(w.url) : R = (rows \ {r}) \cup {visit(r.id)}
        BY <2>1
    <3>2. r \in Row /\ r.id \in Nat
        BY <3>1 DEF Foldable, Latest, Row
    <3>3. IsFiniteSet(rows \ {r})
        BY FS_RemoveElement
    <3> QED
        BY <1>1, <3>1, <3>2, <3>3, FS_AddElement
  <2>2. CASE R \in inserted
      BY <1>1, <2>2, FreshRowExists, FS_AddElement
  <2> QED
      BY <2>1, <2>2
<1>4. MAX_HISTORY_ENTRIES \in Nat
    BY HistoryAssumption
<1> QED
    BY <1>2, <1>3, <1>4, KeptIsCapped

LEMMA WithFaviconKeepsRows ==
    ASSUME HistoryInv, NEW w, w.icon \in Locations, rows' = WithFavicon(w)
    PROVE  /\ rows' \subseteq Row /\ IsFiniteSet(rows')
           /\ Cardinality(rows') <= MAX_HISTORY_ENTRIES
<1> DEFINE patched(r) == IF r.url = w.url /\ r.icon = Nil THEN [r EXCEPT !.icon = w.icon] ELSE r
           f == [r \in rows |-> patched(r)]
<1>1. rows \subseteq Row /\ IsFiniteSet(rows) /\ Cardinality(rows) <= MAX_HISTORY_ENTRIES
    BY DEF HistoryInv, HistoryTypeOK, HistoryIsCapped
<1>2. \A r \in Row : patched(r) \in Row
    BY DEF Row, Icons
<1>3. rows' = {patched(r) : r \in rows}
    BY DEF WithFavicon
<1> HIDE DEF patched
<1>4. f \in Surjection(rows, rows')
    BY <1>3 DEF Surjection
<1>5. IsFiniteSet(rows') /\ Cardinality(rows') <= Cardinality(rows)
    BY <1>1, <1>4, FS_Surjection
<1>6. Cardinality(rows) \in Nat /\ Cardinality(rows') \in Nat /\ MAX_HISTORY_ENTRIES \in Nat
    BY <1>1, <1>5, FS_CardinalityType, HistoryAssumption
<1>7. rows' \subseteq Row
    BY <1>1, <1>2, <1>3
<1> QED
    BY <1>1, <1>5, <1>6, <1>7

LEMMA DiskStepKeepsHistory ==
    ASSUME HistoryInv, DiskStep
    PROVE  HistoryInv'
<1>0. /\ writes \in Seq(DiskWrite) /\ rows \subseteq Row /\ IsFiniteSet(rows)
      /\ Cardinality(rows) <= MAX_HISTORY_ENTRIES /\ mishaps \subseteq Mishaps
    BY DEF HistoryInv, HistoryTypeOK, HistoryIsCapped
<1>1. PICK i \in DOMAIN writes : MakeWrite(i) \/ WriteFails(i)
    BY DEF DiskStep
<1>2. writes' = RemoveAt(writes, i) /\ UNCHANGED <<entries, next_id, now>>
    BY <1>1 DEF MakeWrite, WriteFails
<1>3. writes' \in Seq(DiskWrite)
  <2>1. i \in 1 .. Len(writes) /\ Len(writes) \in Nat
      BY <1>0
  <2>2. SubSeq(writes, 1, i - 1) \in Seq(DiskWrite)
      BY <1>0, <2>1
  <2>3. SubSeq(writes, i + 1, Len(writes)) \in Seq(DiskWrite)
      BY <1>0, <2>1
  <2> QED
      BY <1>2, <2>2, <2>3 DEF RemoveAt
<1>4. mishaps' \subseteq Mishaps
    BY <1>0, <1>1 DEF MakeWrite, WriteFails, Mishaps
<1>5. /\ rows' \subseteq Row /\ IsFiniteSet(rows')
      /\ Cardinality(rows') <= MAX_HISTORY_ENTRIES
  <2> DEFINE w == writes[i]
  <2>1. w \in DiskWrite
      BY <1>0, <1>1
  <2>2. CASE WriteFails(i)
      BY <1>0, <2>2 DEF WriteFails
  <2>3. CASE MakeWrite(i) /\ w.op = "visit"
    <3>1. w.url \in Locations /\ w.visited_at \in Nat
        BY <2>1, <2>3 DEF DiskWrite
    <3>2. rows' \in WithVisit(w)
        BY <2>3 DEF MakeWrite
    <3> HIDE DEF w
    <3> QED
        BY <1>0, <3>1, <3>2, WithVisitKeepsRows
  <2>4. CASE MakeWrite(i) /\ w.op = "favicon"
    <3>1. w.icon \in Locations
        BY <2>1, <2>4 DEF DiskWrite
    <3>2. rows' = WithFavicon(w)
        BY <2>4 DEF MakeWrite
    <3> HIDE DEF w
    <3> QED
        BY <3>1, <3>2, WithFaviconKeepsRows
  <2>5. CASE MakeWrite(i) /\ w.op = "clear"
    <3>1. rows' = {}
        BY <2>5 DEF MakeWrite
    <3> QED
        BY <3>1, FS_EmptySet, HistoryAssumption
  <2>6. w.op \in {"visit", "favicon", "clear"}
      BY <2>1 DEF DiskWrite
  <2> QED
      BY <1>1, <2>2, <2>3, <2>4, <2>5, <2>6
<1> QED
    BY <1>2, <1>3, <1>4, <1>5 DEF HistoryInv, HistoryTypeOK, HistoryIsCapped

(* The app has started with the rows read of those it asked for.           *)
Started(kept, read) ==
    /\ \E s \in LatestFirst(read) :
          /\ entries' = [i \in DOMAIN s |-> [s[i] EXCEPT !.id = i - 1]]
          /\ next_id' = Len(s)
    /\ mishaps' = (mishaps \cap {"tied"}) \cup (IF read = kept THEN {} ELSE {"unread"})

(* What is read back fits.                                                 *)
LEMMA RestartKeepsHistory ==
    ASSUME HistoryInv, RestartHistory
    PROVE  HistoryInv'
<1>0. /\ rows \subseteq Row /\ IsFiniteSet(rows) /\ MAX_HISTORY_ENTRIES \in Nat
    BY HistoryAssumption DEF HistoryInv, HistoryTypeOK
<1>a. PICK kept \in Kept(rows, MAX_HISTORY_ENTRIES) : \E K \in SUBSET kept : Started(kept, K)
    BY DEF RestartHistory, Started
<1>b. PICK K \in SUBSET kept : Started(kept, K)
    BY <1>a
<1>1. PICK s \in LatestFirst(K) :
          /\ entries' = [i \in DOMAIN s |-> [s[i] EXCEPT !.id = i - 1]]
          /\ next_id' = Len(s)
    BY <1>b DEF Started
<1>2. /\ kept \subseteq Row /\ IsFiniteSet(kept)
      /\ Cardinality(kept) \in Nat /\ Cardinality(kept) <= MAX_HISTORY_ENTRIES
    BY <1>0, KeptIsCapped
<1>3. K \subseteq Row /\ Cardinality(K) \in Nat /\ Cardinality(K) <= MAX_HISTORY_ENTRIES
  <2>1. IsFiniteSet(K) /\ Cardinality(K) <= Cardinality(kept)
      BY <1>2, FS_Subset
  <2>2. Cardinality(K) \in Nat
      BY <2>1, FS_CardinalityType
  <2> QED
      BY <1>0, <1>2, <2>1, <2>2
<1>4. s \in [1 .. Cardinality(K) -> K]
    BY DEF LatestFirst, SetToSeqs
<1>5. s \in Seq(Row) /\ Len(s) = Cardinality(K) /\ DOMAIN s = 1 .. Len(s)
    BY <1>3, <1>4
<1> DEFINE read(i) == [s[i] EXCEPT !.id = i - 1]
<1>6. \A i \in DOMAIN s : read(i) \in Entry
  <2> TAKE i \in DOMAIN s
  <2>1. s[i] \in Row /\ i - 1 \in Nat
      BY <1>3, <1>5
  <2> QED
      BY <2>1 DEF Row, Entry
<1>7. entries' = [i \in 1 .. Len(s) |-> read(i)]
    BY <1>1, <1>5
<1> HIDE DEF read
<1>8. entries' \in Seq(Entry) /\ Len(entries') = Len(s)
    BY <1>3, <1>5, <1>6, <1>7
<1>9. writes' \in Seq(DiskWrite) /\ mishaps' \subseteq Mishaps
    BY <1>b DEF RestartHistory, Started, Mishaps
<1> QED
    BY <1>1, <1>3, <1>5, <1>8, <1>9 DEF RestartHistory, HistoryInv, HistoryTypeOK, HistoryIsCapped

LEMMA InitHistoryInv == HistoryInit => HistoryInv
<1> SUFFICES ASSUME HistoryInit PROVE HistoryInv
    OBVIOUS
<1>1. entries \in Seq(Entry) /\ Len(entries) = 0 /\ writes \in Seq(DiskWrite)
    BY DEF HistoryInit
<1> QED
    BY <1>1, FS_EmptySet, HistoryAssumption
       DEF HistoryInit, HistoryInv, HistoryTypeOK, HistoryIsCapped

LEMMA NextHistoryInv == HistoryInv /\ [HistoryStep]_historyVars => HistoryInv'
<1> SUFFICES ASSUME HistoryInv, [HistoryStep]_historyVars PROVE HistoryInv'
    OBVIOUS
<1>1. CASE HistoryChanges
  <2>1. ASSUME NEW i \in DOMAIN entries, SetFavicon(entries[i].id, entries[i].url, entries[i].url)
        PROVE  HistoryInv'
    <3>1. entries[i].url \in Locations
      <4>1. entries[i] \in Entry
          BY DEF HistoryInv, HistoryTypeOK
      <4> QED
          BY <4>1 DEF Entry
    <3> QED
        BY <2>1, <3>1, SetFaviconKeepsHistory
  <2> QED
      BY <1>1, <2>1, RecordVisitKeepsHistory, SetFaviconKeepsHistory, ClearKeepsHistory
         DEF HistoryChanges
<1>2. CASE UNCHANGED historyVars
    BY <1>2 DEF historyVars, HistoryInv, HistoryTypeOK, HistoryIsCapped
<1> QED
    BY <1>1, <1>2, DiskStepKeepsHistory, RestartKeepsHistory DEF HistoryStep

(* Memory and disk stay within the cap, whatever order the pool makes the  *)
(* writes in, whichever of them fail and whenever the app starts again.    *)
THEOREM HistoryStaysCapped == HistorySpec => [](HistoryTypeOK /\ HistoryIsCapped)
<1>1. HistoryInv => HistoryTypeOK /\ HistoryIsCapped
    BY DEF HistoryInv
<1> QED
    BY <1>1, InitHistoryInv, NextHistoryInv, PTL DEF HistorySpec

-----------------------------------------------------------------------------
(* The browsing history: the disk follows the memory.                      *)

(* A row of the disk is the entry x, whose icon it may have before x has.  *)
Shows(r, x) ==
    /\ r.url = x.url /\ r.visited_at = x.visited_at
    /\ x.icon # Nil => r.icon # Nil
TimesDiffer(R) == \A r, s \in R : r.visited_at = s.visited_at => r = s

(* Rows R are those of a memory e, the latest first.                       *)
Matches(R, e) ==
    /\ TimesDiffer(R)
    /\ \A i, j \in 1..Len(e) : i < j => e[j].visited_at < e[i].visited_at
    /\ \A i \in 1..Len(e) : \E r \in R : Shows(r, e[i])
    /\ \A r \in R : \E i \in 1..Len(e) : Shows(r, e[i])

LEMMA EntryFacts ==
    ASSUME NEW e \in Seq(Entry)
    PROVE  /\ Len(e) \in Nat
           /\ \A i \in 1..Len(e) :
                 e[i] \in Entry /\ e[i].visited_at \in Nat /\ e[i].id \in Nat /\ e[i].url \in Locations
<1>1. \A i \in 1..Len(e) : e[i] \in Entry
    OBVIOUS
<1> QED
    BY <1>1 DEF Entry

LEMMA MatchesCount ==
    ASSUME NEW R, NEW e \in Seq(Entry), Matches(R, e)
    PROVE  IsFiniteSet(R) /\ Cardinality(R) = Len(e)
<1> DEFINE f == [i \in 1..Len(e) |-> CHOOSE r \in R : Shows(r, e[i])]
<1>1. \A i \in 1..Len(e) : f[i] \in R /\ Shows(f[i], e[i])
    BY DEF Matches
<1>2. f \in [1..Len(e) -> R]
    BY <1>1
<1> HIDE DEF f
<1>3. ASSUME NEW i \in 1..Len(e), NEW j \in 1..Len(e), f[i] = f[j] PROVE i = j
  <2>1. e[i].visited_at = e[j].visited_at
      BY <1>1, <1>3 DEF Shows
  <2>2. e[i].visited_at \in Nat /\ i \in Int /\ j \in Int
      BY EntryFacts
  <2>3. ~(i < j) /\ ~(j < i)
      BY <2>1, <2>2 DEF Matches
  <2> QED
      BY <2>2, <2>3
<1>4. ASSUME NEW r \in R PROVE \E i \in 1..Len(e) : f[i] = r
  <2>1. PICK i \in 1..Len(e) : Shows(r, e[i])
      BY DEF Matches
  <2>2. f[i].visited_at = r.visited_at
      BY <1>1, <2>1 DEF Shows
  <2> QED
      BY <1>1, <2>2 DEF Matches, TimesDiffer
<1>5. f \in Bijection(1..Len(e), R)
    BY <1>2, <1>3, <1>4 DEF Bijection, Injection, Surjection, IsInjective
<1>6. IsFiniteSet(1..Len(e)) /\ Cardinality(1..Len(e)) = Len(e)
  <2>1. Len(e) \in Nat /\ 1 \in Int /\ Len(e) \in Int
      BY EntryFacts
  <2>2. IsFiniteSet(1..Len(e))
        /\ Cardinality(1..Len(e)) = IF 1 > Len(e) THEN 0 ELSE Len(e) - 1 + 1
      BY <2>1, FS_Interval
  <2> QED
      BY <2>1, <2>2
<1> QED
    BY <1>5, <1>6, FS_Bijection DEF ExistsBijection

LEMMA KeptAll ==
    ASSUME NEW R, IsFiniteSet(R), NEW limit \in Nat, Cardinality(R) <= limit
    PROVE  \A K \in Kept(R, limit) : K = R
<1> TAKE K \in Kept(R, limit)
<1>1. /\ K \in SUBSET R
      /\ Cardinality(K) = IF Cardinality(R) < limit THEN Cardinality(R) ELSE limit
    BY DEF Kept
<1>2. Cardinality(R) \in Nat
    BY FS_CardinalityType
<1>3. Cardinality(K) = Cardinality(R)
    BY <1>1, <1>2
<1> QED
    BY <1>1, <1>3, FS_Subset

(* One row too many: the oldest goes.                                      *)
LEMMA OldestIsPruned ==
    ASSUME NEW R, NEW g \in Seq(Entry), Matches(R, g),
           NEW limit \in Nat \ {0}, Len(g) = limit + 1,
           NEW f \in Seq(Entry), Len(f) = limit, \A i \in 1..limit : f[i] = g[i]
    PROVE  \A K \in Kept(R, limit) : Matches(K, f)
<1> TAKE K \in Kept(R, limit)
<1>0. \A i \in 1..Len(g) : g[i].visited_at \in Nat
    BY EntryFacts
<1>1. IsFiniteSet(R) /\ Cardinality(R) = limit + 1
    BY MatchesCount
<1>2. /\ K \in SUBSET R /\ Cardinality(K) = limit
      /\ \A kept \in K, gone \in R \ K : kept.visited_at >= gone.visited_at
    BY <1>1 DEF Kept
<1>3. limit + 1 \in 1..Len(g)
    OBVIOUS
<1>4. PICK oldest \in R : Shows(oldest, g[limit + 1])
    BY <1>3 DEF Matches
<1>5. \A r \in R : r # oldest => \E i \in 1..limit : Shows(r, g[i])
  <2> TAKE r \in R
  <2> HAVE r # oldest
  <2>1. PICK i \in 1..Len(g) : Shows(r, g[i])
      BY DEF Matches
  <2>2. i # limit + 1
      BY <1>4, <2>1 DEF Matches, TimesDiffer, Shows
  <2> QED
      BY <2>1, <2>2
<1>6. \A i \in 1..limit : g[limit + 1].visited_at < g[i].visited_at
  <2>1. \A i, j \in 1..Len(g) : i < j => g[j].visited_at < g[i].visited_at
      BY DEF Matches
  <2>2. \A i \in 1..limit : i \in 1..Len(g) /\ i < limit + 1
      OBVIOUS
  <2> QED
      BY <1>3, <2>1, <2>2
<1>7. \A r \in R : r # oldest => oldest.visited_at < r.visited_at
  <2> TAKE r \in R
  <2> HAVE r # oldest
  <2>1. PICK i \in 1..limit : Shows(r, g[i])
      BY <1>5
  <2> QED
      BY <1>4, <1>6, <2>1 DEF Shows
<1>8. oldest \notin K
  <2> SUFFICES ASSUME oldest \in K PROVE FALSE
      OBVIOUS
  <2>1. K # R
      BY <1>1, <1>2
  <2>2. PICK gone \in R \ K : TRUE
      BY <1>2, <2>1
  <2>3. oldest.visited_at >= gone.visited_at /\ oldest.visited_at < gone.visited_at
      BY <1>2, <1>7, <2>2
  <2>4. oldest.visited_at \in Nat /\ gone.visited_at \in Nat
    <3>1. PICK i \in 1..Len(g) : Shows(gone, g[i])
        BY <2>2 DEF Matches
    <3> QED
        BY <1>0, <1>3, <1>4, <3>1 DEF Shows
  <2> QED
      BY <2>3, <2>4
<1>9. K = R \ {oldest}
  <2>1. IsFiniteSet(R \ {oldest}) /\ Cardinality(R \ {oldest}) = limit
    <3>1. oldest \in R
        OBVIOUS
    <3>2. IsFiniteSet(R \ {oldest}) /\ Cardinality(R \ {oldest}) = Cardinality(R) - 1
        BY <1>1, <3>1, FS_RemoveElement
    <3> QED
        BY <1>1, <3>2
  <2>2. K \in SUBSET (R \ {oldest})
      BY <1>2, <1>8
  <2> QED
      BY <1>2, <2>1, <2>2, FS_Subset
<1>10. TimesDiffer(K)
    BY <1>2 DEF Matches, TimesDiffer
<1>11. 1..Len(f) = 1..limit /\ 1..limit \subseteq 1..Len(g)
    OBVIOUS
<1>12. \A i, j \in 1..Len(f) : i < j => f[j].visited_at < f[i].visited_at
    BY <1>11 DEF Matches
<1>13. ASSUME NEW i \in 1..Len(f) PROVE \E r \in K : Shows(r, f[i])
  <2>1. PICK r \in R : Shows(r, g[i])
      BY <1>11 DEF Matches
  <2>2. r # oldest
    <3>1. g[limit + 1].visited_at < g[i].visited_at /\ g[i].visited_at \in Nat
        BY <1>0, <1>6, <1>11
    <3> QED
        BY <1>0, <1>3, <1>4, <2>1, <3>1 DEF Shows
  <2> QED
      BY <1>9, <1>11, <2>1, <2>2
<1>14. \A r \in K : \E i \in 1..Len(f) : Shows(r, f[i])
    BY <1>5, <1>9, <1>11
<1> QED
    BY <1>10, <1>12, <1>13, <1>14 DEF Matches

(* A visit later than all others in front of them, or instead of the first.*)
LEMMA PushedMatches ==
    ASSUME NEW R, NEW e \in Seq(Entry), Matches(R, e), NEW x \in Entry,
           \A i \in 1..Len(e) : e[i].visited_at < x.visited_at,
           NEW v, Shows(v, x),
           NEW g \in Seq(Entry), Len(g) = Len(e) + 1, g[1] = x,
           \A i \in 2..Len(g) : g[i] = e[i - 1]
    PROVE  Matches(R \cup {v}, g)
<1>0. Len(e) \in Nat /\ x.visited_at \in Nat /\ \A i \in 1..Len(e) : e[i].visited_at \in Nat
    BY EntryFacts DEF Entry
<1>1. v.visited_at = x.visited_at
    BY DEF Shows
<1>2. \A r \in R : r.visited_at < x.visited_at /\ r.visited_at \in Nat
    BY <1>0 DEF Matches, Shows
<1>3. TimesDiffer(R \cup {v})
  <2>1. TimesDiffer(R)
      BY DEF Matches
  <2>2. \A r \in R : r.visited_at # v.visited_at
      BY <1>0, <1>1, <1>2
  <2> QED
      BY <2>1, <2>2 DEF TimesDiffer
<1>4. ASSUME NEW i \in 1..Len(g), NEW j \in 1..Len(g), i < j
      PROVE  g[j].visited_at < g[i].visited_at
  <2>1. j \in 2..Len(g) /\ j - 1 \in 1..Len(e) /\ g[j] = e[j - 1]
      BY <1>0, <1>4
  <2>2. CASE i = 1
      BY <2>1, <2>2
  <2>3. CASE i # 1
    <3>1. i \in 2..Len(g) /\ i - 1 \in 1..Len(e) /\ g[i] = e[i - 1] /\ i - 1 < j - 1
        BY <1>0, <1>4, <2>3
    <3> QED
        BY <2>1, <3>1 DEF Matches
  <2> QED
      BY <2>2, <2>3
<1>5. ASSUME NEW i \in 1..Len(g) PROVE \E r \in R \cup {v} : Shows(r, g[i])
  <2>1. CASE i = 1
      BY <2>1
  <2>2. CASE i # 1
    <3>1. i \in 2..Len(g) /\ i - 1 \in 1..Len(e) /\ g[i] = e[i - 1]
        BY <1>0, <2>2
    <3> QED
        BY <3>1 DEF Matches
  <2> QED
      BY <2>1, <2>2
<1>6. ASSUME NEW r \in R \cup {v} PROVE \E i \in 1..Len(g) : Shows(r, g[i])
  <2>1. CASE r = v
      BY <1>0, <2>1
  <2>2. CASE r \in R
    <3>1. PICK i \in 1..Len(e) : Shows(r, e[i])
        BY <2>2 DEF Matches
    <3>2. i + 1 \in 2..Len(g) /\ i + 1 \in 1..Len(g) /\ (i + 1) - 1 = i
        BY <1>0
    <3>3. g[i + 1] = e[i]
        BY <3>2
    <3> QED
        BY <3>1, <3>2, <3>3
  <2> QED
      BY <2>1, <2>2
<1> QED
    BY <1>3, <1>4, <1>5, <1>6 DEF Matches

LEMMA FoldedMatches ==
    ASSUME NEW R, NEW e \in Seq(Entry), Matches(R, e), NEW x \in Entry,
           \A i \in 1..Len(e) : e[i].visited_at < x.visited_at,
           NEW v, Shows(v, x), Len(e) > 0, NEW head \in R, Shows(head, e[1]),
           NEW g \in Seq(Entry), Len(g) = Len(e), g[1] = x,
           \A i \in 2..Len(g) : g[i] = e[i]
    PROVE  Matches((R \ {head}) \cup {v}, g)
<1>0. Len(e) \in Nat /\ x.visited_at \in Nat /\ \A i \in 1..Len(e) : e[i].visited_at \in Nat
    BY EntryFacts DEF Entry
<1>1. v.visited_at = x.visited_at
    BY DEF Shows
<1>2. \A r \in R : r.visited_at < x.visited_at /\ r.visited_at \in Nat
    BY <1>0 DEF Matches, Shows
<1>3. TimesDiffer((R \ {head}) \cup {v})
  <2>1. TimesDiffer(R)
      BY DEF Matches
  <2>2. \A r \in R : r.visited_at # v.visited_at
      BY <1>0, <1>1, <1>2
  <2> QED
      BY <2>1, <2>2 DEF TimesDiffer
<1>4. \A i, j \in 1..Len(g) : i < j => g[j].visited_at < g[i].visited_at
  <2> TAKE i, j \in 1..Len(g)
  <2> HAVE i < j
  <2>1. j \in 2..Len(g) /\ j \in 1..Len(e) /\ g[j] = e[j]
      BY <1>0
  <2>2. CASE i = 1
      BY <2>1, <2>2
  <2>3. CASE i # 1
    <3>1. i \in 2..Len(g) /\ i \in 1..Len(e) /\ g[i] = e[i]
        BY <1>0, <2>3
    <3> QED
        BY <2>1, <3>1 DEF Matches
  <2> QED
      BY <2>2, <2>3
<1>5. ASSUME NEW i \in 1..Len(g) PROVE \E r \in (R \ {head}) \cup {v} : Shows(r, g[i])
  <2>1. CASE i = 1
      BY <2>1
  <2>2. CASE i # 1
    <3>1. i \in 2..Len(g) /\ i \in 1..Len(e) /\ g[i] = e[i] /\ 1 \in 1..Len(e) /\ 1 < i
        BY <1>0, <2>2
    <3>2. PICK r \in R : Shows(r, e[i])
        BY <3>1 DEF Matches
    <3>3. e[i].visited_at < e[1].visited_at
        BY <3>1 DEF Matches
    <3>4. r # head
        BY <1>0, <3>1, <3>2, <3>3 DEF Shows
    <3> QED
        BY <3>1, <3>2, <3>4
  <2> QED
      BY <2>1, <2>2
<1>6. ASSUME NEW r \in (R \ {head}) \cup {v} PROVE \E i \in 1..Len(g) : Shows(r, g[i])
  <2>1. CASE r = v
      BY <1>0, <2>1
  <2>2. CASE r \in R \ {head}
    <3>1. PICK i \in 1..Len(e) : Shows(r, e[i])
        BY <2>2 DEF Matches
    <3>2. i # 1
        BY <2>2, <3>1 DEF Matches, TimesDiffer, Shows
    <3>3. i \in 2..Len(g)
        BY <1>0, <3>2
    <3> QED
        BY <3>1, <3>3
  <2> QED
      BY <2>1, <2>2
<1> QED
    BY <1>3, <1>4, <1>5, <1>6 DEF Matches

-----------------------------------------------------------------------------
(* What a write does to the memory it was handed from.                     *)

Memories == {e \in Seq(Entry) : Len(e) <= MAX_HISTORY_ENTRIES}
IsFirst(e, url) == Len(e) > 0 /\ e[1].url = url

RemembersVisit(w, e, f) ==
    /\ \A i \in 1..Len(e) : e[i].visited_at < w.visited_at
    /\ Len(f) > 0 /\ Shows(f[1], [url |-> w.url, icon |-> Nil, visited_at |-> w.visited_at])
    /\ f[1].icon = Nil
    /\ IsFirst(e, w.url) => Len(f) = Len(e) /\ \A i \in 2..Len(f) : f[i] = e[i]
    /\ ~IsFirst(e, w.url) =>
          /\ Len(f) = IF Len(e) < MAX_HISTORY_ENTRIES THEN Len(e) + 1 ELSE Len(e)
          /\ \A i \in 2..Len(f) : f[i] = e[i - 1]
RemembersFavicon(w, e, f) ==
    /\ Len(f) = Len(e)
    /\ \A i \in 1..Len(e) :
          /\ f[i].url = e[i].url /\ f[i].visited_at = e[i].visited_at
          /\ f[i].icon = e[i].icon \/ e[i].url = w.url
Remembers(w, e, f) ==
    /\ w.op = "visit" => RemembersVisit(w, e, f)
    /\ w.op = "favicon" => RemembersFavicon(w, e, f)
    /\ w.op = "clear" => Len(f) = 0

LEMMA VisitMatches ==
    ASSUME NEW e \in Memories, NEW f \in Memories, Matches(rows, e),
           NEW w, w.url \in Locations, w.visited_at \in Nat,
           RemembersVisit(w, e, f), rows' \in WithVisit(w)
    PROVE  Matches(rows', f)
<1> DEFINE visit(id) == [id |-> id, url |-> w.url, icon |-> Nil, visited_at |-> w.visited_at]
<1>0. /\ e \in Seq(Entry) /\ f \in Seq(Entry) /\ Len(e) \in Nat /\ Len(f) \in Nat
      /\ Len(e) <= MAX_HISTORY_ENTRIES /\ MAX_HISTORY_ENTRIES \in Nat \ {0}
      /\ Len(f) > 0 /\ f[1] \in Entry
    BY EntryFacts, HistoryAssumption DEF Memories, RemembersVisit
<1>1. \A i \in 1..Len(e) : e[i].visited_at \in Nat
    BY <1>0, EntryFacts
<1>2. f[1].url = w.url /\ f[1].visited_at = w.visited_at /\ f[1].icon = Nil
    BY DEF RemembersVisit, Shows
<1>3. \A id : Shows(visit(id), f[1])
    BY <1>2 DEF Shows
<1>4. \A i \in 1..Len(e) : e[i].visited_at < f[1].visited_at
    BY <1>2 DEF RemembersVisit
<1>5. \A r \in Latest(rows) : Len(e) > 0 /\ Shows(r, e[1])
  <2> TAKE r \in Latest(rows)
  <2>1. r \in rows /\ \A other \in rows : other.visited_at <= r.visited_at
      BY DEF Latest
  <2>2. PICK i \in 1..Len(e) : Shows(r, e[i])
      BY <2>1 DEF Matches
  <2>3. 1 \in 1..Len(e)
      BY <1>0, <2>2
  <2>4. PICK s \in rows : Shows(s, e[1])
      BY <2>3 DEF Matches
  <2>5. e[1].visited_at <= e[i].visited_at
      BY <2>1, <2>2, <2>4 DEF Shows
  <2>6. ~(1 < i)
    <3>1. 1 < i => e[i].visited_at < e[1].visited_at
        BY <2>3 DEF Matches
    <3> QED
        BY <1>1, <2>3, <2>5, <3>1
  <2>7. i = 1
      BY <1>0, <2>6
  <2> QED
      BY <1>0, <2>2, <2>7
<1>6. PICK R :
          /\ rows' \in Kept(R, MAX_HISTORY_ENTRIES)
          /\ \/ \E r \in Foldable(w.url) : R = (rows \ {r}) \cup {visit(r.id)}
             \/ /\ Foldable(w.url) = {} \/ MayInsert(w.url)
                /\ R = rows \cup {visit(FreshRow(rows))}
    BY DEF WithVisit
<1> HIDE DEF visit
<1>7. CASE IsFirst(e, w.url)
  <2>1. Len(e) > 0 /\ e[1].url = w.url /\ 1 \in 1..Len(e)
      BY <1>0, <1>7 DEF IsFirst
  <2>2. PICK head \in rows : Shows(head, e[1])
      BY <2>1 DEF Matches
  <2>3. head \in Foldable(w.url)
    <3>1. \A i \in 1..Len(e) : e[i].visited_at <= e[1].visited_at
      <4> TAKE i \in 1..Len(e)
      <4>1. i = 1 \/ 1 < i
          BY <1>0
      <4>2. 1 < i => e[i].visited_at < e[1].visited_at
          BY <2>1 DEF Matches
      <4> QED
          BY <1>1, <2>1, <4>1, <4>2
    <3>2. \A other \in rows : other.visited_at <= head.visited_at
        BY <2>2, <3>1 DEF Matches, Shows
    <3> QED
        BY <2>1, <2>2, <3>2 DEF Foldable, Latest, Shows
  <2>4. ~MayInsert(w.url)
      BY <1>5, <2>1 DEF MayInsert, Shows
  <2>5. PICK r \in Foldable(w.url) : R = (rows \ {r}) \cup {visit(r.id)}
      BY <1>6, <2>3, <2>4
  <2>6. r \in rows /\ Shows(r, e[1])
      BY <1>5 DEF Foldable, Latest
  <2>7. Len(f) = Len(e) /\ \A i \in 2..Len(f) : f[i] = e[i]
      BY <1>7 DEF RemembersVisit
  <2>8. Matches(R, f)
      BY <1>0, <1>3, <1>4, <2>1, <2>5, <2>6, <2>7, FoldedMatches
  <2>9. IsFiniteSet(R) /\ Cardinality(R) <= MAX_HISTORY_ENTRIES
      BY <1>0, <2>7, <2>8, MatchesCount
  <2>10. rows' = R
      BY <1>0, <1>6, <2>9, KeptAll
  <2> QED
      BY <2>8, <2>10
<1>8. CASE ~IsFirst(e, w.url)
  <2>1. Foldable(w.url) = {}
      BY <1>5, <1>8 DEF Foldable, IsFirst, Shows
  <2>2. R = rows \cup {visit(FreshRow(rows))}
      BY <1>6, <2>1
  <2>3. Len(f) = (IF Len(e) < MAX_HISTORY_ENTRIES THEN Len(e) + 1 ELSE Len(e))
        /\ \A i \in 2..Len(f) : f[i] = e[i - 1]
      BY <1>8 DEF RemembersVisit
  <2>4. CASE Len(e) < MAX_HISTORY_ENTRIES
    <3>1. Len(f) = Len(e) + 1
        BY <2>3, <2>4
    <3>2. Matches(R, f)
        BY <1>0, <1>3, <1>4, <2>2, <2>3, <3>1, PushedMatches
    <3>3. IsFiniteSet(R) /\ Cardinality(R) <= MAX_HISTORY_ENTRIES
        BY <1>0, <2>4, <3>1, <3>2, MatchesCount
    <3>4. rows' = R
        BY <1>0, <1>6, <3>3, KeptAll
    <3> QED
        BY <3>2, <3>4
  <2>5. CASE Len(e) = MAX_HISTORY_ENTRIES
    <3> DEFINE g == [i \in 1..(Len(e) + 1) |-> IF i = 1 THEN f[1] ELSE e[i - 1]]
    <3>1. \A i \in 1..(Len(e) + 1) : g[i] \in Entry
      <4> TAKE i \in 1..(Len(e) + 1)
      <4>1. CASE i = 1
          BY <1>0, <4>1
      <4>2. CASE i # 1
        <5>1. i - 1 \in 1..Len(e) /\ g[i] = e[i - 1]
            BY <1>0, <4>2
        <5> QED
            BY <1>0, <5>1
      <4> QED
          BY <4>1, <4>2
    <3>2. g \in Seq(Entry) /\ Len(g) = Len(e) + 1
        BY <1>0, <3>1
    <3>3. g[1] = f[1] /\ \A i \in 2..Len(g) : g[i] = e[i - 1]
        BY <1>0, <3>2
    <3>4. Len(f) = Len(e) /\ \A i \in 1..Len(e) : f[i] = g[i]
      <4>1. Len(f) = Len(e)
          BY <1>0, <2>3, <2>5
      <4>2. ASSUME NEW i \in 1..Len(e) PROVE f[i] = g[i]
        <5>1. CASE i = 1
            BY <3>3, <5>1
        <5>2. CASE i # 1
          <6>1. i \in 2..Len(f) /\ i \in 2..Len(g)
              BY <1>0, <3>2, <4>1, <5>2
          <6> QED
              BY <2>3, <3>3, <6>1
        <5> QED
            BY <5>1, <5>2
      <4> QED
          BY <4>1, <4>2
    <3> HIDE DEF g
    <3>5. Matches(R, g)
        BY <1>0, <1>3, <1>4, <2>2, <3>2, <3>3, PushedMatches
    <3> QED
        BY <1>0, <1>6, <2>5, <3>2, <3>4, <3>5, OldestIsPruned
  <2> QED
      BY <1>0, <2>4, <2>5
<1> QED
    BY <1>7, <1>8

LEMMA FaviconMatches ==
    ASSUME NEW e \in Memories, NEW f \in Memories, Matches(rows, e), rows \subseteq Row,
           NEW w, w.icon \in Locations, RemembersFavicon(w, e, f), rows' = WithFavicon(w)
    PROVE  Matches(rows', f)
<1> DEFINE patched(r) == IF r.url = w.url /\ r.icon = Nil THEN [r EXCEPT !.icon = w.icon] ELSE r
<1>1. rows' = {patched(r) : r \in rows}
    BY DEF WithFavicon
<1>2. \A r \in rows :
          /\ patched(r).url = r.url /\ patched(r).visited_at = r.visited_at
          /\ r.icon # Nil \/ r.url = w.url => patched(r).icon # Nil
    BY HistoryAssumption DEF Row
<1> HIDE DEF patched
<1>3. /\ Len(f) = Len(e)
      /\ \A i \in 1..Len(e) :
            /\ f[i].url = e[i].url /\ f[i].visited_at = e[i].visited_at
            /\ f[i].icon = e[i].icon \/ e[i].url = w.url
    BY DEF RemembersFavicon
<1>4. \A r \in rows, i \in 1..Len(e) : Shows(r, e[i]) => Shows(patched(r), f[i])
    BY <1>2, <1>3 DEF Shows
<1>5. TimesDiffer(rows')
    BY <1>1, <1>2 DEF Matches, TimesDiffer
<1>6. \A i, j \in 1..Len(f) : i < j => f[j].visited_at < f[i].visited_at
    BY <1>3 DEF Matches
<1>7. \A i \in 1..Len(f) : \E r \in rows' : Shows(r, f[i])
    BY <1>1, <1>3, <1>4 DEF Matches
<1>8. \A r \in rows' : \E i \in 1..Len(f) : Shows(r, f[i])
    BY <1>1, <1>3, <1>4 DEF Matches
<1> QED
    BY <1>5, <1>6, <1>7, <1>8 DEF Matches

LEMMA ClearMatches ==
    ASSUME NEW f, Len(f) = 0, rows' = {}
    PROVE  Matches(rows', f)
BY DEF Matches, TimesDiffer

-----------------------------------------------------------------------------
(* The memories between the disk and the app, one after each write W.      *)

Chain(c, R, W, e) ==
    /\ c \in [0..Len(W) -> Memories]
    /\ Matches(R, c[0]) /\ c[Len(W)] = e
    /\ \A k \in 1..Len(W) : Remembers(W[k], c[k - 1], c[k])
MirroredBy(R, W, e) == \E c : Chain(c, R, W, e)

LEMMA ChainGrows ==
    ASSUME NEW W \in Seq(DiskWrite), NEW w \in DiskWrite, NEW R, NEW e, NEW f \in Memories,
           MirroredBy(R, W, e), Remembers(w, e, f)
    PROVE  MirroredBy(R, Append(W, w), f)
<1>1. PICK c : Chain(c, R, W, e)
    BY DEF MirroredBy
<1> DEFINE all == Append(W, w)
           d == [k \in 0..Len(W) + 1 |-> IF k <= Len(W) THEN c[k] ELSE f]
<1>2. /\ Len(W) \in Nat /\ Len(all) = Len(W) + 1 /\ all[Len(W) + 1] = w
      /\ \A k \in 1..Len(W) : all[k] = W[k]
    OBVIOUS
<1> HIDE DEF all
<1>3. d \in [0..Len(all) -> Memories]
    BY <1>1, <1>2 DEF Chain
<1>4. d[0] = c[0] /\ d[Len(all)] = f
    BY <1>2
<1>5. ASSUME NEW k \in 1..Len(all) PROVE Remembers(all[k], d[k - 1], d[k])
  <2>1. CASE k = Len(W) + 1
    <3>1. k - 1 = Len(W) /\ d[k - 1] = c[Len(W)] /\ d[k] = f /\ all[k] = w
        BY <1>2, <2>1
    <3> QED
        BY <1>1, <3>1 DEF Chain
  <2>2. CASE k # Len(W) + 1
    <3>1. k \in 1..Len(W) /\ d[k - 1] = c[k - 1] /\ d[k] = c[k] /\ all[k] = W[k]
        BY <1>2, <2>2
    <3> QED
        BY <1>1, <3>1 DEF Chain
  <2> QED
      BY <2>1, <2>2
<1> HIDE DEF d
<1>6. Chain(d, R, all, f)
    BY <1>1, <1>3, <1>4, <1>5 DEF Chain
<1> QED
    BY <1>6 DEF MirroredBy, all

LEMMA Concatenation ==
    ASSUME NEW S, NEW left \in Seq(S), NEW right \in Seq(S)
    PROVE  /\ left \o right \in Seq(S) /\ Len(left \o right) = Len(left) + Len(right)
           /\ \A k \in 1..Len(left) + Len(right) :
                 (left \o right)[k] = IF k <= Len(left) THEN left[k] ELSE right[k - Len(left)]
<1>1. left \o right \in Seq(S)
    OBVIOUS
<1>2. Len(left \o right) = Len(left) + Len(right)
    OBVIOUS
<1>3. Len(left) \in Nat /\ Len(right) \in Nat
    OBVIOUS
<1>4. ASSUME NEW k \in 1..Len(left) + Len(right)
      PROVE  (left \o right)[k] = IF k <= Len(left) THEN left[k] ELSE right[k - Len(left)]
  <2>1. CASE k <= Len(left)
      BY <1>3, <2>1
  <2>2. CASE ~(k <= Len(left))
      BY <1>3, <2>2
  <2> QED
      BY <2>1, <2>2
<1> QED
    BY <1>1, <1>2, <1>4

LEMMA RemoveAtFacts ==
    ASSUME NEW S, NEW W \in Seq(S), NEW i \in 1..Len(W)
    PROVE  /\ RemoveAt(W, i) \in Seq(S) /\ Len(W) \in Nat /\ Len(RemoveAt(W, i)) = Len(W) - 1
           /\ \A k \in 1..Len(W) - 1 : RemoveAt(W, i)[k] = IF k < i THEN W[k] ELSE W[k + 1]
<1> DEFINE left == SubSeq(W, 1, i - 1)
           right == SubSeq(W, i + 1, Len(W))
<1>1. Len(W) \in Nat
    OBVIOUS
<1>2. left \in Seq(S) /\ Len(left) = i - 1 /\ \A k \in 1..(i - 1) : left[k] = W[k]
    BY <1>1
<1>3. right \in Seq(S) /\ Len(right) = Len(W) - i
      /\ \A k \in 1..(Len(W) - i) : right[k] = W[i + k]
  <2>1. Len(right) = Len(W) - i
      BY <1>1
  <2>2. \A k \in 1..(Len(W) - i) : right[k] = W[i + k]
    <3> TAKE k \in 1..(Len(W) - i)
    <3>1. right[k] = W[(i + 1) + k - 1]
        BY <1>1
    <3>2. (i + 1) + k - 1 = i + k
        BY <1>1
    <3> QED
        BY <3>1, <3>2
  <2> QED
      BY <1>1, <2>1, <2>2
<1>4. RemoveAt(W, i) = left \o right
    BY DEF RemoveAt
<1> HIDE DEF left, right
<1>5. /\ left \o right \in Seq(S) /\ Len(left \o right) = Len(left) + Len(right)
      /\ \A k \in 1..Len(left) + Len(right) :
            (left \o right)[k] = IF k <= Len(left) THEN left[k] ELSE right[k - Len(left)]
    BY <1>2, <1>3, Concatenation
<1>6. Len(left) + Len(right) = Len(W) - 1
    BY <1>1, <1>2, <1>3
<1>7. ASSUME NEW k \in 1..Len(W) - 1
      PROVE  (left \o right)[k] = IF k < i THEN W[k] ELSE W[k + 1]
  <2>0. k \in 1..Len(left) + Len(right)
      BY <1>6
  <2>1. CASE k < i
    <3>1. k \in 1..(i - 1) /\ k <= Len(left)
        BY <1>1, <1>2, <2>1
    <3> QED
        BY <1>2, <1>5, <2>0, <2>1, <3>1
  <2>2. CASE ~(k < i)
    <3>1. ~(k <= Len(left)) /\ k - Len(left) \in 1..(Len(W) - i) /\ i + (k - Len(left)) = k + 1
        BY <1>1, <1>2, <2>2
    <3>2. (left \o right)[k] = right[k - Len(left)]
        BY <1>5, <2>0, <3>1
    <3>3. right[k - Len(left)] = W[i + (k - Len(left))]
        BY <1>3, <3>1
    <3> QED
        BY <2>2, <3>1, <3>2, <3>3
  <2> QED
      BY <2>1, <2>2
<1> QED
    BY <1>1, <1>4, <1>5, <1>6, <1>7

LEMMA ChainShrinks ==
    ASSUME NEW W \in Seq(DiskWrite), 1 \in 1..Len(W), NEW R, NEW S, NEW e, NEW c,
           Chain(c, R, W, e), Matches(S, c[1])
    PROVE  MirroredBy(S, RemoveAt(W, 1), e)
<1> DEFINE rest == RemoveAt(W, 1)
           d == [k \in 0..Len(W) - 1 |-> c[k + 1]]
<1>1. /\ Len(W) \in Nat /\ Len(rest) = Len(W) - 1
      /\ \A k \in 1..Len(W) - 1 : rest[k] = IF k < 1 THEN W[k] ELSE W[k + 1]
    BY RemoveAtFacts
<1> HIDE DEF rest
<1>2. \A k \in 1..Len(rest) : rest[k] = W[k + 1]
    BY <1>1
<1>3. d \in [0..Len(rest) -> Memories]
    BY <1>1 DEF Chain
<1>4. d[0] = c[1] /\ d[Len(rest)] = e
    BY <1>1 DEF Chain
<1>5. ASSUME NEW k \in 1..Len(rest) PROVE Remembers(rest[k], d[k - 1], d[k])
  <2>1. k + 1 \in 1..Len(W) /\ (k + 1) - 1 = k /\ d[k - 1] = c[k] /\ d[k] = c[k + 1]
      BY <1>1
  <2> QED
      BY <1>2, <2>1 DEF Chain
<1> HIDE DEF d
<1>6. Chain(d, S, rest, e)
    BY <1>3, <1>4, <1>5 DEF Chain
<1> QED
    BY <1>6 DEF MirroredBy, rest

-----------------------------------------------------------------------------
(* The mirror: its invariant, and the steps that keep it.                  *)

IsVisit(w) == w.op = "visit"

(* No clock is ahead, and every id names one entry.                        *)
NothingIsToCome ==
    /\ \A i \in 1..Len(entries) : entries[i].visited_at <= now
    /\ \A r \in rows : r.visited_at <= now
    /\ \A k \in 1..Len(writes) : IsVisit(writes[k]) => writes[k].visited_at <= now
IdsDiffer ==
    \A i, j \in 1..Len(entries) :
        entries[i].id < next_id /\ (entries[i].id = entries[j].id => i = j)

(* Visits on disk or on their way there can be told apart by their time.   *)
VisitsDiffer(R, W) ==
    /\ TimesDiffer(R)
    /\ \A k, l \in 1..Len(W) :
          IsVisit(W[k]) /\ IsVisit(W[l]) /\ k # l => W[k].visited_at # W[l].visited_at
    /\ \A k \in 1..Len(W), r \in R : IsVisit(W[k]) => W[k].visited_at # r.visited_at

MirrorInv ==
    /\ HistoryInv
    /\ NothingIsToCome
    /\ IdsDiffer
    /\ "tied" \notin mishaps => VisitsDiffer(rows, writes)
    /\ mishaps = {} => MirroredBy(rows, writes, entries)

LEMMA MirrorFacts ==
    ASSUME MirrorInv
    PROVE  /\ HistoryInv /\ entries \in Memories /\ entries \in Seq(Entry) /\ Len(entries) \in Nat
           /\ Len(entries) <= MAX_HISTORY_ENTRIES /\ MAX_HISTORY_ENTRIES \in Nat \ {0}
           /\ \A i \in 1..Len(entries) :
                 /\ entries[i] \in Entry /\ entries[i].visited_at \in Nat
                 /\ entries[i].id \in Nat /\ entries[i].url \in Locations
           /\ rows \subseteq Row /\ IsFiniteSet(rows) /\ Cardinality(rows) <= MAX_HISTORY_ENTRIES
           /\ writes \in Seq(DiskWrite) /\ now \in Nat /\ next_id \in Nat
           /\ Len(writes) \in Nat /\ \A k \in 1..Len(writes) : writes[k] \in DiskWrite
           /\ \A r \in rows : r.visited_at \in Nat
<1>1. /\ HistoryInv /\ entries \in Seq(Entry) /\ Len(entries) <= MAX_HISTORY_ENTRIES
      /\ rows \subseteq Row /\ IsFiniteSet(rows) /\ Cardinality(rows) <= MAX_HISTORY_ENTRIES
      /\ writes \in Seq(DiskWrite) /\ now \in Nat /\ next_id \in Nat
    BY DEF MirrorInv, HistoryInv, HistoryTypeOK, HistoryIsCapped
<1>2. \A r \in rows : r.visited_at \in Nat
    BY <1>1 DEF Row
<1>3. Len(writes) \in Nat /\ \A k \in 1..Len(writes) : writes[k] \in DiskWrite
    BY <1>1
<1>4. \A i \in 1..Len(entries) : entries[i] \in Entry
    BY <1>1
<1>5. MAX_HISTORY_ENTRIES \in Nat \ {0}
    BY HistoryAssumption
<1>6. entries \in Memories /\ Len(entries) \in Nat
    BY <1>1 DEF Memories
<1>7. \A i \in 1..Len(entries) :
          entries[i].visited_at \in Nat /\ entries[i].id \in Nat /\ entries[i].url \in Locations
    BY <1>4 DEF Entry
<1> QED
    BY <1>1, <1>2, <1>3, <1>4, <1>5, <1>6, <1>7

(* What Recorded makes of the list.                                        *)
LEMMA RecordedFacts ==
    ASSUME MirrorInv, NEW x \in Entry
    PROVE  /\ Recorded(x) \in Seq(Entry) /\ Len(Recorded(x)) > 0
           /\ Recorded(x)[1] = IF Folds(x.url) THEN [x EXCEPT !.id = entries[1].id] ELSE x
           /\ Folds(x.url) <=> IsFirst(entries, x.url)
           /\ Folds(x.url) =>
                 /\ Len(Recorded(x)) = Len(entries)
                 /\ \A i \in 2..Len(Recorded(x)) : Recorded(x)[i] = entries[i]
           /\ ~Folds(x.url) =>
                 /\ Len(Recorded(x)) = IF Len(entries) < MAX_HISTORY_ENTRIES
                                       THEN Len(entries) + 1 ELSE Len(entries)
                 /\ \A i \in 2..Len(Recorded(x)) : Recorded(x)[i] = entries[i - 1]
<1>0. /\ entries \in Seq(Entry) /\ Len(entries) \in Nat
      /\ Len(entries) <= MAX_HISTORY_ENTRIES /\ MAX_HISTORY_ENTRIES \in Nat \ {0}
      /\ \A i \in 1..Len(entries) : entries[i] \in Entry
    BY MirrorFacts
<1>1. Folds(x.url) <=> IsFirst(entries, x.url)
    BY <1>0 DEF Folds, IsFirst
<1>2. CASE Folds(x.url)
  <2> DEFINE y == [x EXCEPT !.id = entries[1].id]
  <2>1. Len(entries) > 0 /\ 1 \in 1..Len(entries) /\ 1 \in DOMAIN entries
      BY <1>0, <1>1, <1>2 DEF IsFirst
  <2>2. y \in Entry
      BY <1>0, <2>1 DEF Entry
  <2>3. Recorded(x) = [entries EXCEPT ![1] = y]
      BY <1>2 DEF Recorded
  <2> HIDE DEF y
  <2>4. /\ Recorded(x) \in Seq(Entry) /\ Len(Recorded(x)) = Len(entries) /\ Recorded(x)[1] = y
        /\ \A i \in 2..Len(entries) : Recorded(x)[i] = entries[i]
      BY <1>0, <2>1, <2>2, <2>3
  <2> QED
      BY <1>1, <1>2, <2>1, <2>4 DEF y
<1>3. CASE ~Folds(x.url)
  <2> DEFINE all == <<x>> \o entries
             size == IF Len(entries) < MAX_HISTORY_ENTRIES THEN Len(entries) + 1 ELSE Len(entries)
  <2>0. <<x>> \in Seq(Entry) /\ Len(<<x>>) = 1 /\ <<x>>[1] = x
      OBVIOUS
  <2>1. /\ all \in Seq(Entry) /\ Len(all) = Len(entries) + 1 /\ all[1] = x
        /\ \A i \in 2..Len(all) : all[i] = entries[i - 1]
    <3>1. /\ all \in Seq(Entry) /\ Len(all) = Len(<<x>>) + Len(entries)
          /\ \A i \in 1..Len(<<x>>) + Len(entries) :
                all[i] = IF i <= Len(<<x>>) THEN <<x>>[i] ELSE entries[i - Len(<<x>>)]
        BY <1>0, <2>0
    <3> HIDE DEF all
    <3>2. Len(all) = Len(entries) + 1
        BY <1>0, <2>0, <3>1
    <3>3. all[1] = x
        BY <1>0, <2>0, <3>1
    <3>4. \A i \in 2..Len(all) : all[i] = entries[i - 1]
        BY <1>0, <2>0, <3>1, <3>2
    <3> QED
        BY <3>1, <3>2, <3>3, <3>4
  <2>2. size = IF Len(all) < MAX_HISTORY_ENTRIES THEN Len(all) ELSE MAX_HISTORY_ENTRIES
      BY <1>0, <2>1
  <2>3. Recorded(x) = SubSeq(all, 1, size)
      BY <1>3, <2>2 DEF Recorded, AtMost
  <2>4. size \in Nat /\ size > 0 /\ size <= Len(all)
      BY <1>0, <2>1
  <2> HIDE DEF all, size
  <2>5. SubSeq(all, 1, size) \in Seq(Entry) /\ Len(SubSeq(all, 1, size)) = size
      BY <2>1, <2>4
  <2>6. \A i \in 1..size : SubSeq(all, 1, size)[i] = all[i]
      BY <2>1, <2>4
  <2>7. \A i \in 2..size : i \in 1..size /\ i \in 2..Len(all)
      BY <1>0, <2>1, <2>4
  <2> QED
      BY <1>1, <1>3, <2>1, <2>3, <2>4, <2>5, <2>6, <2>7 DEF size
<1> QED
    BY <1>2, <1>3

LEMMA RecordVisitKeepsMirror ==
    ASSUME MirrorInv, NEW url \in Locations, RecordVisit(url)
    PROVE  MirrorInv'
<1>0. /\ entries \in Memories /\ Len(entries) \in Nat /\ now \in Nat /\ next_id \in Nat
      /\ writes \in Seq(DiskWrite) /\ Len(writes) \in Nat
      /\ \A i \in 1..Len(entries) :
            entries[i] \in Entry /\ entries[i].visited_at \in Nat /\ entries[i].id \in Nat
      /\ \A r \in rows : r.visited_at \in Nat
      /\ \A k \in 1..Len(writes) : writes[k] \in DiskWrite
    BY MirrorFacts
<1>1. HistoryInv'
    BY RecordVisitKeepsHistory DEF MirrorInv
<1>2. PICK time \in {now, now + 1} :
          /\ now' = time
          /\ entries' = Recorded([id |-> next_id, url |-> url, icon |-> Nil, visited_at |-> time])
          /\ writes' = Append(writes, [op |-> "visit", url |-> url, visited_at |-> time])
          /\ mishaps' = IF time = now THEN mishaps \cup {"tied"} ELSE mishaps
    BY DEF RecordVisit
<1>3. next_id' = next_id + 1 /\ rows' = rows
    BY DEF RecordVisit
<1> DEFINE x == [id |-> next_id, url |-> url, icon |-> Nil, visited_at |-> time]
           w == [op |-> "visit", url |-> url, visited_at |-> time]
<1>4. time \in Nat /\ now <= time
    BY <1>0
<1>5. x \in Entry /\ x.url = url /\ x.id = next_id /\ x.icon = Nil /\ x.visited_at = time
    BY <1>0, <1>4 DEF Entry, Icons
<1>6. w \in DiskWrite /\ w.op = "visit" /\ w.url = url /\ w.visited_at = time
    BY <1>4 DEF DiskWrite
<1>7. entries' = Recorded(x) /\ writes' = Append(writes, w)
    BY <1>2
<1> HIDE DEF x, w
<1>8. /\ entries' \in Seq(Entry) /\ Len(entries') > 0
      /\ entries'[1] = IF Folds(url) THEN [x EXCEPT !.id = entries[1].id] ELSE x
      /\ Folds(url) <=> IsFirst(entries, url)
      /\ Folds(url) =>
            Len(entries') = Len(entries) /\ \A i \in 2..Len(entries') : entries'[i] = entries[i]
      /\ ~Folds(url) =>
            /\ Len(entries') = IF Len(entries) < MAX_HISTORY_ENTRIES
                               THEN Len(entries) + 1 ELSE Len(entries)
            /\ \A i \in 2..Len(entries') : entries'[i] = entries[i - 1]
    BY <1>5, <1>7, RecordedFacts
<1>9. /\ entries'[1].url = url /\ entries'[1].icon = Nil /\ entries'[1].visited_at = time
      /\ entries'[1].id = IF Folds(url) THEN entries[1].id ELSE next_id
    BY <1>5, <1>8 DEF Entry
<1>10. Len(entries') \in Nat
    BY <1>8
<1>11. /\ writes' \in Seq(DiskWrite) /\ Len(writes') = Len(writes) + 1 /\ writes'[Len(writes) + 1] = w
       /\ \A k \in 1..Len(writes) : writes'[k] = writes[k]
    BY <1>0, <1>6, <1>7
<1>12. \A i \in 2..Len(entries') :
           /\ IF Folds(url) THEN i \in 1..Len(entries) /\ entries'[i] = entries[i]
              ELSE i - 1 \in 1..Len(entries) /\ entries'[i] = entries[i - 1]
  <2> TAKE i \in 2..Len(entries')
  <2>1. CASE Folds(url)
      BY <1>0, <1>8, <1>10, <2>1
  <2>2. CASE ~Folds(url)
    <3>1. Len(entries') <= Len(entries) + 1
        BY <1>0, <1>8, <2>2
    <3> QED
        BY <1>0, <1>8, <1>10, <2>2, <3>1
  <2> QED
      BY <2>1, <2>2
<1>13. NothingIsToCome'
  <2>1. ASSUME NEW i \in 1..Len(entries') PROVE entries'[i].visited_at <= now'
    <3>1. CASE i = 1
        BY <1>2, <1>4, <1>9, <3>1
    <3>2. CASE i # 1
      <4>1. i \in 2..Len(entries')
          BY <1>10, <3>2
      <4>2. PICK j \in 1..Len(entries) : entries'[i] = entries[j]
          BY <1>12, <4>1
      <4>3. entries[j].visited_at <= now
          BY DEF MirrorInv, NothingIsToCome
      <4> QED
          BY <1>0, <1>2, <1>4, <4>2, <4>3
    <3> QED
        BY <3>1, <3>2
  <2>2. \A r \in rows' : r.visited_at <= now'
      BY <1>0, <1>2, <1>3, <1>4 DEF MirrorInv, NothingIsToCome
  <2>3. ASSUME NEW k \in 1..Len(writes'), IsVisit(writes'[k]) PROVE writes'[k].visited_at <= now'
    <3>1. CASE k = Len(writes) + 1
        BY <1>2, <1>4, <1>6, <1>11, <3>1
    <3>2. CASE k # Len(writes) + 1
      <4>1. k \in 1..Len(writes) /\ writes'[k] = writes[k]
          BY <1>0, <1>11, <3>2
      <4>2. writes[k].visited_at <= now /\ writes[k].visited_at \in Nat
          BY <1>0, <2>3, <4>1 DEF MirrorInv, NothingIsToCome, IsVisit, DiskWrite
      <4> QED
          BY <1>0, <1>2, <1>4, <4>1, <4>2
    <3> QED
        BY <3>1, <3>2
  <2> QED
      BY <2>1, <2>2, <2>3 DEF NothingIsToCome
<1>14. IdsDiffer'
  <2>1. \A i, j \in 1..Len(entries) :
            entries[i].id < next_id /\ (entries[i].id = entries[j].id => i = j)
      BY DEF MirrorInv, IdsDiffer
  <2>2. ASSUME NEW i \in 1..Len(entries') PROVE entries'[i].id < next_id'
    <3>1. CASE i = 1
      <4>1. Folds(url) => 1 \in 1..Len(entries)
          BY <1>0, <1>8, <1>10
      <4> QED
          BY <1>0, <1>3, <1>9, <2>1, <3>1, <4>1
    <3>2. CASE i # 1
      <4>1. i \in 2..Len(entries')
          BY <1>10, <3>2
      <4>2. PICK j \in 1..Len(entries) : entries'[i] = entries[j]
          BY <1>12, <4>1
      <4> QED
          BY <1>0, <1>3, <2>1, <4>2
    <3> QED
        BY <3>1, <3>2
  <2>3. ASSUME NEW i \in 1..Len(entries'), NEW j \in 1..Len(entries'), i < j
        PROVE  entries'[i].id # entries'[j].id
    <3>1. j \in 2..Len(entries')
        BY <1>10, <2>3
    <3>2. CASE Folds(url)
      <4>1. j \in 1..Len(entries) /\ entries'[j] = entries[j] /\ i \in 1..Len(entries)
          BY <1>0, <1>10, <1>12, <2>3, <3>1, <3>2
      <4>2. entries'[i].id = entries[i].id
        <5>1. CASE i = 1
            BY <1>9, <3>2, <5>1
        <5>2. CASE i # 1
          <6>1. i \in 2..Len(entries')
              BY <1>10, <5>2
          <6> QED
              BY <1>8, <3>2, <6>1
        <5> QED
            BY <5>1, <5>2
      <4> QED
          BY <2>1, <2>3, <4>1, <4>2
    <3>3. CASE ~Folds(url)
      <4>1. j - 1 \in 1..Len(entries) /\ entries'[j] = entries[j - 1]
          BY <1>12, <3>1, <3>3
      <4>2. CASE i = 1
        <5>1. entries'[i].id = next_id /\ entries[j - 1].id < next_id /\ entries[j - 1].id \in Nat
            BY <1>0, <1>9, <2>1, <3>3, <4>1, <4>2
        <5> QED
            BY <1>0, <4>1, <5>1
      <4>3. CASE i # 1
        <5>1. i \in 2..Len(entries')
            BY <1>10, <4>3
        <5>2. i - 1 \in 1..Len(entries) /\ entries'[i] = entries[i - 1] /\ i - 1 # j - 1
            BY <1>12, <2>3, <3>3, <5>1
        <5> QED
            BY <2>1, <4>1, <5>2
      <4> QED
          BY <4>2, <4>3
    <3> QED
        BY <3>2, <3>3
  <2>4. ASSUME NEW i \in 1..Len(entries'), NEW j \in 1..Len(entries'), entries'[i].id = entries'[j].id
        PROVE  i = j
    <3>1. i \in Int /\ j \in Int /\ ~(i < j) /\ ~(j < i)
        BY <1>10, <2>3, <2>4
    <3> QED
        BY <3>1
  <2> QED
      BY <2>2, <2>4 DEF IdsDiffer
<1>15. ASSUME "tied" \notin mishaps' PROVE time = now + 1 /\ mishaps' = mishaps
    BY <1>2, <1>15
<1>16. ASSUME "tied" \notin mishaps' PROVE VisitsDiffer(rows', writes')
  <2>1. VisitsDiffer(rows, writes)
      BY <1>15, <1>16 DEF MirrorInv
  <2>2. \A k \in 1..Len(writes) : IsVisit(writes[k]) => writes[k].visited_at # time
    <3> TAKE k \in 1..Len(writes)
    <3> HAVE IsVisit(writes[k])
    <3>1. writes[k].visited_at <= now /\ writes[k].visited_at \in Nat
        BY <1>0 DEF MirrorInv, NothingIsToCome, IsVisit, DiskWrite
    <3> QED
        BY <1>0, <1>15, <1>16, <3>1
  <2>3. \A r \in rows : r.visited_at # time
      BY <1>0, <1>15, <1>16 DEF MirrorInv, NothingIsToCome
  <2>4. \A k \in 1..Len(writes') :
            k = Len(writes) + 1 \/ (k \in 1..Len(writes) /\ writes'[k] = writes[k])
      BY <1>0, <1>11
  <2>5. ASSUME NEW k \in 1..Len(writes'), NEW l \in 1..Len(writes'),
               IsVisit(writes'[k]), IsVisit(writes'[l]), k # l
        PROVE  writes'[k].visited_at # writes'[l].visited_at
      BY <1>6, <1>11, <2>1, <2>2, <2>4, <2>5 DEF VisitsDiffer
  <2>6. ASSUME NEW k \in 1..Len(writes'), NEW r \in rows, IsVisit(writes'[k])
        PROVE  writes'[k].visited_at # r.visited_at
      BY <1>6, <1>11, <2>1, <2>3, <2>4, <2>6 DEF VisitsDiffer
  <2> QED
      BY <1>3, <2>1, <2>5, <2>6 DEF VisitsDiffer
<1>17. ASSUME mishaps' = {} PROVE MirroredBy(rows', writes', entries')
  <2>1. time = now + 1 /\ mishaps = {}
      BY <1>15, <1>17
  <2>2. MirroredBy(rows, writes, entries)
      BY <2>1 DEF MirrorInv
  <2>3. entries' \in Memories
      BY <1>1 DEF HistoryInv, HistoryTypeOK, HistoryIsCapped, Memories
  <2>4. RemembersVisit(w, entries, entries')
    <3>1. \A i \in 1..Len(entries) : entries[i].visited_at < w.visited_at
      <4> TAKE i \in 1..Len(entries)
      <4>1. entries[i].visited_at <= now
          BY DEF MirrorInv, NothingIsToCome
      <4> QED
          BY <1>0, <1>6, <2>1, <4>1
    <3> QED
        BY <1>6, <1>8, <1>9, <3>1 DEF RemembersVisit, Shows
  <2>5. Remembers(w, entries, entries')
      BY <1>6, <2>4 DEF Remembers
  <2> QED
      BY <1>0, <1>3, <1>6, <1>7, <2>2, <2>3, <2>5, ChainGrows
<1> QED
    BY <1>1, <1>13, <1>14, <1>16, <1>17 DEF MirrorInv

(* A favicon changes icons only.                                           *)
LEMMA SetFaviconKeepsMirror ==
    ASSUME MirrorInv, NEW id, NEW url \in Locations, NEW icon \in Locations,
           \A i \in 1..Len(entries) : entries[i].id = id => entries[i].url = url,
           SetFavicon(id, url, icon)
    PROVE  MirrorInv'
<1> DEFINE w == [op |-> "favicon", url |-> url, icon |-> icon]
<1>0. /\ entries \in Memories /\ Len(entries) \in Nat /\ now \in Nat
      /\ writes \in Seq(DiskWrite) /\ Len(writes) \in Nat
      /\ \A i \in 1..Len(entries) : entries[i] \in Entry
      /\ entries \in Seq(Entry)
    BY MirrorFacts
<1>1. HistoryInv'
    BY SetFaviconKeepsHistory DEF MirrorInv
<1>2. /\ writes' = Append(writes, w) /\ rows' = rows /\ now' = now
      /\ next_id' = next_id /\ mishaps' = mishaps
    BY DEF SetFavicon
<1>3. w \in DiskWrite /\ ~IsVisit(w) /\ w.op = "favicon" /\ w.url = url
    BY DEF DiskWrite, IsVisit
<1> HIDE DEF w
<1>4. /\ Len(entries') = Len(entries)
      /\ \A i \in 1..Len(entries) :
            entries'[i] = IF entries[i].id = id THEN [entries[i] EXCEPT !.icon = icon] ELSE entries[i]
  <2>1. DOMAIN entries = 1..Len(entries) /\ DOMAIN entries' = DOMAIN entries
      BY <1>0 DEF SetFavicon
  <2>2. DOMAIN entries' = 1..Len(entries') /\ Len(entries') \in Nat
      BY <1>1 DEF HistoryInv, HistoryTypeOK
  <2>3. Len(entries') = Len(entries)
      BY <1>0, <2>1, <2>2
  <2> QED
      BY <2>1, <2>3 DEF SetFavicon
<1>5. \A i \in 1..Len(entries) :
          /\ entries'[i].id = entries[i].id /\ entries'[i].url = entries[i].url
          /\ entries'[i].visited_at = entries[i].visited_at
          /\ entries'[i].icon = entries[i].icon \/ entries[i].url = url
    BY <1>0, <1>4 DEF Entry
<1>6. /\ writes' \in Seq(DiskWrite) /\ Len(writes') = Len(writes) + 1 /\ writes'[Len(writes) + 1] = w
      /\ \A k \in 1..Len(writes) : writes'[k] = writes[k]
    BY <1>0, <1>2, <1>3
<1>7. \A k \in 1..Len(writes') : IsVisit(writes'[k]) =>
          k \in 1..Len(writes) /\ writes'[k] = writes[k]
    BY <1>0, <1>3, <1>6
<1>8. NothingIsToCome'
    BY <1>2, <1>4, <1>5, <1>7 DEF MirrorInv, NothingIsToCome
<1>9. IdsDiffer'
    BY <1>2, <1>4, <1>5 DEF MirrorInv, IdsDiffer
<1>10. ASSUME "tied" \notin mishaps' PROVE VisitsDiffer(rows', writes')
    BY <1>2, <1>7, <1>10 DEF MirrorInv, VisitsDiffer
<1>11. ASSUME mishaps' = {} PROVE MirroredBy(rows', writes', entries')
  <2>1. MirroredBy(rows, writes, entries)
      BY <1>2, <1>11 DEF MirrorInv
  <2>2. RemembersFavicon(w, entries, entries')
      BY <1>3, <1>4, <1>5 DEF RemembersFavicon
  <2>3. Remembers(w, entries, entries')
      BY <1>3, <2>2 DEF Remembers
  <2>4. entries' \in Memories
      BY <1>1 DEF HistoryInv, HistoryTypeOK, HistoryIsCapped, Memories
  <2> QED
      BY <1>0, <1>2, <1>3, <2>1, <2>3, <2>4, ChainGrows
<1> QED
    BY <1>1, <1>8, <1>9, <1>10, <1>11 DEF MirrorInv

LEMMA ClearKeepsMirror ==
    ASSUME MirrorInv, ClearHistory
    PROVE  MirrorInv'
<1> DEFINE w == [op |-> "clear"]
<1>0. writes \in Seq(DiskWrite) /\ Len(writes) \in Nat
    BY MirrorFacts
<1>1. HistoryInv'
    BY ClearKeepsHistory DEF MirrorInv
<1>2. /\ writes' = Append(writes, w) /\ rows' = rows /\ now' = now
      /\ mishaps' = mishaps /\ entries' = <<>>
    BY DEF ClearHistory
<1>3. w \in DiskWrite /\ ~IsVisit(w) /\ w.op = "clear"
    BY DEF DiskWrite, IsVisit
<1> HIDE DEF w
<1>4. Len(entries') = 0 /\ 1..Len(entries') = {}
    BY <1>2
<1>5. /\ writes' \in Seq(DiskWrite) /\ Len(writes') = Len(writes) + 1 /\ writes'[Len(writes) + 1] = w
      /\ \A k \in 1..Len(writes) : writes'[k] = writes[k]
    BY <1>0, <1>2, <1>3
<1>6. \A k \in 1..Len(writes') : IsVisit(writes'[k]) =>
          k \in 1..Len(writes) /\ writes'[k] = writes[k]
    BY <1>0, <1>3, <1>5
<1>7. NothingIsToCome'
    BY <1>2, <1>4, <1>6 DEF MirrorInv, NothingIsToCome
<1>8. IdsDiffer'
    BY <1>4 DEF IdsDiffer
<1>9. ASSUME "tied" \notin mishaps' PROVE VisitsDiffer(rows', writes')
    BY <1>2, <1>6, <1>9 DEF MirrorInv, VisitsDiffer
<1>10. ASSUME mishaps' = {} PROVE MirroredBy(rows', writes', entries')
  <2>1. MirroredBy(rows, writes, entries)
      BY <1>2, <1>10 DEF MirrorInv
  <2>2. Remembers(w, entries, entries')
      BY <1>3, <1>4 DEF Remembers
  <2>3. entries' \in Memories
      BY <1>1 DEF HistoryInv, HistoryTypeOK, HistoryIsCapped, Memories
  <2> QED
      BY <1>0, <1>2, <1>3, <2>1, <2>2, <2>3, ChainGrows
<1> QED
    BY <1>1, <1>7, <1>8, <1>9, <1>10 DEF MirrorInv

(* A visit that reaches the disk is a row there, told apart by its time.   *)
LEMMA VisitKeepsTimes ==
    ASSUME NEW w, rows' \in WithVisit(w)
    PROVE  /\ \A r \in rows' :
                 \/ r.visited_at = w.visited_at
                 \/ \E s \in rows : r = s
           /\ TimesDiffer(rows) /\ (\A s \in rows : s.visited_at # w.visited_at)
                 => TimesDiffer(rows')
<1> DEFINE visit(id) == [id |-> id, url |-> w.url, icon |-> Nil, visited_at |-> w.visited_at]
<1>1. \A id : visit(id).visited_at = w.visited_at
    OBVIOUS
<1>2. PICK R :
          /\ rows' \in Kept(R, MAX_HISTORY_ENTRIES)
          /\ \E id : \E kept \in SUBSET rows : R = kept \cup {visit(id)}
  <2>1. PICK R :
          /\ rows' \in Kept(R, MAX_HISTORY_ENTRIES)
          /\ \/ \E r \in Foldable(w.url) : R = (rows \ {r}) \cup {visit(r.id)}
             \/ R = rows \cup {visit(FreshRow(rows))}
      BY DEF WithVisit
  <2> HIDE DEF visit
  <2>2. CASE \E r \in Foldable(w.url) : R = (rows \ {r}) \cup {visit(r.id)}
    <3>1. PICK r \in Foldable(w.url) : R = (rows \ {r}) \cup {visit(r.id)}
        BY <2>2
    <3>2. rows \ {r} \in SUBSET rows
        OBVIOUS
    <3> QED
        BY <2>1, <3>1, <3>2
  <2>3. CASE R = rows \cup {visit(FreshRow(rows))}
      BY <2>1, <2>3
  <2> QED
      BY <2>1, <2>2, <2>3
<1> HIDE DEF visit
<1>3. rows' \subseteq R
    BY <1>2 DEF Kept
<1>4. PICK id : \E kept \in SUBSET rows : R = kept \cup {visit(id)}
    BY <1>2
<1>5. PICK kept \in SUBSET rows : R = kept \cup {visit(id)}
    BY <1>4
<1> QED
    BY <1>1, <1>3, <1>5 DEF TimesDiffer

LEMMA FaviconKeepsTimes ==
    ASSUME NEW w, rows \subseteq Row, rows' = WithFavicon(w)
    PROVE  /\ \A r \in rows' : \E s \in rows : r.visited_at = s.visited_at
           /\ TimesDiffer(rows) => TimesDiffer(rows')
<1> DEFINE patched(r) == IF r.url = w.url /\ r.icon = Nil THEN [r EXCEPT !.icon = w.icon] ELSE r
<1>1. rows' = {patched(r) : r \in rows}
    BY DEF WithFavicon
<1>2. \A r \in rows : patched(r).visited_at = r.visited_at
    BY DEF Row
<1> HIDE DEF patched
<1> QED
    BY <1>1, <1>2 DEF TimesDiffer

(* A write, made or lost, leaves only times that are known.                *)
LEMMA DiskStepKeepsTimes ==
    ASSUME MirrorInv, NEW i \in 1..Len(writes), MakeWrite(i) \/ WriteFails(i)
    PROVE  /\ \A r \in rows' :
                 \/ IsVisit(writes[i]) /\ r.visited_at = writes[i].visited_at
                 \/ \E s \in rows : r.visited_at = s.visited_at
           /\ VisitsDiffer(rows, writes) => TimesDiffer(rows')
<1>0. rows \subseteq Row
    BY MirrorFacts
<1>1. CASE WriteFails(i)
    BY <1>1 DEF WriteFails, VisitsDiffer
<1>2. CASE MakeWrite(i)
  <2>1. CASE writes[i].op = "visit" /\ rows' \in WithVisit(writes[i])
    <3>1. IsVisit(writes[i])
        BY <2>1 DEF IsVisit
    <3>2. /\ \A r \in rows' : r.visited_at = writes[i].visited_at \/ \E s \in rows : r = s
          /\ TimesDiffer(rows) /\ (\A s \in rows : s.visited_at # writes[i].visited_at)
                => TimesDiffer(rows')
        BY <2>1, VisitKeepsTimes
    <3>3. VisitsDiffer(rows, writes) =>
              TimesDiffer(rows) /\ \A s \in rows : s.visited_at # writes[i].visited_at
        BY <3>1 DEF VisitsDiffer
    <3> QED
        BY <3>1, <3>2, <3>3
  <2>2. CASE rows' = WithFavicon(writes[i])
      BY <1>0, <2>2, FaviconKeepsTimes DEF VisitsDiffer
  <2>3. CASE rows' = {}
      BY <2>3 DEF TimesDiffer
  <2> QED
      BY <1>2, <2>1, <2>2, <2>3 DEF MakeWrite
<1> QED
    BY <1>1, <1>2

(* The writes that are left are those that were there.                     *)
LEMMA WritesLeft ==
    ASSUME MirrorInv, NEW i \in 1..Len(writes), writes' = RemoveAt(writes, i)
    PROVE  \E at \in [1..Len(writes') -> 1..Len(writes)] :
               /\ \A k \in 1..Len(writes') : at[k] # i /\ writes'[k] = writes[at[k]]
               /\ \A k, l \in 1..Len(writes') : at[k] = at[l] => k = l
<1> DEFINE at == [k \in 1..Len(writes) - 1 |-> IF k < i THEN k ELSE k + 1]
<1>0. writes \in Seq(DiskWrite) /\ Len(writes) \in Nat
    BY MirrorFacts
<1>1. /\ Len(writes') = Len(writes) - 1
      /\ \A k \in 1..Len(writes) - 1 : writes'[k] = IF k < i THEN writes[k] ELSE writes[k + 1]
    BY <1>0, RemoveAtFacts
<1>2. \A k \in 1..Len(writes) - 1 :
          at[k] \in 1..Len(writes) /\ at[k] # i /\ writes'[k] = writes[at[k]]
    BY <1>0, <1>1
<1>3. \A k, l \in 1..Len(writes) - 1 : at[k] = at[l] => k = l
    BY <1>0
<1>4. at \in [1..Len(writes) - 1 -> 1..Len(writes)]
    BY <1>2
<1> HIDE DEF at
<1> QED
    BY <1>1, <1>2, <1>3, <1>4

LEMMA DiskStepKeepsMirror ==
    ASSUME MirrorInv, DiskStep
    PROVE  MirrorInv'
<1>0. /\ entries \in Memories /\ Len(entries) \in Nat /\ now \in Nat
      /\ writes \in Seq(DiskWrite) /\ Len(writes) \in Nat /\ rows \subseteq Row
      /\ \A k \in 1..Len(writes) : writes[k] \in DiskWrite
    BY MirrorFacts
<1>1. HistoryInv'
    BY DiskStepKeepsHistory DEF MirrorInv
<1>2. PICK i \in 1..Len(writes) : MakeWrite(i) \/ WriteFails(i)
    BY <1>0 DEF DiskStep
<1>3. /\ writes' = RemoveAt(writes, i) /\ mishaps \subseteq mishaps'
      /\ entries' = entries /\ next_id' = next_id /\ now' = now
    BY <1>2 DEF MakeWrite, WriteFails
<1>4. /\ \A r \in rows' :
            \/ IsVisit(writes[i]) /\ r.visited_at = writes[i].visited_at
            \/ \E s \in rows : r.visited_at = s.visited_at
      /\ VisitsDiffer(rows, writes) => TimesDiffer(rows')
    BY <1>2, DiskStepKeepsTimes
<1>5. PICK at \in [1..Len(writes') -> 1..Len(writes)] :
          /\ \A k \in 1..Len(writes') : at[k] # i /\ writes'[k] = writes[at[k]]
          /\ \A k, l \in 1..Len(writes') : at[k] = at[l] => k = l
    BY <1>3, WritesLeft
<1>6. NothingIsToCome'
  <2>1. \A r \in rows' : r.visited_at <= now'
      BY <1>3, <1>4 DEF MirrorInv, NothingIsToCome
  <2>2. \A k \in 1..Len(writes') : IsVisit(writes'[k]) => writes'[k].visited_at <= now'
      BY <1>3, <1>5 DEF MirrorInv, NothingIsToCome
  <2> QED
      BY <1>3, <2>1, <2>2 DEF MirrorInv, NothingIsToCome
<1>7. IdsDiffer'
    BY <1>3 DEF MirrorInv, IdsDiffer
<1>8. ASSUME "tied" \notin mishaps' PROVE VisitsDiffer(rows', writes')
  <2>1. VisitsDiffer(rows, writes)
      BY <1>3, <1>8 DEF MirrorInv
  <2>2. TimesDiffer(rows')
      BY <1>4, <2>1
  <2>3. ASSUME NEW k \in 1..Len(writes'), NEW l \in 1..Len(writes'),
               IsVisit(writes'[k]), IsVisit(writes'[l]), k # l
        PROVE  writes'[k].visited_at # writes'[l].visited_at
    <3>1. at[k] \in 1..Len(writes) /\ at[l] \in 1..Len(writes) /\ at[k] # at[l]
        BY <1>5, <2>3
    <3> QED
        BY <1>5, <2>1, <2>3, <3>1 DEF VisitsDiffer
  <2>4. ASSUME NEW k \in 1..Len(writes'), NEW r \in rows', IsVisit(writes'[k])
        PROVE  writes'[k].visited_at # r.visited_at
    <3>1. at[k] \in 1..Len(writes) /\ at[k] # i /\ writes'[k] = writes[at[k]]
        BY <1>5
    <3>2. CASE IsVisit(writes[i]) /\ r.visited_at = writes[i].visited_at
        BY <2>1, <2>4, <3>1, <3>2 DEF VisitsDiffer
    <3>3. CASE \E s \in rows : r.visited_at = s.visited_at
        BY <2>1, <2>4, <3>1, <3>3 DEF VisitsDiffer
    <3> QED
        BY <1>4, <3>2, <3>3
  <2> QED
      BY <2>2, <2>3, <2>4 DEF VisitsDiffer
<1>9. ASSUME mishaps' = {} PROVE MirroredBy(rows', writes', entries')
  <2>1. MakeWrite(i) /\ i = 1 /\ mishaps = {}
      BY <1>2, <1>9 DEF MakeWrite, WriteFails
  <2>2. PICK c : Chain(c, rows, writes, entries)
      BY <2>1 DEF MirrorInv, MirroredBy
  <2> DEFINE w == writes[1]
  <2>3. 1 \in 1..Len(writes) /\ w \in DiskWrite
      BY <1>0, <2>1
  <2>4. /\ c[0] \in Memories /\ c[1] \in Memories /\ Matches(rows, c[0])
        /\ Remembers(w, c[0], c[1])
      BY <1>0, <2>2, <2>3 DEF Chain
  <2> HIDE DEF w
  <2>5. Matches(rows', c[1])
    <3>1. CASE w.op = "visit" /\ rows' \in WithVisit(w)
      <4>1. w.url \in Locations /\ w.visited_at \in Nat /\ RemembersVisit(w, c[0], c[1])
          BY <2>3, <2>4, <3>1 DEF DiskWrite, Remembers
      <4> QED
          BY <2>4, <3>1, <4>1, VisitMatches
    <3>2. CASE w.op = "favicon" /\ rows' = WithFavicon(w)
      <4>1. w.icon \in Locations /\ RemembersFavicon(w, c[0], c[1])
          BY <2>3, <2>4, <3>2 DEF DiskWrite, Remembers
      <4> QED
          BY <1>0, <2>4, <3>2, <4>1, FaviconMatches
    <3>3. CASE w.op = "clear" /\ rows' = {}
      <4>1. Len(c[1]) = 0
          BY <2>4, <3>3 DEF Remembers
      <4> QED
          BY <3>3, <4>1, ClearMatches
    <3> QED
        BY <2>1, <3>1, <3>2, <3>3 DEF MakeWrite, w
  <2> QED
      BY <1>0, <1>3, <2>1, <2>2, <2>3, <2>5, ChainShrinks
<1> QED
    BY <1>1, <1>6, <1>7, <1>8, <1>9 DEF MirrorInv

(* Induction, with a set for the property (as in ScriptHost_proofs).       *)
LEMMA SetInduction ==
    ASSUME NEW S \in SUBSET Nat, 0 \in S, \A n \in S : n + 1 \in S
    PROVE  S = Nat
<1> SUFFICES ASSUME NEW k \in Nat, k \notin S PROVE FALSE
    OBVIOUS
<1> DEFINE T == {1..n : n \in Nat \ S}
<1>1. T \subseteq FiniteSubsetsOf(Nat)
  <2>1. \A n \in Nat : IsFiniteSet(1..n) /\ 1..n \subseteq Nat
      BY FS_Interval
  <2> QED
      BY <2>1 DEF FiniteSubsetsOf
<1>2. T # {}
    OBVIOUS
<1>3. \E x \in T : \A y \in T : <<y, x>> \notin StrictSubsetOrdering(Nat)
  <2> HIDE DEF T
  <2> QED
      BY <1>1, <1>2, WFMin, FS_StrictSubsetOrderingWellFounded
<1>4. PICK m \in Nat \ S : \A n \in Nat \ S : <<1..n, 1..m>> \notin StrictSubsetOrdering(Nat)
    BY <1>3
<1>5. m # 0
    OBVIOUS
<1>6. m - 1 \in Nat /\ m = (m - 1) + 1
    BY <1>5
<1>7. m - 1 \notin S
    BY <1>6
<1>8. 1..(m - 1) \subseteq 1..m /\ 1..(m - 1) # 1..m
  <2>1. m \in 1..m /\ m \notin 1..(m - 1)
      BY <1>5, <1>6
  <2>2. 1..(m - 1) \subseteq 1..m
      BY <1>6
  <2> QED
      BY <2>1, <2>2
<1>9. <<1..(m - 1), 1..m>> \in StrictSubsetOrdering(Nat)
    BY <1>8 DEF StrictSubsetOrdering
<1> QED
    BY <1>4, <1>6, <1>7, <1>9

(* Neighbours in order are all in order.                                   *)
LEMMA DescendingThroughout ==
    ASSUME NEW e \in Seq(Entry),
           \A i \in 1..Len(e) - 1 : e[i + 1].visited_at < e[i].visited_at
    PROVE  \A i, j \in 1..Len(e) : i < j => e[j].visited_at < e[i].visited_at
<1> DEFINE S == {d \in Nat : \A i \in 1..Len(e) :
                    i + d + 1 <= Len(e) => e[i + d + 1].visited_at < e[i].visited_at}
<1>0. Len(e) \in Nat /\ \A i \in 1..Len(e) : e[i].visited_at \in Nat
    BY EntryFacts
<1>1. 0 \in S
  <2>1. \A i \in 1..Len(e) : i + 0 + 1 = i + 1 /\ (i + 1 <= Len(e) => i \in 1..Len(e) - 1)
      BY <1>0
  <2> QED
      BY <2>1
<1>2. ASSUME NEW d \in S PROVE d + 1 \in S
  <2>1. ASSUME NEW i \in 1..Len(e), i + (d + 1) + 1 <= Len(e)
        PROVE  e[i + (d + 1) + 1].visited_at < e[i].visited_at
    <3> DEFINE j == i + d + 1
    <3>1. j \in 1..Len(e) /\ j \in 1..Len(e) - 1 /\ j + 1 \in 1..Len(e) /\ i + (d + 1) + 1 = j + 1
          /\ j <= Len(e)
        BY <1>0, <2>1
    <3>2. e[j].visited_at < e[i].visited_at
        BY <3>1
    <3> HIDE DEF j
    <3>3. e[j + 1].visited_at < e[j].visited_at
        BY <3>1
    <3>4. e[j + 1].visited_at \in Nat /\ e[j].visited_at \in Nat /\ e[i].visited_at \in Nat
        BY <1>0, <3>1
    <3> QED
        BY <3>1, <3>2, <3>3, <3>4
  <2> QED
      BY <2>1
<1>3. S \in SUBSET Nat
    OBVIOUS
<1> HIDE DEF S
<1>4. S = Nat
    BY <1>1, <1>2, <1>3, SetInduction
<1> TAKE i, j \in 1..Len(e)
<1> HAVE i < j
<1>5. (j - i) - 1 \in Nat /\ i + ((j - i) - 1) + 1 = j /\ j <= Len(e)
    BY <1>0
<1>6. (j - i) - 1 \in S
    BY <1>4, <1>5
<1> QED
    BY <1>5, <1>6 DEF S

(* A start of the app reads rows of the disk.                              *)
LEMMA ReadFacts ==
    ASSUME MirrorInv, NEW kept \in Kept(rows, MAX_HISTORY_ENTRIES), NEW read \in SUBSET kept,
           NEW s \in LatestFirst(read)
    PROVE  /\ kept = rows /\ s \in [1..Cardinality(read) -> rows]
           /\ Cardinality(read) \in Nat /\ Len(s) = Cardinality(read)
           /\ DOMAIN s = 1..Cardinality(read)
<1>1. /\ IsFiniteSet(rows) /\ Cardinality(rows) \in Nat /\ Cardinality(rows) <= MAX_HISTORY_ENTRIES
      /\ MAX_HISTORY_ENTRIES \in Nat
    BY MirrorFacts, FS_CardinalityType
<1>2. kept = rows
    BY <1>1, KeptAll
<1>3. IsFiniteSet(read) /\ Cardinality(read) \in Nat
    BY <1>1, <1>2, FS_Subset, FS_CardinalityType
<1>4. s \in [1..Cardinality(read) -> read]
    BY DEF LatestFirst, SetToSeqs
<1>5. s \in Seq(read) /\ DOMAIN s = 1..Cardinality(read) /\ Len(s) = Cardinality(read)
    BY <1>3, <1>4
<1> QED
    BY <1>2, <1>3, <1>4, <1>5

(* When it can read them all, it reads the memory that the disk shows.     *)
LEMMA LoadedFacts ==
    ASSUME MirrorInv, NEW s \in LatestFirst(rows)
    PROVE  /\ s \in [1..Cardinality(rows) -> rows] /\ Cardinality(rows) \in Nat
           /\ DOMAIN s = 1..Cardinality(rows) /\ Len(s) = Cardinality(rows)
           /\ \A i, j \in 1..Len(s) : i # j => s[i] # s[j]
           /\ \A r \in rows : \E i \in 1..Len(s) : s[i] = r
           /\ \A i \in 1..Len(s) - 1 : s[i].visited_at >= s[i + 1].visited_at
<1>0. /\ IsFiniteSet(rows) /\ Cardinality(rows) \in Nat /\ Cardinality(rows) <= MAX_HISTORY_ENTRIES
      /\ MAX_HISTORY_ENTRIES \in Nat
    BY MirrorFacts, FS_CardinalityType
<1>1. /\ s \in SetToSeqs(rows)
      /\ \A i \in 1..Len(s) - 1 : s[i].visited_at >= s[i + 1].visited_at
    BY DEF LatestFirst
<1>2. /\ s \in [1..Cardinality(rows) -> rows]
      /\ \A i, j \in 1..Cardinality(rows) : i # j => s[i] # s[j]
    BY <1>1 DEF SetToSeqs
<1>3. s \in Seq(rows) /\ DOMAIN s = 1..Cardinality(rows) /\ Len(s) = Cardinality(rows)
    BY <1>0, <1>2
<1>4. s \in Injection(1..Cardinality(rows), rows)
    BY <1>2 DEF Injection, IsInjective
<1>5. Cardinality(1..Cardinality(rows)) = Cardinality(rows)
  <2>1. 1 \in Int /\ Cardinality(rows) \in Int
      BY <1>0
  <2>2. Cardinality(1..Cardinality(rows))
          = IF 1 > Cardinality(rows) THEN 0 ELSE Cardinality(rows) - 1 + 1
      BY <2>1, FS_Interval
  <2> QED
      BY <1>0, <2>2
<1>6. s \in Surjection(1..Cardinality(rows), rows)
    BY <1>0, <1>4, <1>5, FS_Injection
<1>7. \A r \in rows : \E i \in 1..Cardinality(rows) : s[i] = r
    BY <1>6 DEF Surjection
<1> QED
    BY <1>0, <1>1, <1>2, <1>3, <1>7

LEMMA RestartKeepsMirror ==
    ASSUME MirrorInv, RestartHistory
    PROVE  MirrorInv'
<1>0. rows \subseteq Row /\ now \in Nat /\ \A r \in rows : r.visited_at \in Nat
    BY MirrorFacts
<1>1. HistoryInv'
    BY RestartKeepsHistory DEF MirrorInv
<1>a. PICK kept \in Kept(rows, MAX_HISTORY_ENTRIES) : \E read \in SUBSET kept : Started(kept, read)
    BY DEF RestartHistory, Started
<1>b. PICK read \in SUBSET kept : Started(kept, read)
    BY <1>a
<1>2. PICK s \in LatestFirst(read) :
          /\ entries' = [i \in DOMAIN s |-> [s[i] EXCEPT !.id = i - 1]]
          /\ next_id' = Len(s)
    BY <1>b DEF Started
<1>c. mishaps' = (mishaps \cap {"tied"}) \cup (IF read = kept THEN {} ELSE {"unread"})
    BY <1>b DEF Started
<1>3. /\ writes' = <<>> /\ rows' = rows /\ now' = now
      /\ "tied" \notin mishaps' => "tied" \notin mishaps
    BY <1>c DEF RestartHistory
<1>4. /\ kept = rows /\ s \in [1..Cardinality(read) -> rows] /\ Cardinality(read) \in Nat
      /\ DOMAIN s = 1..Cardinality(read) /\ Len(s) = Cardinality(read)
    BY ReadFacts
<1>5. entries' \in Seq(Entry) /\ Len(entries') = Len(s) /\ Len(s) \in Nat /\ Len(writes') = 0
  <2>1. entries' \in Seq(Entry)
      BY <1>1 DEF HistoryInv, HistoryTypeOK
  <2>2. DOMAIN entries' = 1..Cardinality(read)
      BY <1>2, <1>4
  <2>3. Len(entries') \in Nat /\ DOMAIN entries' = 1..Len(entries')
      BY <2>1
  <2>4. Len(entries') = Cardinality(read)
      BY <1>4, <2>2, <2>3
  <2> QED
      BY <1>3, <1>4, <2>1, <2>4
<1>6. \A i \in 1..Len(s) :
          /\ s[i] \in rows /\ entries'[i].id = i - 1 /\ entries'[i].url = s[i].url
          /\ entries'[i].icon = s[i].icon /\ entries'[i].visited_at = s[i].visited_at
  <2> TAKE i \in 1..Len(s)
  <2>1. i \in DOMAIN s /\ s[i] \in rows /\ s[i] \in Row
      BY <1>0, <1>4
  <2>2. entries'[i] = [s[i] EXCEPT !.id = i - 1]
      BY <1>2, <2>1
  <2> QED
      BY <2>1, <2>2 DEF Row
<1>7. NothingIsToCome'
  <2>1. \A i \in 1..Len(entries') : entries'[i].visited_at <= now'
      BY <1>3, <1>5, <1>6 DEF MirrorInv, NothingIsToCome
  <2> QED
      BY <1>3, <1>5, <2>1 DEF MirrorInv, NothingIsToCome
<1>8. IdsDiffer'
  <2>1. \A i \in 1..Len(entries') : entries'[i].id < next_id' /\ entries'[i].id = i - 1
      BY <1>2, <1>5, <1>6
  <2>2. \A i, j \in 1..Len(entries') : entries'[i].id = entries'[j].id => i = j
      BY <1>5, <2>1
  <2> QED
      BY <2>1, <2>2 DEF IdsDiffer
<1>9. ASSUME "tied" \notin mishaps' PROVE VisitsDiffer(rows', writes')
    BY <1>3, <1>5, <1>9 DEF MirrorInv, VisitsDiffer
<1>10. ASSUME mishaps' = {} PROVE MirroredBy(rows', writes', entries')
  <2>0. /\ \A i, j \in 1..Len(s) : i # j => s[i] # s[j]
        /\ \A r \in rows : \E i \in 1..Len(s) : s[i] = r
        /\ \A i \in 1..Len(s) - 1 : s[i].visited_at >= s[i + 1].visited_at
    <3>1. read = rows
        BY <1>4, <1>10, <1>c
    <3> QED
        BY <3>1, LoadedFacts
  <2>1. TimesDiffer(rows)
      BY <1>3, <1>10 DEF MirrorInv, VisitsDiffer
  <2>2. ASSUME NEW i \in 1..Len(entries') - 1
        PROVE  entries'[i + 1].visited_at < entries'[i].visited_at
    <3>1. i \in 1..Len(s) /\ i + 1 \in 1..Len(s) /\ i # i + 1 /\ i \in 1..Len(s) - 1
        BY <1>5
    <3>2. s[i].visited_at >= s[i + 1].visited_at /\ s[i] # s[i + 1]
        BY <2>0, <3>1
    <3>3. s[i] \in rows /\ s[i + 1] \in rows
        BY <1>6, <3>1
    <3>4. s[i].visited_at # s[i + 1].visited_at
        BY <2>1, <3>2, <3>3 DEF TimesDiffer
    <3>5. s[i + 1].visited_at < s[i].visited_at
        BY <1>0, <3>2, <3>3, <3>4
    <3> QED
        BY <1>6, <3>1, <3>5
  <2> DEFINE e == entries'
             c == [k \in {0} |-> e]
  <2>3. e \in Seq(Entry) /\ e \in Memories /\ Len(e) = Len(s)
      BY <1>1, <1>5 DEF HistoryInv, HistoryTypeOK, HistoryIsCapped, Memories
  <2>4. \A i, j \in 1..Len(e) : i < j => e[j].visited_at < e[i].visited_at
    <3>1. \A i \in 1..Len(e) - 1 : e[i + 1].visited_at < e[i].visited_at
        BY <2>2
    <3> HIDE DEF e
    <3> QED
        BY <2>3, <3>1, DescendingThroughout
  <2>5. \A i \in 1..Len(e) : s[i] \in rows /\ Shows(s[i], e[i])
      BY <1>5, <1>6 DEF Shows
  <2>6. \A r \in rows : \E i \in 1..Len(e) : Shows(r, e[i])
      BY <2>0, <2>3, <2>5
  <2> HIDE DEF e
  <2>7. Matches(rows, e)
      BY <2>1, <2>4, <2>5, <2>6 DEF Matches
  <2>8. c \in [0..0 -> Memories] /\ c[0] = e
      BY <2>3
  <2> HIDE DEF c
  <2>9. Chain(c, rows, <<>>, e)
      BY <2>7, <2>8 DEF Chain
  <2> QED
      BY <1>3, <2>9 DEF MirroredBy, e
<1> QED
    BY <1>1, <1>7, <1>8, <1>9, <1>10 DEF MirrorInv

LEMMA InitMirrorInv == HistoryInit => MirrorInv
<1> SUFFICES ASSUME HistoryInit PROVE MirrorInv
    OBVIOUS
<1>1. HistoryInv
    BY InitHistoryInv
<1>2. /\ entries = <<>> /\ writes = <<>> /\ rows = {}
      /\ Len(entries) = 0 /\ Len(writes) = 0 /\ now = 0
    BY DEF HistoryInit
<1>3. NothingIsToCome /\ IdsDiffer /\ VisitsDiffer(rows, writes)
    BY <1>2 DEF NothingIsToCome, IdsDiffer, VisitsDiffer, TimesDiffer
<1> DEFINE c == [k \in {0} |-> entries]
<1>4. entries \in Memories
    BY <1>1 DEF HistoryInv, HistoryTypeOK, HistoryIsCapped, Memories
<1>5. Matches(rows, entries)
    BY <1>2 DEF Matches, TimesDiffer
<1>6. c \in [0..0 -> Memories] /\ c[0] = entries
    BY <1>4
<1> HIDE DEF c
<1>7. Chain(c, rows, writes, entries)
    BY <1>2, <1>5, <1>6 DEF Chain
<1> QED
    BY <1>1, <1>3, <1>7 DEF MirrorInv, MirroredBy

LEMMA NextMirrorInv == MirrorInv /\ [HistoryStep]_historyVars => MirrorInv'
<1> SUFFICES ASSUME MirrorInv, [HistoryStep]_historyVars PROVE MirrorInv'
    OBVIOUS
<1>1. ASSUME NEW url \in Locations, RecordVisit(url) PROVE MirrorInv'
    BY <1>1, RecordVisitKeepsMirror
<1>2. ASSUME NEW i \in DOMAIN entries, SetFavicon(entries[i].id, entries[i].url, entries[i].url)
      PROVE  MirrorInv'
  <2>1. i \in 1..Len(entries) /\ entries[i].url \in Locations
      BY <1>2, MirrorFacts
  <2>2. \A j \in 1..Len(entries) : entries[j].id = entries[i].id => entries[j].url = entries[i].url
      BY <2>1 DEF MirrorInv, IdsDiffer
  <2> QED
      BY <1>2, <2>1, <2>2, SetFaviconKeepsMirror
<1>3. ASSUME NEW url \in Locations, SetFavicon(Nil, url, url) PROVE MirrorInv'
  <2>1. \A j \in 1..Len(entries) : entries[j].id # Nil
      BY MirrorFacts, LoadsAssumption
  <2> QED
      BY <1>3, <2>1, SetFaviconKeepsMirror
<1>4. CASE ClearHistory
    BY <1>4, ClearKeepsMirror
<1>5. CASE DiskStep
    BY <1>5, DiskStepKeepsMirror
<1>6. CASE RestartHistory
    BY <1>6, RestartKeepsMirror
<1>7. CASE UNCHANGED historyVars
  <2>1. HistoryInv'
      BY <1>7, NextHistoryInv DEF MirrorInv
  <2> QED
      BY <1>7, <2>1 DEF historyVars, MirrorInv, NothingIsToCome, IdsDiffer, VisitsDiffer,
                        TimesDiffer
<1> QED
    BY <1>1, <1>2, <1>3, <1>4, <1>5, <1>6, <1>7 DEF HistoryStep, HistoryChanges

(* Once the disk has caught up, the next start shows what this one does.   *)
LEMMA MatchedIsAligned ==
    ASSUME MirrorInv, Matches(rows, entries)
    PROVE  Aligned
<1> DEFINE s == [i \in 1..Len(entries) |-> CHOOSE r \in rows : Shows(r, entries[i])]
<1>0. /\ entries \in Seq(Entry) /\ Len(entries) \in Nat /\ MAX_HISTORY_ENTRIES \in Nat
      /\ Len(entries) <= MAX_HISTORY_ENTRIES
      /\ \A i \in 1..Len(entries) : entries[i].visited_at \in Nat
    BY MirrorFacts
<1>1. IsFiniteSet(rows) /\ Cardinality(rows) = Len(entries)
    BY <1>0, MatchesCount
<1>2. \A i \in 1..Len(entries) : s[i] \in rows /\ Shows(s[i], entries[i])
    BY DEF Matches
<1>3. s \in [1..Len(entries) -> rows]
    BY <1>2
<1> HIDE DEF s
<1>4. s \in Seq(rows) /\ Len(s) = Len(entries) /\ DOMAIN s = 1..Len(entries)
    BY <1>0, <1>3
<1>5. \A i, j \in 1..Len(entries) : i < j => entries[j].visited_at < entries[i].visited_at
    BY DEF Matches
<1>6. \A i, j \in 1..Len(entries) : i < j => s[j].visited_at < s[i].visited_at
    BY <1>2, <1>5 DEF Shows
<1>7. \A i, j \in 1..Len(entries) : i # j => s[i] # s[j]
  <2> TAKE i, j \in 1..Len(entries)
  <2> HAVE i # j
  <2>1. s[i].visited_at \in Nat /\ s[j].visited_at \in Nat
      BY <1>0, <1>2 DEF Shows
  <2>2. i < j \/ j < i
      BY <1>0
  <2>3. s[i].visited_at < s[j].visited_at \/ s[j].visited_at < s[i].visited_at
      BY <1>6, <2>2
  <2> QED
      BY <2>1, <2>3
<1>8. s \in SetToSeqs(rows)
    BY <1>1, <1>3, <1>7 DEF SetToSeqs
<1>9. rows \in Kept(rows, MAX_HISTORY_ENTRIES)
    BY <1>0, <1>1 DEF Kept
<1>10. \A i \in 1..Len(s) - 1 : s[i].visited_at >= s[i + 1].visited_at
  <2> TAKE i \in 1..Len(s) - 1
  <2>1. i \in 1..Len(entries) /\ i + 1 \in 1..Len(entries) /\ i < i + 1
      BY <1>0, <1>4
  <2>2. s[i + 1].visited_at < s[i].visited_at
      BY <1>6, <2>1
  <2>3. s[i].visited_at \in Nat /\ s[i + 1].visited_at \in Nat
      BY <1>0, <1>2, <2>1 DEF Shows
  <2> QED
      BY <2>2, <2>3
<1>11. s \in Loadable
    BY <1>8, <1>9, <1>10 DEF Loadable, LatestFirst
<1>12. /\ Len(s) = Len(entries)
       /\ \A i \in DOMAIN s :
             /\ s[i].url = entries[i].url
             /\ s[i].visited_at = entries[i].visited_at
             /\ entries[i].icon # Nil => s[i].icon # Nil
    BY <1>2, <1>4 DEF Shows
<1> QED
    BY <1>11, <1>12 DEF Aligned

LEMMA MirrorIsMirrored == MirrorInv => HistoryIsMirrored
<1> SUFFICES ASSUME MirrorInv, writes = <<>>, mishaps = {} PROVE Aligned
    BY DEF MirrorInv, HistoryInv, HistoryIsMirrored
<1>1. PICK c : Chain(c, rows, writes, entries)
    BY DEF MirrorInv, MirroredBy
<1>2. Len(writes) = 0
    OBVIOUS
<1>3. Matches(rows, entries)
    BY <1>1, <1>2 DEF Chain
<1> QED
    BY <1>3, MatchedIsAligned

(* When every write was made, in the order the app handed them over, and   *)
(* no two visits were in the same second, what the disk would load is what *)
(* the memory holds: HistoryStore's SQL and BrowsingHistory's VecDeque     *)
(* fold, prune and patch alike, across any number of restarts.             *)
THEOREM HistoryStaysMirrored == HistorySpec => []HistoryIsMirrored
BY MirrorIsMirrored, InitMirrorInv, NextMirrorInv, PTL DEF HistorySpec

-----------------------------------------------------------------------------
(* A tab.                                                                  *)

(* A page's chrome is due or on screen, and no page is loaded meanwhile.   *)
AboutChrome ==
    /\ about_changed => about # Nil /\ ~changed
    /\ load # Nil => about = Nil
    /\ about # Nil /\ ~about_changed => loaded = Nil /\ title = about

(* Unless the resource has to run again, the memo is of the current entry, *)
AboutIsCurrent ==
    is_open /\ ~changed => about = IF CurrentUrl \in AboutPages THEN CurrentUrl ELSE Nil

(* and so is the load, or its value, or else the document.                 *)
OfThisEntry(l) == l.url = CurrentUrl /\ l.signal = current_abort
LatestLoad ==
    (is_open /\ ~changed /\ CurrentUrl \notin AboutPages) =>
        /\ load # Nil => OfThisEntry(load)
        /\ load = Nil /\ loaded # Nil => OfThisEntry(loaded)
        /\ load = Nil /\ loaded = Nil =>
              title = CurrentUrl /\ document = [url |-> CurrentUrl, signal |-> current_abort]

OnlyLatestSignal == 0 .. next_abort - 1 \subseteq abandoned \cup {current_abort}

TabInv ==
    /\ HistoryInv
    /\ TabVarsTyped
    /\ OnlyLatestSignal
    /\ AboutChrome /\ AboutIsCurrent /\ LatestLoad

(* A tab changes the history in the ways that the history allows.          *)
LEMMA VisitIdTyped ==
    ASSUME HistoryInv, NEW url
    PROVE  VisitId(url) \in Nat
<1>1. entries \in Seq(Entry) /\ next_id \in Nat
    BY DEF HistoryInv, HistoryTypeOK
<1>2. Folds(url) => entries[1] \in Entry
    BY <1>1 DEF Folds
<1> QED
    BY <1>1, <1>2 DEF VisitId, Entry

LEMMA CurrentUrlTyped == TabVarsTyped => CurrentUrl \in Locations
BY DEF TabVarsTyped, CurrentUrl

LEMMA TabStepKeepsHistory ==
    ASSUME HistoryInv, TabVarsTyped, TabStep
    PROVE  HistoryInv'
<1>1. CASE UNCHANGED historyVars
    BY <1>1 DEF historyVars, HistoryInv, HistoryTypeOK, HistoryIsCapped
<1>2. ASSUME NEW p \in probes, ProbeEnds(p) PROVE HistoryInv'
  <2>1. p \in Probe
      BY DEF TabVarsTyped
  <2>2. CASE ProbeFinds(p)
      BY <2>1, <2>2, SetFaviconKeepsHistory DEF ProbeFinds, Probe
  <2> QED
      BY <1>1, <1>2, <2>2 DEF ProbeEnds
<1>3. CASE CommitLoadedDocument
    BY <1>1, <1>3, CurrentUrlTyped, RecordVisitKeepsHistory
       DEF CommitLoadedDocument, Visit, historyVars
<1>4. CASE UserActs
  <2>1. CASE RestartApp
      BY <2>1, RestartKeepsHistory DEF RestartApp
  <2>2. CASE ClickClear
      BY <2>2, ClearKeepsHistory DEF ClickClear
  <2>3. CASE GoBack \/ GoForward \/ Reload \/ CloseTab \/ \E url \in Locations : Navigate(url)
      BY <1>1, <2>3 DEF Navigate, GoBack, GoForward, Reload, CloseTab, SessionChanges
  <2> QED
      BY <1>4, <2>1, <2>2, <2>3 DEF UserActs
<1>5. CASE RestartLoad
    BY <1>1, <1>5 DEF RestartLoad
<1>6. ASSUME NEW is_error, LoadDocument(is_error) PROVE HistoryInv'
    BY <1>1, <1>6 DEF LoadDocument
<1>7. CASE CommitAboutChrome
    BY <1>1, <1>7 DEF CommitAboutChrome
<1> QED
    BY <1>2, <1>3, <1>4, <1>5, <1>6, <1>7 DEF TabStep

-----------------------------------------------------------------------------
(* The steps of a tab.  What the history does is of no concern to it.      *)

TabState == TabVarsTyped /\ OnlyLatestSignal /\ AboutChrome /\ AboutIsCurrent /\ LatestLoad

LEMMA AbortedIsTyped ==
    ASSUME TabVarsTyped, OnlyLatestSignal
    PROVE  /\ Aborted \subseteq 0 .. next_abort - 1
           /\ 0 .. next_abort - 1 \subseteq Aborted
<1>1. /\ next_abort \in Nat /\ abandoned \subseteq 0..next_abort - 1
      /\ current_abort \in 0..next_abort - 1 \cup {Nil}
    BY DEF TabVarsTyped
<1>2. Nil \notin 0..next_abort - 1
    BY <1>1, LoadsAssumption
<1> QED
    BY <1>1, <1>2, Zenon DEF OnlyLatestSignal, Aborted

(* A handler leaves the resource to run again.                             *)
LEMMA HandlerKeepsTab ==
    ASSUME TabState, Handler, changed' = TRUE,
           urls' \in Seq(Locations), current' \in 1..Len(urls'),
           \/ UNCHANGED <<current_abort, abandoned>>
           \/ abandoned' = Aborted /\ current_abort' = Nil
    PROVE  TabState'
<1> USE DEF TabState
<1>1. UNCHANGED <<is_open, load, loaded, about, about_changed, document, title, favicon,
                  next_abort, probes>>
    BY DEF Handler
<1>2. /\ current_abort' \in 0..next_abort - 1 \cup {Nil}
      /\ abandoned' \subseteq 0..next_abort - 1
      /\ 0 .. next_abort - 1 \subseteq abandoned' \cup {current_abort'}
    BY AbortedIsTyped DEF TabVarsTyped, OnlyLatestSignal
<1>3. TabVarsTyped'
    BY <1>1, <1>2 DEF TabVarsTyped
<1>4. AboutChrome'
    BY <1>1 DEF AboutChrome, Handler
<1> QED
    BY <1>1, <1>2, <1>3, <1>4 DEF OnlyLatestSignal, AboutIsCurrent, LatestLoad

LEMMA NavigateKeepsTab ==
    ASSUME TabState, NEW url \in Locations, Navigate(url)
    PROVE  TabState'
<1>1. urls \in Seq(Locations) /\ current \in 1..Len(urls)
    BY DEF TabState, TabVarsTyped
<1> DEFINE past == SubSeq(urls, 1, current)
<1>2. past \in Seq(Locations) /\ Len(past) = current
    BY <1>1
<1>3. urls' = Append(past, url) /\ current' = current + 1
    BY DEF Navigate
<1> HIDE DEF past
<1>4. urls' \in Seq(Locations) /\ current' \in 1..Len(urls')
    BY <1>1, <1>2, <1>3
<1> QED
    BY <1>4, HandlerKeepsTab DEF Navigate, SessionChanges

LEMMA UserKeepsTab ==
    ASSUME TabState, UserActs
    PROVE  TabState'
<1> USE DEF TabState
<1>1. ASSUME GoBack \/ GoForward \/ Reload PROVE TabState'
  <2>1. urls' = urls /\ current' \in 1..Len(urls')
      BY <1>1 DEF TabVarsTyped, GoBack, GoForward, Reload
  <2> QED
      BY <1>1, <2>1, HandlerKeepsTab DEF GoBack, GoForward, Reload, SessionChanges, TabVarsTyped
<1>2. CASE ClickClear
  <2>1. UNCHANGED <<is_open, urls, current, changed, load, loaded, about, about_changed, document,
                    title, favicon, current_abort, next_abort, abandoned, probes>>
      BY <1>2 DEF ClickClear, Handler
  <2> QED
      BY <2>1 DEF TabVarsTyped, OnlyLatestSignal, AboutChrome, AboutIsCurrent, LatestLoad,
                  CurrentUrl, OfThisEntry
<1>3. CASE CloseTab
  <2>1. /\ is_open' = FALSE /\ changed' = FALSE /\ load' = Nil /\ document' = Nil /\ probes' = {}
        /\ abandoned' = Aborted /\ current_abort' = Nil
        /\ loaded = Nil /\ ~about_changed
        /\ UNCHANGED <<urls, current, loaded, about, about_changed, title, favicon, next_abort>>
      BY <1>3 DEF CloseTab
  <2>2. TabVarsTyped'
      BY <2>1, AbortedIsTyped DEF TabVarsTyped
  <2>3. OnlyLatestSignal'
      BY <2>1, AbortedIsTyped DEF OnlyLatestSignal
  <2>4. AboutChrome'
      BY <2>1 DEF AboutChrome
  <2> QED
      BY <2>1, <2>2, <2>3, <2>4 DEF AboutIsCurrent, LatestLoad
<1>4. CASE RestartApp
  <2>1. NewTab
      BY <1>4 DEF RestartApp
  <2>2. /\ urls' = <<NewTabPage>> /\ urls' \in Seq(Locations) /\ Len(urls') = 1
        /\ current' \in 1..Len(urls')
      BY <2>1, TabAssumption DEF NewTab, AboutPages
  <2>3. TabVarsTyped'
      BY <2>1, <2>2 DEF NewTab, TabVarsTyped
  <2>4. OnlyLatestSignal' /\ AboutChrome' /\ AboutIsCurrent' /\ LatestLoad'
      BY <2>1 DEF NewTab, OnlyLatestSignal, AboutChrome, AboutIsCurrent, LatestLoad
  <2> QED
      BY <2>3, <2>4
<1> QED
    BY <1>1, <1>2, <1>3, <1>4, NavigateKeepsTab DEF UserActs

LEMMA RestartLoadKeepsTab ==
    ASSUME TabState, RestartLoad
    PROVE  TabState'
<1> USE DEF TabState
<1>0. Nil \notin AboutPages
    BY HistoryAssumption, TabAssumption
<1>1. /\ changed /\ changed' = FALSE
      /\ about' = IF CurrentUrl \in AboutPages THEN CurrentUrl ELSE Nil
      /\ about_changed' = (about' \notin {about, Nil})
      /\ UNCHANGED <<is_open, urls, current, loaded, document, title, favicon, probes>>
      /\ CurrentUrl' = CurrentUrl
    BY DEF RestartLoad, CurrentUrl
<1>2. ~about_changed
    BY <1>1 DEF AboutChrome
<1>3. AboutIsCurrent'
    BY <1>1 DEF AboutIsCurrent
<1>4. CASE CurrentUrl \in AboutPages
  <2>1. load' = Nil /\ UNCHANGED <<current_abort, next_abort, abandoned>>
      BY <1>4 DEF RestartLoad
  <2>2. TabVarsTyped'
      BY <1>1, <1>4, <2>1 DEF TabVarsTyped
  <2>3. OnlyLatestSignal'
      BY <2>1 DEF OnlyLatestSignal
  <2>4. AboutChrome'
    <3>1. about' = CurrentUrl /\ about' # Nil
        BY <1>0, <1>1, <1>4
    <3>2. CASE about = CurrentUrl
        BY <1>1, <1>2, <2>1, <3>1, <3>2 DEF AboutChrome
    <3>3. CASE about # CurrentUrl
        BY <1>1, <2>1, <3>1, <3>3 DEF AboutChrome
    <3> QED
        BY <3>2, <3>3
  <2>5. LatestLoad'
      BY <1>1, <1>4 DEF LatestLoad
  <2> QED
      BY <1>3, <2>2, <2>3, <2>4, <2>5
<1>5. CASE CurrentUrl \notin AboutPages
  <2> DEFINE fresh == [url |-> CurrentUrl, signal |-> next_abort]
  <2>1. /\ load' = fresh
        /\ abandoned' = Aborted
        /\ current_abort' = next_abort /\ next_abort' = next_abort + 1
      BY <1>5 DEF RestartLoad
  <2>2. CurrentUrl \in Locations /\ next_abort \in Nat
      BY CurrentUrlTyped DEF TabVarsTyped
  <2>3. fresh \in Load /\ fresh # Nil /\ fresh.url = CurrentUrl /\ fresh.signal = next_abort
      BY <2>2, LoadsAssumption DEF Load
  <2> HIDE DEF fresh
  <2>4. /\ current_abort' \in 0..next_abort' - 1
        /\ abandoned' \subseteq 0..next_abort' - 1
        /\ 0 .. next_abort' - 1 \subseteq abandoned' \cup {current_abort'}
        /\ next_abort' \in Nat
      BY <2>1, <2>2, AbortedIsTyped
  <2>5. about' = Nil /\ about_changed' = FALSE
      BY <1>1, <1>5
  <2>6. TabVarsTyped'
      BY <1>1, <2>1, <2>3, <2>4, <2>5 DEF TabVarsTyped
  <2>7. OnlyLatestSignal'
      BY <2>4 DEF OnlyLatestSignal
  <2>8. AboutChrome'
      BY <2>5 DEF AboutChrome
  <2>9. LatestLoad'
      BY <1>1, <2>1, <2>3 DEF LatestLoad, OfThisEntry
  <2> QED
      BY <1>3, <2>6, <2>7, <2>8, <2>9
<1> QED
    BY <1>4, <1>5

LEMMA LoadDocumentKeepsTab ==
    ASSUME TabState, NEW is_error \in BOOLEAN, LoadDocument(is_error)
    PROVE  TabState'
<1> USE DEF TabState
<1> DEFINE value == [url |-> load.url, signal |-> load.signal, is_error |-> is_error]
<1>1. /\ load # Nil /\ load \in Load
      /\ loaded' = value /\ load' = Nil
      /\ UNCHANGED <<is_open, urls, current, changed, about, about_changed, document,
                     title, favicon, current_abort, next_abort, abandoned, probes>>
      /\ CurrentUrl' = CurrentUrl
    BY DEF LoadDocument, TabVarsTyped, CurrentUrl
<1>2. /\ value \in Loaded /\ value # Nil
      /\ value.url = load.url /\ value.signal = load.signal
    BY <1>1, LoadsAssumption DEF Load, Loaded
<1> HIDE DEF value
<1>3. TabVarsTyped'
    BY <1>1, <1>2 DEF TabVarsTyped
<1>4. AboutChrome'
    BY <1>1 DEF AboutChrome
<1>5. LatestLoad'
    BY <1>1, <1>2 DEF LatestLoad, OfThisEntry
<1> QED
    BY <1>1, <1>3, <1>4, <1>5 DEF OnlyLatestSignal, AboutIsCurrent

LEMMA ProbeKeepsTab ==
    ASSUME TabState, NEW p \in probes, ProbeEnds(p)
    PROVE  TabState'
<1> USE DEF TabState
<1>1. /\ UNCHANGED <<is_open, urls, current, changed, load, loaded, about, about_changed, document,
                     title, current_abort, next_abort, abandoned>>
      /\ CurrentUrl' = CurrentUrl
      /\ probes' = probes \ {p}
    BY DEF ProbeEnds, CurrentUrl
<1>2. favicon' \in Locations \cup {Nil}
    BY DEF ProbeEnds, ProbeFinds, TabVarsTyped, Probe
<1>3. TabVarsTyped'
    BY <1>1, <1>2 DEF TabVarsTyped
<1> QED
    BY <1>1, <1>3 DEF OnlyLatestSignal, AboutChrome, AboutIsCurrent, LatestLoad, OfThisEntry

(* The commit of a value: it is the document of this entry, unless another *)
(* load is on its way; and an about page has its chrome still to come.     *)
LEMMA CommitKeepsTab ==
    ASSUME TabState, HistoryInv, CommitLoadedDocument
    PROVE  TabState'
<1> USE DEF TabState
<1> DEFINE doc == [url |-> loaded.url, signal |-> loaded.signal]
<1>1. /\ ~changed /\ loaded # Nil /\ loaded \in Loaded
      /\ loaded' = Nil /\ document' = doc /\ title' = loaded.url /\ favicon' = Nil
      /\ UNCHANGED <<is_open, urls, current, changed, load, about, about_changed, current_abort,
                     next_abort, abandoned>>
      /\ CurrentUrl' = CurrentUrl
    BY DEF CommitLoadedDocument, Effect, TabVarsTyped, CurrentUrl
<1>2. doc \in Load /\ loaded.url \in Locations
    BY <1>1 DEF Load, Loaded
<1>3. probes' \subseteq Probe
  <2> DEFINE probe == [entry |-> VisitId(CurrentUrl), url |-> CurrentUrl, icon |-> loaded.url]
  <2>1. probe \in Probe
      BY <1>2, VisitIdTyped, CurrentUrlTyped DEF Probe
  <2>2. probes' \in {probes, probes \cup {probe}}
      BY DEF CommitLoadedDocument, Visit
  <2> HIDE DEF probe
  <2> QED
      BY <2>1, <2>2 DEF TabVarsTyped
<1>4. TabVarsTyped'
  <2> HIDE DEF doc
  <2> QED
      BY <1>1, <1>2, <1>3 DEF TabVarsTyped
<1>5. AboutChrome'
    BY <1>1 DEF AboutChrome
<1>6. LatestLoad'
    BY <1>1 DEF LatestLoad, OfThisEntry
<1> QED
    BY <1>1, <1>4, <1>5, <1>6 DEF OnlyLatestSignal, AboutIsCurrent

LEMMA CommitAboutKeepsTab ==
    ASSUME TabState, CommitAboutChrome
    PROVE  TabState'
<1> USE DEF TabState
<1>1. /\ loaded = Nil /\ about_changed /\ about_changed' = FALSE
      /\ title' = about /\ favicon' = Nil
      /\ UNCHANGED <<is_open, urls, current, changed, load, loaded, about, document, current_abort,
                     next_abort, abandoned, probes>>
      /\ CurrentUrl' = CurrentUrl
    BY DEF CommitAboutChrome, Effect, CurrentUrl
<1>2. about \in Locations \cup {Nil}
    BY TabAssumption DEF TabVarsTyped
<1>3. TabVarsTyped'
    BY <1>1, <1>2 DEF TabVarsTyped
<1>4. AboutChrome'
    BY <1>1 DEF AboutChrome
<1>5. LatestLoad'
  <2>1. about # Nil
      BY <1>1 DEF AboutChrome
  <2>2. is_open /\ ~changed => CurrentUrl \in AboutPages
      BY <2>1 DEF AboutIsCurrent
  <2> QED
      BY <1>1, <2>2 DEF LatestLoad
<1> QED
    BY <1>1, <1>3, <1>4, <1>5 DEF OnlyLatestSignal, AboutIsCurrent

LEMMA InitTabInv == TabInit => TabInv
<1> SUFFICES ASSUME TabInit PROVE TabInv
    OBVIOUS
<1>1. HistoryInv
    BY InitHistoryInv DEF TabInit
<1>2. urls \in Seq(Locations) /\ current \in 1..Len(urls)
    BY TabAssumption DEF TabInit, AboutPages
<1>3. TabVarsTyped
    BY <1>2 DEF TabInit, TabVarsTyped
<1>4. OnlyLatestSignal /\ AboutChrome /\ AboutIsCurrent /\ LatestLoad
    BY DEF TabInit, OnlyLatestSignal, AboutChrome, AboutIsCurrent, LatestLoad
<1> QED
    BY <1>1, <1>3, <1>4 DEF TabInv

LEMMA NextTabInv == TabInv /\ [TabStep]_tabVars => TabInv'
<1> SUFFICES ASSUME TabInv, [TabStep]_tabVars PROVE TabInv'
    OBVIOUS
<1>0. HistoryInv /\ TabState
    BY DEF TabInv, TabState
<1>1. CASE TabStep
  <2>1. HistoryInv'
      BY <1>0, <1>1, TabStepKeepsHistory DEF TabState
  <2>2. TabState'
      BY <1>0, <1>1, UserKeepsTab, RestartLoadKeepsTab, LoadDocumentKeepsTab, ProbeKeepsTab,
         CommitKeepsTab, CommitAboutKeepsTab DEF TabStep
  <2> QED
      BY <2>1, <2>2 DEF TabInv, TabState
<1>2. CASE UNCHANGED tabVars
  <2>1. HistoryInv'
      BY <1>0, <1>2 DEF tabVars, historyVars, HistoryInv, HistoryTypeOK, HistoryIsCapped
  <2>2. TabState'
      BY <1>0, <1>2 DEF tabVars, TabState, TabVarsTyped, OnlyLatestSignal, AboutChrome,
                        AboutIsCurrent, LatestLoad, CurrentUrl, OfThisEntry
  <2> QED
      BY <2>1, <2>2 DEF TabInv, TabState
<1> QED
    BY <1>1, <1>2

LEMMA TabInvariance == TabSpec => []TabInv
BY InitTabInv, NextTabInv, PTL DEF TabSpec

(* A tab's session, its signals and its probes keep their types, with the  *)
(* history that its commits are recorded in.                               *)
THEOREM TabIsTyped == TabSpec => []TabTypeOK
<1>1. TabInv => TabTypeOK
    BY DEF TabInv, TabVarsTyped, TabTypeOK, HistoryInv
<1> QED
    BY <1>1, TabInvariance, PTL

LEMMA StateIsConsistent == TabState => TabIsConsistent
<1> SUFFICES ASSUME TabState PROVE TabIsConsistent
    OBVIOUS
<1>1. ASSUME Settled PROVE title = CurrentUrl
  <2>1. CASE CurrentUrl \in AboutPages
    <3>1. about = CurrentUrl /\ about # Nil
        BY <1>1, <2>1, HistoryAssumption, TabAssumption DEF TabState, Settled, AboutIsCurrent
    <3> QED
        BY <1>1, <3>1 DEF TabState, Settled, AboutChrome
  <2>2. CASE CurrentUrl \notin AboutPages
      BY <1>1, <2>2 DEF TabState, Settled, LatestLoad
  <2> QED
      BY <2>1, <2>2
<1>2. Settled /\ CurrentUrl \notin AboutPages =>
          document = [url |-> CurrentUrl, signal |-> current_abort]
    BY DEF TabState, Settled, LatestLoad
<1> QED
    BY <1>1, <1>2 DEF TabIsConsistent, TabState, OnlyLatestSignal

(* However the user goes back and forth, reloads, closes and starts again, *)
(* and however late pages and probes answer: only the latest load may      *)
(* fetch, and a tab at rest shows what its history is at.                  *)
THEOREM TabStaysConsistent == TabSpec => []TabIsConsistent
<1>1. TabInv => TabIsConsistent
    BY StateIsConsistent DEF TabInv, TabState
<1> QED
    BY <1>1, TabInvariance, PTL

-----------------------------------------------------------------------------
(* A tab over the history, whose writes the pool makes.                    *)

AppStep == TabStep \/ (DiskStep /\ UNCHANGED tabOnlyVars)
AppSpec == TabInit /\ [][AppStep]_tabVars

(* A probe's visit is an entry of its URL, if it is still there.           *)
ProbesAreOfVisits ==
    \A p \in probes :
        /\ p.entry < next_id
        /\ \A i \in 1..Len(entries) : entries[i].id = p.entry => entries[i].url = p.url

AppInv == MirrorInv /\ TabState /\ ProbesAreOfVisits

LEMMA VisitFacts ==
    ASSUME MirrorInv, NEW url \in Locations, RecordVisit(url)
    PROVE  /\ next_id' = next_id + 1 /\ VisitId(url) \in Nat /\ VisitId(url) < next_id'
           /\ 1 \in 1..Len(entries') /\ entries'[1].id = VisitId(url) /\ entries'[1].url = url
           /\ \A i \in 1..Len(entries') :
                 i # 1 => \E j \in 1..Len(entries) : entries'[i] = entries[j]
<1>0. /\ Len(entries) \in Nat /\ now \in Nat /\ next_id \in Nat
      /\ \A i \in 1..Len(entries) : entries[i] \in Entry /\ entries[i].id \in Nat
      /\ Len(entries) <= MAX_HISTORY_ENTRIES
    BY MirrorFacts
<1>1. PICK time \in {now, now + 1} :
          entries' = Recorded([id |-> next_id, url |-> url, icon |-> Nil, visited_at |-> time])
    BY DEF RecordVisit
<1> DEFINE x == [id |-> next_id, url |-> url, icon |-> Nil, visited_at |-> time]
<1>2. x \in Entry /\ x.url = url /\ x.id = next_id
    BY <1>0, <1>1 DEF Entry, Icons
<1>3. entries' = Recorded(x) /\ next_id' = next_id + 1
    BY <1>1 DEF RecordVisit
<1> HIDE DEF x
<1>4. /\ entries' \in Seq(Entry) /\ Len(entries') > 0
      /\ entries'[1] = IF Folds(url) THEN [x EXCEPT !.id = entries[1].id] ELSE x
      /\ Folds(url) <=> IsFirst(entries, url)
      /\ Folds(url) =>
            Len(entries') = Len(entries) /\ \A i \in 2..Len(entries') : entries'[i] = entries[i]
      /\ ~Folds(url) =>
            /\ Len(entries') = IF Len(entries) < MAX_HISTORY_ENTRIES
                               THEN Len(entries) + 1 ELSE Len(entries)
            /\ \A i \in 2..Len(entries') : entries'[i] = entries[i - 1]
    BY <1>2, <1>3, RecordedFacts
<1>5. Len(entries') \in Nat
    BY <1>4
<1>6. ASSUME NEW i \in 1..Len(entries'), i # 1
      PROVE  \E j \in 1..Len(entries) : entries'[i] = entries[j]
  <2>1. i \in 2..Len(entries')
      BY <1>5, <1>6
  <2>2. CASE Folds(url)
      BY <1>0, <1>4, <2>1, <2>2
  <2>3. CASE ~Folds(url)
    <3>1. Len(entries') <= Len(entries) + 1
        BY <1>0, <1>4, <2>3
    <3>2. i - 1 \in 1..Len(entries)
        BY <1>0, <1>5, <2>1, <3>1
    <3> QED
        BY <1>4, <2>1, <2>3, <3>2
  <2> QED
      BY <2>2, <2>3
<1>7. entries'[1].id = VisitId(url) /\ entries'[1].url = url
    BY <1>2, <1>4 DEF VisitId, Entry
<1>8. VisitId(url) \in Nat /\ VisitId(url) < next_id'
  <2>1. CASE Folds(url)
    <3>1. 1 \in 1..Len(entries)
        BY <1>0, <1>4, <2>1 DEF IsFirst
    <3>2. entries[1].id < next_id
        BY <3>1 DEF MirrorInv, IdsDiffer
    <3> QED
        BY <1>0, <1>3, <2>1, <3>1, <3>2 DEF VisitId
  <2>2. CASE ~Folds(url)
      BY <1>0, <1>3, <2>2 DEF VisitId
  <2> QED
      BY <2>1, <2>2
<1> QED
    BY <1>3, <1>4, <1>5, <1>6, <1>7, <1>8

(* The commit of a page: its probe is of the visit that is recorded.       *)
LEMMA VisitKeepsProbes ==
    ASSUME MirrorInv, TabVarsTyped, ProbesAreOfVisits, Visit
    PROVE  MirrorInv' /\ ProbesAreOfVisits'
<1> DEFINE probe == [entry |-> VisitId(CurrentUrl), url |-> CurrentUrl, icon |-> loaded.url]
<1>0. CurrentUrl \in Locations /\ RecordVisit(CurrentUrl)
    BY CurrentUrlTyped DEF Visit
<1>1. MirrorInv'
    BY <1>0, RecordVisitKeepsMirror
<1>2. /\ next_id' = next_id + 1 /\ VisitId(CurrentUrl) < next_id'
      /\ 1 \in 1..Len(entries')
      /\ entries'[1].id = VisitId(CurrentUrl) /\ entries'[1].url = CurrentUrl
      /\ \A i \in 1..Len(entries') :
            i # 1 => \E j \in 1..Len(entries) : entries'[i] = entries[j]
    BY <1>0, VisitFacts
<1>3. next_id \in Nat /\ \A p \in probes : p.entry \in Nat
    BY MirrorFacts DEF TabVarsTyped, Probe
<1>4. ASSUME NEW p \in probes
      PROVE  /\ p.entry < next_id'
             /\ \A i \in 1..Len(entries') : entries'[i].id = p.entry => entries'[i].url = p.url
  <2>1. p.entry < next_id
      BY DEF ProbesAreOfVisits
  <2>2. ASSUME NEW i \in 1..Len(entries'), entries'[i].id = p.entry
        PROVE  entries'[i].url = p.url
    <3>1. CASE i = 1
      <4>1. VisitId(CurrentUrl) # next_id
          BY <1>2, <1>3, <2>1, <2>2, <3>1
      <4>2. Folds(CurrentUrl) /\ entries[1].id = p.entry /\ entries[1].url = CurrentUrl
          BY <1>2, <2>2, <3>1, <4>1 DEF VisitId, Folds
      <4>3. 1 \in 1..Len(entries)
          BY <4>2, MirrorFacts DEF Folds
      <4> QED
          BY <1>2, <3>1, <4>2, <4>3 DEF ProbesAreOfVisits
    <3>2. CASE i # 1
        BY <1>2, <2>2, <3>2 DEF ProbesAreOfVisits
    <3> QED
        BY <3>1, <3>2
  <2> QED
      BY <1>2, <1>3, <2>1, <2>2
<1>5. probe.entry = VisitId(CurrentUrl) /\ probe.url = CurrentUrl
    OBVIOUS
<1>6. probes' \in {probes, probes \cup {probe}}
    BY DEF Visit
<1> HIDE DEF probe
<1>7. /\ probe.entry < next_id'
      /\ \A i \in 1..Len(entries') : entries'[i].id = probe.entry => entries'[i].url = probe.url
    BY <1>1, <1>2, <1>5 DEF MirrorInv, IdsDiffer
<1> QED
    BY <1>1, <1>4, <1>6, <1>7 DEF ProbesAreOfVisits

(* Nothing else touches the ids, the URLs or the probes.                   *)
LEMMA SameVisits ==
    ASSUME MirrorInv, ProbesAreOfVisits, probes' \subseteq probes, next_id' = next_id,
           Len(entries') = Len(entries),
           \A i \in 1..Len(entries) :
               entries'[i].id = entries[i].id /\ entries'[i].url = entries[i].url
    PROVE  ProbesAreOfVisits'
BY DEF ProbesAreOfVisits

LEMMA MirrorUnchanged ==
    ASSUME MirrorInv, UNCHANGED historyVars
    PROVE  MirrorInv'
BY NextMirrorInv

LEMMA ProbeKeepsProbes ==
    ASSUME MirrorInv, TabVarsTyped, ProbesAreOfVisits, NEW p \in probes, ProbeEnds(p)
    PROVE  MirrorInv' /\ ProbesAreOfVisits'
<1>0. p \in Probe /\ probes' \subseteq probes
    BY DEF TabVarsTyped, ProbeEnds
<1>1. CASE ProbeFinds(p)
  <2>1. SetFavicon(p.entry, p.url, p.icon) /\ p.url \in Locations /\ p.icon \in Locations
      BY <1>0, <1>1 DEF ProbeFinds, Probe
  <2>2. \A i \in 1..Len(entries) : entries[i].id = p.entry => entries[i].url = p.url
      BY DEF ProbesAreOfVisits
  <2>3. MirrorInv'
      BY <2>1, <2>2, SetFaviconKeepsMirror
  <2>4. \A i \in 1..Len(entries) : entries[i] \in Entry
      BY MirrorFacts
  <2>5. /\ DOMAIN entries = 1..Len(entries) /\ DOMAIN entries' = DOMAIN entries
        /\ entries' \in Seq(Entry) /\ entries \in Seq(Entry)
      BY <2>1, <2>3, MirrorFacts DEF SetFavicon, MirrorInv, HistoryInv, HistoryTypeOK
  <2>6. Len(entries') = Len(entries)
      BY <2>5
  <2>7. \A i \in 1..Len(entries) :
            entries'[i].id = entries[i].id /\ entries'[i].url = entries[i].url
      BY <2>1, <2>4, <2>5 DEF SetFavicon, Entry
  <2>8. next_id' = next_id
      BY <2>1 DEF SetFavicon
  <2> QED
      BY <1>0, <2>3, <2>6, <2>7, <2>8, SameVisits
<1>2. CASE UNCHANGED historyVars
    BY <1>0, <1>2, MirrorUnchanged, SameVisits DEF historyVars
<1> QED
    BY <1>1, <1>2 DEF ProbeEnds

LEMMA UserKeepsProbes ==
    ASSUME MirrorInv, ProbesAreOfVisits, UserActs
    PROVE  MirrorInv' /\ ProbesAreOfVisits'
<1>1. CASE RestartApp
    BY <1>1, RestartKeepsMirror DEF RestartApp, NewTab, ProbesAreOfVisits
<1>2. CASE ClickClear
  <2>1. ClearHistory /\ probes' = probes /\ next_id' = next_id
      BY <1>2 DEF ClickClear, Handler, ClearHistory
  <2>2. Len(entries') = 0
      BY <2>1 DEF ClearHistory
  <2> QED
      BY <2>1, <2>2, ClearKeepsMirror DEF ProbesAreOfVisits
<1>3. CASE GoBack \/ GoForward \/ Reload \/ CloseTab \/ \E url \in Locations : Navigate(url)
  <2>1. UNCHANGED historyVars /\ probes' \subseteq probes
      BY <1>3 DEF Navigate, GoBack, GoForward, Reload, CloseTab, SessionChanges, Handler
  <2> QED
      BY <2>1, MirrorUnchanged, SameVisits DEF historyVars
<1> QED
    BY <1>1, <1>2, <1>3 DEF UserActs

LEMMA InitAppInv == TabInit => AppInv
<1>1. TabInit => TabState /\ HistoryInit /\ probes = {}
    BY InitTabInv DEF TabInv, TabState, TabInit
<1> QED
    BY <1>1, InitMirrorInv DEF AppInv, ProbesAreOfVisits

LEMMA NextAppInv == AppInv /\ [AppStep]_tabVars => AppInv'
<1> SUFFICES ASSUME AppInv, [AppStep]_tabVars PROVE AppInv'
    OBVIOUS
<1>0. MirrorInv /\ HistoryInv /\ TabState /\ TabVarsTyped /\ ProbesAreOfVisits
    BY DEF AppInv, MirrorInv, TabState
<1>1. CASE TabStep
  <2>1. TabState'
      BY <1>0, <1>1, NextTabInv DEF TabInv, TabState
  <2>2. MirrorInv' /\ ProbesAreOfVisits'
    <3>1. ASSUME UNCHANGED <<historyVars, probes>> PROVE MirrorInv' /\ ProbesAreOfVisits'
        BY <1>0, <3>1, MirrorUnchanged, SameVisits DEF historyVars
    <3>2. CASE UserActs
        BY <1>0, <3>2, UserKeepsProbes
    <3>3. CASE RestartLoad \/ (\E is_error \in BOOLEAN : LoadDocument(is_error)) \/ CommitAboutChrome
        BY <3>1, <3>3 DEF RestartLoad, LoadDocument, CommitAboutChrome
    <3>4. ASSUME NEW p \in probes, ProbeEnds(p) PROVE MirrorInv' /\ ProbesAreOfVisits'
        BY <1>0, <3>4, ProbeKeepsProbes
    <3>5. CASE CommitLoadedDocument
        BY <1>0, <3>1, <3>5, VisitKeepsProbes DEF CommitLoadedDocument
    <3> QED
        BY <1>1, <3>2, <3>3, <3>4, <3>5 DEF TabStep
  <2> QED
      BY <2>1, <2>2 DEF AppInv
<1>2. CASE DiskStep /\ UNCHANGED tabOnlyVars
  <2>1. MirrorInv'
      BY <1>0, <1>2, DiskStepKeepsMirror
  <2>2. entries' = entries /\ next_id' = next_id
      BY <1>2 DEF DiskStep, MakeWrite, WriteFails
  <2>3. ProbesAreOfVisits'
      BY <1>0, <1>2, <2>2 DEF tabOnlyVars, ProbesAreOfVisits
  <2>4. TabState'
      BY <1>0, <1>2 DEF tabOnlyVars, TabState, TabVarsTyped, OnlyLatestSignal, AboutChrome,
                        AboutIsCurrent, LatestLoad, CurrentUrl, OfThisEntry
  <2> QED
      BY <2>1, <2>3, <2>4 DEF AppInv
<1>3. CASE UNCHANGED tabVars
  <2>1. TabState'
      BY <1>0, <1>3, NextTabInv DEF TabInv, TabState
  <2>2. MirrorInv' /\ ProbesAreOfVisits'
      BY <1>0, <1>3, MirrorUnchanged, SameVisits DEF tabVars, historyVars
  <2> QED
      BY <2>1, <2>2 DEF AppInv
<1> QED
    BY <1>1, <1>2, <1>3 DEF AppStep

(* The changes that a tab makes are such as the history allows: a late     *)
(* probe names the visit its page was recorded as, and not what came       *)
(* after it under the same id; so the disk mirrors the history under a tab *)
(* and the pool of threads together, and the tab stays consistent.         *)
THEOREM AppKeepsItsHistory == AppSpec => [](HistoryIsMirrored /\ TabIsConsistent)
<1>1. AppInv => HistoryIsMirrored /\ TabIsConsistent
    BY MirrorIsMirrored, StateIsConsistent DEF AppInv
<1> QED
    BY <1>1, InitAppInv, NextAppInv, PTL DEF AppSpec

-----------------------------------------------------------------------------
(* Frames, a tab and the history as MCNavigation puts them side by side.   *)

(* Where the history goes its own way, the tab has no probe under way.     *)
NavigationInv == AppInv /\ (scenario = "history" => probes = {})

LEMMA HistoryLeavesTab ==
    ASSUME NavigationInv, HistoryStep, UNCHANGED tabOnlyVars, probes = {}
    PROVE  AppInv'
<1>1. MirrorInv /\ TabState
    BY DEF NavigationInv, AppInv
<1>2. MirrorInv'
    BY <1>1, NextMirrorInv
<1>3. TabState'
    BY <1>1 DEF tabOnlyVars, TabState, TabVarsTyped, OnlyLatestSignal, AboutChrome,
                AboutIsCurrent, LatestLoad, CurrentUrl, OfThisEntry
<1>4. ProbesAreOfVisits'
    BY DEF tabOnlyVars, ProbesAreOfVisits
<1> QED
    BY <1>2, <1>3, <1>4 DEF AppInv

LEMMA InitNavigation == Init => NavigationInv
BY InitAppInv DEF Init, TabInit, NavigationInv

LEMMA NextNavigation == NavigationInv /\ [Next]_vars => NavigationInv'
<1> SUFFICES ASSUME NavigationInv, [Next]_vars PROVE NavigationInv'
    OBVIOUS
<1>0. AppInv /\ (scenario = "history" => probes = {})
    BY DEF NavigationInv
<1>1. scenario' = scenario
    BY DEF Next, vars
<1>2. CASE scenario = "frames" /\ FramesNext /\ UNCHANGED tabVars
  <2>1. AppInv'
      BY <1>0, <1>2, NextAppInv
  <2> QED
      BY <1>1, <1>2, <2>1 DEF NavigationInv
<1>3. CASE scenario = "tab" /\ TabStep /\ now' = now /\ UNCHANGED framesVars
  <2>1. AppInv'
      BY <1>0, <1>3, NextAppInv DEF AppStep
  <2> QED
      BY <1>1, <1>3, <2>1 DEF NavigationInv
<1>4. CASE scenario = "history" /\ HistoryStep /\ UNCHANGED <<framesVars, tabOnlyVars>>
  <2>1. AppInv' /\ probes' = probes
      BY <1>0, <1>4, HistoryLeavesTab DEF tabOnlyVars
  <2> QED
      BY <1>0, <1>4, <2>1 DEF NavigationInv
<1>5. CASE UNCHANGED vars
  <2>1. UNCHANGED tabVars
      BY <1>5 DEF vars
  <2>2. AppInv' /\ probes' = probes
      BY <1>0, <2>1, NextAppInv DEF tabVars
  <2> QED
      BY <1>0, <1>1, <2>2 DEF NavigationInv
<1> QED
    BY <1>2, <1>3, <1>4, <1>5 DEF Next

LEMMA NavigationInvariance == Spec => []NavigationInv
BY InitNavigation, NextNavigation, PTL DEF Spec

LEMMA NavigationHasFrames == Spec => FramesSpec
<1>1. Init => FramesInit
    BY DEF Init
<1>2. [Next]_vars => [FramesNext]_framesVars
    BY DEF Next, vars
<1> QED
    BY <1>1, <1>2, PTL DEF Spec, FramesSpec

(* Frames, tab and history keep their types, whichever of them moves       *)
(* (iframe.rs:99-185, tab.rs:85-250, browser_history.rs:57-170).           *)
THEOREM NavigationIsTyped == Spec => []TypeOK
<1>1. NavigationInv => TabTypeOK
    BY DEF NavigationInv, AppInv, MirrorInv, HistoryInv, TabState, TabVarsTyped, TabTypeOK
<1>2. FramesTypeOK /\ TabTypeOK => TypeOK
    BY DEF TypeOK
<1> QED
    BY <1>1, <1>2, NavigationInvariance, NavigationHasFrames, FramesAreTyped, PTL

(* What is shown of frames, of a tab and of the history holds of the three *)
(* side by side: a tab that commits visits and icons leaves the history    *)
(* mirrored, and a history that other tabs change leaves the tab           *)
(* consistent (tab.rs:131-190).                                            *)
THEOREM NavigationStaysConsistent ==
    Spec => [](FramesAreConsistent /\ TabIsConsistent /\ HistoryIsMirrored)
<1>1. NavigationInv => TabIsConsistent /\ HistoryIsMirrored
    BY StateIsConsistent, MirrorIsMirrored DEF NavigationInv, AppInv
<1> QED
    BY <1>1, NavigationInvariance, NavigationHasFrames, FramesStayConsistent, PTL
=============================================================================
