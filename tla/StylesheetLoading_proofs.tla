------------------------ MODULE StylesheetLoading_proofs ------------------------
(***************************************************************************)
(* Proofs about stylesheet loading, for every set of links and URLs, every *)
(* redirect and any number of requests: its requests follow the protocol   *)
(* of ResourceRequests; the document awaits exactly the loads of <head>    *)
(* links that are still to be answered; so no styles are computed while    *)
(* one of them is on its way.                                              *)
(*                                                                         *)
(* The invariant adds to the claim that ids are answered once (from the    *)
(* protocol), that an id the document has filed is below the counter, and  *)
(* that every message answers a request.                                   *)
(*                                                                         *)
(* The cascade is what the elements own (second half): the places that     *)
(* sheets are inserted at and removed from keep it in their order, and a   *)
(* sheet's id is of an answered request, so that it is in no other place.  *)
(***************************************************************************)
EXTENDS StylesheetLoading, ResourceRequests_proofs, WellFoundedInduction

LinksTyped ==
    /\ href \in [Nodes -> Option(Urls)]
    /\ \A msg \in Messages : msg.id # None
    /\ \A id \in blocking : id \in Nat /\ id < next_request

IInv ==
    /\ RequestsInv
    /\ LinksTyped
    /\ CriticalRequestsAreOutstanding

-----------------------------------------------------------------------------
(* Every step is a step of the protocol, or leaves the requests alone.     *)
LEMMA LoadIsMayFetch ==
    ASSUME LinksTyped, NEW n \in Nodes, NEW is_sheet, NEW url \in Option(Urls), NEW where,
           LoadLinkedStylesheet(n, is_sheet, url, where), redraw' = redraw
    PROVE  MayFetch
<1>1. {n} \in SUBSET Option(Nodes)
    BY DEF Option
<1>2. NoFetch \/ (url \in Urls /\ Fetch({n}, url))
    BY DEF LoadLinkedStylesheet, Option
<1>3. redraw' \in {redraw, TRUE}
    OBVIOUS
<1> QED
    BY <1>1, <1>2, <1>3 DEF MayFetch

LEMMA ScriptIsRunScript == LinksTyped /\ Script => RunScript
<1> SUFFICES ASSUME LinksTyped, Script PROVE RunScript
    OBVIOUS
<1>0. ~resolving /\ UNCHANGED <<signalling, channel, redraw, resolving, rooted>>
    BY DEF Script, SetHref, SetRel, SetAttributes, ClearHref, Insert, Move, RemoveNode,
           DropNode, Leave, ReloadByHref, Scripting
<1>1. ASSUME NEW n \in Nodes, NEW is_sheet, NEW url \in Option(Urls),
             SetAttributes(n, is_sheet, url)
      PROVE  MayFetch
  <2>1. CASE InDocument(n)
      BY <1>0, <1>1, <2>1, LoadIsMayFetch DEF SetAttributes
  <2>2. CASE ~InDocument(n)
      BY <1>0, <1>1, <2>2 DEF SetAttributes, NoLoad, MayFetch
  <2> QED
      BY <2>1, <2>2
<1>2. ASSUME NEW n \in Nodes, NEW url \in Urls, SetHref(n, url) PROVE MayFetch
    BY <1>1, <1>2 DEF SetHref, Option
<1>3. ASSUME NEW n \in Nodes, NEW is_sheet \in BOOLEAN, SetRel(n, is_sheet) PROVE MayFetch
    BY <1>1, <1>3 DEF SetRel, LinksTyped
<1>4. ASSUME NEW n \in Nodes, NEW where \in {"head", "body"}, Insert(n, where)
      PROVE  MayFetch
    BY <1>0, <1>4, LoadIsMayFetch DEF Insert, LinksTyped
<1>5. ASSUME NEW n \in Nodes, NEW where,
             ClearHref(n) \/ Move(n, where) \/ RemoveNode(n) \/ DropNode(n)
      PROVE  MayFetch
    BY <1>0, <1>5 DEF ClearHref, Move, RemoveNode, DropNode, Leave, NoLoad, MayFetch
<1>6. ASSUME NEW url \in Urls, ReloadByHref(url) PROVE MayFetch
  <2>1. PICK S \in SUBSET Nodes : Fetch(S, url)
      BY <1>6 DEF ReloadByHref, Styled
  <2> QED
      BY <1>0, <2>1 DEF MayFetch, Option
<1>7. MayFetch
    BY <1>2, <1>3, <1>4, <1>5, <1>6 DEF Script
<1> QED
    BY <1>0, <1>7 DEF RunScript

LEMMA StepImplementsRequests ==
    LinksTyped /\ [Next]_vars => [RequestsNext]_requestVars
<1> SUFFICES ASSUME LinksTyped, [Next]_vars PROVE [RequestsNext]_requestVars
    OBVIOUS
<1>1. CASE Provider
    BY <1>1 DEF RequestsNext
<1>2. CASE Script
    BY <1>2, ScriptIsRunScript DEF RequestsNext
<1>3. CASE StartResolve \/ MoveRoot
    BY <1>3 DEF StartResolve, MoveRoot, RequestsNext
<1>4. CASE LoadResource
    BY <1>4 DEF LoadResource, RequestsNext, MayFetch
<1>5. CASE EndResolve
    BY <1>5 DEF EndResolve, RequestsNext
<1>6. CASE UNCHANGED vars
    BY <1>6 DEF vars
<1> QED
    BY <1>1, <1>2, <1>3, <1>4, <1>5, <1>6 DEF Next

-----------------------------------------------------------------------------
(* What the steps do to the requests that are outstanding.                 *)

LEMMA AnswerKeepsOutstanding ==
    ASSUME RequestsInv, LinksTyped, NEW q \in inflight, NEW url \in Urls, NEW ok \in BOOLEAN,
           Respond(q, url, ok)
    PROVE  /\ Outstanding' = Outstanding
           /\ \A msg \in Messages' : msg.id # None
<1> DEFINE msg == [id |-> q.id, node |-> q.node, url |-> url, ok |-> ok]
<1>1. msg \in Message /\ msg.id = q.id /\ q.id \in Nat /\ q.id # None
    BY RequestsAssumption DEF RequestsInv, RequestsTypeOK, Request, Message, Option
<1>2. inflight' = inflight \ {q} /\ channel' = Append(channel, msg)
    BY DEF Respond, Send
<1> HIDE DEF msg
<1>3. Messages' = Messages \cup {msg}
    BY <1>1, <1>2, AppendedMessages DEF RequestsInv, RequestsTypeOK
<1>4. \A p \in inflight : p.id = q.id => p = q
    BY DEF RequestsInv, AnsweredOnce
<1>5. Outstanding' = Outstanding
    BY <1>1, <1>2, <1>3 DEF Outstanding
<1> QED
    BY <1>1, <1>3, <1>5 DEF LinksTyped

LEMMA ProviderKeepsOutstanding ==
    ASSUME RequestsInv, LinksTyped, Provider
    PROVE  /\ Outstanding' = Outstanding
           /\ next_request' = next_request
           /\ \A msg \in Messages' : msg.id # None
<1>1. ASSUME NEW q \in inflight, BytesArrive(q) \/ FetchFails(q) \/ DropHandler(q)
      PROVE  /\ Outstanding' = Outstanding
             /\ next_request' = next_request
             /\ \A msg \in Messages' : msg.id # None
  <2>1. q.url \in Urls /\ FinalUrl[q.url] \in Urls
      BY RequestsAssumption DEF RequestsInv, RequestsTypeOK, Request
  <2>2. PICK url \in Urls, ok \in BOOLEAN : Respond(q, url, ok)
      BY <1>1, <2>1 DEF BytesArrive, FetchFails, DropHandler, RequestUrl
  <2>3. next_request' = next_request
      BY <2>2 DEF Respond
  <2> QED
      BY <2>2, <2>3, AnswerKeepsOutstanding
<1>2. ASSUME NEW id \in signalling, RequestRedraw(id)
      PROVE  /\ Outstanding' = Outstanding
             /\ next_request' = next_request
             /\ \A msg \in Messages' : msg.id # None
    BY <1>2 DEF RequestRedraw, Outstanding, Messages, LinksTyped
<1> QED
    BY <1>1, <1>2 DEF Provider

(* A message that is taken was the last of its request.                    *)
LEMMA TakeEndsRequest ==
    ASSUME RequestsInv, LinksTyped, TakeMessage, NoFetch
    PROVE  /\ Outstanding' = Outstanding \ {Head(channel).id}
           /\ \A msg \in Messages' : msg.id # None
<1> DEFINE first == Head(channel)
<1>1. /\ first \in Messages
      /\ Messages' \subseteq Messages
      /\ \A msg \in Messages : msg = first \/ msg \in Messages'
      /\ first.id # None => \A msg \in Messages' : msg.id # first.id
    BY RestOfChannel
<1> HIDE DEF first
<1>2. first.id # None /\ inflight' = inflight
    BY <1>1 DEF LinksTyped, NoFetch
<1>3. \A q \in inflight : q.id # first.id
    BY <1>1 DEF RequestsInv, AnsweredOnce
<1>4. Outstanding' = Outstanding \ {first.id}
    BY <1>1, <1>2, <1>3 DEF Outstanding
<1> QED
    BY <1>1, <1>4 DEF LinksTyped, first

(* A fetch makes new ids outstanding, and no others.                       *)
LEMMA FetchAddsNewIds ==
    ASSUME RequestsInv, NEW S \in SUBSET Option(Nodes), NEW url \in Urls, Fetch(S, url),
           channel' = channel
    PROVE  /\ Outstanding \subseteq Outstanding'
           /\ \A id \in Outstanding' : id \in Outstanding \/ id >= next_request
<1>1. \A q \in inflight' : q \in inflight \/ q.id >= next_request
    BY FetchKeepsIds DEF RequestsInv
<1>2. inflight \subseteq inflight'
    BY DEF Fetch
<1>3. Messages' = Messages
    BY DEF Messages
<1> QED
    BY <1>1, <1>2, <1>3 DEF Outstanding

-----------------------------------------------------------------------------
(* What the document has filed: ids below the counter, and, unless the     *)
(* main thread has died, awaited exactly while they are outstanding.       *)
Filed ==
    /\ \A id \in blocking : id \in Nat /\ id < next_request
    /\ CriticalRequestsAreOutstanding

LEMMA InitIInv == Init => IInv
<1> SUFFICES ASSUME Init PROVE IInv
    OBVIOUS
<1>1. RequestsInv
    BY InitRequestsInv DEF Init
<1>2. LinksTyped
    BY DEF Init, RequestsInit, LinksTyped, Messages, Option
<1>3. CriticalRequestsAreOutstanding
    BY DEF Init, CriticalRequestsAreOutstanding
<1> QED
    BY <1>1, <1>2, <1>3 DEF IInv

(* Starting a load, or not.                                                *)
LEMMA LoadKeepsFiled ==
    ASSUME IInv, panicked = "no", channel' = channel,
           NEW n \in Nodes, NEW is_sheet, NEW url \in Option(Urls), NEW where,
           LoadLinkedStylesheet(n, is_sheet, url, where)
    PROVE  Filed'
<1> USE DEF IInv
<1>1. CASE is_sheet /\ url # None
  <2>1. url \in Urls /\ Fetch({n}, url)
      BY <1>1 DEF LoadLinkedStylesheet, Option
  <2>2. /\ next_request \in Nat
        /\ next_request' = next_request + 1
        /\ inflight' = inflight \cup {[id |-> next_request, node |-> n, url |-> url]}
      BY <2>1, FetchOne DEF RequestsInv
  <2>3. Outstanding' = Outstanding \cup {next_request}
    <3>1. Messages' = Messages
        BY DEF Messages
    <3>2. {q.id : q \in inflight'} = {q.id : q \in inflight} \cup {next_request}
      <4> DEFINE request == [id |-> next_request, node |-> n, url |-> url]
      <4>1. request.id = next_request /\ inflight' = inflight \cup {request}
          BY <2>2
      <4> HIDE DEF request
      <4> QED
          BY <4>1
    <3> QED
        BY <3>1, <3>2 DEF Outstanding
  <2>4. next_request \notin blocking
      BY <2>2 DEF LinksTyped
  <2>5. pending_critical_resources = blocking \cap Outstanding
      BY DEF CriticalRequestsAreOutstanding
  <2>6. CASE where = "head"
    <3>1. /\ pending_critical_resources' = pending_critical_resources \cup {next_request}
          /\ blocking' = blocking \cup {next_request}
        BY <1>1, <2>6 DEF LoadLinkedStylesheet, IsInHead
    <3>2. pending_critical_resources' = blocking' \cap Outstanding'
        BY <2>3, <2>5, <3>1
    <3>3. \A id \in blocking' : id \in Nat /\ id < next_request'
        BY <2>2, <3>1 DEF LinksTyped
    <3> QED
        BY <3>2, <3>3 DEF Filed, CriticalRequestsAreOutstanding
  <2>7. CASE where # "head"
    <3>1. pending_critical_resources' = pending_critical_resources /\ blocking' = blocking
        BY <1>1, <2>7 DEF LoadLinkedStylesheet, IsInHead
    <3> QED
        BY <2>2, <2>3, <2>4, <2>5, <3>1 DEF Filed, LinksTyped, CriticalRequestsAreOutstanding
  <2> QED
      BY <2>6, <2>7
<1>2. CASE ~(is_sheet /\ url # None)
  <2>1. NoFetch /\ UNCHANGED <<pending_critical_resources, blocking>>
      BY <1>2 DEF LoadLinkedStylesheet
  <2>2. Outstanding' = Outstanding /\ next_request' = next_request
      BY <2>1 DEF NoFetch, Outstanding, Messages
  <2> QED
      BY <2>1, <2>2 DEF Filed, LinksTyped, CriticalRequestsAreOutstanding
<1> QED
    BY <1>1, <1>2

LEMMA NoLoadKeepsFiled ==
    ASSUME IInv, panicked = "no", channel' = channel, NoLoad
    PROVE  Filed'
<1>1. Outstanding' = Outstanding /\ next_request' = next_request
    BY DEF NoLoad, NoFetch, Outstanding, Messages
<1> QED
    BY <1>1 DEF NoLoad, IInv, Filed, LinksTyped, CriticalRequestsAreOutstanding

LEMMA ReloadKeepsFiled ==
    ASSUME IInv, panicked = "no", channel' = channel, NEW url \in Urls, ReloadByHref(url)
    PROVE  Filed'
<1>1. PICK S \in SUBSET Nodes : Fetch(S, url)
    BY DEF ReloadByHref, Styled
<1>2. S \in SUBSET Option(Nodes)
    BY <1>1 DEF Option
<1>3. /\ Outstanding \subseteq Outstanding'
      /\ \A id \in Outstanding' : id \in Outstanding \/ id >= next_request
    BY <1>1, <1>2, FetchAddsNewIds DEF IInv
<1>4. next_request' >= next_request /\ next_request' \in Nat /\ next_request \in Nat
    BY <1>1, <1>2, FetchKeepsIds DEF IInv, RequestsInv, RequestsTypeOK
<1>5. pending_critical_resources' = pending_critical_resources /\ blocking' = blocking
    BY DEF ReloadByHref
<1>6. blocking \cap Outstanding' = blocking \cap Outstanding
    BY <1>3, <1>4 DEF IInv, LinksTyped
<1> QED
    BY <1>4, <1>5, <1>6 DEF IInv, Filed, LinksTyped, CriticalRequestsAreOutstanding

LEMMA ScriptKeepsFiled ==
    ASSUME IInv, Script
    PROVE  /\ Filed'
           /\ href' \in [Nodes -> Option(Urls)]
           /\ Messages' = Messages
<1>0. panicked = "no" /\ channel' = channel
    BY DEF Script, SetHref, SetRel, SetAttributes, ClearHref, Insert, Move, RemoveNode,
           DropNode, Leave, ReloadByHref, Scripting
<1>1. ASSUME NEW n \in Nodes, NEW is_sheet, NEW url \in Option(Urls),
             SetAttributes(n, is_sheet, url)
      PROVE  Filed' /\ href' \in [Nodes -> Option(Urls)]
  <2>1. CASE InDocument(n)
      BY <1>0, <1>1, <2>1, LoadKeepsFiled DEF SetAttributes, IInv, LinksTyped
  <2>2. CASE ~InDocument(n)
      BY <1>0, <1>1, <2>2, NoLoadKeepsFiled DEF SetAttributes, IInv, LinksTyped
  <2> QED
      BY <2>1, <2>2
<1>2. ASSUME NEW n \in Nodes, NEW url \in Urls, SetHref(n, url)
      PROVE  Filed' /\ href' \in [Nodes -> Option(Urls)]
    BY <1>1, <1>2 DEF SetHref, Option
<1>3. ASSUME NEW n \in Nodes, NEW is_sheet \in BOOLEAN, SetRel(n, is_sheet)
      PROVE  Filed' /\ href' \in [Nodes -> Option(Urls)]
    BY <1>1, <1>3 DEF SetRel, IInv, LinksTyped
<1>4. ASSUME NEW n \in Nodes, NEW where \in {"head", "body"}, Insert(n, where)
      PROVE  Filed' /\ href' \in [Nodes -> Option(Urls)]
    BY <1>0, <1>4, LoadKeepsFiled DEF Insert, IInv, LinksTyped
<1>5. ASSUME NEW n \in Nodes, ClearHref(n)
      PROVE  Filed' /\ href' \in [Nodes -> Option(Urls)]
    BY <1>0, <1>5, NoLoadKeepsFiled DEF ClearHref, IInv, LinksTyped, Option
<1>6. ASSUME NEW n \in Nodes, NEW where, Move(n, where) \/ RemoveNode(n) \/ DropNode(n)
      PROVE  Filed' /\ href' \in [Nodes -> Option(Urls)]
    BY <1>0, <1>6, NoLoadKeepsFiled DEF Move, RemoveNode, DropNode, Leave, IInv, LinksTyped
<1>7. ASSUME NEW url \in Urls, ReloadByHref(url)
      PROVE  Filed' /\ href' \in [Nodes -> Option(Urls)]
    BY <1>0, <1>7, ReloadKeepsFiled DEF ReloadByHref, IInv, LinksTyped
<1>8. Messages' = Messages
    BY <1>0 DEF Messages
<1> QED
    BY <1>2, <1>3, <1>4, <1>5, <1>6, <1>7, <1>8 DEF Script

(* An answer ends the wait for its request, and for no other.              *)
LEMMA LoadResourceKeepsFiled ==
    ASSUME IInv, LoadResource
    PROVE  /\ Filed'
           /\ href' = href
           /\ \A msg \in Messages' : msg.id # None
<1>1. TakeMessage /\ NoFetch
    BY DEF LoadResource
<1>2. /\ Outstanding' = Outstanding \ {Head(channel).id}
      /\ \A msg \in Messages' : msg.id # None
    BY <1>1, TakeEndsRequest DEF IInv
<1>3. /\ panicked = "no"
      /\ pending_critical_resources' = pending_critical_resources \ {Head(channel).id}
      /\ href' = href /\ blocking' = blocking /\ next_request' = next_request
    BY DEF LoadResource, StillAwaited, NoFetch
<1> QED
    BY <1>2, <1>3 DEF IInv, Filed, LinksTyped, CriticalRequestsAreOutstanding

LEMMA NextIInv == IInv /\ [Next]_vars => IInv'
<1> SUFFICES ASSUME IInv, [Next]_vars PROVE IInv'
    OBVIOUS
<1>1. RequestsInv'
    BY StepImplementsRequests, NextRequestsInv DEF IInv
<1>2. Filed' /\ href' \in [Nodes -> Option(Urls)] /\ \A msg \in Messages' : msg.id # None
  <2>1. CASE Provider /\ UNCHANGED linkVars
    <3>1. /\ Outstanding' = Outstanding
          /\ next_request' = next_request
          /\ \A msg \in Messages' : msg.id # None
        BY <2>1, ProviderKeepsOutstanding DEF IInv
    <3> QED
        BY <2>1, <3>1 DEF linkVars, IInv, LinksTyped, Filed, CriticalRequestsAreOutstanding
  <2>2. CASE Script
      BY <2>2, ScriptKeepsFiled DEF IInv, LinksTyped
  <2>3. CASE LoadResource
      BY <2>3, LoadResourceKeepsFiled DEF IInv, LinksTyped
  <2>4. CASE StartResolve \/ MoveRoot \/ EndResolve \/ UNCHANGED vars
    <3>1. /\ UNCHANGED <<next_request, inflight, channel>>
          /\ UNCHANGED <<href, blocking, pending_critical_resources, panicked>>
        BY <2>4 DEF StartResolve, BeginResolve, ResolveWithoutRoot, MoveRoot, RemoveRoot,
                    InsertRoot, ChangeRoot, EndResolve, ChannelDrained, vars, requestVars, linkVars
    <3>2. Outstanding' = Outstanding /\ Messages' = Messages
        BY <3>1 DEF Outstanding, Messages
    <3> QED
        BY <3>1, <3>2 DEF IInv, LinksTyped, Filed, CriticalRequestsAreOutstanding
  <2> QED
      BY <2>1, <2>2, <2>3, <2>4 DEF Next
<1> QED
    BY <1>1, <1>2 DEF IInv, LinksTyped, Filed

LEMMA Invariance == Spec => []IInv
BY InitIInv, NextIInv, PTL DEF Spec

-----------------------------------------------------------------------------
(* Stylesheet loading obeys the request protocol: every step of the        *)
(* document is a step of ResourceRequests, or none of its business.        *)
THEOREM LoadingImplementsRequests == Spec => ImplementsRequests
<1>1. Init => RequestsInit
    BY DEF Init
<1>2. IInv /\ [Next]_vars => [RequestsNext]_requestVars
    BY StepImplementsRequests DEF IInv
<1> QED
    BY <1>1, <1>2, Invariance, PTL DEF Spec, ImplementsRequests, RequestsSpec

(* With it, what holds of the protocol holds of the document.              *)
THEOREM StylesheetsAreAnswered == Spec => []AnswersArriveOnce
BY LoadingImplementsRequests, RequestsAreAnswered, PTL DEF ImplementsRequests

(* The gate counts right: it never waits for a request that will not be    *)
(* answered any more, and never forgets one that will.                     *)
THEOREM GateCountsRight == Spec => []CriticalRequestsAreOutstanding
BY Invariance, PTL DEF IInv

(* Rendering waits for every sheet of the <head>.                          *)
THEOREM RenderingWaitsForSheets == Spec => NoUnstyledContent
<1>1. IInv => (EndResolve /\ resolved' => blocking \cap Outstanding = {})
    BY DEF IInv, CriticalRequestsAreOutstanding, EndResolve, HasNoPendingCriticalResources
<1> QED
    BY <1>1, Invariance, PTL DEF Spec, NoUnstyledContent
-----------------------------------------------------------------------------
(* Sequences of sheets.                                                    *)

(* Every set of numbers has a least one.                                   *)
LEMMA LeastNumber ==
    ASSUME NEW S \in SUBSET Nat, S # {}
    PROVE  \E x \in S : \A y \in S : x <= y
<1> DEFINE R == OpToRel(<, Nat)
<1>1. IsWellFoundedOn(R, Nat)
    BY NatLessThanWellFounded
<1>2. \A x, y \in Nat : y < x => <<y, x>> \in R
    BY DEF OpToRel
<1> HIDE DEF R
<1>3. \E x \in S : \A y \in S : ~ (<<y, x>> \in R)
    BY <1>1, WFMin
<1>4. PICK x \in S : \A y \in S : ~ (<<y, x>> \in R)
    BY <1>3
<1>5. \A y \in S : ~ (y < x)
    BY <1>2, <1>4
<1> QED
    BY <1>5

(* What two sequences, one after the other, have where.                    *)
LEMMA Joined ==
    ASSUME NEW s \in Seq(Nat), NEW t \in Seq(Nat)
    PROVE  /\ s \o t \in Seq(Nat)
           /\ Len(s \o t) = Len(s) + Len(t)
           /\ \A j \in 1..Len(s) : (s \o t)[j] = s[j]
           /\ \A j \in Len(s) + 1 .. Len(s) + Len(t) : (s \o t)[j] = t[j - Len(s)]
OBVIOUS

(* A sequence without its i-th element, and with e before its i-th.        *)
LEMMA Removed ==
    ASSUME NEW s \in Seq(Nat), NEW i \in 1..Len(s)
    PROVE  /\ RemoveAt(s, i) \in Seq(Nat)
           /\ Len(RemoveAt(s, i)) = Len(s) - 1
           /\ \A j \in 1..Len(s) - 1 : RemoveAt(s, i)[j] = IF j < i THEN s[j] ELSE s[j + 1]
<1> DEFINE front == SubSeq(s, 1, i - 1)
           back == SubSeq(s, i + 1, Len(s))
           rest == front \o back
<1>0. Len(s) \in Nat /\ i \in Nat /\ 1 <= i /\ i <= Len(s)
    OBVIOUS
<1>1. /\ front \in Seq(Nat) /\ Len(front) = i - 1
      /\ \A j \in 1..i - 1 : front[j] = s[j]
    OBVIOUS
<1>2. /\ back \in Seq(Nat) /\ Len(back) = Len(s) - i
      /\ \A j \in 1..Len(s) - i : back[j] = s[i + j]
    OBVIOUS
<1>3. RemoveAt(s, i) = rest
    BY DEF RemoveAt
<1> HIDE DEF front, back
<1>4. /\ rest \in Seq(Nat) /\ Len(rest) = Len(front) + Len(back)
      /\ \A j \in 1..Len(front) : rest[j] = front[j]
      /\ \A j \in Len(front) + 1 .. Len(front) + Len(back) : rest[j] = back[j - Len(front)]
    BY <1>1, <1>2, Joined
<1> HIDE DEF rest
<1>5. Len(rest) = Len(s) - 1
    BY <1>0, <1>1, <1>2, <1>4
<1>6. ASSUME NEW j \in 1..Len(s) - 1 PROVE rest[j] = IF j < i THEN s[j] ELSE s[j + 1]
  <2>1. CASE j < i
    <3>1. j \in 1..i - 1
        BY <1>0, <2>1
    <3> QED
        BY <1>1, <1>4, <2>1, <3>1
  <2>2. CASE j >= i
    <3>1. /\ j \in Len(front) + 1 .. Len(front) + Len(back)
          /\ j - Len(front) \in 1..Len(s) - i
          /\ i + (j - Len(front)) = j + 1
        BY <1>0, <1>1, <1>2, <2>2
    <3>2. rest[j] = back[j - Len(front)]
        BY <1>4, <3>1
    <3>3. back[j - Len(front)] = s[i + (j - Len(front))]
        BY <1>2, <3>1
    <3> QED
        BY <1>0, <2>2, <3>1, <3>2, <3>3
  <2> QED
      BY <1>0, <2>1, <2>2
<1> QED
    BY <1>3, <1>4, <1>5, <1>6

LEMMA Inserted ==
    ASSUME NEW s \in Seq(Nat), NEW i \in 1..Len(s), NEW e \in Nat
    PROVE  /\ InsertAt(s, i, e) \in Seq(Nat)
           /\ Len(InsertAt(s, i, e)) = Len(s) + 1
           /\ \A j \in 1..Len(s) + 1 : InsertAt(s, i, e)[j] =
                 IF j < i THEN s[j] ELSE IF j = i THEN e ELSE s[j - 1]
<1> DEFINE front == SubSeq(s, 1, i - 1)
           fore == front \o <<e>>
           back == SubSeq(s, i, Len(s))
           all == fore \o back
<1>0. Len(s) \in Nat /\ i \in Nat /\ 1 <= i /\ i <= Len(s)
    OBVIOUS
<1>1. /\ front \in Seq(Nat) /\ Len(front) = i - 1
      /\ \A j \in 1..i - 1 : front[j] = s[j]
    OBVIOUS
<1>2. /\ back \in Seq(Nat) /\ Len(back) = Len(s) - i + 1
      /\ \A j \in 1..Len(s) - i + 1 : back[j] = s[i + j - 1]
    OBVIOUS
<1>3. InsertAt(s, i, e) = all
    BY DEF InsertAt
<1> HIDE DEF front, back
<1>4. /\ fore \in Seq(Nat) /\ Len(fore) = i
      /\ \A j \in 1..i : fore[j] = IF j < i THEN s[j] ELSE e
    BY <1>1
<1> HIDE DEF fore
<1>5. /\ all \in Seq(Nat) /\ Len(all) = Len(fore) + Len(back)
      /\ \A j \in 1..Len(fore) : all[j] = fore[j]
      /\ \A j \in Len(fore) + 1 .. Len(fore) + Len(back) : all[j] = back[j - Len(fore)]
    BY <1>2, <1>4, Joined
<1> HIDE DEF all
<1>6. Len(all) = Len(s) + 1
    BY <1>0, <1>2, <1>4, <1>5
<1>7. ASSUME NEW j \in 1..Len(s) + 1
      PROVE  all[j] = IF j < i THEN s[j] ELSE IF j = i THEN e ELSE s[j - 1]
  <2>1. CASE j <= i
    <3>1. j \in 1..i
        BY <1>0, <2>1
    <3> QED
        BY <1>0, <1>4, <1>5, <2>1, <3>1
  <2>2. CASE j > i
    <3>1. /\ j \in Len(fore) + 1 .. Len(fore) + Len(back)
          /\ j - Len(fore) \in 1..Len(s) - i + 1
          /\ i + (j - Len(fore)) - 1 = j - 1
        BY <1>0, <1>2, <1>4, <2>2
    <3>2. all[j] = back[j - Len(fore)]
        BY <1>5, <3>1
    <3>3. back[j - Len(fore)] = s[i + (j - Len(fore)) - 1]
        BY <1>2, <3>1
    <3> QED
        BY <1>0, <2>2, <3>1, <3>2, <3>3
  <2> QED
      BY <1>0, <2>1, <2>2
<1> QED
    BY <1>3, <1>5, <1>6, <1>7

(* Without an element that it has once.                                    *)
LEMMA FirstIsOnly ==
    ASSUME NEW s \in Seq(Nat), NEW i \in 1..Len(s), \A j \in 1..Len(s) : s[j] = s[i] => j = i
    PROVE  RemoveFirst(s, s[i]) = RemoveAt(s, i)
<1> DEFINE I == {j \in 1..Len(s) : s[j] = s[i]}
<1>1. I = {i}
    OBVIOUS
<1>2. Min(I) = i
    BY <1>1 DEF Min
<1> QED
    BY <1>1, <1>2 DEF RemoveFirst, SelectInSeq

-----------------------------------------------------------------------------
(* A cascade s of what the nodes have in f: each node's sheet once, in the *)
(* order of the nodes.                                                     *)
Cascade(s, f) ==
    /\ \A i \in 1..Len(s) : \E n \in Nodes : f[n] # None /\ s[i] = f[n]
    /\ \A n \in Nodes : f[n] # None => \E i \in 1..Len(s) : s[i] = f[n]
    /\ \A i, j \in 1..Len(s), m, n \in Nodes :
          i < j /\ f[m] # None /\ f[n] # None /\ s[i] = f[m] /\ s[j] = f[n] => m < n
    /\ \A m, n \in Nodes : f[m] # None /\ f[m] = f[n] => m = n

(* The sheet of a node is in one place only.                               *)
LEMMA SheetIsOnce ==
    ASSUME NEW s \in Seq(Nat), NEW f, Cascade(s, f), NEW n \in Nodes, f[n] # None,
           NEW i \in 1..Len(s), s[i] = f[n]
    PROVE  \A j \in 1..Len(s) : s[j] = f[n] => j = i
<1> SUFFICES ASSUME NEW j \in 1..Len(s), s[j] = f[n], j # i PROVE FALSE
    OBVIOUS
<1>1. i < j \/ j < i
    OBVIOUS
<1>2. n \in Nat /\ ~(n < n)
    BY RequestsAssumption
<1> QED
    BY <1>1, <1>2 DEF Cascade

LEMMA CascadeLoses ==
    ASSUME NEW s \in Seq(Nat), NEW f \in [Nodes -> Option(Nat)], NEW n \in Nodes,
           f[n] # None, Cascade(s, f)
    PROVE  /\ RemoveFirst(s, f[n]) \in Seq(Nat)
           /\ Cascade(RemoveFirst(s, f[n]), [f EXCEPT ![n] = None])
<1>1. PICK i \in 1..Len(s) : s[i] = f[n]
    BY DEF Cascade
<1>2. \A j \in 1..Len(s) : s[j] = f[n] => j = i
    BY <1>1, SheetIsOnce
<1> DEFINE r == RemoveAt(s, i)
           old(j) == IF j < i THEN j ELSE j + 1
           g == [f EXCEPT ![n] = None]
<1>3. RemoveFirst(s, f[n]) = r
    BY <1>1, <1>2, FirstIsOnly
<1>4. /\ r \in Seq(Nat) /\ Len(r) = Len(s) - 1 /\ Len(s) \in Nat
      /\ \A j \in 1..Len(s) - 1 : r[j] = IF j < i THEN s[j] ELSE s[j + 1]
    BY Removed
<1> HIDE DEF r
<1>5. /\ \A j \in 1..Len(r) : old(j) \in 1..Len(s) /\ old(j) # i /\ r[j] = s[old(j)]
      /\ \A j, k \in 1..Len(r) : j < k => old(j) < old(k)
  <2>1. i \in Nat /\ Len(r) \in Nat /\ Len(r) = Len(s) - 1 /\ Len(s) \in Nat
      BY <1>4
  <2>2. ASSUME NEW j \in 1..Len(r)
        PROVE  old(j) \in 1..Len(s) /\ old(j) # i /\ r[j] = s[old(j)]
    <3>1. old(j) \in 1..Len(s) /\ old(j) # i
        BY <2>1
    <3>2. j \in 1..Len(s) - 1
        BY <2>1
    <3> QED
        BY <1>4, <3>1, <3>2
  <2>3. ASSUME NEW j \in 1..Len(r), NEW k \in 1..Len(r), j < k PROVE old(j) < old(k)
      BY <2>1, <2>3
  <2> QED
      BY <2>2, <2>3
<1>6. \A k \in 1..Len(s) : k # i => \E j \in 1..Len(r) : r[j] = s[k]
  <2> SUFFICES ASSUME NEW k \in 1..Len(s), k # i PROVE \E j \in 1..Len(r) : r[j] = s[k]
      OBVIOUS
  <2>1. CASE k < i
    <3>1. k \in 1..Len(r)
        BY <1>4, <2>1
    <3> QED
        BY <1>4, <2>1, <3>1
  <2>2. CASE k > i
    <3>1. k - 1 \in 1..Len(r) /\ ~(k - 1 < i) /\ (k - 1) + 1 = k
        BY <1>4, <2>2
    <3> QED
        BY <1>4, <3>1
  <2> QED
      BY <2>1, <2>2
<1>7. \A m \in Nodes : g[m] # None => m # n /\ g[m] = f[m]
    OBVIOUS
<1>8. \A m \in Nodes : m # n => g[m] = f[m]
    OBVIOUS
<1> HIDE DEF g, old
<1>9. \A j \in 1..Len(r) : \E m \in Nodes : g[m] # None /\ r[j] = g[m]
  <2> SUFFICES ASSUME NEW j \in 1..Len(r) PROVE \E m \in Nodes : g[m] # None /\ r[j] = g[m]
      OBVIOUS
  <2>1. PICK m \in Nodes : f[m] # None /\ s[old(j)] = f[m]
      BY <1>5 DEF Cascade
  <2>2. m # n
      BY <1>2, <1>5, <2>1
  <2> QED
      BY <1>5, <1>8, <2>1, <2>2
<1>10. \A m \in Nodes : g[m] # None => \E j \in 1..Len(r) : r[j] = g[m]
  <2> SUFFICES ASSUME NEW m \in Nodes, g[m] # None PROVE \E j \in 1..Len(r) : r[j] = g[m]
      OBVIOUS
  <2>1. m # n /\ g[m] = f[m]
      BY <1>7
  <2>2. PICK k \in 1..Len(s) : s[k] = f[m]
      BY <2>1 DEF Cascade
  <2>3. k # i
      BY <1>1, <2>1, <2>2 DEF Cascade
  <2> QED
      BY <1>6, <2>1, <2>2, <2>3
<1>11. \A j, k \in 1..Len(r), l, m \in Nodes :
           j < k /\ g[l] # None /\ g[m] # None /\ r[j] = g[l] /\ r[k] = g[m] => l < m
  <2> SUFFICES ASSUME NEW j \in 1..Len(r), NEW k \in 1..Len(r), NEW l \in Nodes, NEW m \in Nodes,
                      j < k, g[l] # None, g[m] # None, r[j] = g[l], r[k] = g[m]
               PROVE  l < m
      OBVIOUS
  <2>1. /\ old(j) \in 1..Len(s) /\ old(k) \in 1..Len(s) /\ old(j) < old(k)
        /\ s[old(j)] = f[l] /\ s[old(k)] = f[m] /\ f[l] # None /\ f[m] # None
      BY <1>5, <1>7
  <2>2. \A a, b \in 1..Len(s) : a < b /\ s[a] = f[l] /\ s[b] = f[m] => l < m
      BY <2>1 DEF Cascade
  <2> QED
      BY <2>1, <2>2
<1>12. \A l, m \in Nodes : g[l] # None /\ g[l] = g[m] => l = m
    BY <1>7 DEF Cascade
<1>13. Cascade(r, g)
    BY <1>9, <1>10, <1>11, <1>12 DEF Cascade
<1> QED
    BY <1>3, <1>4, <1>13 DEF g
(* A new sheet goes between those of the nodes before and after its own.   *)
LEMMA CascadeGains ==
    ASSUME NEW s \in Seq(Nat), NEW f \in [Nodes -> Option(Nat)], Cascade(s, f),
           NEW n \in Nodes, f[n] = None, NEW sheet \in Nat, \A m \in Nodes : f[m] # sheet,
           NEW p \in 1..Len(s) + 1, NEW r, Len(r) = Len(s) + 1,
           \A j \in 1..Len(s) + 1 :
               r[j] = IF j < p THEN s[j] ELSE IF j = p THEN sheet ELSE s[j - 1],
           \A j \in 1..Len(s), m \in Nodes : j < p /\ f[m] # None /\ s[j] = f[m] => m < n,
           \A j \in 1..Len(s), m \in Nodes : j >= p /\ f[m] # None /\ s[j] = f[m] => n < m
    PROVE  Cascade(r, [f EXCEPT ![n] = sheet])
<1> DEFINE g == [f EXCEPT ![n] = sheet]
           old(j) == IF j < p THEN j ELSE j - 1
<1>0. Len(s) \in Nat /\ p \in Nat /\ 1 <= p /\ p <= Len(s) + 1
    OBVIOUS
<1>1. /\ \A j \in 1..Len(r) : j # p => old(j) \in 1..Len(s) /\ r[j] = s[old(j)]
      /\ \A j, k \in 1..Len(r) : j # p /\ k # p /\ j < k => old(j) < old(k)
      /\ \A j \in 1..Len(r) : j < p => old(j) < p
      /\ \A j \in 1..Len(r) : j > p => old(j) >= p
      /\ p \in 1..Len(r) /\ r[p] = sheet
    BY <1>0
<1>2. \A k \in 1..Len(s) : \E j \in 1..Len(r) : j # p /\ r[j] = s[k]
  <2> SUFFICES ASSUME NEW k \in 1..Len(s) PROVE \E j \in 1..Len(r) : j # p /\ r[j] = s[k]
      OBVIOUS
  <2>1. CASE k < p
    <3>1. k \in 1..Len(r) /\ k # p
        BY <1>0, <2>1
    <3> QED
        BY <1>0, <2>1, <3>1
  <2>2. CASE k >= p
    <3>1. k + 1 \in 1..Len(r) /\ k + 1 # p /\ ~(k + 1 < p) /\ (k + 1) - 1 = k
        BY <1>0, <2>2
    <3> QED
        BY <1>0, <3>1
  <2> QED
      BY <1>0, <2>1, <2>2
<1>3. sheet # None
    BY RequestsAssumption
<1>4. g[n] = sheet /\ \A m \in Nodes : m # n => g[m] = f[m]
    OBVIOUS
<1> HIDE DEF g, old
<1>5. \A j \in 1..Len(r) : j # p => \E m \in Nodes : m # n /\ f[m] # None /\ r[j] = f[m]
  <2> SUFFICES ASSUME NEW j \in 1..Len(r), j # p
               PROVE  \E m \in Nodes : m # n /\ f[m] # None /\ r[j] = f[m]
      OBVIOUS
  <2>1. old(j) \in 1..Len(s) /\ r[j] = s[old(j)]
      BY <1>1
  <2> QED
      BY <2>1 DEF Cascade
<1>6. \A j \in 1..Len(r) : \E m \in Nodes : g[m] # None /\ r[j] = g[m]
    BY <1>1, <1>3, <1>4, <1>5
<1>7. \A m \in Nodes : g[m] # None => \E j \in 1..Len(r) : r[j] = g[m]
  <2> SUFFICES ASSUME NEW m \in Nodes, g[m] # None, m # n PROVE \E j \in 1..Len(r) : r[j] = g[m]
      BY <1>1, <1>4
  <2>1. PICK k \in 1..Len(s) : s[k] = f[m]
      BY <1>4 DEF Cascade
  <2> QED
      BY <1>2, <1>4, <2>1
<1>8. \A l, m \in Nodes : g[l] # None /\ g[l] = g[m] => l = m
  <2>1. \A l, m \in Nodes : f[l] # None /\ f[l] = f[m] => l = m
      BY DEF Cascade
  <2>2. \A m \in Nodes : g[m] = g[n] => m = n
      BY <1>4
  <2> QED
      BY <1>4, <2>1, <2>2
<1>9. ASSUME NEW j \in 1..Len(r), NEW m \in Nodes, g[m] # None, r[j] = g[m]
      PROVE  IF j = p THEN m = n
             ELSE m # n /\ old(j) \in 1..Len(s) /\ s[old(j)] = f[m] /\ f[m] # None
  <2>1. CASE j = p
      BY <1>1, <1>4, <1>8, <1>9, <1>3, <2>1
  <2>2. CASE j # p
    <3>1. PICK l \in Nodes : l # n /\ f[l] # None /\ r[j] = f[l]
        BY <1>5, <2>2
    <3>2. m # n
        BY <1>4, <1>9, <3>1
    <3> QED
        BY <1>1, <1>4, <1>9, <2>2, <3>2
  <2> QED
      BY <2>1, <2>2
<1>10. \A j, k \in 1..Len(r), l, m \in Nodes :
           j < k /\ g[l] # None /\ g[m] # None /\ r[j] = g[l] /\ r[k] = g[m] => l < m
  <2> SUFFICES ASSUME NEW j \in 1..Len(r), NEW k \in 1..Len(r), NEW l \in Nodes, NEW m \in Nodes,
                      j < k, g[l] # None, g[m] # None, r[j] = g[l], r[k] = g[m]
               PROVE  l < m
      OBVIOUS
  <2>1. CASE j = p
    <3>1. l = n /\ k # p /\ k > p
        BY <1>9, <2>1
    <3>2. old(k) \in 1..Len(s) /\ s[old(k)] = f[m] /\ f[m] # None /\ old(k) >= p
        BY <1>1, <1>9, <3>1
    <3> QED
        BY <3>1, <3>2
  <2>2. CASE k = p
    <3>1. m = n /\ j # p /\ j < p
        BY <1>9, <2>2
    <3>2. old(j) \in 1..Len(s) /\ s[old(j)] = f[l] /\ f[l] # None /\ old(j) < p
        BY <1>1, <1>9, <3>1
    <3> QED
        BY <3>1, <3>2
  <2>3. CASE j # p /\ k # p
    <3>1. /\ old(j) \in 1..Len(s) /\ s[old(j)] = f[l] /\ f[l] # None
          /\ old(k) \in 1..Len(s) /\ s[old(k)] = f[m] /\ f[m] # None
          /\ old(j) < old(k)
        BY <1>1, <1>9, <2>3
    <3>2. \A a, b \in 1..Len(s) : a < b /\ s[a] = f[l] /\ s[b] = f[m] => l < m
        BY <3>1 DEF Cascade
    <3> QED
        BY <3>1, <3>2
  <2> QED
      BY <2>1, <2>2, <2>3
<1>11. Cascade(r, g)
    BY <1>6, <1>7, <1>8, <1>10 DEF Cascade
<1> QED
    BY <1>11 DEF g

(* add_stylesheet_for_node finds that place in what is left of the         *)
(* cascade.                                                                *)
LEMMA InsertedInOrder ==
    ASSUME nodes_to_stylesheet \in [Nodes -> Option(Nat)], NEW n \in Nodes,
           NEW s \in Seq(Nat), Cascade(s, [nodes_to_stylesheet EXCEPT ![n] = None]),
           NEW sheet \in Nat, \A m \in Nodes : nodes_to_stylesheet[m] # sheet
    PROVE  /\ InsertBefore(s, sheet, SheetAfter(n)) \in Seq(Nat)
           /\ Cascade(InsertBefore(s, sheet, SheetAfter(n)),
                      [nodes_to_stylesheet EXCEPT ![n] = sheet])
<1> DEFINE f == [nodes_to_stylesheet EXCEPT ![n] = None]
           later == {k \in Styled : k > n}
           r == InsertBefore(s, sheet, SheetAfter(n))
<1>1. /\ f \in [Nodes -> Option(Nat)] /\ f[n] = None
      /\ \A m \in Nodes : m # n => f[m] = nodes_to_stylesheet[m]
      /\ \A m \in Nodes : f[m] # sheet
      /\ [f EXCEPT ![n] = sheet] = [nodes_to_stylesheet EXCEPT ![n] = sheet]
  <2>1. f \in [Nodes -> Option(Nat)] /\ f[n] = None
      BY DEF Option
  <2>2. sheet # None
      BY RequestsAssumption
  <2> QED
      BY <2>1, <2>2
<1>2. \A m \in Nodes : f[m] # None => m # n /\ (m > n => m \in later) /\ (m \notin later => m < n)
    BY <1>1, RequestsAssumption DEF Styled
<1>3. Cascade(s, f) /\ Len(s) \in Nat
    OBVIOUS
<1> HIDE DEF f
<1>4. CASE later = {}
  <2>1. r = Append(s, sheet)
      BY <1>4 DEF SheetAfter, InsertBefore
  <2>2. /\ r \in Seq(Nat) /\ Len(r) = Len(s) + 1
        /\ \A j \in 1..Len(s) + 1 :
              r[j] = IF j < Len(s) + 1 THEN s[j] ELSE IF j = Len(s) + 1 THEN sheet ELSE s[j - 1]
      BY <1>3, <2>1
  <2>3. \A j \in 1..Len(s), m \in Nodes : f[m] # None /\ s[j] = f[m] => m < n
      BY <1>2, <1>4
  <2>4. \A j \in 1..Len(s) : ~(j >= Len(s) + 1)
      BY <1>3
  <2>5. Len(s) + 1 \in 1..Len(s) + 1
      BY <1>3
  <2> HIDE DEF r
  <2>6. Cascade(r, [f EXCEPT ![n] = sheet])
      BY <1>1, <1>3, <2>2, <2>3, <2>4, <2>5, CascadeGains
  <2> QED
      BY <1>1, <2>2, <2>6 DEF r
<1>5. CASE later # {}
  <2>1. later \in SUBSET Nat
      BY RequestsAssumption DEF Styled
  <2>2. \E k \in later : \A l \in later : k <= l
      BY <1>5, <2>1, LeastNumber
  <2> DEFINE k == CHOOSE k \in later : \A l \in later : k <= l
             next == nodes_to_stylesheet[k]
             p == CHOOSE j \in 1..Len(s) : s[j] = next
  <2>3. k \in later /\ \A l \in later : k <= l
      BY <2>2
  <2>4. SheetAfter(n) = next
      BY <1>5 DEF SheetAfter
  <2> HIDE DEF k
  <2>5. k \in Nodes /\ k > n /\ next # None /\ f[k] = next
    <3>1. k \in Nodes /\ k > n /\ next # None
        BY <2>3 DEF Styled
    <3>2. k # n
        BY <3>1, RequestsAssumption
    <3> QED
        BY <1>1, <3>1, <3>2
  <2>6. \E j \in 1..Len(s) : s[j] = next
      BY <1>3, <2>5 DEF Cascade
  <2>7. p \in 1..Len(s) /\ s[p] = next
      BY <2>6
  <2>8. r = InsertAt(s, p, sheet)
      BY <2>4, <2>5 DEF InsertBefore
  <2> HIDE DEF p, next, r
  <2>9. /\ r \in Seq(Nat) /\ Len(r) = Len(s) + 1
        /\ \A j \in 1..Len(s) + 1 : r[j] = IF j < p THEN s[j] ELSE IF j = p THEN sheet ELSE s[j - 1]
    <3>1. \A i \in 1..Len(s) :
              LET t == InsertAt(s, i, sheet)
              IN  /\ t \in Seq(Nat) /\ Len(t) = Len(s) + 1
                  /\ \A j \in 1..Len(s) + 1 :
                         t[j] = IF j < i THEN s[j] ELSE IF j = i THEN sheet ELSE s[j - 1]
        BY Inserted
    <3> QED
        BY <2>7, <2>8, <3>1
  <2>10. \A j \in 1..Len(s), m \in Nodes : j < p /\ f[m] # None /\ s[j] = f[m] => m < n
    <3> SUFFICES ASSUME NEW j \in 1..Len(s), NEW m \in Nodes, j < p, f[m] # None, s[j] = f[m]
                 PROVE  m < n
        OBVIOUS
    <3>1. m < k
        BY <1>3, <2>5, <2>7 DEF Cascade
    <3>2. m \notin later
        BY <2>1, <2>3, <3>1
    <3> QED
        BY <1>2, <3>2
  <2>11. \A j \in 1..Len(s), m \in Nodes : j >= p /\ f[m] # None /\ s[j] = f[m] => n < m
    <3> SUFFICES ASSUME NEW j \in 1..Len(s), NEW m \in Nodes, j >= p, f[m] # None, s[j] = f[m]
                 PROVE  n < m
        OBVIOUS
    <3>0. n \in Nat /\ m \in Nat /\ k \in Nat
        BY <2>1, <2>3, RequestsAssumption
    <3>1. CASE j = p
        BY <1>3, <2>5, <2>7, <3>0, <3>1 DEF Cascade
    <3>2. CASE j # p
      <4>1. p < j
          BY <2>7, <3>2
      <4>2. k < m
          BY <1>3, <2>5, <2>7, <4>1 DEF Cascade
      <4> QED
          BY <2>5, <3>0, <4>2
    <3> QED
        BY <3>1, <3>2
  <2>12. p \in 1..Len(s) + 1
      BY <1>3, <2>7
  <2>13. Cascade(r, [f EXCEPT ![n] = sheet])
      BY <1>1, <1>3, <2>9, <2>10, <2>11, <2>12, CascadeGains
  <2> QED
      BY <1>1, <2>9, <2>13 DEF r
<1> QED
    BY <1>4, <1>5
-----------------------------------------------------------------------------
(* The sheets of the document.  A sheet's id is of an answered request, so *)
(* no later sheet has it.                                                  *)
Sheets ==
    /\ nodes_to_stylesheet \in [Nodes -> Option(Nat)]
    /\ special = nodes_to_stylesheet
    /\ stylist \in Seq(Nat)
    /\ Cascade(stylist, nodes_to_stylesheet)

SheetsAreSpent ==
    \A n \in Styled : nodes_to_stylesheet[n] < next_request /\ nodes_to_stylesheet[n] \notin Outstanding

LinkRequest == [id : Nat, node : Nodes, url : Urls]
LinkMessage == [id : Nat, node : Nodes, url : Urls, ok : BOOLEAN]
RequestsOfLinks ==
    /\ inflight \subseteq LinkRequest
    /\ channel \in Seq(LinkMessage)

LinksRest ==
    /\ place \in [Nodes -> Places]
    /\ rel \in [Nodes -> BOOLEAN]
    /\ href \in [Nodes -> Option(Urls)]
    /\ pending_critical_resources \subseteq Nat
    /\ blocking \subseteq Nat
    /\ resolved \in BOOLEAN
    /\ panicked \in {"no", "no sheet to unload", "no such node"}

SheetsInv ==
    /\ IInv
    /\ RequestsOfLinks
    /\ LinksRest
    /\ Sheets
    /\ SheetsAreSpent
    /\ DroppedNodesStyleNothing

LEMMA UnloadKeepsSheets ==
    ASSUME Sheets, NEW n \in Nodes, special[n] # None, Unload(n)
    PROVE  /\ Sheets'
           /\ nodes_to_stylesheet' = [nodes_to_stylesheet EXCEPT ![n] = None]
<1>1. /\ stylist' = RemoveFirst(stylist, nodes_to_stylesheet[n])
      /\ nodes_to_stylesheet' = [nodes_to_stylesheet EXCEPT ![n] = None]
      /\ special' = nodes_to_stylesheet'
    BY DEF Sheets, Unload
<1>2. stylist' \in Seq(Nat) /\ Cascade(stylist', [nodes_to_stylesheet EXCEPT ![n] = None])
    BY <1>1, CascadeLoses DEF Sheets
<1>3. nodes_to_stylesheet' \in [Nodes -> Option(Nat)]
    BY <1>1 DEF Sheets, Option
<1>4. Cascade(stylist', nodes_to_stylesheet')
    BY <1>1, <1>2
<1>5. Cascade(stylist, nodes_to_stylesheet)'
    BY <1>4 DEF Cascade
<1> QED
    BY <1>1, <1>2, <1>3, <1>5 DEF Sheets

LEMMA AddKeepsSheets ==
    ASSUME Sheets, NEW n \in Nodes, NEW sheet \in Nat,
           \A m \in Nodes : nodes_to_stylesheet[m] # sheet,
           AddStylesheetForNode(n, sheet)
    PROVE  /\ Sheets'
           /\ nodes_to_stylesheet' = [nodes_to_stylesheet EXCEPT ![n] = sheet]
<1>1. /\ stylist' = InsertBefore(RemoveOld(n), sheet, SheetAfter(n))
      /\ nodes_to_stylesheet' = [nodes_to_stylesheet EXCEPT ![n] = sheet]
      /\ special' = nodes_to_stylesheet'
    BY DEF Sheets, AddStylesheetForNode
<1>2. /\ RemoveOld(n) \in Seq(Nat)
      /\ Cascade(RemoveOld(n), [nodes_to_stylesheet EXCEPT ![n] = None])
  <2>1. CASE nodes_to_stylesheet[n] # None
      BY <2>1, CascadeLoses DEF Sheets, RemoveOld
  <2>2. CASE nodes_to_stylesheet[n] = None
    <3>1. \A i \in 1..Len(stylist) : stylist[i] # None
        BY RequestsAssumption DEF Sheets
    <3>2. RemoveOld(n) = stylist
        BY <2>2, <3>1 DEF RemoveOld, RemoveFirst
    <3>3. [nodes_to_stylesheet EXCEPT ![n] = None] = nodes_to_stylesheet
        BY <2>2 DEF Sheets
    <3> QED
        BY <3>2, <3>3 DEF Sheets
  <2> QED
      BY <2>1, <2>2
<1>3. stylist' \in Seq(Nat) /\ Cascade(stylist', [nodes_to_stylesheet EXCEPT ![n] = sheet])
    BY <1>1, <1>2, InsertedInOrder DEF Sheets
<1>4. nodes_to_stylesheet' \in [Nodes -> Option(Nat)]
    BY <1>1 DEF Sheets, Option
<1>5. Cascade(stylist', nodes_to_stylesheet')
    BY <1>1, <1>3
<1>6. Cascade(stylist, nodes_to_stylesheet)'
    BY <1>5 DEF Cascade
<1> QED
    BY <1>1, <1>3, <1>4, <1>6 DEF Sheets

(* No step but the arrival of a sheet gives a node one.                    *)
Kept == \A n \in Nodes : nodes_to_stylesheet'[n] \in {nodes_to_stylesheet[n], None}

LEMMA SameSheets == Sheets /\ NoSheetChange => Sheets' /\ Kept
BY DEF Sheets, NoSheetChange, Cascade, Kept

LEMMA LoadKeepsRest ==
    ASSUME RequestsTypeOK, LinksRest, NEW n \in Nodes, NEW is_sheet, NEW url, NEW where,
           LoadLinkedStylesheet(n, is_sheet, url, where)
    PROVE  pending_critical_resources' \subseteq Nat /\ blocking' \subseteq Nat
BY DEF LoadLinkedStylesheet, LinksRest, RequestsTypeOK

LEMMA ScriptKeepsSheets ==
    ASSUME RequestsTypeOK, LinksRest, Sheets, DroppedNodesStyleNothing, Script
    PROVE  LinksRest' /\ Sheets' /\ DroppedNodesStyleNothing' /\ Kept
<1> DEFINE Goal == LinksRest' /\ Sheets' /\ DroppedNodesStyleNothing' /\ Kept
<1>0. resolved' = resolved
    BY DEF Script, SetHref, SetRel, SetAttributes, ClearHref, Insert, Move, RemoveNode,
           DropNode, Leave, ReloadByHref, Scripting
<1>1. ASSUME NoSheetChange, \A m \in Nodes : place'[m] = "dropped" => place[m] = "dropped"
      PROVE  Sheets' /\ Kept /\ DroppedNodesStyleNothing'
  <2>1. Styled' = Styled
      BY <1>1 DEF NoSheetChange, Styled
  <2>2. \A m \in Styled : m \in Nodes
      BY DEF Styled
  <2> QED
      BY <1>1, <2>1, <2>2, SameSheets DEF DroppedNodesStyleNothing
<1>2. ASSUME NEW n \in Nodes, special[n] # None, Unload(n),
             \A m \in Nodes : place'[m] = "dropped" => place[m] = "dropped" \/ m = n
      PROVE  Sheets' /\ Kept /\ DroppedNodesStyleNothing'
  <2>1. Sheets' /\ nodes_to_stylesheet' = [nodes_to_stylesheet EXCEPT ![n] = None]
      BY <1>2, UnloadKeepsSheets
  <2>2. Kept
      BY <2>1 DEF Kept, Sheets
  <2>3. \A m \in Styled' : m \in Styled /\ m # n /\ m \in Nodes
      BY <2>1 DEF Styled, Sheets
  <2> QED
      BY <1>2, <2>1, <2>2, <2>3 DEF DroppedNodesStyleNothing
<1>3. ASSUME NEW n \in Nodes, NEW is_sheet \in BOOLEAN, NEW url \in Option(Urls),
             SetAttributes(n, is_sheet, url)
      PROVE  Goal
  <2>1. /\ NoSheetChange /\ place' = place /\ panicked' = panicked
        /\ rel' \in [Nodes -> BOOLEAN] /\ href' \in [Nodes -> Option(Urls)]
      BY <1>3 DEF SetAttributes, LinksRest
  <2>2. pending_critical_resources' \subseteq Nat /\ blocking' \subseteq Nat
      BY <1>3, LoadKeepsRest DEF SetAttributes, NoLoad, LinksRest
  <2> QED
      BY <1>0, <1>1, <2>1, <2>2 DEF LinksRest
<1>4. ASSUME NEW n \in Nodes, NEW url \in Urls, SetHref(n, url) PROVE Goal
    BY <1>3, <1>4 DEF SetHref, LinksRest, Option
<1>5. ASSUME NEW n \in Nodes, NEW is_sheet \in BOOLEAN, SetRel(n, is_sheet) PROVE Goal
    BY <1>3, <1>5 DEF SetRel, LinksRest
<1>6. ASSUME NEW n \in Nodes, ClearHref(n) PROVE Goal
  <2>1. LinksRest' /\ place' = place
    <3>1. /\ href' \in [Nodes -> Option(Urls)]
          /\ panicked' \in {"no", "no sheet to unload", "no such node"}
          /\ UNCHANGED <<place, rel, pending_critical_resources, blocking>>
        BY <1>6 DEF ClearHref, NoLoad, LinksRest, Option
    <3> QED
        BY <1>0, <3>1 DEF LinksRest
  <2>2. CASE special[n] = None
      BY <1>1, <1>6, <2>1, <2>2 DEF ClearHref
  <2>3. CASE special[n] # None
      BY <1>2, <1>6, <2>1, <2>3 DEF ClearHref
  <2> QED
      BY <2>2, <2>3
<1>7. ASSUME NEW n \in Nodes, NEW where \in {"head", "body"}, Insert(n, where) \/ Move(n, where)
      PROVE  Goal
  <2>1. /\ NoSheetChange /\ UNCHANGED <<rel, href, panicked>>
        /\ place' = [place EXCEPT ![n] = where]
      BY <1>7 DEF Insert, Move
  <2>2. /\ place' \in [Nodes -> Places]
        /\ \A m \in Nodes : place'[m] = "dropped" => place[m] = "dropped"
      BY <2>1 DEF LinksRest, Places
  <2>3. pending_critical_resources' \subseteq Nat /\ blocking' \subseteq Nat
      BY <1>7, LoadKeepsRest DEF Insert, Move, NoLoad, LinksRest
  <2> QED
      BY <1>0, <1>1, <2>1, <2>2, <2>3 DEF LinksRest
<1>8. ASSUME NEW n \in Nodes, NEW to \in {"detached", "dropped"}, Leave(n, to) PROVE Goal
  <2>1. /\ UNCHANGED <<rel, href, panicked, pending_critical_resources, blocking>>
        /\ place' = [place EXCEPT ![n] = to]
      BY <1>8 DEF Leave, NoLoad
  <2>2. /\ place' \in [Nodes -> Places]
        /\ \A m \in Nodes : place'[m] = "dropped" => place[m] = "dropped" \/ m = n
      BY <2>1 DEF LinksRest, Places
  <2>3. LinksRest'
      BY <1>0, <2>1, <2>2 DEF LinksRest
  <2>4. CASE special[n] # None
      BY <1>2, <1>8, <2>2, <2>3, <2>4 DEF Leave
  <2>5. CASE special[n] = None
    <3>1. NoSheetChange
        BY <1>8, <2>5 DEF Leave
    <3>2. Sheets' /\ Kept
        BY <3>1, SameSheets
    <3>3. \A m \in Styled' : m \in Styled /\ m # n /\ m \in Nodes
        BY <2>5, <3>1 DEF Styled, NoSheetChange, Sheets
    <3> QED
        BY <2>2, <2>3, <3>2, <3>3 DEF DroppedNodesStyleNothing
  <2> QED
      BY <2>4, <2>5
<1>9. ASSUME NEW url \in Urls, ReloadByHref(url) PROVE Goal
  <2>1. /\ NoSheetChange
        /\ UNCHANGED <<place, rel, href, pending_critical_resources, blocking, panicked>>
      BY <1>9 DEF ReloadByHref
  <2> QED
      BY <1>0, <1>1, <2>1 DEF LinksRest
<1> QED
    BY <1>4, <1>5, <1>6, <1>7, <1>8, <1>9 DEF Script, RemoveNode, DropNode
(* A sheet arrives, with the id of its request.                            *)
LEMMA LoadResourceKeepsSheets ==
    ASSUME SheetsInv, LoadResource
    PROVE  LinksRest' /\ Sheets' /\ SheetsAreSpent' /\ DroppedNodesStyleNothing'
<1> USE DEF SheetsInv
<1>1. TakeMessage /\ NoFetch
    BY DEF LoadResource
<1>2. Outstanding' = Outstanding \ {Head(channel).id} /\ next_request' = next_request
    BY <1>1, TakeEndsRequest DEF IInv, NoFetch
<1>3. PICK msg \in LinkMessage : msg = Head(channel) /\ msg \in Messages
  <2>1. Head(channel) \in LinkMessage
      BY <1>1 DEF TakeMessage, RequestsOfLinks
  <2>2. Head(channel) \in Messages
      BY <1>1, RestOfChannel DEF IInv
  <2> QED
      BY <2>1, <2>2
<1>4. msg.id \in Nat /\ msg.node \in Nodes /\ msg.id # None
    BY <1>3, RequestsAssumption DEF LinkMessage
<1>5. msg.id \in Outstanding /\ msg.id < next_request
    BY <1>3, <1>4, OutstandingIds DEF IInv, RequestsInv, AnsweredOnce
<1>6. /\ pending_critical_resources' = pending_critical_resources \ {msg.id}
      /\ UNCHANGED <<place, rel, href, blocking, resolved>>
      /\ \/ NoSheetChange /\ panicked' \in {panicked, "no such node"}
         \/ /\ place[msg.node] # "dropped"
            /\ AddStylesheetForNode(msg.node, msg.id)
            /\ panicked' = panicked
    BY <1>3 DEF LoadResource, StillAwaited
<1>7. LinksRest'
  <2>1. panicked' \in {panicked, "no such node"}
      BY <1>6
  <2> QED
      BY <1>6, <2>1 DEF LinksRest
<1>8. CASE NoSheetChange
  <2>1. Sheets'
      BY <1>8, SameSheets
  <2>2. Styled' = Styled
      BY <1>8 DEF Styled, NoSheetChange
  <2>3. SheetsAreSpent'
      BY <1>2, <1>8, <2>2 DEF SheetsAreSpent, NoSheetChange
  <2>4. DroppedNodesStyleNothing'
      BY <1>6, <2>2 DEF DroppedNodesStyleNothing
  <2> QED
      BY <1>7, <2>1, <2>3, <2>4
<1>9. CASE place[msg.node] # "dropped" /\ AddStylesheetForNode(msg.node, msg.id)
  <2>1. \A m \in Nodes : nodes_to_stylesheet[m] # msg.id
      BY <1>4, <1>5 DEF SheetsAreSpent, Styled
  <2>2. Sheets' /\ nodes_to_stylesheet' = [nodes_to_stylesheet EXCEPT ![msg.node] = msg.id]
      BY <1>4, <1>9, <2>1, AddKeepsSheets
  <2>3. \A m \in Styled' : /\ m \in Nodes
                           /\ IF m = msg.node THEN nodes_to_stylesheet'[m] = msg.id
                              ELSE m \in Styled /\ nodes_to_stylesheet'[m] = nodes_to_stylesheet[m]
      BY <1>4, <2>2 DEF Styled, Sheets
  <2>4. SheetsAreSpent'
      BY <1>2, <1>3, <1>5, <2>3 DEF SheetsAreSpent
  <2>5. DroppedNodesStyleNothing'
      BY <1>6, <1>9, <2>3 DEF DroppedNodesStyleNothing
  <2> QED
      BY <1>7, <2>2, <2>4, <2>5
<1> QED
    BY <1>6, <1>8, <1>9

(* Requests and messages stay those of links.                              *)
LEMMA FetchKeepsLinks ==
    ASSUME RequestsTypeOK, RequestsOfLinks, NEW S \in SUBSET Nodes, NEW url \in Urls, Fetch(S, url),
           channel' = channel
    PROVE  RequestsOfLinks'
<1>1. PICK f \in Numberings(S) :
        inflight' = inflight \cup {[id |-> f[n], node |-> n, url |-> url] : n \in S}
    BY DEF Fetch
<1>2. Cardinality(S) \in Nat
    BY RequestsAssumption, FS_Subset, FS_CardinalityType
<1>3. \A n \in S : f[n] \in Nat
    BY <1>2 DEF Numberings, RequestsTypeOK
<1>4. inflight' \subseteq LinkRequest
    BY <1>1, <1>3 DEF RequestsOfLinks, LinkRequest
<1> QED
    BY <1>4 DEF RequestsOfLinks

LEMMA ScriptFetchesLinks ==
    ASSUME href \in [Nodes -> Option(Urls)], Script
    PROVE  /\ channel' = channel
           /\ NoFetch \/ \E S \in SUBSET Nodes, url \in Urls : Fetch(S, url)
<1>0. channel' = channel
    BY DEF Script, SetHref, SetRel, SetAttributes, ClearHref, Insert, Move, RemoveNode,
           DropNode, Leave, ReloadByHref, Scripting
<1>1. ASSUME NEW n \in Nodes, NEW is_sheet, NEW url \in Option(Urls), NEW where,
             LoadLinkedStylesheet(n, is_sheet, url, where) \/ NoLoad
      PROVE  NoFetch \/ \E S \in SUBSET Nodes, u \in Urls : Fetch(S, u)
  <2>1. NoFetch \/ (url \in Urls /\ Fetch({n}, url))
      BY <1>1 DEF LoadLinkedStylesheet, NoLoad, Option
  <2>2. {n} \in SUBSET Nodes
      OBVIOUS
  <2> QED
      BY <2>1, <2>2
<1>2. ASSUME NEW n \in Nodes, NEW is_sheet, NEW url \in Option(Urls), SetAttributes(n, is_sheet, url)
      PROVE  NoFetch \/ \E S \in SUBSET Nodes, u \in Urls : Fetch(S, u)
    BY <1>1, <1>2 DEF SetAttributes
<1>3. ASSUME NEW n \in Nodes, NEW where,
             Insert(n, where) \/ ClearHref(n) \/ Move(n, where) \/ RemoveNode(n) \/ DropNode(n)
      PROVE  NoFetch \/ \E S \in SUBSET Nodes, u \in Urls : Fetch(S, u)
    BY <1>1, <1>3 DEF Insert, ClearHref, Move, RemoveNode, DropNode, Leave, NoLoad
<1>4. ASSUME NEW url \in Urls, ReloadByHref(url)
      PROVE  \E S \in SUBSET Nodes, u \in Urls : Fetch(S, u)
    BY <1>4 DEF ReloadByHref, Styled
<1>5. \A n \in Nodes, url \in Urls : href[n] \in Option(Urls) /\ url \in Option(Urls)
    BY DEF Option
<1>6. ASSUME NEW n \in Nodes, NEW url \in Urls, SetHref(n, url)
      PROVE  NoFetch \/ \E S \in SUBSET Nodes, u \in Urls : Fetch(S, u)
    BY <1>2, <1>5, <1>6 DEF SetHref
<1>7. ASSUME NEW n \in Nodes, NEW is_sheet \in BOOLEAN, SetRel(n, is_sheet)
      PROVE  NoFetch \/ \E S \in SUBSET Nodes, u \in Urls : Fetch(S, u)
    BY <1>2, <1>5, <1>7 DEF SetRel
<1> QED
    BY <1>0, <1>3, <1>4, <1>6, <1>7 DEF Script

LEMMA AnswersKeepLinks ==
    ASSUME RequestsTypeOK, RequestsOfLinks, Provider
    PROVE  RequestsOfLinks'
<1>1. ASSUME NEW q \in inflight, NEW url \in Urls, NEW ok \in BOOLEAN, Respond(q, url, ok)
      PROVE  RequestsOfLinks'
  <2> DEFINE msg == [id |-> q.id, node |-> q.node, url |-> url, ok |-> ok]
  <2>1. msg \in LinkMessage
      BY DEF RequestsOfLinks, LinkRequest, LinkMessage
  <2>2. inflight' = inflight \ {q} /\ channel' = Append(channel, msg)
      BY <1>1 DEF Respond, Send
  <2> HIDE DEF msg
  <2> QED
      BY <2>1, <2>2 DEF RequestsOfLinks
<1>2. ASSUME NEW q \in inflight, BytesArrive(q) \/ FetchFails(q) \/ DropHandler(q)
      PROVE  RequestsOfLinks'
  <2>1. q.url \in Urls /\ FinalUrl[q.url] \in Urls
      BY RequestsAssumption DEF RequestsTypeOK, Request
  <2> QED
      BY <1>1, <1>2, <2>1 DEF BytesArrive, FetchFails, DropHandler, RequestUrl
<1>3. ASSUME NEW id \in signalling, RequestRedraw(id) PROVE RequestsOfLinks'
    BY <1>3 DEF RequestRedraw, RequestsOfLinks
<1> QED
    BY <1>2, <1>3 DEF Provider

LEMMA InitSheetsInv == Init => SheetsInv
<1> SUFFICES ASSUME Init PROVE SheetsInv
    OBVIOUS
<1>1. RequestsOfLinks
    BY DEF Init, RequestsInit, RequestsOfLinks
<1>2. LinksRest
    BY DEF Init, LinksRest, Places, Option
<1>3. /\ nodes_to_stylesheet \in [Nodes -> Option(Nat)] /\ special = nodes_to_stylesheet
      /\ \A n \in Nodes : nodes_to_stylesheet[n] = None
      /\ stylist \in Seq(Nat) /\ Len(stylist) = 0
    BY DEF Init, Option
<1>4. Cascade(stylist, nodes_to_stylesheet)
    BY <1>3 DEF Cascade
<1>5. SheetsAreSpent /\ DroppedNodesStyleNothing
    BY <1>3 DEF Styled, SheetsAreSpent, DroppedNodesStyleNothing
<1> QED
    BY <1>1, <1>2, <1>3, <1>4, <1>5, InitIInv DEF SheetsInv, Sheets

LEMMA NextSheetsInv == SheetsInv /\ [Next]_vars => SheetsInv'
<1> SUFFICES ASSUME SheetsInv, [Next]_vars PROVE SheetsInv'
    OBVIOUS
<1> USE DEF SheetsInv
<1>0. IInv' /\ RequestsTypeOK
    BY NextIInv DEF IInv, RequestsInv
<1>1. ASSUME Kept, next_request' \in Nat, next_request' >= next_request,
             \A id \in Outstanding' : id \in Outstanding \/ id >= next_request
      PROVE  SheetsAreSpent'
  <2>1. \A n \in Styled' : n \in Styled /\ nodes_to_stylesheet'[n] = nodes_to_stylesheet[n]
      BY <1>1 DEF Kept, Styled
  <2>2. \A n \in Styled : nodes_to_stylesheet[n] \in Nat /\ next_request \in Nat
      BY <1>0 DEF Sheets, Styled, Option, RequestsTypeOK
  <2>3. ASSUME NEW n \in Styled'
        PROVE  nodes_to_stylesheet'[n] < next_request' /\ nodes_to_stylesheet'[n] \notin Outstanding'
      BY <1>1, <2>1, <2>2 DEF SheetsAreSpent
  <2> QED
      BY <2>3 DEF SheetsAreSpent
<1>2. ASSUME UNCHANGED <<place, rel, href, nodes_to_stylesheet, special, stylist,
                         pending_critical_resources, blocking, panicked>>,
             resolved' \in BOOLEAN
      PROVE  LinksRest' /\ Sheets' /\ DroppedNodesStyleNothing' /\ Kept
  <2>1. NoSheetChange
      BY <1>2 DEF NoSheetChange
  <2>2. Styled' = Styled
      BY <1>2 DEF Styled
  <2> QED
      BY <1>2, <2>1, <2>2, SameSheets DEF LinksRest, DroppedNodesStyleNothing
<1>3. next_request \in Nat
    BY <1>0 DEF RequestsTypeOK
<1>4. CASE Provider /\ UNCHANGED linkVars
  <2>1. LinksRest' /\ Sheets' /\ DroppedNodesStyleNothing' /\ Kept
      BY <1>2, <1>4 DEF linkVars, LinksRest
  <2>2. Outstanding' = Outstanding /\ next_request' = next_request
      BY <1>4, ProviderKeepsOutstanding DEF IInv
  <2>3. SheetsAreSpent'
      BY <1>1, <1>3, <2>1, <2>2
  <2>4. RequestsOfLinks'
      BY <1>0, <1>4, AnswersKeepLinks
  <2> QED
      BY <1>0, <2>1, <2>3, <2>4
<1>5. CASE Script
  <2>1. LinksRest' /\ Sheets' /\ DroppedNodesStyleNothing' /\ Kept
      BY <1>0, <1>5, ScriptKeepsSheets
  <2>2. channel' = channel
      BY <1>5, ScriptFetchesLinks DEF LinksRest
  <2>3. CASE NoFetch
    <3>1. Outstanding' = Outstanding /\ next_request' = next_request
        BY <2>2, <2>3 DEF NoFetch, Outstanding, Messages
    <3>2. RequestsOfLinks'
        BY <2>2, <2>3 DEF NoFetch, RequestsOfLinks
    <3> QED
        BY <1>0, <1>1, <1>3, <2>1, <3>1, <3>2
  <2>4. ASSUME NEW S \in SUBSET Nodes, NEW url \in Urls, Fetch(S, url) PROVE SheetsInv'
    <3>1. S \in SUBSET Option(Nodes)
        BY DEF Option
    <3>2. /\ next_request' \in Nat /\ next_request' >= next_request
          /\ \A id \in Outstanding' : id \in Outstanding \/ id >= next_request
        BY <2>2, <2>4, <3>1, FetchKeepsIds, FetchAddsNewIds DEF IInv, RequestsInv
    <3>3. RequestsOfLinks'
        BY <1>0, <2>2, <2>4, FetchKeepsLinks
    <3> QED
        BY <1>0, <1>1, <2>1, <3>2, <3>3
  <2> QED
      BY <1>5, <2>3, <2>4, ScriptFetchesLinks DEF LinksRest
<1>6. CASE LoadResource
  <2>1. LinksRest' /\ Sheets' /\ SheetsAreSpent' /\ DroppedNodesStyleNothing'
      BY <1>6, LoadResourceKeepsSheets
  <2>2. RequestsOfLinks'
    <3>1. channel # <<>> /\ channel' = Tail(channel) /\ inflight' = inflight
        BY <1>6 DEF LoadResource, TakeMessage, NoFetch
    <3>2. channel \in Seq(LinkMessage) /\ inflight \subseteq LinkRequest
        BY DEF RequestsOfLinks
    <3>3. channel' \in Seq(LinkMessage)
        BY <3>1, <3>2
    <3> QED
        BY <3>1, <3>2, <3>3 DEF RequestsOfLinks
  <2> QED
      BY <1>0, <2>1, <2>2
<1>7. CASE StartResolve \/ MoveRoot \/ EndResolve \/ UNCHANGED vars
  <2>1. /\ UNCHANGED <<next_request, inflight, channel>>
        /\ UNCHANGED <<place, rel, href, nodes_to_stylesheet, special, stylist,
                       pending_critical_resources, blocking, panicked>>
      BY <1>7 DEF StartResolve, BeginResolve, ResolveWithoutRoot, MoveRoot, RemoveRoot, InsertRoot,
                  ChangeRoot, EndResolve, ChannelDrained, vars, requestVars, linkVars
  <2>2. resolved' \in BOOLEAN
    <3>1. resolved \in BOOLEAN
        BY DEF LinksRest
    <3>2. CASE EndResolve
        BY <3>2, Zenon DEF EndResolve, HasNoPendingCriticalResources
    <3>3. CASE StartResolve \/ MoveRoot \/ UNCHANGED vars
        BY <3>1, <3>3 DEF StartResolve, MoveRoot, vars, linkVars
    <3> QED
        BY <1>7, <3>2, <3>3
  <2>3. LinksRest' /\ Sheets' /\ DroppedNodesStyleNothing' /\ Kept
      BY <1>2, <2>1, <2>2
  <2>4. Outstanding' = Outstanding /\ RequestsOfLinks'
      BY <2>1 DEF Outstanding, Messages, RequestsOfLinks
  <2>5. SheetsAreSpent'
      BY <1>1, <1>3, <2>1, <2>3, <2>4
  <2> QED
      BY <1>0, <2>3, <2>4, <2>5
<1> QED
    BY <1>4, <1>5, <1>6, <1>7 DEF Next

LEMMA SheetsInvariance == Spec => []SheetsInv
BY InitSheetsInv, NextSheetsInv, PTL DEF Spec

(* Requests, links, sheets and cascade keep their types.                   *)
THEOREM LinksAreTyped == Spec => []TypeOK
<1>1. SheetsInv => TypeOK
  <2> SUFFICES ASSUME SheetsInv PROVE TypeOK
      OBVIOUS
  <2>1. RequestsTypeOK /\ RequestsOfLinks /\ LinksRest
      BY DEF SheetsInv, IInv, RequestsInv
  <2>2. nodes_to_stylesheet \in [Nodes -> Option(Nat)] /\ special \in [Nodes -> Option(Nat)]
        /\ stylist \in Seq(Nat)
      BY DEF SheetsInv, Sheets
  <2> QED
      BY <2>1, <2>2 DEF TypeOK, RequestsOfLinks, LinkRequest, LinkMessage, LinksRest
<1> QED
    BY <1>1, SheetsInvariance, PTL

(* The cascade is what the elements own: every element's sheet once, in    *)
(* the order of their NodeIds, and nothing of an element that is gone: for *)
(* any number of links that load, reload, move, leave and come back while  *)
(* responses arrive in any order.                                          *)
THEOREM CascadeIsOfNodes == Spec => []CascadeFollowsNodes
<1>1. SheetsInv => CascadeFollowsNodes
  <2> SUFFICES ASSUME SheetsInv PROVE CascadeFollowsNodes
      OBVIOUS
  <2>1. Cascade(stylist, nodes_to_stylesheet) /\ special = nodes_to_stylesheet
      BY DEF SheetsInv, Sheets
  <2>2. {stylist[i] : i \in 1..Len(stylist)} = {nodes_to_stylesheet[n] : n \in Styled}
    <3>1. \A i \in 1..Len(stylist) : \E n \in Styled : stylist[i] = nodes_to_stylesheet[n]
        BY <2>1 DEF Cascade, Styled
    <3>2. \A n \in Styled : \E i \in 1..Len(stylist) : stylist[i] = nodes_to_stylesheet[n]
        BY <2>1 DEF Cascade, Styled
    <3> QED
        BY <3>1, <3>2
  <2>3. \A i, j \in 1..Len(stylist) : \A m, n \in Styled :
            i < j /\ stylist[i] = nodes_to_stylesheet[m] /\ stylist[j] = nodes_to_stylesheet[n]
                => m < n
      BY <2>1 DEF Cascade, Styled
  <2>4. StylistMatchesNodes
      BY <2>1, <2>2, <2>3 DEF StylistMatchesNodes
  <2> QED
      BY <2>4 DEF SheetsInv, CascadeFollowsNodes
<1> QED
    BY <1>1, SheetsInvariance, PTL
=============================================================================
