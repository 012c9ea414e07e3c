------------------------- MODULE ResourceRequests_proofs -------------------------
(***************************************************************************)
(* Proofs about the request protocol: a request is answered at most once,  *)
(* and no message is stranded in the document's channel.  The invariant    *)
(* is the conjunction of the three: that a new id is in nobody's hands     *)
(* needs that all ids in use are below the counter, which is part of       *)
(* AnsweredOnce.                                                           *)
(***************************************************************************)
EXTENDS ResourceRequests, FiniteSetTheorems, TLAPS

RequestsInv == RequestsTypeOK /\ AnsweredOnce /\ NoMessageStranded

-----------------------------------------------------------------------------
(* The messages of a channel that grew or shrank at an end.                *)
LEMMA AppendedMessages ==
    ASSUME channel \in Seq(Message), NEW msg \in Message,
           channel' = Append(channel, msg)
    PROVE  /\ channel' \in Seq(Message)
           /\ Messages' = Messages \cup {msg}
           /\ Len(channel') = Len(channel) + 1
           /\ \A i \in 1..Len(channel) : channel'[i] = channel[i]
           /\ channel'[Len(channel) + 1] = msg
  BY DEF Messages

LEMMA TakenMessages ==
    ASSUME channel \in Seq(Message), channel # <<>>, channel' = Tail(channel)
    PROVE  /\ channel' \in Seq(Message)
           /\ Len(channel') = Len(channel) - 1
           /\ \A i \in 1..Len(channel') : channel'[i] = channel[i + 1]
           /\ Messages' \subseteq Messages
  BY DEF Messages

(* What is outstanding has an id in a handler or in a message.             *)
LEMMA OutstandingIds ==
    ASSUME RequestsTypeOK
    PROVE  /\ Messages \subseteq Message
           /\ \A q \in inflight : q.id \in Nat /\ q.id \in Outstanding
           /\ \A msg \in Messages : msg.id # None => msg.id \in Outstanding
           /\ Outstanding \subseteq Nat
<1>1. Messages \subseteq Message
    BY DEF RequestsTypeOK, Messages
<1>2. \A q \in inflight : q.id \in Nat /\ q.id \in Outstanding
    BY DEF RequestsTypeOK, Request, Outstanding
<1>3. \A msg \in Messages : msg.id \in Nat \cup {None}
    BY <1>1 DEF Message, Option
<1>4. \A msg \in Messages : msg.id # None => msg.id \in Outstanding
    BY DEF Outstanding
<1>5. Outstanding \subseteq Nat
    BY <1>2, <1>3 DEF Outstanding
<1> QED
    BY <1>1, <1>2, <1>4, <1>5

LEMMA InitRequestsInv == RequestsInit => RequestsInv
<1> SUFFICES ASSUME RequestsInit PROVE RequestsInv
    OBVIOUS
<1> USE DEF RequestsInit
<1>1. RequestsTypeOK
  <2>1. channel \in Seq(Message)
      OBVIOUS
  <2>2. redraw \in BOOLEAN /\ resolving \in BOOLEAN /\ rooted \in BOOLEAN
      BY Zenon
  <2> QED
      BY <2>1, <2>2 DEF RequestsTypeOK
<1>2. Messages = {} /\ Outstanding = {}
    BY DEF Messages, Outstanding
<1>3. AnsweredOnce
    BY <1>2 DEF AnsweredOnce
<1>4. NoMessageStranded
    BY DEF NoMessageStranded
<1> QED
    BY <1>1, <1>3, <1>4 DEF RequestsInv

-----------------------------------------------------------------------------
(* One lemma for each kind of step.                                        *)

(* A fetch for one node, or for none, takes the next id.                   *)
LEMMA FetchOne ==
    ASSUME RequestsTypeOK, NEW n, NEW url, Fetch({n}, url)
    PROVE  /\ next_request \in Nat
           /\ next_request' = next_request + 1
           /\ inflight' = inflight \cup {[id |-> next_request, node |-> n, url |-> url]}
<1>1. Cardinality({n}) = 1
    BY FS_Singleton
<1>2. next_request \in Nat /\ next_request' = next_request + 1
    BY <1>1 DEF Fetch, RequestsTypeOK
<1>3. PICK f \in Numberings({n}) :
        inflight' = inflight \cup {[id |-> f[m], node |-> m, url |-> url] : m \in {n}}
    BY DEF Fetch
<1>4. f[n] = next_request
    BY <1>1, <1>2 DEF Numberings
<1> QED
    BY <1>2, <1>3, <1>4

(* New handlers get ids that nothing outstanding has.                      *)
LEMMA FetchKeepsIds ==
    ASSUME RequestsTypeOK, AnsweredOnce,
           NEW S \in SUBSET Option(Nodes), NEW url \in Urls, Fetch(S, url)
    PROVE  /\ next_request' \in Nat
           /\ next_request' >= next_request
           /\ inflight' \subseteq Request
           /\ \A q, r \in inflight' : q.id = r.id => q = r
           /\ \A q \in inflight' : q \in inflight \/ q.id >= next_request
           /\ \A q \in inflight' : q.id < next_request'
<1>1. IsFiniteSet(S)
    BY RequestsAssumption, FS_Subset, FS_AddElement DEF Option
<1>2. Cardinality(S) \in Nat
    BY <1>1, FS_CardinalityType
<1>3. next_request \in Nat /\ next_request' = next_request + Cardinality(S)
    BY DEF Fetch, RequestsTypeOK
<1>4. PICK f \in Numberings(S) :
        inflight' = inflight \cup {[id |-> f[n], node |-> n, url |-> url] : n \in S}
    BY DEF Fetch
<1>5. /\ \A n \in S : f[n] \in Nat /\ f[n] >= next_request /\ f[n] < next_request'
      /\ \A m, n \in S : f[m] = f[n] => m = n
    BY <1>2, <1>3 DEF Numberings
<1>6. \A q \in inflight : q.id \in Nat /\ q.id < next_request
    BY OutstandingIds DEF AnsweredOnce
<1>7. \A q \in inflight' : q \in inflight
          \/ \E n \in S : q = [id |-> f[n], node |-> n, url |-> url]
    BY <1>4
<1>8. inflight' \subseteq Request
    BY <1>5, <1>7 DEF RequestsTypeOK, Request
<1>9. \A q \in inflight' : q \in inflight \/ q.id >= next_request
    BY <1>5, <1>7
<1>10. \A q \in inflight' : q.id < next_request'
    BY <1>2, <1>3, <1>5, <1>6, <1>7
<1>11. \A q, r \in inflight' : q.id = r.id => q = r
  <2> SUFFICES ASSUME NEW q \in inflight', NEW r \in inflight', q.id = r.id PROVE q = r
      OBVIOUS
  <2>1. CASE q \in inflight /\ r \in inflight
      BY <2>1 DEF AnsweredOnce
  <2>2. CASE q \in inflight /\ r \notin inflight
      BY <2>2, <1>5, <1>6, <1>7, <1>3
  <2>3. CASE q \notin inflight /\ r \in inflight
      BY <2>3, <1>5, <1>6, <1>7, <1>3
  <2>4. CASE q \notin inflight /\ r \notin inflight
      BY <2>4, <1>5, <1>7
  <2> QED
      BY <2>1, <2>2, <2>3, <2>4
<1> QED
    BY <1>2, <1>3, <1>8, <1>9, <1>10, <1>11

(* An answer moves its id from the handler to the message.                 *)
LEMMA RespondKeepsInv ==
    ASSUME RequestsInv, NEW q \in inflight, NEW url \in Urls, NEW ok \in BOOLEAN,
           Respond(q, url, ok)
    PROVE  RequestsInv'
<1> DEFINE msg == [id |-> q.id, node |-> q.node, url |-> url, ok |-> ok]
<1> USE DEF RequestsInv
<1>1. msg \in Message /\ q.id \in Nat /\ msg.id = q.id
    BY DEF RequestsTypeOK, Request, Message, Option
<1>2. /\ inflight' = inflight \ {q}
      /\ channel' = Append(channel, msg)
      /\ signalling' = signalling \cup {q.id}
      /\ UNCHANGED <<next_request, redraw, resolving, rooted>>
    BY DEF Respond, Send
<1> HIDE DEF msg
<1>3. /\ channel' \in Seq(Message)
      /\ Messages' = Messages \cup {msg}
      /\ Len(channel') = Len(channel) + 1
      /\ \A i \in 1..Len(channel) : channel'[i] = channel[i]
      /\ channel'[Len(channel) + 1] = msg
    BY <1>1, <1>2, AppendedMessages DEF RequestsTypeOK
<1>4. RequestsTypeOK'
    BY <1>1, <1>2, <1>3 DEF RequestsTypeOK
<1>5. \A p, r \in inflight' : p.id = r.id => p = r
    BY <1>2 DEF AnsweredOnce
<1>6. \A p \in inflight', m \in Messages' : p.id # m.id
    BY <1>1, <1>2, <1>3 DEF AnsweredOnce
<1>7. \A i \in 1..Len(channel) : channel[i].id # q.id
    BY DEF AnsweredOnce, Messages
<1>8. \A i, j \in 1..Len(channel') :
          channel'[i].id = channel'[j].id /\ channel'[i].id # None => i = j
  <2> SUFFICES ASSUME NEW i \in 1..Len(channel'), NEW j \in 1..Len(channel'),
                      channel'[i].id = channel'[j].id, channel'[i].id # None
               PROVE  i = j
      OBVIOUS
  <2>0. Len(channel) \in Nat
      BY DEF RequestsTypeOK
  <2>1. i \in 1..Len(channel) \/ i = Len(channel) + 1
      BY <1>3, <2>0
  <2>2. j \in 1..Len(channel) \/ j = Len(channel) + 1
      BY <1>3, <2>0
  <2>3. CASE i \in 1..Len(channel) /\ j \in 1..Len(channel)
      BY <2>3, <1>3 DEF AnsweredOnce
  <2>4. CASE i \in 1..Len(channel) /\ j = Len(channel) + 1
      BY <2>4, <1>1, <1>3, <1>7
  <2>5. CASE i = Len(channel) + 1 /\ j \in 1..Len(channel)
      BY <2>5, <1>1, <1>3, <1>7
  <2> QED
      BY <2>1, <2>2, <2>3, <2>4, <2>5
<1>9. Outstanding' \subseteq Outstanding
    BY <1>1, <1>2, <1>3 DEF Outstanding
<1>10. AnsweredOnce'
    BY <1>2, <1>5, <1>6, <1>8, <1>9 DEF AnsweredOnce
<1>11. NoMessageStranded'
    BY <1>2 DEF NoMessageStranded
<1> QED
    BY <1>4, <1>10, <1>11

(* A message without an id answers no request.                             *)
LEMMA AnonymousKeepsInv ==
    ASSUME RequestsInv, NEW msg \in Message, msg.id = None,
           channel' = Append(channel, msg), redraw' = TRUE,
           UNCHANGED <<next_request, inflight, signalling, resolving, rooted>>
    PROVE  RequestsInv'
<1> USE DEF RequestsInv
<1>3. /\ channel' \in Seq(Message)
      /\ Messages' = Messages \cup {msg}
      /\ Len(channel') = Len(channel) + 1
      /\ \A i \in 1..Len(channel) : channel'[i] = channel[i]
      /\ channel'[Len(channel) + 1] = msg
    BY AppendedMessages DEF RequestsTypeOK
<1>4. RequestsTypeOK'
    BY <1>3 DEF RequestsTypeOK
<1>5. \A q \in inflight : q.id # None
    BY OutstandingIds, RequestsAssumption
<1>6. \A q \in inflight', m \in Messages' : q.id # m.id
    BY <1>3, <1>5 DEF AnsweredOnce
<1>7. \A i, j \in 1..Len(channel') :
          channel'[i].id = channel'[j].id /\ channel'[i].id # None => i = j
  <2>0. Len(channel) \in Nat
      BY DEF RequestsTypeOK
  <2>1. \A i \in 1..Len(channel') : channel'[i].id # None => i \in 1..Len(channel)
      BY <1>3, <2>0
  <2> QED
      BY <2>1, <1>3 DEF AnsweredOnce
<1>8. Outstanding' = Outstanding
    BY <1>3 DEF Outstanding
<1>9. AnsweredOnce'
    BY <1>6, <1>7, <1>8 DEF AnsweredOnce
<1>10. NoMessageStranded'
    BY DEF NoMessageStranded
<1> QED
    BY <1>4, <1>9, <1>10

LEMMA NavigationKeepsInv ==
    ASSUME RequestsInv, NEW n \in Nodes, NEW url \in Urls, SendNavigation(n, url)
    PROVE  RequestsInv'
<1> DEFINE msg == [id |-> None, node |-> n, url |-> url, ok |-> TRUE]
<1>1. msg \in Message /\ msg.id = None
    BY DEF Message, Option
<1>2. /\ channel' = Append(channel, msg)
      /\ redraw' = TRUE
      /\ UNCHANGED <<next_request, inflight, signalling, resolving, rooted>>
    BY DEF SendNavigation
<1> HIDE DEF msg
<1> QED
    BY <1>1, <1>2, AnonymousKeepsInv

(* The message that is taken was the last of its request.                  *)
LEMMA RestOfChannel ==
    ASSUME RequestsInv, TakeMessage
    PROVE  /\ Head(channel) \in Message
           /\ Head(channel) \in Messages
           /\ Messages' \subseteq Messages
           /\ \A msg \in Messages : msg = Head(channel) \/ msg \in Messages'
           /\ Head(channel).id # None => \A msg \in Messages' : msg.id # Head(channel).id
<1> DEFINE first == channel[1]
<1> USE DEF RequestsInv
<1>1. /\ channel \in Seq(Message) /\ channel # <<>> /\ channel' = Tail(channel)
    BY DEF TakeMessage, RequestsTypeOK
<1>2. /\ Len(channel) \in Nat /\ Len(channel) >= 1
      /\ Len(channel') = Len(channel) - 1
      /\ \A i \in 1..Len(channel') : channel'[i] = channel[i + 1]
      /\ Messages' \subseteq Messages
      /\ Head(channel) = first
    BY <1>1, TakenMessages
<1>3. \A i \in 1..Len(channel) : i = 1 \/ i - 1 \in 1..Len(channel')
    BY <1>2
<1>4. \A i \in 1..Len(channel) : i = 1 \/ channel[i] \in Messages'
  <2> SUFFICES ASSUME NEW i \in 1..Len(channel), i # 1 PROVE channel[i] \in Messages'
      OBVIOUS
  <2>1. i - 1 \in 1..Len(channel') /\ channel'[i - 1] = channel[i - 1 + 1]
      BY <1>2, <1>3
  <2>2. i - 1 + 1 = i
      OBVIOUS
  <2> QED
      BY <2>1, <2>2 DEF Messages
<1>5. first \in Messages /\ first \in Message
    BY <1>1, <1>2 DEF Messages
<1>6. \A m \in Messages : m = first \/ m \in Messages'
    BY <1>4 DEF Messages
<1>7. ASSUME first.id # None PROVE \A m \in Messages' : m.id # first.id
  <2>1. \A i \in 1..Len(channel) : i # 1 => channel[i].id # first.id
      BY <1>2, <1>7 DEF AnsweredOnce
  <2> SUFFICES ASSUME NEW j \in 1..Len(channel') PROVE channel'[j].id # first.id
      BY DEF Messages
  <2>2. j + 1 \in 1..Len(channel) /\ j + 1 # 1
      BY <1>2
  <2> QED
      BY <1>2, <2>1, <2>2
<1> HIDE DEF first
<1> QED
    BY <1>2, <1>5, <1>6, <1>7

(* What a script or a message handler does to the requests.                *)
LEMMA MayFetchKeepsIds ==
    ASSUME RequestsTypeOK, AnsweredOnce, MayFetch
    PROVE  /\ next_request' \in Nat
           /\ next_request' >= next_request
           /\ inflight' \subseteq Request
           /\ \A q, r \in inflight' : q.id = r.id => q = r
           /\ \A q \in inflight' : q \in inflight \/ q.id >= next_request
           /\ \A q \in inflight' : q.id < next_request'
<1>1. CASE NoFetch
    BY <1>1, OutstandingIds DEF NoFetch, AnsweredOnce, RequestsTypeOK
<1>2. CASE \E S \in SUBSET Option(Nodes), url \in Urls : Fetch(S, url)
    BY <1>2, FetchKeepsIds
<1> QED
    BY <1>1, <1>2 DEF MayFetch

(* ... while the channel keeps its messages, or loses the first of them.   *)
LEMMA FetchingKeepsAnsweredOnce ==
    ASSUME RequestsInv, MayFetch,
           channel' = channel \/ (channel # <<>> /\ channel' = Tail(channel))
    PROVE  AnsweredOnce'
<1> USE DEF RequestsInv
<1>1. /\ next_request \in Nat /\ next_request' \in Nat
      /\ next_request' >= next_request
      /\ \A q, r \in inflight' : q.id = r.id => q = r
      /\ \A q \in inflight' : q \in inflight \/ q.id >= next_request
      /\ \A q \in inflight' : q.id \in Nat /\ q.id < next_request'
    BY MayFetchKeepsIds DEF RequestsTypeOK, Request
<1>2. /\ Messages' \subseteq Messages
      /\ \A i, j \in 1..Len(channel') :
            channel'[i].id = channel'[j].id /\ channel'[i].id # None => i = j
  <2>1. CASE channel' = channel
      BY <2>1 DEF AnsweredOnce, Messages
  <2>2. CASE channel # <<>> /\ channel' = Tail(channel)
    <3>1. /\ Len(channel') = Len(channel) - 1
          /\ \A i \in 1..Len(channel') : channel'[i] = channel[i + 1]
          /\ Messages' \subseteq Messages
        BY <2>2, TakenMessages DEF RequestsTypeOK
    <3>2. Len(channel) \in Nat
        BY DEF RequestsTypeOK
    <3>3. \A i \in 1..Len(channel') : i + 1 \in 1..Len(channel)
        BY <3>1, <3>2
    <3>4. \A i, j \in 1..Len(channel') :
              channel'[i].id = channel'[j].id /\ channel'[i].id # None => i + 1 = j + 1
        BY <3>1, <3>3 DEF AnsweredOnce
    <3> QED
        BY <3>1, <3>2, <3>4
  <2> QED
      BY <2>1, <2>2
<1>3. \A msg \in Messages' : msg.id # None => msg.id \in Nat /\ msg.id < next_request
    BY <1>2, OutstandingIds DEF AnsweredOnce
<1>4. \A q \in inflight', msg \in Messages' : q.id # msg.id
    BY <1>1, <1>2, <1>3, RequestsAssumption DEF AnsweredOnce
<1>5. \A id \in Outstanding' : id < next_request'
    BY <1>1, <1>3 DEF Outstanding
<1> QED
    BY <1>1, <1>2, <1>4, <1>5 DEF AnsweredOnce

(* Signals, redraws and the start and end of resolve leave the ids alone.  *)
LEMMA SameIds ==
    ASSUME AnsweredOnce, UNCHANGED <<next_request, inflight, channel>>
    PROVE  AnsweredOnce'
BY DEF AnsweredOnce, Messages, Outstanding

LEMMA NextRequestsInv == RequestsInv /\ [RequestsNext]_requestVars => RequestsInv'
<1> SUFFICES ASSUME RequestsInv, [RequestsNext]_requestVars PROVE RequestsInv'
    OBVIOUS
<1> USE DEF RequestsInv
<1>1. CASE Provider
  <2>1. ASSUME NEW q \in inflight, BytesArrive(q) PROVE RequestsInv'
    <3>1. q.url \in Urls /\ FinalUrl[q.url] \in Urls
        BY RequestsAssumption DEF RequestsTypeOK, Request
    <3> QED
        BY <2>1, <3>1, RespondKeepsInv DEF BytesArrive
  <2>2. ASSUME NEW q \in inflight, FetchFails(q) \/ DropHandler(q) PROVE RequestsInv'
    <3>1. q.url \in Urls
        BY DEF RequestsTypeOK, Request
    <3> QED
        BY <2>2, <3>1, RespondKeepsInv DEF FetchFails, DropHandler, RequestUrl
  <2>3. ASSUME NEW id \in signalling, RequestRedraw(id) PROVE RequestsInv'
    <3>1. RequestsTypeOK'
        BY <2>3 DEF RequestRedraw, RequestsTypeOK
    <3>2. AnsweredOnce'
        BY <2>3, SameIds DEF RequestRedraw
    <3>3. NoMessageStranded'
        BY <2>3, Zenon DEF RequestRedraw, NoMessageStranded
    <3> QED
        BY <3>1, <3>2, <3>3
  <2> QED
      BY <1>1, <2>1, <2>2, <2>3 DEF Provider
<1>2. CASE BeginResolve
  <2>1. RequestsTypeOK'
      BY <1>2 DEF BeginResolve, RequestsTypeOK
  <2>2. AnsweredOnce'
      BY <1>2, SameIds DEF BeginResolve
  <2>3. NoMessageStranded'
      BY <1>2, Zenon DEF BeginResolve, NoMessageStranded
  <2> QED
      BY <2>1, <2>2, <2>3
<1>8. CASE ResolveWithoutRoot
  <2>1. RequestsTypeOK'
      BY <1>8 DEF ResolveWithoutRoot, RequestsTypeOK
  <2>2. AnsweredOnce'
      BY <1>8, SameIds DEF ResolveWithoutRoot
  <2>3. NoMessageStranded'
      BY <1>8, Zenon DEF ResolveWithoutRoot, NoMessageStranded
  <2> QED
      BY <2>1, <2>2, <2>3
<1>9. CASE RemoveRoot \/ InsertRoot
  <2>1. ASSUME NEW has_root \in BOOLEAN, ChangeRoot(has_root) PROVE RequestsInv'
    <3>1. RequestsTypeOK'
        BY <2>1 DEF ChangeRoot, RequestsTypeOK
    <3>2. AnsweredOnce'
        BY <2>1, SameIds DEF ChangeRoot
    <3>3. NoMessageStranded'
        BY <2>1, Zenon DEF ChangeRoot, NoMessageStranded
    <3> QED
        BY <3>1, <3>2, <3>3
  <2> QED
      BY <1>9, <2>1 DEF RemoveRoot, InsertRoot
<1>3. CASE TakeMessage /\ MayFetch
  <2>1. channel' \in Seq(Message)
      BY <1>3, TakenMessages DEF TakeMessage, RequestsTypeOK
  <2>2. RequestsTypeOK'
      BY <1>3, <2>1, MayFetchKeepsIds DEF TakeMessage, MayFetch, RequestsTypeOK
  <2>3. AnsweredOnce'
      BY <1>3, FetchingKeepsAnsweredOnce DEF TakeMessage
  <2>4. NoMessageStranded'
      BY <1>3 DEF TakeMessage, NoMessageStranded
  <2> QED
      BY <2>2, <2>3, <2>4
<1>4. CASE ChannelDrained
  <2>1. RequestsTypeOK'
      BY <1>4 DEF ChannelDrained, RequestsTypeOK
  <2>2. AnsweredOnce'
      BY <1>4, SameIds DEF ChannelDrained
  <2>3. NoMessageStranded'
      BY <1>4, Zenon DEF ChannelDrained, NoMessageStranded
  <2> QED
      BY <2>1, <2>2, <2>3
<1>5. CASE RunScript
  <2>1. RequestsTypeOK'
      BY <1>5, MayFetchKeepsIds DEF RunScript, MayFetch, RequestsTypeOK
  <2>2. AnsweredOnce'
      BY <1>5, FetchingKeepsAnsweredOnce DEF RunScript
  <2>3. NoMessageStranded'
    <3>1. redraw' = redraw \/ redraw' = TRUE
        BY <1>5 DEF RunScript, MayFetch
    <3>2. UNCHANGED <<signalling, channel, resolving, rooted>>
        BY <1>5 DEF RunScript
    <3> QED
        BY <3>1, <3>2, Zenon DEF NoMessageStranded
  <2> QED
      BY <2>1, <2>2, <2>3
<1>6. ASSUME NEW n \in Nodes, NEW url \in Urls, SendNavigation(n, url) PROVE RequestsInv'
    BY <1>6, NavigationKeepsInv
<1>7. CASE UNCHANGED requestVars
  <2>1. RequestsTypeOK'
      BY <1>7 DEF requestVars, RequestsTypeOK
  <2>2. AnsweredOnce'
      BY <1>7, SameIds DEF requestVars
  <2>3. NoMessageStranded'
      BY <1>7, Zenon DEF requestVars, NoMessageStranded
  <2> QED
      BY <2>1, <2>2, <2>3
<1> QED
    BY <1>1, <1>2, <1>3, <1>4, <1>5, <1>6, <1>7, <1>8, <1>9 DEF RequestsNext

LEMMA RequestsInvariant == RequestsSpec => []RequestsInv
BY InitRequestsInv, NextRequestsInv, PTL DEF RequestsSpec

-----------------------------------------------------------------------------
(* Every request is answered at most once, under an id of its own, and a   *)
(* message in the channel always has a drain or a redraw to come while the *)
(* document has a root element, however providers, scripts, resolve and    *)
(* the coming and going of the root interleave.                            *)
THEOREM RequestsAreAnswered == RequestsSpec => []AnswersArriveOnce
<1>1. RequestsInv => AnswersArriveOnce
    BY DEF RequestsInv, AnswersArriveOnce
<1> QED
    BY <1>1, RequestsInvariant, PTL
=============================================================================
