--------------------------- MODULE ImageLoading_proofs ---------------------------
(***************************************************************************)
(* Proofs about image loading, for any number of elements, URLs and loads, *)
(* and whatever other kinds of requests fail meanwhile.                    *)
(*                                                                         *)
(* An element shows no image that it did not ask for.  The invariant says  *)
(* so of the waiting lists too: who waits for a URL has asked for it, or   *)
(* is gone.                                                                *)
(*                                                                         *)
(* An entry of pending_images is a fetch that will be answered, and there  *)
(* is one per URL: this needs that no response is redirected, for the      *)
(* entry is found by the URL that the response reports.  That a URL nobody *)
(* else requests is fetched exactly while it is pending, and is pending    *)
(* only while it is not cached, makes it inductive.                        *)
(***************************************************************************)
EXTENDS ImageLoading, ResourceRequests_proofs

WaitingWasAsked ==
    \A u \in Pending : \A n \in pending_images[u] : place[n] # "dropped" => u \in asked[n]

ImagesInv == RequestsInv /\ TypeOK /\ ShownWasAsked /\ WaitingWasAsked

(* Responses come from the URL that was requested.                         *)
NoRedirects == \A u \in Urls : FinalUrl[u] = u

AnonymousAreForeign == \A msg \in Messages : msg.id = None => msg.url \in ForeignUrls

EntryIsLive(u) ==
    /\ u \in Pending => Requests(u) # {}
    /\ u \notin ForeignUrls =>
          /\ Requests(u) # {} => u \in Pending
          /\ u \in image_cache => u \notin Pending
          /\ \A p, q \in Requests(u) : p = q

LiveInv ==
    /\ NoRedirects
    /\ ImagesInv
    /\ AnonymousAreForeign
    /\ \A u \in Urls : EntryIsLive(u)

-----------------------------------------------------------------------------
(* Requests and messages of images, whatever becomes of them.              *)

ImageRequest == [id : Nat, node : {None}, url : Urls]
ImageMessage == [id : Option(Nat), node : {None}, url : Urls, ok : BOOLEAN]
RequestsOfImages ==
    /\ inflight \subseteq ImageRequest
    /\ channel \in Seq(ImageMessage)

LEMMA SendKeepsImageMessages ==
    ASSUME channel \in Seq(ImageMessage), NEW msg \in ImageMessage, channel' = Append(channel, msg)
    PROVE  channel' \in Seq(ImageMessage)
OBVIOUS

LEMMA ImageMessages ==
    ASSUME channel \in Seq(ImageMessage)
    PROVE  Messages \subseteq ImageMessage
BY DEF Messages

(* What an answer does: its request goes on as a message.                  *)
LEMMA AnswerOfImage ==
    ASSUME RequestsInv, RequestsOfImages, NEW q \in inflight, NEW url \in Urls,
           NEW ok \in BOOLEAN, Respond(q, url, ok)
    PROVE  /\ RequestsOfImages'
           /\ \E msg \in ImageMessage :
                 /\ msg.id = q.id /\ msg.id # None /\ msg.url = url
                 /\ Messages' = Messages \cup {msg}
                 /\ inflight' = inflight \ {q}
<1> DEFINE msg == [id |-> q.id, node |-> q.node, url |-> url, ok |-> ok]
<1>1. q \in ImageRequest
    BY DEF RequestsOfImages
<1>2. msg \in ImageMessage /\ msg \in Message /\ msg.id = q.id /\ msg.url = url /\ q.id # None
    BY <1>1, RequestsAssumption DEF ImageRequest, ImageMessage, Message, Option
<1>3. inflight' = inflight \ {q} /\ channel' = Append(channel, msg)
    BY DEF Respond, Send
<1> HIDE DEF msg
<1>4. Messages' = Messages \cup {msg}
    BY <1>2, <1>3, AppendedMessages DEF RequestsInv, RequestsTypeOK
<1>5. RequestsOfImages'
    BY <1>2, <1>3, SendKeepsImageMessages DEF RequestsOfImages
<1> QED
    BY <1>2, <1>3, <1>4, <1>5

LEMMA ProviderAnswers ==
    ASSUME RequestsInv, RequestsOfImages, Provider
    PROVE  \/ UNCHANGED <<inflight, channel>>
           \/ \E q \in inflight, url \in Urls, ok \in BOOLEAN :
                 /\ Respond(q, url, ok)
                 /\ url \in {q.url, FinalUrl[q.url]}
<1>1. ASSUME NEW q \in inflight, BytesArrive(q) \/ FetchFails(q) \/ DropHandler(q)
      PROVE  \E url \in Urls, ok \in BOOLEAN :
                 Respond(q, url, ok) /\ url \in {q.url, FinalUrl[q.url]}
  <2>1. q.url \in Urls /\ FinalUrl[q.url] \in Urls
      BY RequestsAssumption DEF RequestsOfImages, ImageRequest
  <2> QED
      BY <1>1, <2>1 DEF BytesArrive, FetchFails, DropHandler, RequestUrl
<1>2. ASSUME NEW id \in signalling, RequestRedraw(id) PROVE UNCHANGED <<inflight, channel>>
    BY <1>2 DEF RequestRedraw
<1> QED
    BY <1>1, <1>2 DEF Provider

LEMMA ForeignIsAnonymous ==
    ASSUME RequestsInv, RequestsOfImages, NEW url \in ForeignUrls, ForeignFailure(url)
    PROVE  /\ RequestsInv'
           /\ RequestsOfImages'
           /\ \E msg \in ImageMessage :
                 msg.id = None /\ msg.url = url /\ Messages' = Messages \cup {msg}
<1> DEFINE msg == [id |-> None, node |-> None, url |-> url, ok |-> FALSE]
<1>1. /\ msg \in ImageMessage /\ msg \in Message /\ msg.id = None /\ msg.url = url
    BY ForeignAssumption DEF ImageMessage, Message, Option
<1>2. /\ channel' = Append(channel, msg) /\ redraw' = TRUE
      /\ UNCHANGED <<next_request, inflight, signalling, resolving, rooted>>
    BY DEF ForeignFailure
<1> HIDE DEF msg
<1>3. RequestsInv'
    BY <1>1, <1>2, AnonymousKeepsInv
<1>4. Messages' = Messages \cup {msg}
    BY <1>1, <1>2, AppendedMessages DEF RequestsInv, RequestsTypeOK
<1>5. RequestsOfImages'
    BY <1>1, <1>2, SendKeepsImageMessages DEF RequestsOfImages
<1> QED
    BY <1>1, <1>3, <1>4, <1>5

LEMMA TakeKeepsImages ==
    ASSUME RequestsOfImages, TakeMessage, NoFetch
    PROVE  /\ RequestsOfImages'
           /\ Head(channel) \in ImageMessage
<1>1. channel \in Seq(ImageMessage) /\ channel # <<>> /\ channel' = Tail(channel)
    BY DEF RequestsOfImages, TakeMessage
<1>2. channel' \in Seq(ImageMessage) /\ Head(channel) \in ImageMessage
    BY <1>1
<1> QED
    BY <1>2 DEF RequestsOfImages, NoFetch

LEMMA FetchImage ==
    ASSUME RequestsInv, RequestsOfImages, NEW url \in Urls, Fetch({None}, url), channel' = channel
    PROVE  /\ RequestsOfImages'
           /\ \E request \in ImageRequest :
                 /\ request.id = next_request /\ request.url = url
                 /\ inflight' = inflight \cup {request}
<1> DEFINE request == [id |-> next_request, node |-> None, url |-> url]
<1>1. next_request \in Nat /\ inflight' = inflight \cup {request}
    BY FetchOne DEF RequestsInv
<1>2. request \in ImageRequest /\ request.id = next_request /\ request.url = url
    BY <1>1 DEF ImageRequest
<1> HIDE DEF request
<1> QED
    BY <1>1, <1>2 DEF RequestsOfImages

-----------------------------------------------------------------------------
(* The requests are those of the protocol, but for foreign failures.       *)

LEMMA LoadFetchesOrNot ==
    ASSUME NEW n \in Nodes, NEW url \in Option(Urls), LoadImage(n, url)
    PROVE  NoFetch \/ (url \in Urls /\ Fetch({None}, url))
BY DEF LoadImage, NothingToLoad, FromCache, Join, StartFetch, Option

LEMMA ScriptFetches ==
    ASSUME TypeOK, Script
    PROVE  /\ ~resolving /\ UNCHANGED <<signalling, channel, redraw, resolving, rooted, image_cache>>
           /\ NoFetch \/ \E url \in Urls : Fetch({None}, url)
<1>1. \A n \in Nodes : src[n] \in Option(Urls)
    BY DEF TypeOK
<1>2. ASSUME NEW n \in Nodes, NEW url \in Urls, SetSrc(n, url)
      PROVE  NoFetch \/ Fetch({None}, url)
  <2>1. url \in Option(Urls)
      BY DEF Option
  <2> QED
      BY <1>2, <2>1, LoadFetchesOrNot DEF SetSrc, NothingToLoad
<1>3. ASSUME NEW n \in Nodes, ClearSrc(n) \/ Insert(n) \/ Remove(n) \/ Drop(n)
      PROVE  NoFetch \/ \E url \in Urls : Fetch({None}, url)
    BY <1>1, <1>3, LoadFetchesOrNot DEF ClearSrc, Insert, Remove, Drop, NothingToLoad
<1>4. ~resolving /\ UNCHANGED <<signalling, channel, redraw, resolving, rooted, image_cache>>
    BY DEF Script, SetSrc, ClearSrc, Insert, Remove, Drop, Scripting
<1> QED
    BY <1>2, <1>3, <1>4 DEF Script

LEMMA StepKeepsRequests ==
    ASSUME RequestsInv, TypeOK, [Next]_vars
    PROVE  RequestsInv' /\ RequestsOfImages'
<1>0. RequestsOfImages
    BY DEF TypeOK, RequestsOfImages, ImageRequest, ImageMessage
<1>1. ASSUME [RequestsNext]_requestVars PROVE RequestsInv'
    BY <1>1, NextRequestsInv
<1>2. CASE Provider
  <2>1. RequestsInv'
      BY <1>1, <1>2 DEF RequestsNext
  <2>2. RequestsOfImages'
      BY <1>0, <1>2, ProviderAnswers, AnswerOfImage DEF RequestsOfImages
  <2> QED
      BY <2>1, <2>2
<1>3. CASE Script
  <2>1. RunScript
    <3>1. {None} \in SUBSET Option(Nodes)
        BY DEF Option
    <3> QED
        BY <1>3, <3>1, ScriptFetches DEF RunScript, MayFetch
  <2>2. RequestsInv'
      BY <1>1, <2>1 DEF RequestsNext
  <2>3. RequestsOfImages'
      BY <1>0, <1>3, ScriptFetches, FetchImage DEF RequestsOfImages, NoFetch
  <2> QED
      BY <2>2, <2>3
<1>4. CASE LoadResource
  <2>1. TakeMessage /\ NoFetch /\ redraw' = redraw
      BY <1>4 DEF LoadResource
  <2>2. RequestsInv'
      BY <1>1, <2>1 DEF RequestsNext, MayFetch
  <2> QED
      BY <1>0, <2>1, <2>2, TakeKeepsImages
<1>5. CASE StartResolve \/ MoveRoot \/ EndResolve
  <2>1. \/ BeginResolve \/ ResolveWithoutRoot
        \/ RemoveRoot \/ InsertRoot
        \/ ChannelDrained
      BY <1>5 DEF StartResolve, MoveRoot, EndResolve
  <2>2. UNCHANGED <<inflight, channel>>
      BY <2>1 DEF BeginResolve, ResolveWithoutRoot, RemoveRoot, InsertRoot, ChangeRoot, ChannelDrained
  <2> QED
      BY <1>0, <1>1, <2>1, <2>2 DEF RequestsNext, RequestsOfImages
<1>6. ASSUME NEW url \in ForeignUrls, ForeignFailure(url) PROVE RequestsInv' /\ RequestsOfImages'
    BY <1>0, <1>6, ForeignIsAnonymous
<1>7. CASE UNCHANGED vars
    BY <1>0, <1>1, <1>7 DEF vars, requestVars, RequestsOfImages
<1> QED
    BY <1>2, <1>3, <1>4, <1>5, <1>6, <1>7 DEF Next

-----------------------------------------------------------------------------
(* What is shown was asked for.                                            *)

ImageVarsTyped ==
    /\ place \in [Nodes -> Places]
    /\ src \in [Nodes -> Option(Urls)]
    /\ image \in [Nodes -> Option(Urls)]
    /\ pending_images \in [Urls -> Option(SUBSET Nodes)]
    /\ image_cache \subseteq Urls
    /\ asked \in [Nodes -> SUBSET Urls]

ImageState == ImageVarsTyped /\ ShownWasAsked /\ WaitingWasAsked

(* The lists only gain n, for a URL that it now asks for.                  *)
LEMMA LoadImageKeepsState ==
    ASSUME ImageState, NEW n \in Nodes, NEW url \in Option(Urls), LoadImage(n, url),
           image_cache' = image_cache,
           place' \in [Nodes -> Places], src' \in [Nodes -> Option(Urls)],
           \A m \in Nodes : place'[m] # "dropped" => place[m] # "dropped"
    PROVE  ImageState'
<1> USE DEF ImageState
<1>1. CASE url = None
  <2>1. UNCHANGED <<image, pending_images, asked>>
      BY <1>1 DEF LoadImage, NothingToLoad
  <2> QED
      BY <2>1 DEF ImageVarsTyped, ShownWasAsked, WaitingWasAsked, Pending, Option
<1>2. CASE url # None
  <2>1. /\ url \in Urls
        /\ FromCache(n, url) \/ Join(n, url) \/ StartFetch(n, url)
        /\ asked' = [asked EXCEPT ![n] = @ \cup {url}]
      BY <1>2 DEF LoadImage, Option
  <2>2. /\ asked' \in [Nodes -> SUBSET Urls]
        /\ \A m \in Nodes : asked[m] \subseteq asked'[m]
        /\ url \in asked'[n]
      BY <2>1 DEF ImageVarsTyped
  <2>3. CASE FromCache(n, url)
    <3>1. /\ url \in image_cache /\ image' = [image EXCEPT ![n] = url]
          /\ pending_images' = pending_images
        BY <2>3 DEF FromCache
    <3>2. image' \in [Nodes -> Option(Urls)]
        BY <2>1, <3>1 DEF ImageVarsTyped, Option
    <3>3. ShownWasAsked'
        BY <2>2, <3>1 DEF ImageVarsTyped, ShownWasAsked
    <3>4. WaitingWasAsked'
        BY <2>2, <3>1 DEF ImageVarsTyped, WaitingWasAsked, Pending, Option
    <3> QED
        BY <2>2, <3>1, <3>2, <3>3, <3>4 DEF ImageVarsTyped
  <2>4. CASE Join(n, url) \/ StartFetch(n, url)
    <3>1. image' = image
        BY <2>4 DEF Join, StartFetch
    <3>2. PICK waiting \in SUBSET Nodes :
              /\ pending_images' = [pending_images EXCEPT ![url] = waiting]
              /\ \A m \in waiting : m = n \/ (url \in Pending /\ m \in pending_images[url])
      <4>1. CASE Join(n, url)
        <5>1. pending_images[url] \in SUBSET Nodes /\ url \in Pending
            BY <2>1, <4>1 DEF Join, CanJoin, Pending, ImageVarsTyped, Option
        <5>2. pending_images' = [pending_images EXCEPT ![url] = pending_images[url] \cup {n}]
            BY <4>1 DEF Join
        <5> QED
            BY <5>1, <5>2
      <4>2. CASE StartFetch(n, url)
        <5>1. {n} \in SUBSET Nodes /\ \A m \in {n} : m = n
            OBVIOUS
        <5> QED
            BY <4>2, <5>1 DEF StartFetch
      <4> QED
          BY <2>4, <4>1, <4>2
    <3>3. /\ pending_images' \in [Urls -> Option(SUBSET Nodes)]
          /\ pending_images'[url] = waiting
          /\ \A u \in Urls \ {url} : pending_images'[u] = pending_images[u]
        BY <2>1, <3>2 DEF ImageVarsTyped, Option
    <3>4. ShownWasAsked'
        BY <2>2, <3>1 DEF ImageVarsTyped, ShownWasAsked
    <3>5. WaitingWasAsked'
      <4> SUFFICES ASSUME NEW u \in Urls, pending_images'[u] # None,
                          NEW m \in pending_images'[u], place'[m] # "dropped"
                   PROVE  u \in asked'[m]
          BY DEF WaitingWasAsked, Pending
      <4>1. m \in Nodes
          BY <3>3 DEF ImageVarsTyped, Option
      <4>2. CASE u = url /\ m = n
          BY <2>2, <4>2
      <4>3. CASE ~(u = url /\ m = n)
        <5>1. u \in Pending /\ m \in pending_images[u]
            BY <3>2, <3>3, <4>3 DEF Pending
        <5> QED
            BY <2>2, <4>1, <5>1 DEF WaitingWasAsked
      <4> QED
          BY <4>2, <4>3
    <3> QED
        BY <2>2, <3>1, <3>3, <3>4, <3>5 DEF ImageVarsTyped
  <2> QED
      BY <2>1, <2>3, <2>4
<1> QED
    BY <1>1, <1>2

LEMMA ScriptKeepsState ==
    ASSUME ImageState, Script
    PROVE  ImageState'
<1> USE DEF ImageState
<1>0. image_cache' = image_cache
    BY DEF Script, SetSrc, ClearSrc, Insert, Remove, Drop, Scripting
<1>1. \A n \in Nodes : src[n] \in Option(Urls)
    BY DEF ImageVarsTyped
<1>2. ASSUME NothingToLoad, place' \in [Nodes -> Places], src' \in [Nodes -> Option(Urls)],
             \A m \in Nodes : place'[m] # "dropped" => place[m] # "dropped"
      PROVE  ImageState'
  <2>1. UNCHANGED <<image, pending_images, asked>>
      BY <1>2 DEF NothingToLoad
  <2>2. \A u \in Pending : pending_images[u] \subseteq Nodes
      BY DEF Pending, ImageVarsTyped, Option
  <2> QED
      BY <1>0, <1>2, <2>1, <2>2 DEF ImageVarsTyped, ShownWasAsked, WaitingWasAsked, Pending
<1>3. ASSUME NEW n \in Nodes, NEW url \in Urls, SetSrc(n, url) PROVE ImageState'
  <2>1. url \in Option(Urls) /\ src' \in [Nodes -> Option(Urls)] /\ place' = place
      BY <1>3 DEF SetSrc, Option, ImageVarsTyped
  <2> QED
      BY <1>0, <1>2, <1>3, <2>1, LoadImageKeepsState DEF SetSrc, ImageVarsTyped
<1>4. ASSUME NEW n \in Nodes, Insert(n) PROVE ImageState'
  <2>1. /\ place' \in [Nodes -> Places] /\ src' = src
        /\ \A m \in Nodes : place'[m] # "dropped" => place[m] # "dropped"
      BY <1>4 DEF Insert, ImageVarsTyped, Places
  <2> QED
      BY <1>0, <1>1, <1>4, <2>1, LoadImageKeepsState DEF Insert, ImageVarsTyped
<1>5. ASSUME NEW n \in Nodes, ClearSrc(n) \/ Remove(n) PROVE ImageState'
  <2>1. /\ NothingToLoad /\ place' \in [Nodes -> Places] /\ src' \in [Nodes -> Option(Urls)]
        /\ \A m \in Nodes : place'[m] # "dropped" => place[m] # "dropped"
      BY <1>5 DEF ClearSrc, Remove, ImageVarsTyped, Places, Option
  <2> QED
      BY <1>2, <2>1
<1>6. ASSUME NEW n \in Nodes, Drop(n) PROVE ImageState'
  <2>1. /\ place' = [place EXCEPT ![n] = "dropped"]
        /\ src' = [src EXCEPT ![n] = None]
        /\ image' = [image EXCEPT ![n] = None]
        /\ asked' = [asked EXCEPT ![n] = {}]
        /\ pending_images' = pending_images
      BY <1>6 DEF Drop
  <2>2. ImageVarsTyped'
      BY <1>0, <2>1 DEF ImageVarsTyped, Places, Option
  <2>3. ShownWasAsked'
      BY <1>0, <2>1 DEF ImageVarsTyped, ShownWasAsked
  <2>4. \A u \in Pending : pending_images[u] \subseteq Nodes
      BY DEF Pending, ImageVarsTyped, Option
  <2>5. WaitingWasAsked'
      BY <2>1, <2>4 DEF ImageVarsTyped, WaitingWasAsked, Pending
  <2> QED
      BY <2>2, <2>3, <2>5
<1> QED
    BY <1>3, <1>4, <1>5, <1>6 DEF Script

LEMMA LoadResourceKeepsState ==
    ASSUME ImageState, RequestsOfImages, LoadResource
    PROVE  ImageState'
<1> USE DEF ImageState
<1> DEFINE url == Head(channel).url
<1>1. url \in Urls
    BY TakeKeepsImages DEF LoadResource, ImageMessage
<1>2. /\ UNCHANGED <<place, src, asked>>
      /\ pending_images' = [pending_images EXCEPT ![url] = None]
      /\ \/ ApplyLoadedImage(url)
         \/ UNCHANGED <<image, image_cache>>
    BY DEF LoadResource, DrainEntry
<1> HIDE DEF url
<1>3. /\ pending_images' \in [Urls -> Option(SUBSET Nodes)]
      /\ pending_images'[url] = None
      /\ \A u \in Urls \ {url} : pending_images'[u] = pending_images[u]
    BY <1>1, <1>2 DEF ImageVarsTyped, Option
<1>4. WaitingWasAsked'
    BY <1>2, <1>3 DEF WaitingWasAsked, Pending
<1>5. CASE ApplyLoadedImage(url)
  <2>1. /\ image_cache' = image_cache \cup {url}
        /\ image' = [n \in Nodes |->
                IF n \in WaitingFor(url) /\ place[n] # "dropped" THEN url ELSE image[n]]
      BY <1>5 DEF ApplyLoadedImage
  <2>2. image' \in [Nodes -> Option(Urls)]
      BY <1>1, <2>1 DEF ImageVarsTyped, Option
  <2>3. ShownWasAsked'
    <3> SUFFICES ASSUME NEW n \in Nodes, image'[n] # None
                 PROVE  image'[n] \in asked[n] /\ image'[n] \in image_cache'
        BY <1>2 DEF ShownWasAsked
    <3>1. CASE n \in WaitingFor(url) /\ place[n] # "dropped"
      <4>1. url \in Pending /\ n \in pending_images[url]
          BY <3>1 DEF WaitingFor
      <4> QED
          BY <2>1, <3>1, <4>1 DEF WaitingWasAsked
    <3>2. CASE ~(n \in WaitingFor(url) /\ place[n] # "dropped")
        BY <2>1, <3>2 DEF ShownWasAsked
    <3> QED
        BY <3>1, <3>2
  <2> QED
      BY <1>1, <1>2, <1>3, <1>4, <2>1, <2>2, <2>3 DEF ImageVarsTyped, Option
<1>6. CASE UNCHANGED <<image, image_cache>>
    BY <1>2, <1>3, <1>4, <1>6 DEF ImageVarsTyped, ShownWasAsked, Option
<1> QED
    BY <1>2, <1>5, <1>6

LEMMA InitImagesInv == Init => ImagesInv
<1> SUFFICES ASSUME Init PROVE ImagesInv
    OBVIOUS
<1>1. RequestsInv
    BY InitRequestsInv DEF Init
<1>2. ImageVarsTyped
    BY DEF Init, ImageVarsTyped, Places, Option
<1>3. inflight = {} /\ channel = <<>>
    BY DEF Init, RequestsInit
<1>4. TypeOK
    BY <1>1, <1>2, <1>3 DEF TypeOK, RequestsInv, ImageVarsTyped, Option
<1>5. ShownWasAsked /\ WaitingWasAsked
    BY DEF Init, ShownWasAsked, WaitingWasAsked, Pending
<1> QED
    BY <1>1, <1>4, <1>5 DEF ImagesInv

LEMMA NextImagesInv == ImagesInv /\ [Next]_vars => ImagesInv'
<1> SUFFICES ASSUME ImagesInv, [Next]_vars PROVE ImagesInv'
    OBVIOUS
<1>1. RequestsInv' /\ RequestsOfImages'
    BY StepKeepsRequests DEF ImagesInv
<1>2. ImageState /\ RequestsOfImages
    BY DEF ImagesInv, ImageState, TypeOK, ImageVarsTyped, RequestsOfImages, ImageRequest, ImageMessage, Option
<1>3. ImageState'
  <2>1. CASE UNCHANGED imgVars
      BY <1>2, <2>1
         DEF imgVars, ImageState, ImageVarsTyped, ShownWasAsked, WaitingWasAsked, Pending, Option
  <2>2. CASE \/ StartResolve \/ MoveRoot \/ EndResolve \/ UNCHANGED vars
             \/ \E url \in ForeignUrls : ForeignFailure(url)
      BY <2>1, <2>2 DEF StartResolve, MoveRoot, EndResolve, vars, ForeignFailure
  <2> QED
      BY <1>2, <2>1, <2>2, ScriptKeepsState, LoadResourceKeepsState DEF Next
<1>4. TypeOK'
    BY <1>1, <1>3 DEF TypeOK, RequestsInv, ImageState, ImageVarsTyped, RequestsOfImages,
                      ImageRequest, ImageMessage
<1> QED
    BY <1>1, <1>3, <1>4 DEF ImagesInv, ImageState

LEMMA ImagesInvariance == Spec => []ImagesInv
BY InitImagesInv, NextImagesInv, PTL DEF Spec

(* Elements, sources, waiting lists and cache keep their types; images'    *)
(* requests and answers never name an element.                             *)
THEOREM ImagesAreTyped == Spec => []TypeOK
<1>1. ImagesInv => TypeOK
    BY DEF ImagesInv
<1> QED
    BY <1>1, ImagesInvariance, PTL

(* An element shows no image but one that its src named at some time, and  *)
(* that is cached: whatever answers come late, or for others, or after the *)
(* element has left the document, and wherever they were redirected.       *)
THEOREM ShownImagesWereAsked == Spec => []ShownWasAsked
<1>1. ImagesInv => ShownWasAsked
    BY DEF ImagesInv
<1> QED
    BY <1>1, ImagesInvariance, PTL

(* The answers of images arrive once, and are heard, also when a request   *)
(* of another kind fails without an id.                                    *)
THEOREM ImagesAreAnswered == Spec => []AnswersArriveOnce
<1>1. ImagesInv => AnswersArriveOnce
    BY DEF ImagesInv, RequestsInv, AnswersArriveOnce
<1> QED
    BY <1>1, ImagesInvariance, PTL

-----------------------------------------------------------------------------
(* An entry is a fetch under way.                                          *)

LEMMA RequestIds ==
    ASSUME NEW u, NEW id
    PROVE  id \in Requests(u) <=>
               \/ \E q \in inflight : q.url = u /\ q.id = id
               \/ \E msg \in Messages : msg.url = u /\ msg.id # None /\ msg.id = id
BY DEF Requests

LEMMA RequestIdsNext ==
    ASSUME NEW u, NEW id
    PROVE  id \in Requests(u)' <=>
               \/ \E q \in inflight' : q.url = u /\ q.id = id
               \/ \E msg \in Messages' : msg.url = u /\ msg.id # None /\ msg.id = id
BY DEF Requests

LEMMA EntriesStay ==
    ASSUME NEW u, EntryIsLive(u), Requests(u)' = Requests(u),
           u \in Pending' <=> u \in Pending, u \in image_cache' <=> u \in image_cache
    PROVE  EntryIsLive(u)'
BY DEF EntryIsLive

LEMMA AnswersKeepEntries ==
    ASSUME LiveInv, Provider, UNCHANGED imgVars
    PROVE  AnonymousAreForeign' /\ \A u \in Urls : EntryIsLive(u)'
<1>0. RequestsInv /\ RequestsOfImages
    BY DEF LiveInv, ImagesInv, TypeOK, RequestsOfImages, ImageRequest, ImageMessage
<1>1. Pending' = Pending /\ image_cache' = image_cache
    BY DEF imgVars, Pending
<1>2. CASE UNCHANGED <<inflight, channel>>
  <2>1. Messages' = Messages /\ \A u \in Urls : Requests(u)' = Requests(u)
      BY <1>2 DEF Messages, Requests
  <2> QED
      BY <1>1, <2>1, EntriesStay DEF LiveInv, AnonymousAreForeign
<1>3. ASSUME NEW q \in inflight, NEW url \in Urls, NEW ok \in BOOLEAN, Respond(q, url, ok),
             url \in {q.url, FinalUrl[q.url]}
      PROVE  AnonymousAreForeign' /\ \A u \in Urls : EntryIsLive(u)'
  <2>1. q.url = url
    <3>1. q.url \in Urls
        BY <1>0 DEF RequestsOfImages, ImageRequest
    <3> QED
        BY <1>3, <3>1 DEF LiveInv, NoRedirects
  <2>2. PICK msg \in ImageMessage :
            /\ msg.id = q.id /\ msg.id # None /\ msg.url = url
            /\ Messages' = Messages \cup {msg}
            /\ inflight' = inflight \ {q}
      BY <1>0, <1>3, AnswerOfImage
  <2>3. ASSUME NEW u \in Urls PROVE Requests(u)' = Requests(u)
    <3>1. ASSUME NEW id PROVE id \in Requests(u)' <=> id \in Requests(u)
        BY <2>1, <2>2, RequestIds, RequestIdsNext
    <3> QED
        BY <3>1
  <2>4. AnonymousAreForeign'
      BY <2>2 DEF LiveInv, AnonymousAreForeign
  <2> QED
      BY <1>1, <2>3, <2>4, EntriesStay DEF LiveInv
<1> QED
    BY <1>0, <1>2, <1>3, ProviderAnswers

(* A fetch is started for a URL that has neither entry nor image; anything *)
(* else that a script does leaves requests, entries and cache as they are. *)
LEMMA LoadImageFetches ==
    ASSUME TypeOK, NEW n \in Nodes, NEW url \in Option(Urls), LoadImage(n, url)
    PROVE  \/ NoFetch /\ Pending' = Pending
           \/ /\ url \in Urls \ (Pending \cup image_cache)
              /\ Pending' = Pending \cup {url}
              /\ Fetch({None}, url)
<1>0. pending_images \in [Urls -> Option(SUBSET Nodes)]
    BY DEF TypeOK
<1>1. CASE url = None
    BY <1>1 DEF LoadImage, NothingToLoad, Pending
<1>2. CASE url # None /\ FromCache(n, url)
    BY <1>2 DEF FromCache, Pending
<1>3. CASE url # None /\ (Join(n, url) \/ StartFetch(n, url))
  <2>1. url \in Urls
      BY <1>3 DEF Option
  <2>2. CASE Join(n, url)
    <3>1. NoFetch /\ url \in Pending
        BY <2>2 DEF Join, CanJoin
    <3>2. pending_images[url] \cup {n} # None
      <4>1. pending_images[url] \cup {n} \in SUBSET Nodes
          BY <1>0, <3>1 DEF Pending, Option
      <4> QED
          BY <4>1, ImagesAssumption
    <3>3. /\ pending_images'[url] # None
          /\ \A u \in Urls \ {url} : pending_images'[u] = pending_images[u]
        BY <1>0, <2>1, <2>2, <3>2 DEF Join
    <3> QED
        BY <3>1, <3>3 DEF Pending
  <2>3. CASE StartFetch(n, url)
    <3>1. {n} # None
        BY ImagesAssumption
    <3>2. /\ pending_images'[url] # None
          /\ \A u \in Urls \ {url} : pending_images'[u] = pending_images[u]
        BY <1>0, <2>1, <2>3, <3>1 DEF StartFetch
    <3>3. Pending' = Pending \cup {url}
        BY <2>1, <3>2 DEF Pending
    <3> QED
        BY <2>1, <2>3, <3>3 DEF StartFetch, CanJoin
  <2> QED
      BY <1>3, <2>2, <2>3
<1> QED
    BY <1>1, <1>2, <1>3 DEF LoadImage

LEMMA ScriptsKeepEntries ==
    ASSUME LiveInv, Script
    PROVE  AnonymousAreForeign' /\ \A u \in Urls : EntryIsLive(u)'
<1> DEFINE FetchesOrNot ==
        \/ NoFetch /\ Pending' = Pending
        \/ \E url \in Urls \ (Pending \cup image_cache) :
              Pending' = Pending \cup {url} /\ Fetch({None}, url)
<1>0. RequestsInv /\ TypeOK /\ RequestsOfImages
    BY DEF LiveInv, ImagesInv, TypeOK, RequestsOfImages, ImageRequest, ImageMessage
<1>1. UNCHANGED <<channel, image_cache>> /\ Messages' = Messages
    BY <1>0, ScriptFetches DEF Messages
<1>2. AnonymousAreForeign'
    BY <1>1 DEF LiveInv, AnonymousAreForeign
<1>3. FetchesOrNot
  <2>1. \A n \in Nodes : src[n] \in Option(Urls)
      BY <1>0 DEF TypeOK
  <2>2. ASSUME NothingToLoad PROVE NoFetch /\ Pending' = Pending
      BY <2>2 DEF NothingToLoad, Pending
  <2>3. ASSUME NEW n \in Nodes, NEW url \in Urls, SetSrc(n, url) PROVE FetchesOrNot
    <3>1. url \in Option(Urls)
        BY DEF Option
    <3> QED
        BY <1>0, <2>2, <2>3, <3>1, LoadImageFetches DEF SetSrc
  <2>4. ASSUME NEW n \in Nodes, Insert(n) PROVE FetchesOrNot
      BY <1>0, <2>1, <2>4, LoadImageFetches DEF Insert
  <2>5. ASSUME NEW n \in Nodes, ClearSrc(n) \/ Remove(n) PROVE FetchesOrNot
      BY <2>2, <2>5 DEF ClearSrc, Remove
  <2>6. ASSUME NEW n \in Nodes, Drop(n) PROVE FetchesOrNot
      BY <2>6 DEF Drop, Pending
  <2> QED
      BY <2>3, <2>4, <2>5, <2>6 DEF Script
<1>4. CASE NoFetch /\ Pending' = Pending
  <2>1. \A u \in Urls : Requests(u)' = Requests(u)
      BY <1>1, <1>4 DEF NoFetch, Requests
  <2> QED
      BY <1>1, <1>2, <1>4, <2>1, EntriesStay DEF LiveInv
<1>5. ASSUME NEW url \in Urls \ (Pending \cup image_cache),
             Pending' = Pending \cup {url}, Fetch({None}, url)
      PROVE  \A u \in Urls : EntryIsLive(u)'
  <2>1. PICK request \in ImageRequest :
            /\ request.id = next_request /\ request.url = url
            /\ inflight' = inflight \cup {request}
      BY <1>0, <1>1, <1>5, FetchImage
  <2>2. ASSUME NEW u \in Urls, u # url PROVE EntryIsLive(u)'
    <3>1. ASSUME NEW id PROVE id \in Requests(u)' <=> id \in Requests(u)
        BY <1>1, <2>1, <2>2, RequestIds, RequestIdsNext
    <3>2. Requests(u)' = Requests(u)
        BY <3>1
    <3> QED
        BY <1>1, <1>5, <2>2, <3>2, EntriesStay DEF LiveInv
  <2>3. EntryIsLive(url)'
    <3>1. ASSUME NEW id
          PROVE  id \in Requests(url)' <=> id \in Requests(url) \/ id = next_request
        BY <1>1, <2>1, RequestIds, RequestIdsNext
    <3>2. url \notin ForeignUrls => Requests(url) = {}
        BY <1>5 DEF LiveInv, EntryIsLive
    <3> QED
        BY <1>1, <1>5, <3>1, <3>2 DEF EntryIsLive
  <2> QED
      BY <2>2, <2>3
<1> QED
    BY <1>2, <1>3, <1>4, <1>5

(* The entry of a message's URL goes with the message.                     *)
LEMMA LoadResourceKeepsEntries ==
    ASSUME LiveInv, LoadResource
    PROVE  AnonymousAreForeign' /\ \A u \in Urls : EntryIsLive(u)'
<1>0. RequestsInv /\ TypeOK /\ RequestsOfImages
    BY DEF LiveInv, ImagesInv, TypeOK, RequestsOfImages, ImageRequest, ImageMessage
<1>1. TakeMessage /\ NoFetch
    BY DEF LoadResource
<1>2. PICK msg \in ImageMessage :
          /\ msg = Head(channel) /\ msg \in Messages
          /\ Messages' \subseteq Messages
          /\ \A m \in Messages : m = msg \/ m \in Messages'
          /\ msg.id # None => \A m \in Messages' : m.id # msg.id
    BY <1>0, <1>1, RestOfChannel, TakeKeepsImages
<1>3. /\ msg.url \in Urls
      /\ pending_images' = [pending_images EXCEPT ![msg.url] = None]
      /\ image_cache' \in {image_cache, image_cache \cup {msg.url}}
    BY <1>2 DEF ImageMessage, LoadResource, ApplyLoadedImage, DrainEntry
<1>4. Pending' = Pending \ {msg.url}
    BY <1>0, <1>3 DEF TypeOK, Pending
<1>5. AnonymousAreForeign'
    BY <1>2 DEF LiveInv, AnonymousAreForeign
<1>6. ASSUME NEW u \in Urls, u # msg.url PROVE EntryIsLive(u)'
  <2>1. ASSUME NEW id PROVE id \in Requests(u)' <=> id \in Requests(u)
      BY <1>1, <1>2, <1>6, RequestIds, RequestIdsNext DEF NoFetch
  <2>2. Requests(u)' = Requests(u)
      BY <2>1
  <2> QED
      BY <1>3, <1>4, <1>6, <2>2, EntriesStay DEF LiveInv
<1>7. EntryIsLive(msg.url)'
  <2>1. CASE msg.url \in ForeignUrls
      BY <1>4, <2>1 DEF EntryIsLive
  <2>2. CASE msg.url \notin ForeignUrls
    <3>1. msg.id # None
        BY <1>2, <2>2 DEF LiveInv, AnonymousAreForeign
    <3>2. msg.id \in Requests(msg.url)
        BY <1>2, <3>1, RequestIds
    <3>3. \A id \in Requests(msg.url) : id = msg.id
        BY <1>3, <2>2, <3>2 DEF LiveInv, EntryIsLive
    <3>4. \A q \in inflight : q.id # msg.id
        BY <1>0, <1>2 DEF RequestsInv, AnsweredOnce
    <3>5. ASSUME NEW id \in Requests(msg.url)' PROVE FALSE
        BY <1>1, <1>2, <3>1, <3>3, <3>4, <3>5, RequestIds, RequestIdsNext DEF NoFetch
    <3> QED
        BY <1>4, <3>5 DEF EntryIsLive
  <2> QED
      BY <2>1, <2>2
<1> QED
    BY <1>5, <1>6, <1>7

LEMMA ForeignFailuresKeepEntries ==
    ASSUME LiveInv, NEW url \in ForeignUrls, ForeignFailure(url)
    PROVE  AnonymousAreForeign' /\ \A u \in Urls : EntryIsLive(u)'
<1>0. RequestsInv /\ RequestsOfImages
    BY DEF LiveInv, ImagesInv, TypeOK, RequestsOfImages, ImageRequest, ImageMessage
<1>1. PICK msg \in ImageMessage :
          msg.id = None /\ msg.url = url /\ Messages' = Messages \cup {msg}
    BY <1>0, ForeignIsAnonymous
<1>2. inflight' = inflight /\ Pending' = Pending /\ image_cache' = image_cache
    BY DEF ForeignFailure, imgVars, Pending
<1>3. AnonymousAreForeign'
    BY <1>1 DEF LiveInv, AnonymousAreForeign
<1>4. ASSUME NEW u \in Urls PROVE Requests(u)' = Requests(u)
  <2>1. ASSUME NEW id PROVE id \in Requests(u)' <=> id \in Requests(u)
      BY <1>1, <1>2, RequestIds, RequestIdsNext
  <2> QED
      BY <2>1
<1> QED
    BY <1>2, <1>3, <1>4, EntriesStay DEF LiveInv

LEMMA NextLiveInv == LiveInv /\ [Next]_vars => LiveInv'
<1> SUFFICES ASSUME LiveInv, [Next]_vars PROVE LiveInv'
    OBVIOUS
<1>1. NoRedirects'
    BY DEF LiveInv, NoRedirects
<1>2. ImagesInv'
    BY NextImagesInv DEF LiveInv
<1>3. ASSUME UNCHANGED <<inflight, channel, imgVars>>
      PROVE  AnonymousAreForeign' /\ \A u \in Urls : EntryIsLive(u)'
  <2>1. Messages' = Messages /\ Pending' = Pending /\ image_cache' = image_cache
      BY <1>3 DEF Messages, Pending, imgVars
  <2>2. \A u \in Urls : Requests(u)' = Requests(u)
      BY <1>3, <2>1 DEF Requests
  <2> QED
      BY <2>1, <2>2, EntriesStay DEF LiveInv, AnonymousAreForeign
<1>4. CASE StartResolve \/ MoveRoot \/ EndResolve \/ UNCHANGED vars
  <2>1. UNCHANGED <<inflight, channel, imgVars>>
      BY <1>4 DEF StartResolve, BeginResolve, ResolveWithoutRoot, MoveRoot, RemoveRoot, InsertRoot,
                  ChangeRoot, EndResolve, ChannelDrained, vars, requestVars
  <2> QED
      BY <1>1, <1>2, <1>3, <2>1 DEF LiveInv
<1>5. CASE Provider /\ UNCHANGED imgVars
    BY <1>1, <1>2, <1>5, AnswersKeepEntries DEF LiveInv
<1>6. CASE Script
    BY <1>1, <1>2, <1>6, ScriptsKeepEntries DEF LiveInv
<1>7. CASE LoadResource
    BY <1>1, <1>2, <1>7, LoadResourceKeepsEntries DEF LiveInv
<1>8. ASSUME NEW url \in ForeignUrls, ForeignFailure(url) PROVE LiveInv'
    BY <1>1, <1>2, <1>8, ForeignFailuresKeepEntries DEF LiveInv
<1> QED
    BY <1>4, <1>5, <1>6, <1>7, <1>8 DEF Next

(* Unless responses are redirected, who waits for an image is in the list  *)
(* of a fetch that will be answered, and a URL that only images request is *)
(* fetched once at a time and never when it is cached: for any number of   *)
(* elements that come and go, and failures of other requests for the URLs. *)
THEOREM PendingImagesAreLive == NoRedirects /\ Spec => []PendingIsLive
<1>1. NoRedirects /\ Init => LiveInv
  <2> SUFFICES ASSUME NoRedirects, Init PROVE LiveInv
      OBVIOUS
  <2>1. inflight = {} /\ channel = <<>> /\ Pending = {}
      BY DEF Init, RequestsInit, Pending
  <2>2. Messages = {}
      BY <2>1 DEF Messages
  <2>3. \A u \in Urls : Requests(u) = {}
      BY <2>1, <2>2 DEF Requests
  <2>4. AnonymousAreForeign /\ \A u \in Urls : EntryIsLive(u)
      BY <2>1, <2>2, <2>3 DEF AnonymousAreForeign, EntryIsLive
  <2> QED
      BY <2>4, InitImagesInv DEF LiveInv
<1>2. LiveInv => PendingIsLive
  <2> SUFFICES ASSUME LiveInv PROVE PendingIsLive
      OBVIOUS
  <2>1. NoDeadEntry
      BY DEF LiveInv, EntryIsLive, NoDeadEntry, Pending
  <2>2. NoDuplicateFetch
      BY DEF LiveInv, EntryIsLive, NoDuplicateFetch
  <2> QED
      BY <2>1, <2>2 DEF PendingIsLive
<1> QED
    BY <1>1, <1>2, NextLiveInv, PTL DEF Spec
=============================================================================
