------------------------------ MODULE ImageLoading ------------------------------
(***************************************************************************)
(* <img src> in a document: load_image takes an image from the cache,      *)
(* joins the fetch of its URL that is in flight, or starts one             *)
(* (mutator.rs); a response is cached and given to every element that      *)
(* waits for its URL (document.rs).                                        *)
(*                                                                         *)
(* An image is told apart by the URL it was cached under.  Other elements  *)
(* may request the same URLs as something else (a stylesheet, an iframe):  *)
(* only their failures touch this state, by the URL they report.           *)
(***************************************************************************)
EXTENDS ResourceRequests

CONSTANT ForeignUrls    \* URLs that are requested as other kinds too

ASSUME ForeignAssumption == ForeignUrls \subseteq Urls
ASSUME ImagesAssumption == \A waiting \in SUBSET Nodes : waiting # None

VARIABLES
    place,            \* where the element is: see Places
    src,              \* its src attribute, resolved
    image,            \* the Image in its special_data
    pending_images,   \* for each URL being fetched, the elements waiting
    image_cache,      \* the URLs cached
    asked             \* history: the URLs load_image was called with

imgVars == <<place, src, image, pending_images, image_cache, asked>>
vars == <<requestVars, imgVars>>

Places == {"detached", "in", "dropped"}

TypeOK ==
    /\ RequestsTypeOK
    /\ inflight \subseteq [id : Nat, node : {None}, url : Urls]
    /\ channel \in Seq([id : Option(Nat), node : {None}, url : Urls, ok : BOOLEAN])
    /\ place \in [Nodes -> Places]
    /\ src \in [Nodes -> Option(Urls)]
    /\ image \in [Nodes -> Option(Urls)]
    /\ pending_images \in [Urls -> Option(SUBSET Nodes)]
    /\ image_cache \subseteq Urls
    /\ asked \in [Nodes -> SUBSET Urls]

Pending == {u \in Urls : pending_images[u] # None}

(* The elements that wait for a URL.  Mutant: those that wait at all.      *)
Waiting(u) == UNION {pending_images[v] : v \in Pending}
WaitingFor(u) == IF u \in Pending THEN pending_images[u] ELSE {}

Init ==
    /\ RequestsInit
    /\ place = [n \in Nodes |-> "detached"]
    /\ src = [n \in Nodes |-> None]
    /\ image = [n \in Nodes |-> None]
    /\ pending_images = [u \in Urls |-> None]
    /\ image_cache = {}
    /\ asked = [n \in Nodes |-> {}]

-----------------------------------------------------------------------------
NothingToLoad == NoFetch /\ UNCHANGED <<image, pending_images, asked>>

(* The three ways of load_image.                                          *)
CanJoin(url) == url \in Pending

FromCache(n, url) ==
    /\ url \in image_cache
    /\ image' = [image EXCEPT ![n] = url]
    /\ NoFetch
    /\ UNCHANGED pending_images

Join(n, url) ==
    /\ url \notin image_cache
    /\ CanJoin(url)
    /\ pending_images' = [pending_images EXCEPT ![url] = @ \cup {n}]
    /\ NoFetch
    /\ UNCHANGED image

StartFetch(n, url) ==
    /\ url \notin image_cache
    /\ ~CanJoin(url)
    /\ pending_images' = [pending_images EXCEPT ![url] = {n}]
    /\ Fetch({None}, url)
    /\ UNCHANGED image

(* DocumentMutator::load_image.                                            *)
LoadImage(n, url) ==
    IF url = None THEN NothingToLoad
    ELSE /\ FromCache(n, url) \/ Join(n, url) \/ StartFetch(n, url)
         /\ asked' = [asked EXCEPT ![n] = @ \cup {url}]

Scripting ==
    /\ ~resolving
    /\ UNCHANGED <<signalling, channel, redraw, resolving, rooted, image_cache>>

-----------------------------------------------------------------------------
(* Scripts.                                                                *)

(* set_attribute of img src.                                               *)
SetSrc(n, url) ==
    /\ Scripting
    /\ place[n] # "dropped"
    /\ src' = [src EXCEPT ![n] = url]
    /\ IF place[n] = "in" THEN LoadImage(n, url) ELSE NothingToLoad
    /\ UNCHANGED place

(* clear_attribute of img src has no effect on the image.                  *)
ClearSrc(n) ==
    /\ Scripting
    /\ src[n] # None
    /\ place[n] # "dropped"
    /\ src' = [src EXCEPT ![n] = None]
    /\ NothingToLoad
    /\ UNCHANGED place

(* A node enters the document: process_added_subtree.                      *)
Insert(n) ==
    /\ Scripting
    /\ rooted
    /\ place[n] = "detached"
    /\ place' = [place EXCEPT ![n] = "in"]
    /\ LoadImage(n, src[n])
    /\ UNCHANGED src

(* remove_node: process_removed_subtree leaves an image, and the waiting   *)
(* lists, as they are.                                                     *)
Remove(n) ==
    /\ Scripting
    /\ place[n] = "in"
    /\ place' = [place EXCEPT ![n] = "detached"]
    /\ NothingToLoad
    /\ UNCHANGED src

(* remove_and_drop_node: the node is gone, the waiting lists still name it. *)
Drop(n) ==
    /\ Scripting
    /\ place[n] # "dropped"
    /\ place' = [place EXCEPT ![n] = "dropped"]
    /\ src' = [src EXCEPT ![n] = None]
    /\ image' = [image EXCEPT ![n] = None]
    /\ asked' = [asked EXCEPT ![n] = {}]
    /\ NoFetch
    /\ UNCHANGED pending_images

Script ==
    \/ \E n \in Nodes, url \in Urls : SetSrc(n, url)
    \/ \E n \in Nodes : ClearSrc(n) \/ Insert(n) \/ Remove(n) \/ Drop(n)

(* The root element goes and comes.  The images below it leave before it,  *)
(* in the same script, and enter after it.                                 *)
MoveRoot ==
    /\ \/ RemoveRoot /\ \A n \in Nodes : place[n] # "in"
       \/ InsertRoot
    /\ UNCHANGED imgVars

-----------------------------------------------------------------------------
(* Responses.                                                              *)

(* load_resource of a failure: the URL's waiting list is dropped.  Mutant: *)
(* it is kept.                                                             *)
KeepEntry(url) == pending_images
DrainEntry(url) == [pending_images EXCEPT ![url] = None]

(* apply_loaded_image: cache the image, give it to those that wait and     *)
(* still exist.                                                            *)
ApplyLoadedImage(url) ==
    /\ image_cache' = image_cache \cup {url}
    /\ image' = [n \in Nodes |->
                    IF n \in WaitingFor(url) /\ place[n] # "dropped" THEN url ELSE image[n]]

LoadResource ==
    LET msg == Head(channel) IN
    /\ TakeMessage
    /\ IF msg.ok
       THEN /\ ApplyLoadedImage(msg.url)
            /\ pending_images' = [pending_images EXCEPT ![msg.url] = None]
       ELSE /\ pending_images' = DrainEntry(msg.url)
            /\ UNCHANGED <<image, image_cache>>
    /\ NoFetch
    /\ UNCHANGED <<redraw, place, src, asked>>

(* A request of another kind for the same URL fails; it has no image       *)
(* request's id.  Bound: one of them at a time.                            *)
ForeignFailure(url) ==
    /\ Reserved < MaxRequests
    /\ \A msg \in Messages : msg.id # None
    /\ channel' = Append(channel, [id |-> None, node |-> None, url |-> url, ok |-> FALSE])
    /\ redraw' = TRUE
    /\ UNCHANGED <<next_request, inflight, signalling, resolving, rooted, imgVars>>

StartResolve == (BeginResolve \/ ResolveWithoutRoot) /\ UNCHANGED imgVars
EndResolve == ChannelDrained /\ UNCHANGED imgVars

Next ==
    \/ Provider /\ UNCHANGED imgVars
    \/ Script
    \/ MoveRoot
    \/ StartResolve
    \/ LoadResource
    \/ EndResolve
    \/ \E url \in ForeignUrls : ForeignFailure(url)

Spec == Init /\ [][Next]_vars

(* Providers answer each request, the shell delivers redraws, resolve      *)
(* comes to its end.                                                       *)
FairSpec ==
    /\ Spec
    /\ WF_vars(Provider /\ UNCHANGED imgVars)
    /\ WF_vars(StartResolve /\ redraw)
    /\ WF_vars(LoadResource)
    /\ WF_vars(EndResolve)

-----------------------------------------------------------------------------
Requests(url) ==
    {q.id : q \in {r \in inflight : r.url = url}}
        \cup {msg.id : msg \in {x \in Messages : x.url = url /\ x.id # None}}

(* An element is queued only onto a fetch that will still be answered:     *)
(* after a failed one, the next load of the URL fetches anew (net.rs Drop, *)
(* failed_fetch_unblocks.rs).  It needs FinalUrl to be the identity.       *)
NoDeadEntry == \A u \in Pending : Requests(u) # {}

(* A URL is fetched by one request at a time, and not when it is cached.   *)
(* (document.rs pending_images: "queued here instead of starting new       *)
(* fetches".)  A failure of another kind of request for the URL breaks it. *)
NoDuplicateFetch ==
    \A u \in Urls \ ForeignUrls :
        /\ \A p, q \in Requests(u) : p = q
        /\ u \in image_cache => Requests(u) = {}

(* pending_images is true of the fetches under way: an entry is exactly a  *)
(* fetch that will be answered, and there is one per URL.                  *)
PendingIsLive == NoDeadEntry /\ NoDuplicateFetch

(* Whatever other requests do, an element shows no image that its src did  *)
(* not name at some time, and only cached ones.                            *)
ShownWasAsked == \A n \in Nodes : image[n] # None => image[n] \in asked[n] \cap image_cache

(* Nobody waits for ever: each waiting list is dropped at some time (it    *)
(* only grows until then), in a document that has a root element from some *)
(* time on: without one resolve handles no answer.                         *)
WaitingEnds == <>[]rooted => \A u \in Urls : u \in Pending ~> u \notin Pending
=============================================================================
