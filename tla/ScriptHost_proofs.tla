----------------------------- MODULE ScriptHost_proofs -----------------------------
(***************************************************************************)
(* Proofs about what the host does with the functions that scripts hand    *)
(* it: how events are dispatched to listeners (EventDispatch), and the     *)
(* main process of an Electron app (ElectronHost), each for itself and     *)
(* as parts of MCScriptHost.                                               *)
(*                                                                         *)
(* Dispatch.  DispatchInv divides a dispatch into what was heard, which is *)
(* behind, what is pending at the first stop of the path, and the stops    *)
(* ahead, which lead on in the order of Rank.  A registration that has to  *)
(* be called was heard, is pending, or is still registered at a stop       *)
(* ahead: whoever a list loses was copied to pending first, or is not      *)
(* steady.                                                                 *)
(*                                                                         *)
(* Main process.  Whatever functions do to the host that called them,      *)
(* every invoke is answered once and in order, every function that waits   *)
(* for the lifecycle is called once, and closing the last window is        *)
(* announced.                                                              *)
(***************************************************************************)
EXTENDS MCScriptHost, SequenceTheorems, FiniteSetTheorems, TLAPS

-----------------------------------------------------------------------------
(* Induction.  The induction theorems of the library take a predicate; a   *)
(* set of numbers does as well, since finite sets have no endless chain of *)
(* subsets.                                                                *)

LEMMA SetInduction ==
    ASSUME NEW S \in SUBSET Nat, 0 \in S, \A n \in S : n + 1 \in S
    PROVE  S = Nat
<1> SUFFICES ASSUME NEW k \in Nat, k \notin S PROVE FALSE
    OBVIOUS
<1> DEFINE T == {1..n : n \in Nat \ S}
<1>1. T \subseteq FiniteSubsetsOf(Nat)
  <2>1. \A n \in Nat : IsFiniteSet(1..n) /\ 1..n \subseteq Nat
      BY FS_Interval
  <2> QED
      BY <2>1 DEF FiniteSubsetsOf
<1>2. T # {}
    OBVIOUS
<1>3. \E x \in T : \A y \in T : <<y, x>> \notin StrictSubsetOrdering(Nat)
  <2> HIDE DEF T
  <2> QED
      BY <1>1, <1>2, WFMin, FS_StrictSubsetOrderingWellFounded
<1>4. PICK m \in Nat \ S : \A n \in Nat \ S : <<1..n, 1..m>> \notin StrictSubsetOrdering(Nat)
    BY <1>3
<1>5. m # 0
    OBVIOUS
<1>6. m - 1 \in Nat /\ m = (m - 1) + 1
    BY <1>5
<1>7. m - 1 \notin S
    BY <1>6
<1>8. 1..(m - 1) \subseteq 1..m /\ 1..(m - 1) # 1..m
  <2>1. m \in 1..m /\ m \notin 1..(m - 1)
      BY <1>5, <1>6
  <2>2. 1..(m - 1) \subseteq 1..m
      BY <1>6
  <2> QED
      BY <2>1, <2>2
<1>9. <<1..(m - 1), 1..m>> \in StrictSubsetOrdering(Nat)
    BY <1>8 DEF StrictSubsetOrdering
<1> QED
    BY <1>4, <1>6, <1>7, <1>9

(* What Filtered counts up, for the first n of the list.                   *)
Step(list, keep, before, n) ==
    IF n = 0 THEN <<>> ELSE IF list[n] \in keep THEN Append(before, list[n]) ELSE before
Counts(list, keep, f, k) == f = [n \in 0..k |-> Step(list, keep, f[n - 1], n)]

LEMMA CountExists ==
    ASSUME NEW list, NEW keep
    PROVE  \A k \in Nat : \E f : Counts(list, keep, f, k)
<1> DEFINE S == {k \in Nat : \E f : Counts(list, keep, f, k)}
<1>1. 0 \in S
  <2> DEFINE f == [n \in 0..0 |-> <<>>]
  <2>1. Counts(list, keep, f, 0)
      BY DEF Counts, Step
  <2> QED
      BY <2>1
<1>2. ASSUME NEW k \in S PROVE k + 1 \in S
  <2>1. PICK f : Counts(list, keep, f, k)
      OBVIOUS
  <2> DEFINE g == [n \in 0..(k + 1) |-> IF n = k + 1 THEN Step(list, keep, f[k], k + 1) ELSE f[n]]
  <2>2. k \in Nat
      OBVIOUS
  <2>3. ASSUME NEW n \in 0..(k + 1) PROVE g[n] = Step(list, keep, g[n - 1], n)
    <3>1. CASE n = k + 1
        BY <2>2, <3>1
    <3>2. CASE n # k + 1 /\ n # 0
      <4>1. n \in 0..k /\ n - 1 \in 0..(k + 1) /\ n - 1 # k + 1
          BY <2>2, <3>2
      <4>2. f[n] = Step(list, keep, f[n - 1], n)
          BY <2>1, <4>1 DEF Counts
      <4> QED
          BY <3>2, <4>1, <4>2
    <3>3. CASE n = 0 /\ n # k + 1
      <4>1. f[0] = Step(list, keep, f[0 - 1], 0) /\ g[0] = f[0]
          BY <2>1, <2>2, <3>3 DEF Counts
      <4> QED
          BY <3>3, <4>1 DEF Step
    <3> QED
        BY <3>1, <3>2, <3>3
  <2>4. Counts(list, keep, g, k + 1)
    <3>1. g = [n \in 0..(k + 1) |-> g[n]]
        OBVIOUS
    <3> HIDE DEF g
    <3> QED
        BY <2>3, <3>1 DEF Counts
  <2> QED
      BY <2>2, <2>4
<1>3. S = Nat
  <2> HIDE DEF S
  <2>1. S \in SUBSET Nat
      BY DEF S
  <2> QED
      BY <1>1, <1>2, <2>1, SetInduction
<1> QED
    BY <1>3

LEMMA FilteredIsCount ==
    ASSUME NEW list, NEW keep, Len(list) \in Nat
    PROVE  \E f : Counts(list, keep, f, Len(list)) /\ Filtered(list, keep) = f[Len(list)]
<1> DEFINE F == CHOOSE f : Counts(list, keep, f, Len(list))
<1>1. Counts(list, keep, F, Len(list))
    BY CountExists
<1>2. Filtered(list, keep) = F[Len(list)]
    BY DEF Filtered, Counts, Step
<1> QED
    BY <1>1, <1>2

(* out holds those of the first n of list that are in keep, in order.      *)
Gathers(list, keep, out, n) ==
    /\ \A i \in 1..Len(out) : out[i] \in keep /\ \E a \in 1..n : out[i] = list[a]
    /\ \A i, j \in 1..Len(out) : i < j =>
          \E a, b \in 1..n : a < b /\ out[i] = list[a] /\ out[j] = list[b]
    /\ \A a \in 1..n : list[a] \in keep => \E i \in 1..Len(out) : out[i] = list[a]

LEMMA GathersNext ==
    ASSUME NEW S, NEW list, NEW keep, NEW out \in Seq(S), NEW n \in Nat, NEW x \in S,
           list[n + 1] = x, Gathers(list, keep, out, n)
    PROVE  Gathers(list, keep, IF x \in keep THEN Append(out, x) ELSE out, n + 1)
<1>1. 1..n \subseteq 1..(n + 1) /\ n + 1 \in 1..(n + 1) /\ \A a \in 1..(n + 1) : a \in 1..n \/ a = n + 1
    OBVIOUS
<1>2. CASE x \notin keep
    BY <1>1, <1>2 DEF Gathers
<1>3. CASE x \in keep
  <2> DEFINE all == Append(out, x)
  <2>1. /\ Len(out) \in Nat /\ Len(all) = Len(out) + 1
        /\ all[Len(out) + 1] = x /\ \A i \in 1..Len(out) : all[i] = out[i]
      BY AppendProperties
  <2> HIDE DEF all
  <2>2. ASSUME NEW i \in 1..Len(all) PROVE all[i] \in keep /\ \E a \in 1..(n + 1) : all[i] = list[a]
    <3>1. CASE i = Len(out) + 1
        BY <1>1, <1>3, <2>1, <3>1
    <3>2. CASE i \in 1..Len(out)
        BY <1>1, <2>1, <3>2 DEF Gathers
    <3> QED
        BY <2>1, <3>1, <3>2
  <2>3. ASSUME NEW i \in 1..Len(all), NEW j \in 1..Len(all), i < j
        PROVE  \E a, b \in 1..(n + 1) : a < b /\ all[i] = list[a] /\ all[j] = list[b]
    <3>1. i \in 1..Len(out)
        BY <2>1, <2>3
    <3>2. CASE j = Len(out) + 1
      <4>1. PICK a \in 1..n : out[i] = list[a]
          BY <3>1 DEF Gathers
      <4>2. a < n + 1 /\ all[i] = list[a] /\ all[j] = list[n + 1]
          BY <2>1, <3>1, <3>2, <4>1
      <4> QED
          BY <1>1, <4>2
    <3>3. CASE j \in 1..Len(out)
      <4>1. PICK a \in 1..n, b \in 1..n : a < b /\ out[i] = list[a] /\ out[j] = list[b]
          BY <2>3, <3>1, <3>3 DEF Gathers
      <4> QED
          BY <1>1, <2>1, <3>1, <3>3, <4>1
    <3> QED
        BY <2>1, <3>2, <3>3
  <2>4. ASSUME NEW a \in 1..(n + 1), list[a] \in keep PROVE \E i \in 1..Len(all) : all[i] = list[a]
    <3>1. CASE a = n + 1
        BY <2>1, <3>1
    <3>2. CASE a \in 1..n
      <4>1. PICK i \in 1..Len(out) : out[i] = list[a]
          BY <2>4, <3>2 DEF Gathers
      <4> QED
          BY <2>1, <4>1
    <3> QED
        BY <1>1, <3>1, <3>2
  <2>5. Gathers(list, keep, all, n + 1)
      BY <2>2, <2>3, <2>4 DEF Gathers
  <2> QED
      BY <1>3, <2>5 DEF all
<1> QED
    BY <1>2, <1>3

LEMMA FilteredProperties ==
    ASSUME NEW S, NEW list \in Seq(S), NEW keep
    PROVE  /\ Filtered(list, keep) \in Seq(S)
           /\ Gathers(list, keep, Filtered(list, keep), Len(list))
<1>1. Len(list) \in Nat
    OBVIOUS
<1>2. PICK f : Counts(list, keep, f, Len(list)) /\ Filtered(list, keep) = f[Len(list)]
    BY <1>1, FilteredIsCount
<1>3. \A n \in 0..Len(list) : f[n] = Step(list, keep, f[n - 1], n)
    BY <1>2 DEF Counts
<1> DEFINE N == {n \in Nat : n <= Len(list) => f[n] \in Seq(S) /\ Gathers(list, keep, f[n], n)}
<1>4. 0 \in N
  <2>1. f[0] = <<>>
      BY <1>1, <1>3 DEF Step
  <2>2. Len(<<>>) = 0 /\ <<>> \in Seq(S)
      OBVIOUS
  <2>3. Gathers(list, keep, <<>>, 0)
      BY <2>2 DEF Gathers
  <2> QED
      BY <2>1, <2>2, <2>3
<1>5. ASSUME NEW n \in N PROVE n + 1 \in N
  <2>1. CASE n + 1 <= Len(list)
    <3>1. n \in Nat /\ n + 1 \in 1..Len(list) /\ n + 1 # 0 /\ (n + 1) - 1 = n /\ n <= Len(list)
        BY <1>1, <2>1
    <3>2. f[n] \in Seq(S) /\ Gathers(list, keep, f[n], n) /\ list[n + 1] \in S
        BY <3>1
    <3>3. f[n + 1] = IF list[n + 1] \in keep THEN Append(f[n], list[n + 1]) ELSE f[n]
        BY <1>3, <3>1 DEF Step
    <3>4. f[n + 1] \in Seq(S)
        BY <3>2, <3>3
    <3>5. Gathers(list, keep, f[n + 1], n + 1)
        BY <3>1, <3>2, <3>3, GathersNext
    <3> QED
        BY <3>1, <3>4, <3>5
  <2> QED
      BY <2>1
<1>6. N = Nat
  <2> HIDE DEF N
  <2>1. N \in SUBSET Nat
      BY DEF N
  <2> QED
      BY <1>4, <1>5, <2>1, SetInduction
<1>7. Len(list) \in N
    BY <1>1, <1>6
<1> QED
    BY <1>1, <1>2, <1>7

-----------------------------------------------------------------------------
(* The invariant, of a dispatch d, the calls h it made, the lists L and    *)
(* the registrations it has to call.                                       *)

Called == [callback : Callbacks, kind : {"capture", "plain", "handler"}]
ListsOfPlaces == [Places -> Seq(Listeners)]
KindOf(capture) == IF capture THEN "capture" ELSE "plain"

RegistrationsDiffer(L) ==
    /\ \A p \in Places : \A i, j \in 1..Len(L[p]) : i # j =>
          L[p][i].callback # L[p][j].callback \/ L[p][i].capture # L[p][j].capture
    /\ \A i \in 1..Len(L[Window]) : ~L[Window][i].capture

(* Rank of the model, for a stop or a call on the way along a chain.       *)
RankIn(chain, place, phase) ==
    LET depth == IF place = Window THEN 0 ELSE CHOOSE i \in DOMAIN chain : chain[i] = place
    IN  CASE phase = "capture" -> Len(chain) - depth
          [] phase = "window" -> 2 * Len(chain) + 1
          [] OTHER -> Len(chain) + depth
RankOf(d, stop) == RankIn(d.chain, stop.place, stop.phase)
OnWay(d, stop) ==
    IF stop.phase = "window" THEN stop.place = Window
    ELSE \E i \in 1..Len(d.chain) : stop.place = d.chain[i]

(* What lies ahead is a way, of which pending is the first stop.           *)
PathIsAhead(d) ==
    /\ \A i \in 1..Len(d.path) : OnWay(d, d.path[i])
    /\ \A i, j \in 1..Len(d.path) : i < j => RankOf(d, d.path[i]) < RankOf(d, d.path[j])
    /\ d.pending # <<>> => d.path # <<>>
PendingDiffer(d) == \A i, j \in 1..Len(d.pending) : i # j => d.pending[i] # d.pending[j]

(* What was heard is behind, but for the calls made at the first stop.     *)
HeardHere(d, call) == call.place = d.path[1].place /\ call.phase = d.path[1].phase
HeardIsBehind(d, h) ==
    /\ \A i \in 1..Len(h) : OnWay(d, h[i])
    /\ d.pending # <<>> =>
          /\ \A i \in 1..Len(h) : RankOf(d, h[i]) <= RankOf(d, d.path[1])
          /\ \A i \in 1..Len(h), j \in 1..Len(d.pending) : HeardHere(d, h[i]) =>
                [callback |-> h[i].callback, kind |-> h[i].kind] # d.pending[j]
    /\ d.pending = <<>> /\ ~d.stopped =>
          \A i \in 1..Len(h), j \in 1..Len(d.path) : RankOf(d, h[i]) < RankOf(d, d.path[j])
HeardInOrder(d, h) ==
    \A i, j \in 1..Len(h) : i < j => RankOf(d, h[i]) <= RankOf(d, h[j]) /\ h[i] # h[j]

(* Once stopped, the stop that was at is the last.                         *)
StopIsKept(d, h) ==
    /\ d.calling => h # <<>>
    /\ d.calling /\ d.pending # <<>> => RankOf(d, h[Len(h)]) = RankOf(d, d.path[1])
    /\ d.stopped <=> d.stopped_at > 0
    /\ d.stopped_at <= Len(h)
    /\ d.stopped_at > 0 =>
          /\ \A i \in d.stopped_at..Len(h) : RankOf(d, h[i]) = RankOf(d, h[d.stopped_at])
          /\ d.pending # <<>> => RankOf(d, d.path[1]) = RankOf(d, h[d.stopped_at])

(* Whoever has to be called was, is about to be, or is still registered at *)
(* a stop ahead.                                                           *)
WasHeard(h, r) ==
    \E i \in 1..Len(h) :
        h[i].place = r.place /\ h[i].callback = r.callback /\ h[i].kind = KindOf(r.capture)
IsPending(d, r) ==
    /\ d.path[1].place = r.place
    /\ \E i \in 1..Len(d.pending) :
          d.pending[i] = [callback |-> r.callback, kind |-> KindOf(r.capture)]
Registered(L, r) ==
    \E i \in 1..Len(L[r.place]) :
        L[r.place][i].callback = r.callback /\ L[r.place][i].capture = r.capture
IsAhead(d, L, r) ==
    /\ Registered(L, r)
    /\ \E i \in 1..Len(d.path) :
          /\ i > 1 \/ d.pending = <<>>
          /\ d.path[i].place = r.place
          /\ CalledAt(r, d.path[i].phase)
SteadyAreCalled(d, h, L, registrations) ==
    ~d.stopped => \A r \in registrations : WasHeard(h, r) \/ IsPending(d, r) \/ IsAhead(d, L, r)

Orderly(d, h, L, registrations) ==
    /\ PathIsAhead(d)
    /\ PendingDiffer(d)
    /\ HeardIsBehind(d, h)
    /\ HeardInOrder(d, h)
    /\ StopIsKept(d, h)
    /\ SteadyAreCalled(d, h, L, registrations)

(* The driver: a refused event stays cancelled until its dispatch is over. *)
Deciding ==
    /\ driver.queue <= driver.queued
    /\ driver.acted => dispatch = None /\ ~driver.refused
    /\ driver.refused /\ dispatch # None => Cancelled

DispatchInv ==
    /\ DispatchTypeOK
    /\ RegistrationsDiffer(listeners)
    /\ Deciding
    /\ dispatch # None => Orderly(dispatch, heard, listeners, steady)

-----------------------------------------------------------------------------
(* The way of an event.                                                    *)

LEMMA ChainFacts ==
    ASSUME NEW chain \in Chains
    PROVE  /\ chain \in Seq(Elements) /\ Len(chain) \in Nat \ {0}
           /\ \A i \in 1..Len(chain) : chain[i] \in Elements /\ chain[i] # Window
           /\ \A i, j \in 1..Len(chain) : chain[i] = chain[j] => i = j
<1>1. chain \in Seq(Elements) /\ chain # <<>> /\ IsInjective(chain)
    BY PlacesAssumption
<1>2. Len(chain) \in Nat \ {0} /\ DOMAIN chain = 1..Len(chain)
    BY <1>1
<1>3. \A i \in 1..Len(chain) : chain[i] \in Elements /\ chain[i] # Window
    BY <1>1, PlacesAssumption
<1> QED
    BY <1>1, <1>2, <1>3 DEF IsInjective

LEMMA Ranks ==
    ASSUME NEW chain \in Chains
    PROVE  /\ \A i \in 1..Len(chain) :
                 /\ RankIn(chain, chain[i], "capture") = Len(chain) - i
                 /\ RankIn(chain, chain[i], "bubble") = Len(chain) + i
                 /\ RankIn(chain, chain[i], "target") = Len(chain) + i
           /\ RankIn(chain, Window, "window") = 2 * Len(chain) + 1
<1>1. ASSUME NEW i \in 1..Len(chain)
      PROVE  (CHOOSE j \in DOMAIN chain : chain[j] = chain[i]) = i
    BY ChainFacts
<1>2. \A i \in 1..Len(chain) : chain[i] # Window
    BY ChainFacts
<1> QED
    BY <1>1, <1>2 DEF RankIn

LEMMA OnWayRank ==
    ASSUME NEW d \in Dispatches, NEW stop, stop.phase \in Phases, OnWay(d, stop)
    PROVE  RankOf(d, stop) \in Int
<1>1. d.chain \in Chains
    BY DEF Dispatches
<1>2. Len(d.chain) \in Nat
    BY <1>1, ChainFacts
<1>3. CASE stop.phase = "window"
    BY <1>1, <1>2, <1>3, Ranks DEF RankOf, OnWay
<1>4. CASE stop.phase # "window"
  <2>1. PICK i \in 1..Len(d.chain) : stop.place = d.chain[i]
      BY <1>4 DEF OnWay
  <2>2. stop.phase \in {"capture", "bubble", "target"}
      BY <1>4 DEF Phases
  <2> QED
      BY <1>1, <1>2, <2>1, <2>2, Ranks DEF RankOf
<1> QED
    BY <1>3, <1>4

LEMMA PathAt ==
    ASSUME NEW chain \in Chains
    PROVE  /\ Path(chain, TRUE) \in Seq(Stops)
           /\ Len(Path(chain, TRUE)) = 2 * Len(chain) + 1
           /\ \A i \in 1..Len(chain) :
                 /\ Path(chain, TRUE)[i] = Stop(chain[Len(chain) - i + 1], "capture")
                 /\ Path(chain, TRUE)[Len(chain) + i] = Stop(chain[i], "bubble")
           /\ Path(chain, TRUE)[2 * Len(chain) + 1] = Stop(Window, "window")
<1> DEFINE down == [i \in DOMAIN chain |-> Stop(Reverse(chain)[i], "capture")]
           up == [i \in DOMAIN chain |-> Stop(chain[i], "bubble")]
<1>1. chain \in Seq(Elements) /\ Len(chain) \in Nat /\ DOMAIN chain = 1..Len(chain)
    BY ChainFacts
<1>2. \A i \in 1..Len(chain) :
          Len(chain) - i + 1 \in 1..Len(chain) /\ Reverse(chain)[i] = chain[Len(chain) - i + 1]
    BY <1>1 DEF Reverse
<1>3. \A p \in Places, phase \in Phases : Stop(p, phase) \in Stops
    BY DEF Stop, Stops
<1>4. \A i \in 1..Len(chain) : chain[i] \in Places
    BY <1>1 DEF Places
<1>5. down \in Seq(Stops) /\ Len(down) = Len(chain)
          /\ \A i \in 1..Len(chain) : down[i] = Stop(chain[Len(chain) - i + 1], "capture")
  <2>1. \A i \in 1..Len(chain) : down[i] = Stop(chain[Len(chain) - i + 1], "capture")
      BY <1>1, <1>2
  <2>2. \A i \in 1..Len(chain) : down[i] \in Stops
      BY <1>2, <1>3, <1>4, <2>1 DEF Phases
  <2> QED
      BY <1>1, <2>1, <2>2
<1>6. up \in Seq(Stops) /\ Len(up) = Len(chain)
          /\ \A i \in 1..Len(chain) : up[i] = Stop(chain[i], "bubble")
  <2>1. \A i \in 1..Len(chain) : up[i] = Stop(chain[i], "bubble") /\ up[i] \in Stops
      BY <1>1, <1>3, <1>4 DEF Phases
  <2> QED
      BY <1>1, <2>1
<1> DEFINE last == <<Stop(Window, "window")>>
<1>7. last \in Seq(Stops) /\ Len(last) = 1 /\ last[1] = Stop(Window, "window")
    BY <1>3 DEF Places, Phases
<1>8. Path(chain, TRUE) = (down \o up) \o last
    BY DEF Path
<1> HIDE DEF down, up, last
<1>9. /\ down \o up \in Seq(Stops) /\ Len(down \o up) = 2 * Len(chain)
      /\ \A i \in 1..2 * Len(chain) :
            (down \o up)[i] = IF i <= Len(chain) THEN down[i] ELSE up[i - Len(chain)]
  <2>1. down \in Seq(Stops) /\ up \in Seq(Stops) /\ Len(down) = Len(chain) /\ Len(up) = Len(chain)
      BY <1>5, <1>6
  <2>2. /\ down \o up \in Seq(Stops) /\ Len(down \o up) = Len(down) + Len(up)
        /\ \A i \in 1..Len(down) + Len(up) :
              (down \o up)[i] = IF i <= Len(down) THEN down[i] ELSE up[i - Len(down)]
      BY <2>1, ConcatProperties
  <2>3. Len(chain) + Len(chain) = 2 * Len(chain)
      BY <1>1
  <2> QED
      BY <2>1, <2>2, <2>3
<1>10. /\ (down \o up) \o last \in Seq(Stops) /\ Len((down \o up) \o last) = 2 * Len(chain) + 1
       /\ \A i \in 1..2 * Len(chain) + 1 :
             ((down \o up) \o last)[i]
                 = IF i <= 2 * Len(chain) THEN (down \o up)[i] ELSE last[i - 2 * Len(chain)]
  <2>1. down \o up \in Seq(Stops) /\ last \in Seq(Stops) /\ Len(down \o up) = 2 * Len(chain) /\ Len(last) = 1
      BY <1>7, <1>9
  <2> DEFINE both == down \o up
  <2>2. /\ both \o last \in Seq(Stops) /\ Len(both \o last) = Len(both) + Len(last)
        /\ \A i \in 1..Len(both) + Len(last) :
              (both \o last)[i] = IF i <= Len(both) THEN both[i] ELSE last[i - Len(both)]
    <3> HIDE DEF both
    <3>1. both \in Seq(Stops) /\ last \in Seq(Stops)
        BY <2>1 DEF both
    <3> QED
        BY <3>1, ConcatProperties
  <2> QED
      BY <2>1, <2>2
<1>11. ASSUME NEW i \in 1..Len(chain)
       PROVE  /\ Path(chain, TRUE)[i] = Stop(chain[Len(chain) - i + 1], "capture")
              /\ Path(chain, TRUE)[Len(chain) + i] = Stop(chain[i], "bubble")
  <2>1. /\ i \in 1..2 * Len(chain) /\ i \in 1..2 * Len(chain) + 1 /\ i <= Len(chain) /\ i <= 2 * Len(chain)
        /\ Len(chain) + i \in 1..2 * Len(chain) /\ Len(chain) + i \in 1..2 * Len(chain) + 1
        /\ ~(Len(chain) + i <= Len(chain)) /\ Len(chain) + i <= 2 * Len(chain)
        /\ (Len(chain) + i) - Len(chain) = i
      BY <1>1
  <2> QED
      BY <1>5, <1>6, <1>8, <1>9, <1>10, <2>1
<1>12. Path(chain, TRUE)[2 * Len(chain) + 1] = Stop(Window, "window")
  <2>1. 2 * Len(chain) + 1 \in 1..2 * Len(chain) + 1 /\ ~(2 * Len(chain) + 1 <= 2 * Len(chain))
        /\ (2 * Len(chain) + 1) - 2 * Len(chain) = 1
      BY <1>1
  <2> QED
      BY <1>7, <1>8, <1>10, <2>1
<1> QED
    BY <1>8, <1>10, <1>11, <1>12

LEMMA OfOne ==
    ASSUME NEW S, NEW x \in S
    PROVE  <<x>> \in Seq(S) /\ Len(<<x>>) = 1 /\ <<x>>[1] = x
OBVIOUS

LEMMA PathDoesNotBubble ==
    ASSUME NEW chain \in Chains
    PROVE  /\ Path(chain, FALSE) \in Seq(Stops) /\ Len(Path(chain, FALSE)) = 1
           /\ Path(chain, FALSE)[1] = Stop(chain[1], "target")
<1>1. chain \in Seq(Elements) /\ Len(chain) \in Nat \ {0} /\ chain[1] \in Places
    BY ChainFacts DEF Places
<1>2. Path(chain, FALSE) = <<Stop(chain[1], "target")>>
    BY <1>1 DEF Path
<1>3. Stop(chain[1], "target") \in Stops
    BY <1>1 DEF Stop, Stops, Phases
<1> QED
    BY <1>2, <1>3, OfOne

(* The way goes along the chain, and everyone registered on it has a stop. *)
PlacesOf(chain, bubbles) == IF bubbles THEN ToSet(chain) \cup {Window} ELSE {Head(chain)}

LEMMA PathIsAWay ==
    ASSUME NEW chain \in Chains, NEW bubbles \in BOOLEAN, NEW d,
           d.chain = chain, d.path = Path(chain, bubbles), d.pending = <<>>
    PROVE  /\ d.path \in Seq(Stops)
           /\ PathIsAhead(d)
           /\ \A r \in Registrations :
                 r.place \in PlacesOf(chain, bubbles) /\ (r.place = Window => ~r.capture) =>
                     \E i \in 1..Len(d.path) :
                         d.path[i].place = r.place /\ CalledAt(r, d.path[i].phase)
<1>1. chain \in Seq(Elements) /\ Len(chain) \in Nat \ {0} /\ DOMAIN chain = 1..Len(chain)
    BY ChainFacts
<1>2. \A p, phase : Stop(p, phase).place = p /\ Stop(p, phase).phase = phase
    BY DEF Stop
<1>3. CASE bubbles
  <2> DEFINE L == Len(chain)
  <2>1. d.path \in Seq(Stops) /\ Len(d.path) = 2 * L + 1
      BY <1>3, PathAt
  <2>2. \A i \in 1..L : /\ d.path[i] = Stop(chain[L - i + 1], "capture")
                        /\ d.path[L + i] = Stop(chain[i], "bubble")
      BY <1>3, PathAt
  <2>3. d.path[2 * L + 1] = Stop(Window, "window")
      BY <1>3, PathAt
  <2>4. ASSUME NEW i \in 1..2 * L + 1
        PROVE  OnWay(d, d.path[i]) /\ RankOf(d, d.path[i]) = IF i <= L THEN i - 1 ELSE i
    <3>1. CASE i <= L
      <4>1. i \in 1..L /\ L - i + 1 \in 1..L /\ L - (L - i + 1) = i - 1
          BY <1>1, <3>1
      <4>2. d.path[i].place = chain[L - i + 1] /\ d.path[i].phase = "capture"
          BY <1>2, <2>2, <4>1
      <4> QED
          BY <3>1, <4>1, <4>2, Ranks DEF OnWay, RankOf
    <3>2. CASE i > L /\ i <= 2 * L
      <4>1. i - L \in 1..L /\ L + (i - L) = i /\ ~(i <= L)
          BY <1>1, <3>2
      <4>2. d.path[i].place = chain[i - L] /\ d.path[i].phase = "bubble"
        <5>1. d.path[L + (i - L)] = Stop(chain[i - L], "bubble")
            BY <2>2, <4>1
        <5> QED
            BY <1>2, <4>1, <5>1
      <4> QED
          BY <4>1, <4>2, Ranks DEF OnWay, RankOf
    <3>3. CASE i = 2 * L + 1
      <4>1. ~(i <= L)
          BY <1>1, <3>3
      <4>2. d.path[i].place = Window /\ d.path[i].phase = "window"
          BY <1>2, <2>3, <3>3
      <4> QED
          BY <3>3, <4>1, <4>2, Ranks DEF OnWay, RankOf
    <3> QED
        BY <1>1, <3>1, <3>2, <3>3
  <2>5. PathIsAhead(d)
      BY <1>1, <2>1, <2>4 DEF PathIsAhead
  <2>6. ASSUME NEW r \in Registrations, r.place \in PlacesOf(chain, bubbles), r.place = Window => ~r.capture
        PROVE  \E i \in 1..Len(d.path) : d.path[i].place = r.place /\ CalledAt(r, d.path[i].phase)
    <3>0. r.capture \in BOOLEAN
        BY DEF Registrations
    <3>1. CASE r.place = Window
      <4>1. 2 * L + 1 \in 1..Len(d.path) /\ d.path[2 * L + 1].place = Window
            /\ d.path[2 * L + 1].phase = "window"
          BY <1>1, <1>2, <2>1, <2>3
      <4>2. CalledAt(r, "window")
          BY <2>6, <3>0, <3>1 DEF CalledAt
      <4> QED
          BY <3>1, <4>1, <4>2
    <3>2. CASE r.place # Window
      <4>1. PICK j \in 1..L : r.place = chain[j]
          BY <1>1, <1>3, <2>6, <3>2 DEF PlacesOf, ToSet
      <4>2. CASE r.capture
        <5>1. L - j + 1 \in 1..L /\ L - (L - j + 1) + 1 = j /\ L - j + 1 \in 1..Len(d.path)
            BY <1>1, <2>1
        <5>2. d.path[L - j + 1] = Stop(chain[j], "capture")
            BY <2>2, <5>1
        <5>3. CalledAt(r, "capture")
            BY <3>0, <4>2 DEF CalledAt
        <5>4. d.path[L - j + 1].place = r.place /\ d.path[L - j + 1].phase = "capture"
            BY <1>2, <4>1, <5>2
        <5>5. PICK i \in 1..Len(d.path) : i = L - j + 1
            BY <5>1
        <5>6. d.path[i].place = r.place /\ CalledAt(r, d.path[i].phase)
            BY <5>3, <5>4, <5>5
        <5> QED
            BY <5>6
      <4>3. CASE ~r.capture
        <5>1. L + j \in 1..Len(d.path) /\ d.path[L + j] = Stop(chain[j], "bubble")
            BY <1>1, <2>1, <2>2
        <5>2. CalledAt(r, "bubble")
            BY <3>0, <4>3 DEF CalledAt
        <5> QED
            BY <1>2, <4>1, <5>1, <5>2
      <4> QED
          BY <4>2, <4>3
    <3> QED
        BY <3>1, <3>2
  <2> QED
      BY <2>1, <2>5, <2>6
<1>4. CASE ~bubbles
  <2>1. d.path \in Seq(Stops) /\ Len(d.path) = 1 /\ d.path[1] = Stop(chain[1], "target")
      BY <1>4, PathDoesNotBubble
  <2>2. d.path[1].place = chain[1] /\ d.path[1].phase = "target"
      BY <1>2, <2>1
  <2>3. OnWay(d, d.path[1])
      BY <1>1, <2>2 DEF OnWay
  <2>4. PathIsAhead(d)
      BY <2>1, <2>3 DEF PathIsAhead
  <2>5. ASSUME NEW r \in Registrations, r.place \in PlacesOf(chain, bubbles)
        PROVE  d.path[1].place = r.place /\ CalledAt(r, d.path[1].phase)
      BY <1>1, <1>4, <2>2, <2>5 DEF PlacesOf, CalledAt
  <2> QED
      BY <2>1, <2>4, <2>5
<1> QED
    BY <1>3, <1>4

-----------------------------------------------------------------------------
(* The steps of a dispatch.                                                *)

LEMMA DispatchFields ==
    ASSUME NEW d \in Dispatches
    PROVE  /\ d.chain \in Chains /\ d.path \in Seq(Stops) /\ d.pending \in Seq(Called)
           /\ Len(d.path) \in Nat /\ Len(d.pending) \in Nat
           /\ \A i \in 1..Len(d.path) : d.path[i] \in Stops
           /\ \A i \in 1..Len(d.pending) : d.pending[i] \in Called
           /\ d.calling \in BOOLEAN /\ d.stopped \in BOOLEAN /\ d.stopped_at \in Nat
<1>1. d.chain \in Chains /\ d.path \in Seq(Stops) /\ d.pending \in Seq(Called)
      /\ d.calling \in BOOLEAN /\ d.stopped \in BOOLEAN /\ d.stopped_at \in Nat
    BY DEF Dispatches, Called
<1> QED
    BY <1>1

LEMMA RanksAreNumbers ==
    ASSUME NEW d \in Dispatches, NEW h \in Seq(Heard), PathIsAhead(d),
           \A i \in 1..Len(h) : OnWay(d, h[i])
    PROVE  /\ \A i \in 1..Len(d.path) : RankOf(d, d.path[i]) \in Int
           /\ \A i \in 1..Len(h) : RankOf(d, h[i]) \in Int
<1>1. \A i \in 1..Len(d.path) : d.path[i] \in Stops
    BY DispatchFields
<1>2. \A i \in 1..Len(d.path) : d.path[i].phase \in Phases /\ OnWay(d, d.path[i])
    BY <1>1 DEF Stops, PathIsAhead
<1>3. \A i \in 1..Len(h) : h[i] \in Heard
    OBVIOUS
<1>4. \A i \in 1..Len(h) : h[i].phase \in Phases /\ OnWay(d, h[i])
    BY <1>3 DEF Heard
<1> QED
    BY <1>2, <1>4, OnWayRank

(* What the dispatch of a shorter path has ahead.                          *)
LEMMA PathAfterTail ==
    ASSUME NEW d \in Dispatches, d.path # <<>>
    PROVE  /\ Tail(d.path) \in Seq(Stops) /\ Len(d.path) > 0
           /\ Len(Tail(d.path)) = Len(d.path) - 1
           /\ \A i \in 1..Len(d.path) - 1 :
                 i + 1 \in 1..Len(d.path) /\ Tail(d.path)[i] = d.path[i + 1]
           /\ \A i \in 1..Len(d.path) : i > 1 =>
                 i - 1 \in 1..Len(d.path) - 1 /\ Tail(d.path)[i - 1] = d.path[i]
<1>1. d.path \in Seq(Stops) /\ Len(d.path) \in Nat /\ Len(d.path) > 0
    BY DispatchFields
<1>2. /\ Tail(d.path) \in Seq(Stops) /\ Len(Tail(d.path)) = Len(d.path) - 1
      /\ \A i \in 1..Len(Tail(d.path)) : Tail(d.path)[i] = d.path[i + 1]
    BY <1>1, HeadTailProperties
<1> QED
    BY <1>1, <1>2

LEMMA VisitKeepsOrder ==
    ASSUME NEW d \in Dispatches, NEW h \in Seq(Heard), NEW L, NEW M,
           NEW registrations \in SUBSET Registrations,
           Orderly(d, h, L, registrations),
           d.pending = <<>>, d.path # <<>>, ~d.stopped,
           NEW G \in Seq(Called),
           \A i, j \in 1..Len(G) : i # j => G[i] # G[j],
           \A r \in registrations :
               /\ r.place = d.path[1].place /\ CalledAt(r, d.path[1].phase) /\ Registered(L, r)
               => \E i \in 1..Len(G) : G[i] = [callback |-> r.callback, kind |-> KindOf(r.capture)],
           \A r \in registrations :
               Registered(L, r) /\ ~(r.place = d.path[1].place /\ CalledAt(r, d.path[1].phase))
               => Registered(M, r),
           NEW e,
           e = [d EXCEPT !.pending = G, !.calling = FALSE,
                         !.path = IF G = <<>> THEN Tail(@) ELSE @]
    PROVE  e \in Dispatches /\ Orderly(e, h, M, registrations)
<1>1. /\ e.chain = d.chain /\ e.pending = G /\ e.calling = FALSE
      /\ e.path = IF G = <<>> THEN Tail(d.path) ELSE d.path
      /\ e.stopped = d.stopped /\ e.stopped_at = d.stopped_at
    BY DEF Dispatches
<1>2. /\ Tail(d.path) \in Seq(Stops) /\ Len(d.path) > 0 /\ Len(d.path) \in Nat
      /\ Len(Tail(d.path)) = Len(d.path) - 1
      /\ \A i \in 1..Len(d.path) - 1 : i + 1 \in 1..Len(d.path) /\ Tail(d.path)[i] = d.path[i + 1]
      /\ \A i \in 1..Len(d.path) : i > 1 =>
            i - 1 \in 1..Len(d.path) - 1 /\ Tail(d.path)[i - 1] = d.path[i]
    BY PathAfterTail, DispatchFields
<1>3. e \in Dispatches
    BY <1>2 DEF Dispatches, Called
<1>4. \A at : RankOf(e, at) = RankOf(d, at) /\ (OnWay(e, at) <=> OnWay(d, at))
    BY <1>1 DEF RankOf, OnWay
<1>5. /\ \A i \in 1..Len(d.path) : RankOf(d, d.path[i]) \in Int
      /\ \A i \in 1..Len(h) : RankOf(d, h[i]) \in Int
    BY RanksAreNumbers DEF Orderly, HeardIsBehind
<1>6. Len(h) \in Nat /\ 1 \in 1..Len(d.path)
    BY <1>2
<1>7. /\ \A i \in 1..Len(h) : OnWay(d, h[i])
      /\ \A i \in 1..Len(h), j \in 1..Len(d.path) : RankOf(d, h[i]) < RankOf(d, d.path[j])
    BY DEF Orderly, HeardIsBehind
<1>8. /\ \A i \in 1..Len(d.path) : OnWay(d, d.path[i])
      /\ \A i, j \in 1..Len(d.path) : i < j => RankOf(d, d.path[i]) < RankOf(d, d.path[j])
    BY DEF Orderly, PathIsAhead
<1>9. PathIsAhead(e)
  <2>1. CASE G = <<>>
      BY <1>1, <1>2, <1>4, <1>8, <2>1 DEF PathIsAhead
  <2>2. CASE G # <<>>
      BY <1>1, <1>4, <1>8, <2>2 DEF PathIsAhead
  <2> QED
      BY <2>1, <2>2
<1>10. PendingDiffer(e)
    BY <1>1 DEF PendingDiffer
<1>11. HeardIsBehind(e, h)
  <2>1. CASE G = <<>>
    <3>1. \A i \in 1..Len(h), j \in 1..Len(e.path) : RankOf(e, h[i]) < RankOf(e, e.path[j])
        BY <1>1, <1>2, <1>4, <1>7, <2>1
    <3> QED
        BY <1>1, <1>4, <1>7, <2>1, <3>1 DEF HeardIsBehind
  <2>2. CASE G # <<>>
    <3>1. e.path = d.path
        BY <1>1, <2>2
    <3>2. \A i \in 1..Len(h) : RankOf(e, h[i]) <= RankOf(e, e.path[1])
      <4>1. ASSUME NEW i \in 1..Len(h) PROVE RankOf(d, h[i]) <= RankOf(d, d.path[1])
        <5>1. RankOf(d, h[i]) < RankOf(d, d.path[1])
            BY <1>6, <1>7
        <5> QED
            BY <1>5, <1>6, <5>1
      <4> QED
          BY <1>4, <3>1, <4>1
    <3>3. \A i \in 1..Len(h) : ~HeardHere(e, h[i])
      <4>1. ASSUME NEW i \in 1..Len(h), HeardHere(e, h[i]) PROVE FALSE
        <5>1. RankOf(d, h[i]) = RankOf(d, d.path[1])
            BY <3>1, <4>1 DEF HeardHere, RankOf
        <5> QED
            BY <1>5, <1>6, <1>7, <5>1
      <4> QED
          BY <4>1
    <3> QED
        BY <1>1, <1>4, <1>7, <2>2, <3>2, <3>3 DEF HeardIsBehind
  <2> QED
      BY <2>1, <2>2
<1>12. HeardInOrder(e, h)
    BY <1>4 DEF Orderly, HeardInOrder
<1>13. StopIsKept(e, h)
  <2>1. ~(d.stopped_at > 0) /\ d.stopped_at <= Len(h)
      BY DEF Orderly, StopIsKept
  <2> QED
      BY <1>1, <2>1 DEF StopIsKept
<1>14. SteadyAreCalled(e, h, M, registrations)
  <2>1. ASSUME NEW r \in registrations, ~WasHeard(h, r)
        PROVE  IsPending(e, r) \/ IsAhead(e, M, r)
    <3>1. ~IsPending(d, r)
        BY DEF IsPending
    <3>2. IsAhead(d, L, r)
        BY <2>1, <3>1 DEF Orderly, SteadyAreCalled
    <3>3. PICK i \in 1..Len(d.path) : d.path[i].place = r.place /\ CalledAt(r, d.path[i].phase)
        BY <3>2 DEF IsAhead
    <3>4. CASE r.place = d.path[1].place /\ CalledAt(r, d.path[1].phase)
      <4>1. PICK k \in 1..Len(G) : G[k] = [callback |-> r.callback, kind |-> KindOf(r.capture)]
          BY <3>2, <3>4 DEF IsAhead
      <4>2. e.path = d.path
          BY <1>1, <4>1
      <4> QED
          BY <1>1, <3>4, <4>1, <4>2 DEF IsPending
    <3>5. CASE ~(r.place = d.path[1].place /\ CalledAt(r, d.path[1].phase))
      <4>1. Registered(M, r)
          BY <3>2, <3>5 DEF IsAhead
      <4>2. i > 1
          BY <1>2, <3>3, <3>5
      <4>3. CASE G = <<>>
        <5>1. i - 1 \in 1..Len(e.path) /\ e.path[i - 1] = d.path[i]
            BY <1>1, <1>2, <4>2, <4>3
        <5> QED
            BY <1>1, <3>3, <4>1, <4>3, <5>1 DEF IsAhead
      <4>4. CASE G # <<>>
          BY <1>1, <3>3, <4>1, <4>2, <4>4 DEF IsAhead
      <4> QED
          BY <4>3, <4>4
    <3> QED
        BY <3>4, <3>5
  <2> QED
      BY <2>1 DEF SteadyAreCalled
<1> QED
    BY <1>3, <1>9, <1>10, <1>11, <1>12, <1>13, <1>14 DEF Orderly

CallOf(d) == [place |-> d.path[1].place, callback |-> d.pending[1].callback,
              phase |-> d.path[1].phase, kind |-> d.pending[1].kind]
AfterCall(d) == [d EXCEPT !.calling = TRUE, !.pending = Tail(@),
                          !.path = IF Len(d.pending) = 1 THEN Tail(@) ELSE @]

LEMMA CallKeepsOrder ==
    ASSUME NEW d \in Dispatches, NEW h \in Seq(Heard), NEW L,
           NEW registrations \in SUBSET Registrations,
           Orderly(d, h, L, registrations), d.pending # <<>>
    PROVE  /\ AfterCall(d) \in Dispatches /\ Append(h, CallOf(d)) \in Seq(Heard)
           /\ Orderly(AfterCall(d), Append(h, CallOf(d)), L, registrations)
<1> DEFINE c == CallOf(d)
           e == AfterCall(d)
           k == Append(h, c)
<1>1. c = [place |-> d.path[1].place, callback |-> d.pending[1].callback,
            phase |-> d.path[1].phase, kind |-> d.pending[1].kind]
    BY DEF CallOf
<1>2. e = [d EXCEPT !.calling = TRUE, !.pending = Tail(@),
                     !.path = IF Len(d.pending) = 1 THEN Tail(@) ELSE @]
    BY DEF AfterCall
<1> HIDE DEF c, e
<1>3. d.path # <<>>
    BY DEF Orderly, PathIsAhead
<1>4. /\ e.chain = d.chain /\ e.pending = Tail(d.pending) /\ e.calling = TRUE
      /\ e.path = IF Len(d.pending) = 1 THEN Tail(d.path) ELSE d.path
      /\ e.stopped = d.stopped /\ e.stopped_at = d.stopped_at
    BY <1>2 DEF Dispatches
<1>5. /\ Tail(d.path) \in Seq(Stops) /\ Len(d.path) > 0 /\ Len(d.path) \in Nat
      /\ Len(Tail(d.path)) = Len(d.path) - 1
      /\ \A i \in 1..Len(d.path) - 1 : i + 1 \in 1..Len(d.path) /\ Tail(d.path)[i] = d.path[i + 1]
      /\ \A i \in 1..Len(d.path) : i > 1 =>
            i - 1 \in 1..Len(d.path) - 1 /\ Tail(d.path)[i - 1] = d.path[i]
    BY <1>3, PathAfterTail, DispatchFields
<1>6. /\ d.pending \in Seq(Called) /\ Len(d.pending) \in Nat /\ Len(d.pending) > 0
      /\ Tail(d.pending) \in Seq(Called) /\ Len(Tail(d.pending)) = Len(d.pending) - 1
      /\ \A i \in 1..Len(d.pending) - 1 :
            i + 1 \in 1..Len(d.pending) /\ Tail(d.pending)[i] = d.pending[i + 1]
      /\ \A i \in 1..Len(d.pending) : i > 1 =>
            i - 1 \in 1..Len(d.pending) - 1 /\ Tail(d.pending)[i - 1] = d.pending[i]
  <2>1. d.pending \in Seq(Called) /\ Len(d.pending) \in Nat /\ Len(d.pending) > 0
      BY DispatchFields
  <2>2. /\ Tail(d.pending) \in Seq(Called) /\ Len(Tail(d.pending)) = Len(d.pending) - 1
        /\ \A i \in 1..Len(Tail(d.pending)) : Tail(d.pending)[i] = d.pending[i + 1]
      BY <2>1, HeadTailProperties
  <2> QED
      BY <2>1, <2>2
<1>7. e \in Dispatches
    BY <1>5, <1>6, <1>2 DEF Dispatches, Called
<1>8. e.pending = <<>> <=> Len(d.pending) = 1
  <2>1. \A s \in Seq(Called) : s = <<>> <=> Len(s) = 0
      OBVIOUS
  <2>2. e.pending \in Seq(Called) /\ Len(e.pending) = Len(d.pending) - 1
      BY <1>4, <1>6
  <2>3. e.pending = <<>> <=> Len(e.pending) = 0
      BY <2>1, <2>2
  <2>4. Len(d.pending) \in Nat
      BY <1>6
  <2> QED
      BY <2>2, <2>3, <2>4
<1>9. 1 \in 1..Len(d.path) /\ 1 \in 1..Len(d.pending)
    BY <1>5, <1>6
<1>10. c \in Heard
  <2>1. d.path[1] \in Stops /\ d.pending[1] \in Called
      BY <1>9, DispatchFields
  <2> QED
      BY <1>1, <2>1 DEF Stops, Called, Heard
<1>11. /\ k \in Seq(Heard) /\ Len(h) \in Nat /\ Len(k) = Len(h) + 1 /\ k[Len(h) + 1] = c
      /\ \A i \in 1..Len(h) : k[i] = h[i]
    BY <1>10, AppendProperties
<1> HIDE DEF k
<1>12. \A at : RankOf(e, at) = RankOf(d, at) /\ (OnWay(e, at) <=> OnWay(d, at))
    BY <1>4 DEF RankOf, OnWay
<1>13. /\ \A i \in 1..Len(d.path) : RankOf(d, d.path[i]) \in Int
      /\ \A i \in 1..Len(h) : RankOf(d, h[i]) \in Int
    BY RanksAreNumbers DEF Orderly, HeardIsBehind
<1>14. RankOf(d, c) = RankOf(d, d.path[1]) /\ OnWay(d, c) /\ HeardHere(d, c)
  <2>1. OnWay(d, d.path[1])
      BY <1>9 DEF Orderly, PathIsAhead
  <2>2. c.place = d.path[1].place /\ c.phase = d.path[1].phase
      BY <1>1
  <2> QED
      BY <2>1, <2>2 DEF RankOf, OnWay, HeardHere
<1>15. /\ \A i \in 1..Len(h) : OnWay(d, h[i])
       /\ \A i \in 1..Len(h) : RankOf(d, h[i]) <= RankOf(d, d.path[1])
       /\ \A i \in 1..Len(h), j \in 1..Len(d.pending) : HeardHere(d, h[i]) =>
             [callback |-> h[i].callback, kind |-> h[i].kind] # d.pending[j]
    BY DEF Orderly, HeardIsBehind
<1>16. /\ \A i \in 1..Len(d.path) : OnWay(d, d.path[i])
       /\ \A i, j \in 1..Len(d.path) : i < j => RankOf(d, d.path[i]) < RankOf(d, d.path[j])
    BY DEF Orderly, PathIsAhead
<1>17. [callback |-> c.callback, kind |-> c.kind] = d.pending[1]
  <2>1. d.pending[1] \in Called
      BY <1>9, DispatchFields
  <2> QED
      BY <1>1, <2>1 DEF Called
<1>18. PathIsAhead(e)
  <2>1. CASE Len(d.pending) = 1
    <3>1. e.pending = <<>>
        BY <1>8, <2>1
    <3>2. e.path = Tail(d.path)
        BY <1>4, <2>1
    <3>3. \A a \in 1..Len(e.path) : OnWay(e, e.path[a])
        BY <1>5, <1>12, <1>16, <3>2
    <3>4. ASSUME NEW a \in 1..Len(e.path), NEW b \in 1..Len(e.path), a < b
          PROVE  RankOf(e, e.path[a]) < RankOf(e, e.path[b])
      <4>1. a + 1 \in 1..Len(d.path) /\ b + 1 \in 1..Len(d.path) /\ a + 1 < b + 1
            /\ e.path[a] = d.path[a + 1] /\ e.path[b] = d.path[b + 1]
          BY <1>5, <3>2, <3>4
      <4> QED
          BY <1>12, <1>16, <4>1
    <3> QED
        BY <3>1, <3>3, <3>4 DEF PathIsAhead
  <2>2. CASE Len(d.pending) # 1
      BY <1>3, <1>4, <1>12, <1>16, <2>2 DEF PathIsAhead
  <2> QED
      BY <2>1, <2>2
<1>19. PendingDiffer(e)
  <2>1. \A i, j \in 1..Len(d.pending) : i # j => d.pending[i] # d.pending[j]
      BY DEF Orderly, PendingDiffer
  <2> QED
      BY <1>4, <1>6, <2>1 DEF PendingDiffer
<1>20. \A i \in 1..Len(k) : OnWay(e, k[i]) /\ RankOf(e, k[i]) <= RankOf(d, d.path[1]) /\ RankOf(e, k[i]) \in Int
  <2>1. ASSUME NEW i \in 1..Len(k)
        PROVE  OnWay(d, k[i]) /\ RankOf(d, k[i]) <= RankOf(d, d.path[1]) /\ RankOf(d, k[i]) \in Int
    <3>1. CASE i = Len(h) + 1
        BY <1>9, <1>11, <1>13, <1>14, <3>1
    <3>2. CASE i \in 1..Len(h)
        BY <1>11, <1>13, <1>15, <3>2
    <3> QED
        BY <1>11, <3>1, <3>2
  <2> QED
      BY <1>12, <2>1
<1>21. HeardIsBehind(e, k)
  <2>1. CASE Len(d.pending) = 1
    <3>1. e.pending = <<>>
        BY <1>8, <2>1
    <3>2. ASSUME NEW i \in 1..Len(k), NEW j \in 1..Len(e.path) PROVE RankOf(e, k[i]) < RankOf(e, e.path[j])
      <4>1. j + 1 \in 1..Len(d.path) /\ e.path[j] = d.path[j + 1] /\ 1 < j + 1
          BY <1>4, <1>5, <2>1
      <4>2. RankOf(d, d.path[1]) < RankOf(d, d.path[j + 1])
          BY <1>9, <1>16, <4>1
      <4>3. RankOf(d, d.path[1]) \in Int /\ RankOf(d, d.path[j + 1]) \in Int
          BY <1>9, <1>13, <4>1
      <4>4. RankOf(e, k[i]) <= RankOf(d, d.path[1]) /\ RankOf(e, k[i]) \in Int
          BY <1>20
      <4>5. RankOf(e, e.path[j]) = RankOf(d, d.path[j + 1])
          BY <1>12, <4>1
      <4> QED
          BY <4>2, <4>3, <4>4, <4>5
    <3> QED
        BY <1>20, <3>1, <3>2 DEF HeardIsBehind
  <2>2. CASE Len(d.pending) # 1
    <3>1. e.path = d.path /\ e.pending # <<>>
        BY <1>4, <1>8, <2>2
    <3>2. ASSUME NEW i \in 1..Len(k), NEW j \in 1..Len(e.pending), HeardHere(e, k[i])
          PROVE  [callback |-> k[i].callback, kind |-> k[i].kind] # e.pending[j]
      <4>1. j + 1 \in 1..Len(d.pending) /\ e.pending[j] = d.pending[j + 1] /\ 1 # j + 1
          BY <1>4, <1>6
      <4>2. CASE i = Len(h) + 1
          BY <1>9, <1>11, <1>17, <4>1, <4>2 DEF Orderly, PendingDiffer
      <4>3. CASE i \in 1..Len(h)
        <5>1. HeardHere(d, h[i]) /\ k[i] = h[i]
            BY <1>11, <3>1, <3>2, <4>3 DEF HeardHere
        <5> QED
            BY <1>15, <4>1, <4>3, <5>1
      <4> QED
          BY <1>11, <4>2, <4>3
    <3> QED
        BY <1>12, <1>20, <3>1, <3>2 DEF HeardIsBehind
  <2> QED
      BY <2>1, <2>2
<1>22. HeardInOrder(e, k)
  <2>1. ASSUME NEW i \in 1..Len(k), NEW j \in 1..Len(k), i < j
        PROVE  RankOf(d, k[i]) <= RankOf(d, k[j]) /\ k[i] # k[j]
    <3>1. i \in 1..Len(h) /\ k[i] = h[i]
        BY <1>11, <2>1
    <3>2. CASE j = Len(h) + 1
      <4>1. k[j] = c
          BY <1>11, <3>2
      <4>2. h[i] # c
          BY <1>9, <1>14, <1>15, <1>17, <3>1
      <4> QED
          BY <1>14, <1>15, <3>1, <4>1, <4>2
    <3>3. CASE j \in 1..Len(h)
        BY <1>11, <2>1, <3>1, <3>3 DEF Orderly, HeardInOrder
    <3> QED
        BY <1>11, <3>2, <3>3
  <2> QED
      BY <1>12, <2>1 DEF HeardInOrder
<1>23. StopIsKept(e, k)
  <2>1. k # <<>> /\ RankOf(d, k[Len(k)]) = RankOf(d, d.path[1])
      BY <1>11, <1>14
  <2>2. e.pending # <<>> => e.path = d.path
      BY <1>4, <1>8
  <2>3. /\ d.stopped <=> d.stopped_at > 0
        /\ d.stopped_at <= Len(h) /\ d.stopped_at \in Nat
      BY DispatchFields DEF Orderly, StopIsKept
  <2>4. ASSUME d.stopped_at > 0
        PROVE  /\ \A i \in d.stopped_at..Len(k) : RankOf(d, k[i]) = RankOf(d, k[d.stopped_at])
               /\ RankOf(d, d.path[1]) = RankOf(d, k[d.stopped_at])
    <3>1. k[d.stopped_at] = h[d.stopped_at]
        BY <1>11, <2>3, <2>4
    <3>2. /\ \A i \in d.stopped_at..Len(h) : RankOf(d, h[i]) = RankOf(d, h[d.stopped_at])
          /\ RankOf(d, d.path[1]) = RankOf(d, h[d.stopped_at])
        BY <2>4 DEF Orderly, StopIsKept
    <3>3. ASSUME NEW i \in d.stopped_at..Len(k) PROVE RankOf(d, k[i]) = RankOf(d, k[d.stopped_at])
      <4>1. CASE i = Len(h) + 1
          BY <1>11, <1>14, <3>1, <3>2, <4>1
      <4>2. CASE i \in d.stopped_at..Len(h)
        <5>1. i \in 1..Len(h)
            BY <1>11, <2>3, <2>4, <4>2
        <5> QED
            BY <1>11, <3>1, <3>2, <4>2, <5>1
      <4> QED
          BY <1>11, <2>3, <4>1, <4>2
    <3> QED
        BY <3>1, <3>2, <3>3
  <2>5. d.stopped_at <= Len(k)
      BY <1>11, <2>3
  <2>6. e.pending # <<>> => RankOf(e, k[Len(k)]) = RankOf(e, e.path[1])
      BY <1>12, <2>1, <2>2
  <2>7. e.stopped <=> e.stopped_at > 0
      BY <1>4, <2>3
  <2>8. ASSUME e.stopped_at > 0
        PROVE  /\ \A i \in e.stopped_at..Len(k) : RankOf(e, k[i]) = RankOf(e, k[e.stopped_at])
               /\ e.pending # <<>> => RankOf(e, e.path[1]) = RankOf(e, k[e.stopped_at])
      BY <1>4, <1>12, <2>2, <2>4, <2>8
  <2>9. e.stopped_at <= Len(k)
      BY <1>4, <2>5
  <2> QED
      BY <2>1, <2>6, <2>7, <2>8, <2>9 DEF StopIsKept
<1>24. SteadyAreCalled(e, k, L, registrations)
  <2>1. ASSUME NEW r \in registrations, ~d.stopped
        PROVE  WasHeard(k, r) \/ IsPending(e, r) \/ IsAhead(e, L, r)
    <3>1. CASE WasHeard(h, r)
        BY <1>11, <3>1 DEF WasHeard
    <3>2. CASE IsPending(d, r)
      <4>1. PICK i \in 1..Len(d.pending) :
                d.pending[i] = [callback |-> r.callback, kind |-> KindOf(r.capture)]
          BY <3>2 DEF IsPending
      <4>2. d.path[1].place = r.place
          BY <3>2 DEF IsPending
      <4>3. CASE i = 1
        <5>1. c.callback = r.callback /\ c.kind = KindOf(r.capture) /\ c.place = r.place
            BY <1>1, <4>1, <4>2, <4>3
        <5>2. Len(h) + 1 \in 1..Len(k)
            BY <1>11
        <5> QED
            BY <1>11, <5>1, <5>2 DEF WasHeard
      <4>4. CASE i # 1
        <5>1. i > 1 /\ Len(d.pending) # 1
            BY <1>6, <4>4
        <5>2. i - 1 \in 1..Len(e.pending) /\ e.pending[i - 1] = d.pending[i] /\ e.path = d.path
            BY <1>4, <1>6, <5>1
        <5> QED
            BY <4>1, <4>2, <5>2 DEF IsPending
      <4> QED
          BY <4>3, <4>4
    <3>3. CASE IsAhead(d, L, r)
      <4>1. PICK i \in 1..Len(d.path) :
                i > 1 /\ d.path[i].place = r.place /\ CalledAt(r, d.path[i].phase)
          BY <3>3 DEF IsAhead
      <4>2. Registered(L, r)
          BY <3>3 DEF IsAhead
      <4>3. CASE Len(d.pending) = 1
        <5>1. e.path = Tail(d.path) /\ e.pending = <<>>
            BY <1>4, <1>8, <4>3
        <5>2. i - 1 \in 1..Len(e.path) /\ e.path[i - 1] = d.path[i]
            BY <1>5, <4>1, <5>1
        <5> QED
            BY <4>1, <4>2, <5>1, <5>2 DEF IsAhead
      <4>4. CASE Len(d.pending) # 1
          BY <1>4, <4>1, <4>2, <4>4 DEF IsAhead
      <4> QED
          BY <4>3, <4>4
    <3> QED
        BY <2>1, <3>1, <3>2, <3>3 DEF Orderly, SteadyAreCalled
  <2> QED
      BY <1>4, <2>1 DEF SteadyAreCalled
<1> QED
    BY <1>7, <1>11, <1>18, <1>19, <1>21, <1>22, <1>23, <1>24 DEF Orderly, k, c, e

(* The event is stopped, with what is left of the stop or without.         *)
LEMMA StopKeepsOrder ==
    ASSUME NEW d \in Dispatches, NEW h \in Seq(Heard), NEW L, NEW registrations,
           Orderly(d, h, L, registrations), d.calling,
           NEW immediate \in BOOLEAN, ~immediate => ~d.stopped,
           NEW e, e.chain = d.chain, e.path = d.path, e.calling = d.calling, e.stopped = TRUE,
           e.pending = IF immediate THEN <<>> ELSE d.pending,
           e.stopped_at = IF d.stopped_at = 0 THEN Len(h) ELSE d.stopped_at
    PROVE  Orderly(e, h, L, registrations)
<1>1. \A at : RankOf(e, at) = RankOf(d, at) /\ (OnWay(e, at) <=> OnWay(d, at))
    BY DEF RankOf, OnWay
<1>2. Len(<<>>) = 0
    OBVIOUS
<1>3. PathIsAhead(e) /\ PendingDiffer(e) /\ HeardInOrder(e, h)
    BY <1>1, <1>2 DEF Orderly, PathIsAhead, PendingDiffer, HeardInOrder
<1>4. HeardIsBehind(e, h)
    BY <1>1 DEF Orderly, HeardIsBehind, HeardHere
<1>5. StopIsKept(e, h)
  <2>1. Len(h) \in Nat /\ Len(h) > 0 /\ d.stopped_at \in Nat
      BY DispatchFields DEF Orderly, StopIsKept
  <2>2. d.stopped_at = 0 =>
            \A i \in Len(h)..Len(h) : RankOf(d, h[i]) = RankOf(d, h[Len(h)])
      BY <2>1
  <2> QED
      BY <1>1, <2>1, <2>2 DEF Orderly, StopIsKept
<1> QED
    BY <1>3, <1>4, <1>5 DEF Orderly, SteadyAreCalled

LEMMA ListsKeepOrder ==
    ASSUME NEW d, NEW h, NEW L, NEW M, NEW registrations, NEW left \in SUBSET registrations,
           Orderly(d, h, L, registrations),
           \A r \in left : Registered(L, r) => Registered(M, r)
    PROVE  Orderly(d, h, M, left)
BY DEF Orderly, SteadyAreCalled, IsAhead

-----------------------------------------------------------------------------
(* What is copied from a list, and what is left of it.                     *)

Keep(L, p, K) == [L EXCEPT ![p] = Filtered(L[p], K)]

LEMMA FilteredLists ==
    ASSUME NEW L \in ListsOfPlaces, RegistrationsDiffer(L), NEW p \in Places, NEW K
    PROVE  /\ Keep(L, p, K) \in ListsOfPlaces
           /\ RegistrationsDiffer(Keep(L, p, K))
           /\ \A r \in Registrations :
                 /\ Registered(L, r)
                 /\ r.place = p =>
                       \A l \in Listeners : l.callback = r.callback /\ l.capture = r.capture => l \in K
                 => Registered(Keep(L, p, K), r)
<1> DEFINE M == Keep(L, p, K)
           F == Filtered(L[p], K)
<1>1. \A q \in Places : L[q] \in Seq(Listeners)
    BY DEF ListsOfPlaces
<1>2. F \in Seq(Listeners) /\ Gathers(L[p], K, F, Len(L[p]))
    BY <1>1, FilteredProperties
<1>3. M[p] = F /\ \A q \in Places : q # p => M[q] = L[q]
    BY DEF ListsOfPlaces, Keep
<1>4. M \in ListsOfPlaces
    BY <1>2 DEF ListsOfPlaces, Keep
<1> HIDE DEF M, F
<1>5. RegistrationsDiffer(M)
  <2>1. ASSUME NEW q \in Places, NEW i \in 1..Len(M[q]), NEW j \in 1..Len(M[q]), i < j
        PROVE  M[q][i].callback # M[q][j].callback \/ M[q][i].capture # M[q][j].capture
    <3>1. CASE q # p
        BY <1>3, <2>1, <3>1 DEF RegistrationsDiffer
    <3>2. CASE q = p
      <4>1. PICK a \in 1..Len(L[p]), b \in 1..Len(L[p]) :
                a < b /\ M[q][i] = L[p][a] /\ M[q][j] = L[p][b]
        <5>1. i \in 1..Len(F) /\ j \in 1..Len(F) /\ M[q] = F
            BY <1>3, <3>2
        <5> QED
            BY <1>2, <2>1, <5>1 DEF Gathers
      <4>2. a # b
          BY <4>1
      <4> QED
          BY <4>1, <4>2 DEF RegistrationsDiffer
    <3> QED
        BY <3>1, <3>2
  <2>2. ASSUME NEW q \in Places, NEW i \in 1..Len(M[q]), NEW j \in 1..Len(M[q]), i # j
        PROVE  M[q][i].callback # M[q][j].callback \/ M[q][i].capture # M[q][j].capture
    <3>1. i \in Int /\ j \in Int
        OBVIOUS
    <3>2. i < j \/ j < i
        BY <2>2, <3>1
    <3> QED
        BY <2>1, <3>2
  <2>3. \A i \in 1..Len(M[Window]) : ~M[Window][i].capture
    <3>1. CASE Window # p
        BY <1>3, <3>1 DEF RegistrationsDiffer, Places
    <3>2. CASE Window = p
      <4>1. M[Window] = F
          BY <1>3, <3>2
      <4>2. \A i \in 1..Len(F) : \E a \in 1..Len(L[Window]) : F[i] = L[Window][a]
          BY <1>2, <3>2 DEF Gathers
      <4> QED
          BY <4>1, <4>2 DEF RegistrationsDiffer
    <3> QED
        BY <3>1, <3>2
  <2> QED
      BY <2>2, <2>3 DEF RegistrationsDiffer
<1>6. ASSUME NEW r \in Registrations, Registered(L, r),
             r.place = p =>
                 \A l \in Listeners : l.callback = r.callback /\ l.capture = r.capture => l \in K
      PROVE  Registered(M, r)
  <2>1. PICK a \in 1..Len(L[r.place]) :
            L[r.place][a].callback = r.callback /\ L[r.place][a].capture = r.capture
      BY <1>6 DEF Registered
  <2>2. r.place \in Places
      BY DEF Registrations
  <2>3. CASE r.place # p
      BY <1>3, <1>6, <2>2, <2>3 DEF Registered
  <2>4. CASE r.place = p
    <3>1. L[p][a] \in Listeners
        BY <1>1, <2>1, <2>4
    <3>2. L[p][a] \in K
        BY <1>6, <2>1, <2>4, <3>1
    <3>3. PICK i \in 1..Len(M[p]) : M[p][i] = L[p][a]
        BY <1>2, <1>3, <2>1, <2>4, <3>2 DEF Gathers
    <3> QED
        BY <2>1, <2>4, <3>3 DEF Registered
  <2> QED
      BY <2>3, <2>4
<1> QED
    BY <1>4, <1>5, <1>6 DEF M

(* The callbacks of a stop differ, and everyone to call there is one.      *)
LEMMA GatheredFacts ==
    ASSUME DispatchTypeOK, RegistrationsDiffer(listeners), NEW stop \in Stops,
           stop.phase \in {"bubble", "target"} => stop.place \in Elements
    PROVE  /\ Gathered(stop) \in Seq(Called)
           /\ \A i, j \in 1..Len(Gathered(stop)) : i # j => Gathered(stop)[i] # Gathered(stop)[j]
           /\ \A r \in Registrations :
                 r.place = stop.place /\ CalledAt(r, stop.phase) /\ Registered(listeners, r) =>
                     \E i \in 1..Len(Gathered(stop)) :
                         Gathered(stop)[i] = [callback |-> r.callback, kind |-> KindOf(r.capture)]
<1> DEFINE list == listeners[stop.place]
           keep == {l \in Listeners : CalledAt(l, stop.phase)}
           called == Filtered(list, keep)
           handler == IF stop.phase \in {"bubble", "target"} THEN handlers[stop.place] ELSE None
           copied == [i \in DOMAIN called |->
                         [callback |-> called[i].callback,
                          kind |-> IF called[i].capture THEN "capture" ELSE "plain"]]
           after == IF handler = None THEN <<>> ELSE <<[callback |-> handler, kind |-> "handler"]>>
<1>1. list \in Seq(Listeners)
    BY DEF DispatchTypeOK, Stops
<1>2. called \in Seq(Listeners) /\ Gathers(list, keep, called, Len(list))
  <2> HIDE DEF list, keep
  <2> QED
      BY <1>1, FilteredProperties
<1>3. handler \in Callbacks \cup {None}
    BY DEF DispatchTypeOK
<1>4. Gathered(stop) = copied \o after
    BY DEF Gathered
<1> HIDE DEF handler
<1>5. Len(called) \in Nat /\ DOMAIN called = 1..Len(called)
      /\ \A i \in 1..Len(called) : called[i] \in Listeners
  <2> HIDE DEF called
  <2> QED
      BY <1>2
<1> HIDE DEF called
<1>6. \A i \in 1..Len(called) : copied[i] = [callback |-> called[i].callback, kind |-> KindOf(called[i].capture)]
    BY <1>5 DEF KindOf
<1>7. \A i \in 1..Len(called) :
           copied[i].callback = called[i].callback /\ copied[i].kind = KindOf(called[i].capture)
    BY <1>5 DEF KindOf
<1>8. \A i \in 1..Len(called) : copied[i] \in Called
    BY <1>5, <1>6 DEF Listeners, Called, KindOf
<1>9. copied \in Seq(Called) /\ Len(copied) = Len(called)
    BY <1>5, <1>8
<1> HIDE DEF copied
<1>10. after \in Seq(Called) /\ Len(after) \in {0, 1}
      /\ \A i \in 1..Len(after) : i = 1 /\ after[1].kind = "handler"
  <2>1. CASE handler = None
    <3>1. after = <<>> /\ Len(<<>>) = 0 /\ <<>> \in Seq(Called)
        BY <2>1
    <3> QED
        BY <3>1
  <2>2. CASE handler # None
    <3>1. after = <<[callback |-> handler, kind |-> "handler"]>>
        BY <2>2
    <3>2. [callback |-> handler, kind |-> "handler"] \in Called
        BY <1>3, <2>2 DEF Called
    <3> QED
        BY <3>1, <3>2, OfOne
  <2> QED
      BY <2>1, <2>2
<1> HIDE DEF after
<1>11. /\ copied \o after \in Seq(Called) /\ Len(copied \o after) = Len(called) + Len(after)
       /\ \A i \in 1..Len(called) + Len(after) :
             (copied \o after)[i] = IF i <= Len(called) THEN copied[i] ELSE after[i - Len(called)]
  <2>1. copied \in Seq(Called) /\ after \in Seq(Called)
      BY <1>9, <1>10
  <2>2. /\ copied \o after \in Seq(Called) /\ Len(copied \o after) = Len(copied) + Len(after)
        /\ \A i \in 1..Len(copied) + Len(after) :
              (copied \o after)[i] = IF i <= Len(copied) THEN copied[i] ELSE after[i - Len(copied)]
      BY <2>1, ConcatProperties
  <2> QED
      BY <1>9, <2>2
<1>12. \A i \in 1..Len(copied \o after) :
           \/ i \in 1..Len(called) /\ (copied \o after)[i] = copied[i]
           \/ i = Len(called) + 1 /\ (copied \o after)[i].kind = "handler"
    BY <1>5, <1>10, <1>11
<1>13. ASSUME NEW i \in 1..Len(called), NEW j \in 1..Len(called), i < j
       PROVE  copied[i] # copied[j]
  <2>1. PICK a \in 1..Len(list), b \in 1..Len(list) : a < b /\ called[i] = list[a] /\ called[j] = list[b]
      BY <1>2, <1>13 DEF Gathers
  <2>2. a # b /\ stop.place \in Places
      BY <2>1 DEF Stops
  <2>3. called[i].callback # called[j].callback \/ called[i].capture # called[j].capture
      BY <2>1, <2>2 DEF RegistrationsDiffer
  <2>4. called[i].capture \in BOOLEAN /\ called[j].capture \in BOOLEAN
      BY <1>5 DEF Listeners
  <2>5. called[i].callback # called[j].callback \/ KindOf(called[i].capture) # KindOf(called[j].capture)
      BY <2>3, <2>4 DEF KindOf
  <2>6. copied[i].callback = called[i].callback /\ copied[j].callback = called[j].callback
        /\ copied[i].kind = KindOf(called[i].capture) /\ copied[j].kind = KindOf(called[j].capture)
      BY <1>7
  <2> QED
      BY <2>5, <2>6
<1>14. \A i \in 1..Len(called) : copied[i].kind # "handler"
  <2>1. \A i \in 1..Len(called) : copied[i].kind = KindOf(called[i].capture)
      BY <1>7
  <2>2. \A capture : KindOf(capture) # "handler"
      BY DEF KindOf
  <2> QED
      BY <2>1, <2>2
<1>15. ASSUME NEW i \in 1..Len(copied \o after), NEW j \in 1..Len(copied \o after), i < j
       PROVE  (copied \o after)[i] # (copied \o after)[j]
  <2>1. i \in 1..Len(called) /\ (copied \o after)[i] = copied[i]
      BY <1>5, <1>10, <1>11, <1>12, <1>15
  <2>2. CASE j \in 1..Len(called)
    <3>1. (copied \o after)[j] = copied[j]
        BY <1>5, <1>12, <2>2
    <3> QED
        BY <1>13, <1>15, <2>1, <2>2, <3>1
  <2>3. CASE j = Len(called) + 1
    <3>1. (copied \o after)[j].kind = "handler"
        BY <1>5, <1>12, <2>3
    <3> QED
        BY <1>14, <2>1, <3>1
  <2> QED
      BY <1>12, <2>2, <2>3
<1>16. ASSUME NEW i \in 1..Len(copied \o after), NEW j \in 1..Len(copied \o after), i # j
       PROVE  (copied \o after)[i] # (copied \o after)[j]
  <2>1. i < j \/ j < i
    <3>1. i \in Int /\ j \in Int
        OBVIOUS
    <3> QED
        BY <1>16, <3>1
  <2> QED
      BY <1>15, <2>1
<1>17. ASSUME NEW r \in Registrations, r.place = stop.place, CalledAt(r, stop.phase), Registered(listeners, r)
       PROVE  \E i \in 1..Len(copied \o after) :
                  (copied \o after)[i] = [callback |-> r.callback, kind |-> KindOf(r.capture)]
  <2>1. PICK a \in 1..Len(list) : list[a].callback = r.callback /\ list[a].capture = r.capture
      BY <1>17 DEF Registered
  <2>2. list[a] \in keep
    <3>1. list[a] \in Listeners
        BY <1>1
    <3> QED
        BY <1>17, <2>1, <3>1 DEF CalledAt
  <2>3. PICK i \in 1..Len(called) : called[i] = list[a]
      BY <1>2, <2>2 DEF Gathers
  <2>4. i \in 1..Len(copied \o after) /\ (copied \o after)[i] = copied[i]
      BY <1>5, <1>10, <1>11
  <2> QED
      BY <1>6, <2>1, <2>3, <2>4
<1> QED
    BY <1>4, <1>11, <1>16, <1>17

-----------------------------------------------------------------------------
(* Every action keeps the invariant.                                       *)

LEMMA InvFacts ==
    ASSUME DispatchInv
    PROVE  /\ DispatchTypeOK /\ RegistrationsDiffer(listeners) /\ Deciding
           /\ listeners \in ListsOfPlaces /\ heard \in Seq(Heard) /\ steady \in SUBSET Registrations
           /\ driver \in Drivers /\ handlers \in [Elements -> Callbacks \cup {None}]
           /\ changes \in 0..MaxChanges
           /\ dispatch # None =>
                 dispatch \in Dispatches /\ Orderly(dispatch, heard, listeners, steady)
BY DEF DispatchInv, DispatchTypeOK, ListsOfPlaces

LEMMA InitOrderly == DispatchInit => DispatchInv
<1> SUFFICES ASSUME DispatchInit PROVE DispatchInv
    OBVIOUS
<1>1. \A p \in Places : listeners[p] = <<>>
    BY DEF DispatchInit
<1>2. Len(<<>>) = 0 /\ Window \in Places
    BY DEF Places
<1>3. RegistrationsDiffer(listeners)
    BY <1>1, <1>2 DEF RegistrationsDiffer
<1>4. driver \in Drivers
    BY PlacesAssumption DEF DispatchInit, NoDriver, Drivers
<1>5. DispatchTypeOK
    BY <1>4, PlacesAssumption DEF DispatchInit, DispatchTypeOK
<1>6. Deciding
    BY DEF DispatchInit, NoDriver, Deciding
<1>7. dispatch = None
    BY DEF DispatchInit
<1> QED
    BY <1>3, <1>5, <1>6, <1>7 DEF DispatchInv

LEMMA StartIsOrderly ==
    ASSUME DispatchTypeOK, RegistrationsDiffer(listeners),
           NEW chain \in Chains, NEW bubbles \in BOOLEAN, StartDispatch(chain, bubbles)
    PROVE  /\ dispatch' \in Dispatches /\ heard' \in Seq(Heard) /\ steady' \in SUBSET Registrations
           /\ Orderly(dispatch', heard', listeners, steady')
<1> DEFINE d == dispatch'
<1>1. d = [chain |-> chain, bubbles |-> bubbles, path |-> Path(chain, bubbles),
           pending |-> <<>>, calling |-> FALSE,
           stopped |-> FALSE, stopped_immediate |-> FALSE, prevented |-> FALSE, stopped_at |-> 0]
    BY DEF StartDispatch
<1>2. /\ d.chain = chain /\ d.path = Path(chain, bubbles) /\ d.pending = <<>>
      /\ d.calling = FALSE /\ d.stopped = FALSE /\ d.stopped_at = 0
    BY <1>1
<1>3. heard' = <<>> /\ Len(<<>>) = 0 /\ <<>> \in Seq(Heard) /\ <<>> \in Seq(Called)
    BY DEF StartDispatch
<1>4. steady' = RegisteredOn(PlacesOf(chain, bubbles))
    BY DEF StartDispatch, PlacesOf
<1>5. steady' \in SUBSET Registrations
    BY <1>4 DEF RegisteredOn
<1>6. /\ d.path \in Seq(Stops) /\ PathIsAhead(d)
      /\ \A r \in Registrations :
            r.place \in PlacesOf(chain, bubbles) /\ (r.place = Window => ~r.capture) =>
                \E i \in 1..Len(d.path) : d.path[i].place = r.place /\ CalledAt(r, d.path[i].phase)
  <2> HIDE DEF d
  <2> QED
      BY <1>2, PathIsAWay
<1>7. d \in Dispatches
    BY <1>1, <1>2, <1>3, <1>6 DEF Dispatches, Called
<1>8. PendingDiffer(d) /\ HeardIsBehind(d, heard') /\ HeardInOrder(d, heard') /\ StopIsKept(d, heard')
    BY <1>2, <1>3 DEF PendingDiffer, HeardIsBehind, HeardInOrder, StopIsKept
<1>9. SteadyAreCalled(d, heard', listeners, steady')
  <2>1. ASSUME NEW r \in steady' PROVE IsAhead(d, listeners, r)
    <3>1. r \in Registrations /\ r.place \in PlacesOf(chain, bubbles)
          /\ \E l \in ToSet(listeners[r.place]) : l.callback = r.callback /\ l.capture = r.capture
        BY <1>4 DEF RegisteredOn
    <3>2. listeners[r.place] \in Seq(Listeners)
        BY <3>1 DEF DispatchTypeOK, Registrations
    <3>3. PICK i \in 1..Len(listeners[r.place]) :
              listeners[r.place][i].callback = r.callback /\ listeners[r.place][i].capture = r.capture
        BY <3>1, <3>2 DEF ToSet
    <3>4. r.place = Window => ~r.capture
        BY <3>3 DEF RegistrationsDiffer
    <3>5. \E j \in 1..Len(d.path) : d.path[j].place = r.place /\ CalledAt(r, d.path[j].phase)
        BY <1>6, <3>1, <3>4
    <3>6. Registered(listeners, r)
        BY <3>3 DEF Registered
    <3> QED
        BY <1>2, <3>5, <3>6 DEF IsAhead
  <2> QED
      BY <2>1 DEF SteadyAreCalled
<1> QED
    BY <1>3, <1>5, <1>6, <1>7, <1>8, <1>9 DEF Orderly

LEMMA StartKeepsInv ==
    ASSUME DispatchInv, NEW chain \in Chains, NEW bubbles \in BOOLEAN,
           StartDispatch(chain, bubbles), UNCHANGED <<listeners, handlers, changes>>,
           driver' \in Drivers, Deciding'
    PROVE  DispatchInv'
<1>1. DispatchTypeOK /\ RegistrationsDiffer(listeners)
    BY DEF DispatchInv
<1>2. /\ dispatch' \in Dispatches /\ heard' \in Seq(Heard) /\ steady' \in SUBSET Registrations
      /\ Orderly(dispatch', heard', listeners, steady')
    BY <1>1, StartIsOrderly
<1>3. DispatchTypeOK'
    BY <1>1, <1>2 DEF DispatchTypeOK
<1> QED
    BY <1>1, <1>2, <1>3 DEF DispatchInv

LEMMA HandleEventKeepsInv ==
    ASSUME DispatchInv, NEW chain \in Chains, NEW bubbles \in BOOLEAN,
           NEW event \in {"direct", "pointer", "queued"}, event = "queued" => driver.queue > 0,
           HandleEvent(event, chain, bubbles)
    PROVE  DispatchInv'
<1>1. driver \in Drivers /\ Deciding
    BY InvFacts
<1>2. driver' = [driver EXCEPT !.event = event, !.cancelled = FALSE,
                               !.queue = IF event = "queued" THEN @ - 1 ELSE @,
                               !.refused = FALSE, !.acted = FALSE]
    BY DEF HandleEvent
<1>3. driver.queue \in 0..MaxQueued /\ driver.queued \in 0..MaxQueued /\ MaxQueued \in Nat
    BY <1>1, PlacesAssumption DEF Drivers
<1> DEFINE queue == IF event = "queued" THEN driver.queue - 1 ELSE driver.queue
<1>4. queue \in 0..MaxQueued /\ queue <= driver.queued
    BY <1>1, <1>3 DEF Deciding
<1>5. driver' \in Drivers /\ driver'.queue = queue /\ driver'.queued = driver.queued
      /\ driver'.refused = FALSE /\ driver'.acted = FALSE
    BY <1>1, <1>2, <1>4 DEF Drivers
<1>6. Deciding'
    BY <1>4, <1>5 DEF Deciding
<1> QED
    BY <1>5, <1>6, StartKeepsInv DEF HandleEvent

LEMMA SendCompatibilityEventKeepsInv ==
    ASSUME DispatchInv, NEW chain \in Chains, SendCompatibilityEvent(chain)
    PROVE  DispatchInv'
<1>1. driver \in Drivers /\ Deciding
    BY InvFacts
<1>2. dispatch # None /\ ~Cancelled /\ driver' = [driver EXCEPT !.event = "compat"]
    BY DEF SendCompatibilityEvent, Ended
<1>3. ~driver.refused /\ ~driver.acted /\ driver.queue <= driver.queued
    BY <1>1, <1>2 DEF Deciding
<1>4. driver' \in Drivers /\ driver'.queue = driver.queue /\ driver'.queued = driver.queued
      /\ driver'.refused = driver.refused /\ driver'.acted = driver.acted
    BY <1>1, <1>2 DEF Drivers
<1>5. Deciding'
    BY <1>3, <1>4 DEF Deciding
<1> QED
    BY <1>4, <1>5, StartKeepsInv DEF SendCompatibilityEvent

LEMMA SynthesiseChangeKeepsInv ==
    ASSUME DispatchInv, SynthesiseChange
    PROVE  DispatchInv'
<1>1. driver \in Drivers /\ Deciding /\ dispatch # None
    BY InvFacts DEF SynthesiseChange, Ended
<1>2. driver' = [driver EXCEPT !.event = "change", !.cancelled = Cancelled]
    BY DEF SynthesiseChange
<1>3. dispatch \in Dispatches
    BY <1>1, InvFacts
<1>4. dispatch.chain \in Chains /\ Cancelled \in BOOLEAN
    BY <1>1, <1>3 DEF Dispatches, Drivers, Cancelled
<1> HIDE DEF Cancelled
<1>5. driver' \in Drivers /\ driver'.queue = driver.queue /\ driver'.queued = driver.queued
      /\ driver'.refused = driver.refused /\ driver'.acted = driver.acted
      /\ driver'.cancelled = Cancelled
    BY <1>1, <1>2, <1>4 DEF Drivers
<1>6. /\ driver.queue <= driver.queued /\ ~driver.acted
      /\ driver.refused => Cancelled
    BY <1>1 DEF Deciding
<1>7. driver'.cancelled => Cancelled'
    BY DEF Cancelled
<1>8. Deciding'
    BY <1>5, <1>6, <1>7 DEF Deciding
<1> QED
    BY <1>4, <1>5, <1>8, StartKeepsInv DEF SynthesiseChange

LEMMA VisitKeepsInv ==
    ASSUME DispatchInv, Visit
    PROVE  DispatchInv'
<1> DEFINE stop == Head(dispatch.path)
<1>1. dispatch # None /\ dispatch.pending = <<>> /\ dispatch.path # <<>> /\ ~dispatch.stopped
    BY DEF Visit, Between
<1>2. dispatch \in Dispatches /\ Orderly(dispatch, heard, listeners, steady)
    BY <1>1, InvFacts
<1>3. dispatch' = [dispatch EXCEPT !.pending = Gathered(stop), !.calling = FALSE,
                                   !.path = IF Gathered(stop) = <<>> THEN Tail(@) ELSE @]
    BY DEF Visit
<1>4. listeners' = [listeners EXCEPT ![stop.place] =
          Filtered(@, {l \in Listeners : ~(l.once /\ CalledAt(l, stop.phase))})]
    BY DEF Visit, Retired
<1>5. UNCHANGED <<handlers, changes, driver, heard, steady>>
    BY DEF Visit
<1>6. dispatch.path \in Seq(Stops) /\ 1 \in 1..Len(dispatch.path) /\ stop = dispatch.path[1] /\ stop \in Stops
  <2>1. dispatch.path \in Seq(Stops)
      BY <1>2, DispatchFields
  <2> QED
      BY <1>1, <2>1
<1>7. stop.phase \in {"bubble", "target"} => stop.place \in Elements
  <2>1. OnWay(dispatch, stop)
      BY <1>2, <1>6 DEF Orderly, PathIsAhead
  <2>2. dispatch.chain \in Chains
      BY <1>2, DispatchFields
  <2> QED
      BY <2>1, <2>2, ChainFacts DEF OnWay
<1> HIDE DEF stop
<1>8. stop.place \in Places
    BY <1>6 DEF Stops
<1>9. DispatchTypeOK /\ RegistrationsDiffer(listeners) /\ listeners \in ListsOfPlaces /\ Deciding
      /\ heard \in Seq(Heard) /\ steady \in SUBSET Registrations
    BY InvFacts
<1>10. /\ Gathered(stop) \in Seq(Called)
       /\ \A i, j \in 1..Len(Gathered(stop)) : i # j => Gathered(stop)[i] # Gathered(stop)[j]
       /\ \A r \in Registrations :
             r.place = stop.place /\ CalledAt(r, stop.phase) /\ Registered(listeners, r) =>
                 \E i \in 1..Len(Gathered(stop)) :
                     Gathered(stop)[i] = [callback |-> r.callback, kind |-> KindOf(r.capture)]
    BY <1>6, <1>7, <1>9, GatheredFacts
<1> DEFINE kept == {l \in Listeners : ~(l.once /\ CalledAt(l, stop.phase))}
<1>11. /\ listeners' \in ListsOfPlaces /\ RegistrationsDiffer(listeners')
       /\ \A r \in Registrations :
             /\ Registered(listeners, r)
             /\ r.place = stop.place =>
                   \A l \in Listeners : l.callback = r.callback /\ l.capture = r.capture => l \in kept
             => Registered(listeners', r)
  <2>1. listeners' = Keep(listeners, stop.place, kept)
      BY <1>4 DEF Keep
  <2> HIDE DEF kept
  <2>2. /\ Keep(listeners, stop.place, kept) \in ListsOfPlaces
        /\ RegistrationsDiffer(Keep(listeners, stop.place, kept))
        /\ \A r \in Registrations :
              /\ Registered(listeners, r)
              /\ r.place = stop.place =>
                    \A l \in Listeners : l.callback = r.callback /\ l.capture = r.capture => l \in kept
              => Registered(Keep(listeners, stop.place, kept), r)
      BY <1>8, <1>9, FilteredLists
  <2> QED
      BY <2>1, <2>2
<1>12. \A r \in steady :
           Registered(listeners, r) /\ ~(r.place = stop.place /\ CalledAt(r, stop.phase))
           => Registered(listeners', r)
    BY <1>9, <1>11 DEF CalledAt
<1>13. dispatch' \in Dispatches /\ Orderly(dispatch', heard, listeners', steady)
  <2> DEFINE G == Gathered(stop)
  <2>1. /\ G \in Seq(Called)
        /\ \A i, j \in 1..Len(G) : i # j => G[i] # G[j]
        /\ \A r \in steady :
              /\ r.place = dispatch.path[1].place /\ CalledAt(r, dispatch.path[1].phase)
              /\ Registered(listeners, r)
              => \E i \in 1..Len(G) : G[i] = [callback |-> r.callback, kind |-> KindOf(r.capture)]
      BY <1>6, <1>9, <1>10
  <2>2. \A r \in steady :
            /\ Registered(listeners, r)
            /\ ~(r.place = dispatch.path[1].place /\ CalledAt(r, dispatch.path[1].phase))
            => Registered(listeners', r)
      BY <1>6, <1>12
  <2>3. dispatch' = [dispatch EXCEPT !.pending = G, !.calling = FALSE,
                                     !.path = IF G = <<>> THEN Tail(@) ELSE @]
      BY <1>3 DEF stop
  <2> HIDE DEF G
  <2> QED
      BY <1>1, <1>2, <1>9, <2>1, <2>2, <2>3, VisitKeepsOrder
<1>14. DispatchTypeOK'
    BY <1>5, <1>9, <1>11, <1>13 DEF DispatchTypeOK, ListsOfPlaces
<1>15. Deciding'
  <2>1. dispatch'.prevented = dispatch.prevented
      BY <1>2, <1>3 DEF Dispatches
  <2> QED
      BY <1>1, <1>5, <1>9, <2>1 DEF Deciding, Cancelled
<1> QED
    BY <1>5, <1>11, <1>13, <1>14, <1>15 DEF DispatchInv

LEMMA CallKeepsInv ==
    ASSUME DispatchInv, Call
    PROVE  DispatchInv'
<1>1. dispatch # None /\ dispatch.pending # <<>>
    BY DEF Call
<1>2. dispatch \in Dispatches /\ Orderly(dispatch, heard, listeners, steady)
    BY <1>1, InvFacts
<1>3. DispatchTypeOK /\ RegistrationsDiffer(listeners) /\ Deciding
      /\ heard \in Seq(Heard) /\ steady \in SUBSET Registrations
    BY InvFacts
<1>4. Head(dispatch.path) = dispatch.path[1] /\ Head(dispatch.pending) = dispatch.pending[1]
  <2>1. dispatch.path \in Seq(Stops) /\ dispatch.pending \in Seq(Called) /\ dispatch.path # <<>>
      BY <1>1, <1>2, DispatchFields DEF Orderly, PathIsAhead
  <2> QED
      BY <1>1, <2>1
<1>5. heard' = Append(heard, CallOf(dispatch)) /\ dispatch' = AfterCall(dispatch)
    BY <1>4 DEF Call, CallOf, AfterCall
<1>6. dispatch'.prevented = dispatch.prevented
    BY <1>2, <1>5 DEF AfterCall, Dispatches
<1>7. UNCHANGED <<listeners, handlers, changes, driver, steady>>
    BY DEF Call
<1>8. /\ dispatch' \in Dispatches /\ heard' \in Seq(Heard)
      /\ Orderly(dispatch', heard', listeners, steady)
  <2>1. /\ AfterCall(dispatch) \in Dispatches /\ Append(heard, CallOf(dispatch)) \in Seq(Heard)
        /\ Orderly(AfterCall(dispatch), Append(heard, CallOf(dispatch)), listeners, steady)
      BY <1>1, <1>2, <1>3, CallKeepsOrder
  <2> QED
      BY <1>5, <2>1
<1>9. DispatchTypeOK'
    BY <1>3, <1>7, <1>8 DEF DispatchTypeOK
<1>10. Deciding'
    BY <1>1, <1>3, <1>6, <1>7 DEF Deciding, Cancelled
<1> QED
    BY <1>3, <1>7, <1>8, <1>9, <1>10 DEF DispatchInv

(* A callback changes its event and nothing else of the dispatch.          *)
LEMMA StopKeepsInv ==
    ASSUME DispatchInv, StopPropagation \/ StopImmediatePropagation
    PROVE  DispatchInv'
<1>1. dispatch # None /\ dispatch.calling
    BY DEF StopPropagation, StopImmediatePropagation, Calling
<1>2. dispatch \in Dispatches /\ Orderly(dispatch, heard, listeners, steady)
    BY <1>1, InvFacts
<1>3. DispatchTypeOK /\ RegistrationsDiffer(listeners) /\ Deciding
      /\ heard \in Seq(Heard) /\ steady \in SUBSET Registrations
    BY InvFacts
<1>4. UNCHANGED <<listeners, handlers, changes, driver, heard, steady>>
    BY DEF StopPropagation, StopImmediatePropagation
<1>5. Len(heard) \in Nat /\ Len(heard) > 0 /\ dispatch.stopped_at \in Nat
      /\ (dispatch.stopped <=> dispatch.stopped_at > 0)
    BY <1>1, <1>2, <1>3, DispatchFields DEF Orderly, StopIsKept
<1>6. PICK immediate \in BOOLEAN :
          /\ ~immediate => ~dispatch.stopped
          /\ dispatch' \in Dispatches
          /\ dispatch'.chain = dispatch.chain /\ dispatch'.path = dispatch.path
          /\ dispatch'.calling = dispatch.calling /\ dispatch'.stopped = TRUE
          /\ dispatch'.pending = IF immediate THEN <<>> ELSE dispatch.pending
          /\ dispatch'.stopped_at = IF dispatch.stopped_at = 0 THEN Len(heard) ELSE dispatch.stopped_at
          /\ dispatch'.prevented = dispatch.prevented
  <2>1. CASE StopPropagation
    <3>1. ~dispatch.stopped
          /\ dispatch' = [dispatch EXCEPT !.stopped = TRUE, !.stopped_at = Len(heard)]
        BY <2>1 DEF StopPropagation
    <3>2. dispatch.stopped_at = 0
        BY <1>5, <3>1
    <3> QED
        BY <1>2, <1>5, <3>1, <3>2 DEF Dispatches
  <2>2. CASE StopImmediatePropagation
    <3>1. dispatch' = [dispatch EXCEPT !.stopped = TRUE, !.stopped_immediate = TRUE,
                                       !.pending = <<>>,
                                       !.stopped_at = IF @ = 0 THEN Len(heard) ELSE @]
        BY <2>2 DEF StopImmediatePropagation
    <3>2. (IF dispatch.stopped_at = 0 THEN Len(heard) ELSE dispatch.stopped_at) \in Nat /\ <<>> \in Seq(Called)
        BY <1>5
    <3>3. /\ dispatch' \in Dispatches
          /\ dispatch'.chain = dispatch.chain /\ dispatch'.path = dispatch.path
          /\ dispatch'.calling = dispatch.calling /\ dispatch'.stopped = TRUE
          /\ dispatch'.pending = <<>> /\ dispatch'.prevented = dispatch.prevented
          /\ dispatch'.stopped_at = IF dispatch.stopped_at = 0 THEN Len(heard) ELSE dispatch.stopped_at
        BY <1>2, <3>1, <3>2 DEF Dispatches, Called
    <3> QED
        BY <3>3
  <2> QED
      BY <2>1, <2>2
<1>7. Orderly(dispatch', heard, listeners, steady)
    BY <1>1, <1>2, <1>3, <1>6, StopKeepsOrder
<1>8. DispatchTypeOK'
    BY <1>3, <1>4, <1>6 DEF DispatchTypeOK
<1>9. Deciding'
    BY <1>1, <1>3, <1>4, <1>6 DEF Deciding, Cancelled
<1> QED
    BY <1>3, <1>4, <1>6, <1>7, <1>8, <1>9 DEF DispatchInv

LEMMA PreventDefaultKeepsInv ==
    ASSUME DispatchInv, PreventDefault
    PROVE  DispatchInv'
<1>1. dispatch # None
    BY DEF PreventDefault, Calling
<1>2. dispatch \in Dispatches /\ Orderly(dispatch, heard, listeners, steady)
    BY <1>1, InvFacts
<1>3. DispatchTypeOK /\ RegistrationsDiffer(listeners) /\ Deciding /\ driver \in Drivers
    BY InvFacts
<1>4. dispatch' = [dispatch EXCEPT !.prevented = TRUE]
      /\ driver' = [driver EXCEPT !.refused = @ \/ driver.event # "change"]
      /\ UNCHANGED <<listeners, handlers, changes, heard, steady>>
    BY DEF PreventDefault
<1>5. /\ dispatch' \in Dispatches
      /\ dispatch'.chain = dispatch.chain /\ dispatch'.path = dispatch.path
      /\ dispatch'.pending = dispatch.pending /\ dispatch'.calling = dispatch.calling
      /\ dispatch'.stopped = dispatch.stopped /\ dispatch'.stopped_at = dispatch.stopped_at
      /\ dispatch'.prevented = TRUE
    BY <1>2, <1>4 DEF Dispatches
<1>6. /\ driver' \in Drivers /\ driver'.event = driver.event /\ driver'.acted = driver.acted
      /\ driver'.queue = driver.queue /\ driver'.queued = driver.queued
      /\ driver'.cancelled = driver.cancelled
      /\ driver'.refused = (driver.refused \/ driver.event # "change")
    BY <1>3, <1>4 DEF Drivers
<1>7. Orderly(dispatch', heard, listeners, steady)
  <2>1. \A at : RankOf(dispatch', at) = RankOf(dispatch, at) /\ (OnWay(dispatch', at) <=> OnWay(dispatch, at))
      BY <1>5 DEF RankOf, OnWay
  <2>2. PathIsAhead(dispatch') /\ PendingDiffer(dispatch') /\ HeardInOrder(dispatch', heard)
      BY <1>2, <1>5, <2>1 DEF Orderly, PathIsAhead, PendingDiffer, HeardInOrder
  <2>3. HeardIsBehind(dispatch', heard)
      BY <1>2, <1>5, <2>1 DEF Orderly, HeardIsBehind, HeardHere
  <2>4. StopIsKept(dispatch', heard)
      BY <1>2, <1>5, <2>1 DEF Orderly, StopIsKept
  <2>5. SteadyAreCalled(dispatch', heard, listeners, steady)
      BY <1>2, <1>5 DEF Orderly, SteadyAreCalled, IsPending, IsAhead
  <2> QED
      BY <2>2, <2>3, <2>4, <2>5 DEF Orderly
<1>8. DispatchTypeOK'
    BY <1>3, <1>4, <1>5, <1>6 DEF DispatchTypeOK
<1>9. Deciding'
  <2>1. driver.queue <= driver.queued /\ ~driver.acted /\ (driver.refused => Cancelled)
      BY <1>1, <1>3 DEF Deciding
  <2>2. driver'.refused => Cancelled'
      BY <1>5, <1>6, <2>1 DEF Cancelled
  <2> QED
      BY <1>6, <2>1, <2>2 DEF Deciding
<1> QED
    BY <1>3, <1>4, <1>5, <1>7, <1>8, <1>9 DEF DispatchInv

(* Script changes the lists, and drops what it removes from steady.        *)
LEMMA ScriptKeepsInv ==
    ASSUME DispatchInv, Script, changes' = changes + 1,
           UNCHANGED <<driver, dispatch, heard>>,
           NEW M, M \in ListsOfPlaces, RegistrationsDiffer(M), listeners' = M,
           NEW left \in SUBSET steady, steady' = left,
           \A r \in left : Registered(listeners, r) => Registered(M, r),
           handlers' \in [Elements -> Callbacks \cup {None}]
    PROVE  DispatchInv'
<1>1. DispatchTypeOK /\ Deciding /\ steady \in SUBSET Registrations
      /\ changes \in 0..MaxChanges
    BY InvFacts
<1>2. changes' \in 0..MaxChanges
    BY <1>1, PlacesAssumption DEF Script
<1>3. DispatchTypeOK'
    BY <1>1, <1>2 DEF DispatchTypeOK, ListsOfPlaces
<1>4. Deciding'
    BY <1>1 DEF Deciding, Cancelled
<1>5. dispatch # None => Orderly(dispatch, heard, M, left)
    BY InvFacts, ListsKeepOrder
<1> QED
    BY <1>3, <1>4, <1>5 DEF DispatchInv

LEMMA AddEventListenerKeepsInv ==
    ASSUME DispatchInv, NEW p \in Places, NEW l \in Listeners, AddEventListener(p, l)
    PROVE  DispatchInv'
<1> DEFINE M == [listeners EXCEPT ![p] = Append(listeners[p], l)]
<1>1. RegistrationsDiffer(listeners) /\ listeners \in ListsOfPlaces /\ steady \in SUBSET Registrations
      /\ handlers \in [Elements -> Callbacks \cup {None}]
    BY InvFacts
<1>2. listeners[p] \in Seq(Listeners)
    BY <1>1 DEF ListsOfPlaces
<1>3. \A i \in 1..Len(listeners[p]) :
          listeners[p][i].callback # l.callback \/ listeners[p][i].capture # l.capture
    BY <1>2 DEF AddEventListener, ToSet
<1>4. p = Window => ~l.capture
    BY DEF AddEventListener
<1>5. M[p] = Append(listeners[p], l) /\ \A q \in Places : q # p => M[q] = listeners[q]
    BY <1>1 DEF ListsOfPlaces
<1>6. /\ Append(listeners[p], l) \in Seq(Listeners)
      /\ Len(Append(listeners[p], l)) = Len(listeners[p]) + 1
      /\ Append(listeners[p], l)[Len(listeners[p]) + 1] = l
      /\ \A i \in 1..Len(listeners[p]) : Append(listeners[p], l)[i] = listeners[p][i]
    BY <1>2, AppendProperties
<1>7. M \in ListsOfPlaces
    BY <1>1, <1>6 DEF ListsOfPlaces
<1>8. listeners' = M /\ Script /\ changes' = changes + 1
      /\ UNCHANGED <<handlers, driver, dispatch, heard, steady>>
    BY DEF AddEventListener
<1> HIDE DEF M
<1>9. /\ Len(listeners[p]) \in Nat /\ Len(M[p]) = Len(listeners[p]) + 1
      /\ M[p][Len(listeners[p]) + 1] = l
      /\ \A i \in 1..Len(listeners[p]) : M[p][i] = listeners[p][i]
    BY <1>2, <1>5, <1>6
<1>10. RegistrationsDiffer(M)
  <2>1. ASSUME NEW q \in Places, NEW i \in 1..Len(M[q]), NEW j \in 1..Len(M[q]), i # j
        PROVE  M[q][i].callback # M[q][j].callback \/ M[q][i].capture # M[q][j].capture
    <3>1. CASE q # p
        BY <1>1, <1>5, <2>1, <3>1 DEF RegistrationsDiffer
    <3>2. CASE q = p /\ i \in 1..Len(listeners[p]) /\ j \in 1..Len(listeners[p])
      <4>1. M[q][i] = listeners[p][i] /\ M[q][j] = listeners[p][j]
          BY <1>9, <3>2
      <4> QED
          BY <1>1, <2>1, <3>2, <4>1 DEF RegistrationsDiffer
    <3>3. CASE q = p /\ i = Len(listeners[p]) + 1
      <4>1. j \in 1..Len(listeners[p])
          BY <1>9, <2>1, <3>3
      <4> QED
          BY <1>3, <1>9, <3>3, <4>1
    <3>4. CASE q = p /\ j = Len(listeners[p]) + 1
      <4>1. i \in 1..Len(listeners[p])
          BY <1>9, <2>1, <3>4
      <4> QED
          BY <1>3, <1>9, <3>4, <4>1
    <3> QED
        BY <1>9, <3>1, <3>2, <3>3, <3>4
  <2>2. ASSUME NEW i \in 1..Len(M[Window]) PROVE ~M[Window][i].capture
    <3>1. CASE Window # p
        BY <1>1, <1>5, <2>2, <3>1 DEF RegistrationsDiffer, Places
    <3>2. CASE Window = p
        BY <1>1, <1>4, <1>9, <2>2, <3>2 DEF RegistrationsDiffer
    <3> QED
        BY <3>1, <3>2
  <2> QED
      BY <2>1, <2>2 DEF RegistrationsDiffer
<1>11. ASSUME NEW r \in steady, Registered(listeners, r) PROVE Registered(M, r)
  <2>1. r.place \in Places
      BY <1>1 DEF Registrations
  <2>2. PICK i \in 1..Len(listeners[r.place]) :
            listeners[r.place][i].callback = r.callback /\ listeners[r.place][i].capture = r.capture
      BY <1>11 DEF Registered
  <2>3. i \in 1..Len(M[r.place]) /\ M[r.place][i] = listeners[r.place][i]
    <3>1. CASE r.place = p
        BY <1>9, <3>1
    <3>2. CASE r.place # p
        BY <1>5, <2>1, <3>2
    <3> QED
        BY <3>1, <3>2
  <2> QED
      BY <2>2, <2>3 DEF Registered
<1> QED
    BY <1>1, <1>7, <1>8, <1>10, <1>11, ScriptKeepsInv

LEMMA RemoveEventListenerKeepsInv ==
    ASSUME DispatchInv, NEW p \in Places, NEW callback \in Callbacks, NEW capture \in BOOLEAN,
           RemoveEventListener(p, callback, capture)
    PROVE  DispatchInv'
<1> DEFINE others == {l \in Listeners : ~(l.callback = callback /\ l.capture = capture)}
           M == Keep(listeners, p, others)
           gone == [place |-> p, callback |-> callback, capture |-> capture]
           left == steady \ {gone}
<1>1. RegistrationsDiffer(listeners) /\ listeners \in ListsOfPlaces /\ steady \in SUBSET Registrations
      /\ handlers \in [Elements -> Callbacks \cup {None}]
    BY InvFacts
<1>2. listeners' = M /\ steady' = left /\ Script /\ changes' = changes + 1
      /\ UNCHANGED <<handlers, driver, dispatch, heard>>
    BY DEF RemoveEventListener, Keep
<1>4. ASSUME NEW r \in left, r.place = p, NEW l \in Listeners,
             l.callback = r.callback, l.capture = r.capture
      PROVE  l \in others
  <2>1. r \in Registrations /\ r # gone
      BY <1>1
  <2>2. r.callback # callback \/ r.capture # capture
      BY <1>4, <2>1 DEF Registrations
  <2> QED
      BY <1>4, <2>2
<1>5. left \in SUBSET steady
    OBVIOUS
<1> HIDE DEF others, left
<1>6. /\ M \in ListsOfPlaces /\ RegistrationsDiffer(M)
      /\ \A r \in Registrations :
            /\ Registered(listeners, r)
            /\ r.place = p =>
                  \A l \in Listeners : l.callback = r.callback /\ l.capture = r.capture => l \in others
            => Registered(M, r)
    BY <1>1, FilteredLists
<1> HIDE DEF M
<1>7. \A r \in left : Registered(listeners, r) => Registered(M, r)
    BY <1>1, <1>4, <1>5, <1>6
<1> QED
    BY <1>1, <1>2, <1>5, <1>6, <1>7, ScriptKeepsInv

LEMMA SetHandlerKeepsInv ==
    ASSUME DispatchInv, NEW n \in Elements, NEW callback \in Callbacks \cup {None},
           SetHandler(n, callback)
    PROVE  DispatchInv'
<1>1. RegistrationsDiffer(listeners) /\ listeners \in ListsOfPlaces
      /\ handlers \in [Elements -> Callbacks \cup {None}]
    BY InvFacts
<1>2. Script /\ changes' = changes + 1 /\ handlers' = [handlers EXCEPT ![n] = callback]
      /\ UNCHANGED <<listeners, driver, dispatch, heard, steady>>
    BY DEF SetHandler
<1>3. handlers' \in [Elements -> Callbacks \cup {None}]
    BY <1>1, <1>2
<1> QED
    BY <1>1, <1>2, <1>3, ScriptKeepsInv

LEMMA EndKeepsInv ==
    ASSUME DispatchInv, SkipDefaultAction \/ \E n \in 0..1 : RunDefaultAction(n)
    PROVE  DispatchInv'
<1>1. RegistrationsDiffer(listeners) /\ DispatchTypeOK /\ Deciding /\ driver \in Drivers
    BY InvFacts
<1>2. /\ dispatch # None
      /\ dispatch' = None /\ heard' = <<>> /\ steady' = {}
      /\ UNCHANGED <<listeners, handlers, changes>>
    BY DEF SkipDefaultAction, RunDefaultAction, Ended
<1>3. driver.queue \in 0..MaxQueued /\ driver.queued \in 0..MaxQueued /\ MaxQueued \in Nat
    BY <1>1, PlacesAssumption DEF Drivers
<1>4. driver.queue <= driver.queued /\ ~driver.acted /\ (driver.refused => Cancelled)
    BY <1>1, <1>2 DEF Deciding
<1>5. driver' \in Drivers /\ driver'.queue <= driver'.queued
      /\ (driver'.acted => ~driver'.refused)
  <2>1. CASE SkipDefaultAction
    <3>1. driver' = [driver EXCEPT !.event = "none", !.cancelled = FALSE]
        BY <2>1 DEF SkipDefaultAction
    <3> QED
        BY <1>1, <1>4, <3>1 DEF Drivers
  <2>2. ASSUME NEW n \in 0..1, RunDefaultAction(n)
        PROVE  driver' \in Drivers /\ driver'.queue <= driver'.queued
               /\ (driver'.acted => ~driver'.refused)
    <3>1. /\ ~Cancelled /\ driver.queued + n <= MaxQueued
          /\ driver' = [driver EXCEPT !.event = "none", !.cancelled = FALSE, !.acted = TRUE,
                                      !.queue = @ + n, !.queued = @ + n]
        BY <2>2 DEF RunDefaultAction, DefaultRuns
    <3>2. driver.queue + n \in 0..MaxQueued /\ driver.queued + n \in 0..MaxQueued
          /\ driver.queue + n <= driver.queued + n
        BY <1>3, <1>4, <3>1
    <3>3. ~driver.refused
        BY <1>4, <3>1
    <3> QED
        BY <1>1, <3>1, <3>2, <3>3 DEF Drivers
  <2> QED
      BY <2>1, <2>2
<1>6. Deciding'
    BY <1>2, <1>5 DEF Deciding
<1>7. DispatchTypeOK'
    BY <1>1, <1>2, <1>5 DEF DispatchTypeOK
<1> QED
    BY <1>1, <1>2, <1>6, <1>7 DEF DispatchInv

LEMMA StepKeepsInv ==
    ASSUME DispatchInv, [EventStep]_dispatchVars
    PROVE  DispatchInv'
<1>1. ASSUME NEW chain \in Chains, HandlePointerEvent(chain) PROVE DispatchInv'
    BY <1>1, HandleEventKeepsInv DEF HandlePointerEvent
<1>2. ASSUME NEW chain \in Chains, ProcessQueue(chain) PROVE DispatchInv'
    BY <1>2, HandleEventKeepsInv DEF ProcessQueue
<1>3. ASSUME NEW chain \in Chains, NEW bubbles \in BOOLEAN, HandleDomEvent(chain, bubbles)
      PROVE  DispatchInv'
    BY <1>3, HandleEventKeepsInv DEF HandleDomEvent
<1>4. ASSUME NEW chain \in Chains, SendCompatibilityEvent(chain) PROVE DispatchInv'
    BY <1>4, SendCompatibilityEventKeepsInv
<1>5. CASE SynthesiseChange
    BY <1>5, SynthesiseChangeKeepsInv
<1>6. CASE Visit
    BY <1>6, VisitKeepsInv
<1>7. CASE Call
    BY <1>7, CallKeepsInv
<1>8. CASE StopPropagation \/ StopImmediatePropagation
    BY <1>8, StopKeepsInv
<1>9. CASE PreventDefault
    BY <1>9, PreventDefaultKeepsInv
<1>10. ASSUME NEW p \in Places, NEW l \in Listeners, AddEventListener(p, l) PROVE DispatchInv'
    BY <1>10, AddEventListenerKeepsInv
<1>11. ASSUME NEW p \in Places, NEW c \in Callbacks, NEW capture \in BOOLEAN,
              RemoveEventListener(p, c, capture)
       PROVE  DispatchInv'
    BY <1>11, RemoveEventListenerKeepsInv
<1>12. ASSUME NEW n \in Elements, NEW c \in Callbacks \cup {None}, SetHandler(n, c) PROVE DispatchInv'
    BY <1>12, SetHandlerKeepsInv
<1>13. CASE SkipDefaultAction \/ \E n \in 0..1 : RunDefaultAction(n)
    BY <1>13, EndKeepsInv
<1>14. CASE UNCHANGED dispatchVars
    BY <1>14 DEF dispatchVars, DispatchInv, DispatchTypeOK, Deciding, Cancelled
<1> QED
    BY <1>1, <1>2, <1>3, <1>4, <1>5, <1>6, <1>7, <1>8, <1>9, <1>10, <1>11, <1>12, <1>13, <1>14
       DEF EventStep

-----------------------------------------------------------------------------
(* What the invariant says.                                                *)

(* The dispatch under way, its calls, the lists and the driver have their  *)
(* types, whatever a callback does to the lists meanwhile.                 *)
THEOREM DispatchIsTyped == DispatchSpec => []DispatchTypeOK
<1>1. DispatchInv => DispatchTypeOK
    BY DEF DispatchInv
<1> QED
    BY <1>1, InitOrderly, StepKeepsInv, PTL DEF DispatchSpec

(* Calls go down from the root to the target and up again, no listener is  *)
(* called twice, nobody further on is called once the event is stopped,    *)
(* and a refused event has no default action: for chains of any length and *)
(* any number of listeners (runtime.rs:1014-1182, driver.rs:285-314).      *)
THEOREM DispatchStaysOrderly == DispatchSpec => []DispatchIsOrderly
<1>1. ASSUME DispatchInv PROVE DispatchIsOrderly
  <2>1. \A call : Rank(call) = RankOf(dispatch, call)
      BY DEF Rank, RankOf, RankIn
  <2>2. heard \in Seq(Heard)
      BY <1>1, InvFacts
  <2>3. DispatchFollowsPath
    <3>1. ASSUME dispatch # None
          PROVE  /\ HeardInOrder(dispatch, heard) /\ StopIsKept(dispatch, heard)
                 /\ dispatch.stopped_at \in Nat
        BY <1>1, <3>1, InvFacts, DispatchFields DEF Orderly
    <3>2. ASSUME dispatch # None, NEW i \in DOMAIN heard, NEW j \in DOMAIN heard, i < j
          PROVE  Rank(heard[i]) <= Rank(heard[j]) /\ heard[i] # heard[j]
        BY <2>1, <2>2, <3>1, <3>2 DEF HeardInOrder
    <3>3. ASSUME dispatch # None, dispatch.stopped_at > 0,
                 NEW i \in DOMAIN heard, i > dispatch.stopped_at
          PROVE  Rank(heard[i]) = Rank(heard[dispatch.stopped_at])
      <4>1. i \in dispatch.stopped_at..Len(heard)
          BY <2>2, <3>1, <3>3
      <4> QED
          BY <2>1, <3>1, <3>3, <4>1 DEF StopIsKept
    <3> QED
        BY <3>2, <3>3 DEF DispatchFollowsPath
  <2>4. RefusedEventsDoNothing
      BY <1>1, InvFacts DEF Deciding, RefusedEventsDoNothing
  <2> QED
      BY <2>3, <2>4 DEF DispatchIsOrderly
<1> QED
    BY <1>1, InitOrderly, StepKeepsInv, PTL DEF DispatchSpec

(* An event that nobody stopped has reached whoever listened on its way    *)
(* when its dispatch began and was not removed since, once listeners and   *)
(* capture listeners of a target included (runtime.rs:1077-1106).          *)
THEOREM ListenersAlwaysHear == DispatchSpec => []EveryListenerHears
<1>1. ASSUME DispatchInv PROVE EveryListenerHears
  <2>1. SUFFICES ASSUME Ended, ~dispatch.stopped, NEW r \in steady
        PROVE  \E i \in DOMAIN heard :
                   /\ heard[i].place = r.place /\ heard[i].callback = r.callback
                   /\ heard[i].kind = IF r.capture THEN "capture" ELSE "plain"
      BY DEF EveryListenerHears
  <2>2. dispatch # None /\ dispatch.pending = <<>> /\ dispatch.path = <<>>
      BY <2>1 DEF Ended
  <2>3. SteadyAreCalled(dispatch, heard, listeners, steady) /\ heard \in Seq(Heard)
      BY <1>1, <2>2, InvFacts DEF Orderly
  <2>4. ~IsPending(dispatch, r) /\ ~IsAhead(dispatch, listeners, r)
      BY <2>2 DEF IsPending, IsAhead
  <2>5. WasHeard(heard, r)
      BY <2>1, <2>3, <2>4 DEF SteadyAreCalled
  <2> QED
      BY <2>3, <2>5 DEF WasHeard, KindOf
<1> QED
    BY <1>1, InitOrderly, StepKeepsInv, PTL DEF DispatchSpec

-----------------------------------------------------------------------------
(* Frames and the stack.                                                   *)

Works == {"script", "ready", "closed", "jobs", "microtask", "pump", "handler"} \cup AppEvents

LEMMA FrameIsTyped ==
    ASSUME NEW work \in Works, NEW todo \in Seq(Functions)
    PROVE  Frame(work, todo) \in Frames
  BY DEF Frame, Frames, Works

LEMMA FrameFields ==
    ASSUME NEW frame \in Frames
    PROVE  /\ frame.todo \in Seq(Functions)
           /\ frame.resolvers \in Seq(Functions)
           /\ frame.last_closed \in BOOLEAN
           /\ [frame EXCEPT !.calling = TRUE] \in Frames
           /\ [frame EXCEPT !.calling = TRUE].work = frame.work
  BY DEF Frames

LEMMA JobFrame ==
    ASSUME NEW frame \in Frames, NEW work \in {"jobs", "microtask"}
    PROVE  /\ [frame EXCEPT !.work = work, !.calling = TRUE] \in Frames
           /\ [frame EXCEPT !.work = work, !.calling = TRUE].work = work
           /\ [frame EXCEPT !.work = work, !.calling = TRUE].todo = frame.todo
           /\ [frame EXCEPT !.work = work, !.calling = TRUE].resolvers = frame.resolvers
           /\ [frame EXCEPT !.work = work, !.calling = TRUE].last_closed = frame.last_closed
  BY DEF Frames

LEMMA FrameAhead ==
    ASSUME NEW frame \in Frames, frame.todo # <<>>
    PROVE  /\ Head(frame.todo) \in Functions
           /\ [frame EXCEPT !.todo = Tail(@), !.calling = TRUE] \in Frames
           /\ [frame EXCEPT !.todo = Tail(@), !.calling = TRUE].work = frame.work
<1>1. frame.todo \in Seq(Functions)
    BY FrameFields
<1>2. Head(frame.todo) \in Functions /\ Tail(frame.todo) \in Seq(Functions)
    BY <1>1
<1> QED
    BY <1>2 DEF Frames

LEMMA ReadyFrame ==
    ASSUME NEW todo \in Seq(Functions), NEW waiting \in Seq(Functions)
    PROVE  [Frame("ready", todo) EXCEPT !.resolvers = waiting] \in Frames
  BY FrameIsTyped DEF Frame, Frames, Works

LEMMA ClosedFrame ==
    ASSUME NEW todo \in Seq(Functions), NEW last \in BOOLEAN
    PROVE  [Frame("closed", todo) EXCEPT !.last_closed = last] \in Frames
  BY FrameIsTyped DEF Frame, Frames, Works

LEMMA PushedStack ==
    ASSUME NEW F, NEW s \in Seq(F), NEW frame \in F
    PROVE  /\ Append(s, frame) \in Seq(F)
           /\ Len(Append(s, frame)) = Len(s) + 1
           /\ Append(s, frame) # <<>>
           /\ Append(s, frame)[1] = IF s = <<>> THEN frame ELSE s[1]
<1>1. CASE s = <<>>
    BY <1>1
<1>2. CASE s # <<>>
  <2>1. Len(s) \in Nat \ {0}
      BY <1>2, EmptySeq
  <2>2. 1 \in 1..Len(s)
      BY <2>1
  <2> QED
      BY <1>2, <2>2, AppendProperties
<1> QED
    BY <1>1, <1>2

LEMMA PoppedStack ==
    ASSUME NEW F, NEW s \in Seq(F), s # <<>>
    PROVE  /\ Len(s) \in Nat \ {0}
           /\ Last(s) \in F
           /\ Front(s) \in Seq(F)
           /\ Len(Front(s)) = Len(s) - 1
           /\ Len(s) > 1 => Front(s) # <<>> /\ Front(s)[1] = s[1]
           /\ Len(s) = 1 => Front(s) = <<>> /\ Last(s) = s[1]
<1>1. Len(s) \in Nat \ {0}
    BY EmptySeq
<1>2. Last(s) = s[Len(s)]
    BY DEF Last
<1>3. Last(s) \in F
    BY <1>1, <1>2, ElementOfSeq
<1>4. Front(s) = SubSeq(s, 1, Len(s) - 1)
    BY DEF Front
<1>5. \A i \in 1..(Len(s) - 1) : s[i] \in F
    BY <1>1, ElementOfSeq
<1>6. 1 \in Int /\ Len(s) - 1 \in Int
    BY <1>1
<1>7. /\ Front(s) \in Seq(F)
      /\ Len(Front(s)) = IF 1 <= Len(s) - 1 THEN Len(s) - 1 - 1 + 1 ELSE 0
      /\ \A i \in 1..(Len(s) - 1 - 1 + 1) : Front(s)[i] = s[1 + i - 1]
    BY <1>4, <1>5, <1>6, SubSeqProperties
<1>8. Len(Front(s)) = Len(s) - 1
  <2>1. Len(Front(s)) = IF 1 <= Len(s) - 1 THEN Len(s) - 1 - 1 + 1 ELSE 0
      BY <1>7
  <2>2. ASSUME NEW n \in Nat \ {0}, NEW l, l = IF 1 <= n - 1 THEN n - 1 - 1 + 1 ELSE 0
        PROVE  l = n - 1
      BY <2>2
  <2> QED
      BY <1>1, <2>1, <2>2, Zenon
<1>9. ASSUME Len(s) > 1 PROVE Front(s) # <<>> /\ Front(s)[1] = s[1]
  <2>1. 1 \in 1..(Len(s) - 1 - 1 + 1)
      BY <1>1, <1>9
  <2>2. Front(s)[1] = s[1 + 1 - 1]
      BY <1>7, <2>1
  <2>3. Len(Front(s)) # 0
      BY <1>1, <1>8, <1>9
  <2> QED
      BY <2>2, <2>3, EmptySeq
<1>10. ASSUME Len(s) = 1 PROVE Front(s) = <<>> /\ Last(s) = s[1]
  <2>1. Len(Front(s)) = 0
      BY <1>1, <1>8, <1>10
  <2> QED
      BY <1>2, <1>7, <1>10, <2>1, EmptySeq
<1> QED
    BY <1>1, <1>3, <1>7, <1>8, <1>9, <1>10

LEMMA ReplacedStack ==
    ASSUME NEW F, NEW s \in Seq(F), s # <<>>, NEW frame \in F
    PROVE  /\ Append(Front(s), frame) \in Seq(F)
           /\ Len(Append(Front(s), frame)) = Len(s)
           /\ Append(Front(s), frame) # <<>>
           /\ Append(Front(s), frame)[1] = IF Len(s) = 1 THEN frame ELSE s[1]
<1>1. Front(s) \in Seq(F) /\ Len(Front(s)) = Len(s) - 1
    BY PoppedStack
<1>2. Len(s) > 1 => Front(s) # <<>> /\ Front(s)[1] = s[1]
    BY PoppedStack
<1>3. Len(s) = 1 => Front(s) = <<>>
    BY PoppedStack
<1>4. Len(s) \in Nat \ {0}
    OBVIOUS
<1>5. Append(Front(s), frame)[1] = IF Front(s) = <<>> THEN frame ELSE Front(s)[1]
    BY <1>1, PushedStack
<1>6. Append(Front(s), frame) \in Seq(F) /\ Len(Append(Front(s), frame)) = Len(s)
    BY <1>1, <1>4, PushedStack
<1>7. Append(Front(s), frame) # <<>>
    BY <1>4, <1>6, EmptySeq
<1>8. CASE Len(s) = 1
    BY <1>3, <1>5, <1>6, <1>7, <1>8
<1>9. CASE Len(s) # 1
  <2>1. Len(s) > 1
    <3>1. \A n \in Nat \ {0} : n # 1 => n > 1
        OBVIOUS
    <3> QED
        BY <1>4, <1>9, <3>1
  <2>2. Front(s) # <<>> /\ Front(s)[1] = s[1]
      BY <1>2, <2>1
  <2>3. Append(Front(s), frame)[1] = s[1]
      BY <1>5, <2>2
  <2> QED
      BY <1>6, <1>7, <1>9, <2>3
<1> QED
    BY <1>8, <1>9

-----------------------------------------------------------------------------
(* The type invariant, in three parts.                                     *)

LifecycleTypes ==
    /\ app \in [ready : BOOLEAN, quit : BOOLEAN, noted_zero : BOOLEAN]
    /\ app_listeners \in [AppEvents -> Seq(Functions)]
    /\ when_ready_resolvers \in Seq(Functions)
    /\ windows \subseteq 1..created /\ created \in 0..MaxWindows
    /\ window_closed_listeners \in [Windows -> Seq(Functions)]
    /\ jobs \in Seq(Functions)
    /\ used \in [Functions -> Purposes \cup {"no", "lost"}]
    /\ ran \in [Functions -> Nat]
    /\ announced \in Nat /\ emptied \in Nat
StackTypes == stack \in Seq(Frames) /\ Len(stack) <= MaxDepth
IpcTypes ==
    /\ handled \in BOOLEAN
    /\ invoke_queue \in Seq(Calls) /\ send_queue \in Seq(Calls)
    /\ outbox \subseteq windows
    /\ pump \in [invokes : Seq(Calls), sends : Seq(Calls)]
    /\ rendering \in BOOLEAN
    /\ issued \in Seq(Calls) /\ answered \in Seq(Calls)

LEMMA TypeParts == HostTypeOK <=> LifecycleTypes /\ StackTypes /\ IpcTypes
  BY DEF HostTypeOK, LifecycleTypes, StackTypes, IpcTypes

LEMMA TypePartsNext == HostTypeOK' <=> LifecycleTypes' /\ StackTypes' /\ IpcTypes'
  BY DEF HostTypeOK, LifecycleTypes, StackTypes, IpcTypes

LEMMA InitTypes == HostInit => HostTypeOK
<1> SUFFICES ASSUME HostInit PROVE LifecycleTypes /\ StackTypes /\ IpcTypes
    BY TypeParts
<1>1. <<>> \in Seq(Functions) /\ <<>> \in Seq(Calls) /\ <<>> \in Seq(Frames) /\ Len(<<>>) = 0
    BY EmptySeq
<1>2. app \in [ready : BOOLEAN, quit : BOOLEAN, noted_zero : BOOLEAN]
    BY DEF HostInit
<1>3. /\ app_listeners \in [AppEvents -> Seq(Functions)]
      /\ window_closed_listeners \in [Windows -> Seq(Functions)]
      /\ when_ready_resolvers \in Seq(Functions) /\ jobs \in Seq(Functions)
    BY <1>1 DEF HostInit
<1>4. /\ windows \subseteq 1..created /\ created \in 0..MaxWindows
      /\ used \in [Functions -> Purposes \cup {"no", "lost"}]
      /\ ran \in [Functions -> Nat]
      /\ announced \in Nat /\ emptied \in Nat
    BY BoundsAssumption DEF HostInit
<1>5. StackTypes
    BY <1>1, BoundsAssumption DEF HostInit, StackTypes
<1>6. pump \in [invokes : Seq(Calls), sends : Seq(Calls)]
    BY <1>1 DEF HostInit
<1>7. IpcTypes
    BY <1>1, <1>6 DEF HostInit, IpcTypes
<1> QED
    BY <1>2, <1>3, <1>4, <1>5, <1>7 DEF LifecycleTypes

(* What a step does to the stack keeps it a stack.                         *)
LEMMA PushKeepsTypes ==
    ASSUME StackTypes, NEW frame \in Frames, Push(frame)
    PROVE  StackTypes'
<1>1. Len(stack) \in Nat /\ MaxDepth \in Nat
    BY BoundsAssumption, LenProperties DEF StackTypes
<1>2. stack' \in Seq(Frames) /\ Len(stack') = Len(stack) + 1
    BY PushedStack DEF StackTypes, Push
<1>3. Len(stack) < MaxDepth
    BY DEF Push
<1> QED
    BY <1>1, <1>2, <1>3 DEF StackTypes

LEMMA ReplaceKeepsTypes ==
    ASSUME StackTypes, stack # <<>>, NEW frame \in Frames, Replace(frame)
    PROVE  StackTypes'
  BY ReplacedStack DEF StackTypes, Replace

LEMMA PopKeepsTypes ==
    ASSUME StackTypes, stack # <<>>, Pop
    PROVE  StackTypes'
<1>1. /\ Len(stack) \in Nat \ {0} /\ MaxDepth \in Nat
      /\ stack' \in Seq(Frames) /\ Len(stack') = Len(stack) - 1
      /\ Len(stack) <= MaxDepth
    BY BoundsAssumption, PoppedStack DEF StackTypes, Pop
<1> QED
    BY <1>1 DEF StackTypes

LEMMA TopIsAFrame ==
    ASSUME StackTypes, stack # <<>>
    PROVE  Top \in Frames
  BY PoppedStack DEF StackTypes, Top

LEMMA StackKept ==
    ASSUME StackTypes, UNCHANGED stack
    PROVE  StackTypes'
  BY DEF StackTypes

(* What a step leaves alone stays well-typed.                              *)
LEMMA LifecycleKept ==
    ASSUME LifecycleTypes, UNCHANGED <<lifecycleVars, jobs, ran>>
    PROVE  LifecycleTypes'
  BY DEF LifecycleTypes, lifecycleVars

LEMMA IpcKept ==
    ASSUME IpcTypes, UNCHANGED ipcVars, UNCHANGED windows, rendering' \in BOOLEAN
    PROVE  IpcTypes'
  BY DEF IpcTypes, ipcVars

LEMMA HandedTypes ==
    ASSUME LifecycleTypes, NEW f \in Functions, NEW purpose \in Purposes, Handed(f, purpose)
    PROVE  used' \in [Functions -> Purposes \cup {"no", "lost"}]
  BY DEF LifecycleTypes, Handed

LEMMA RunningIsTop == Running => stack # <<>>
  BY DEF Running
LEMMA WorkingIsTop == ASSUME NEW work, Working(work) PROVE stack # <<>>
  BY DEF Working

(* The lists that functions are taken from and added to.                   *)
LEMMA TakenListeners ==
    ASSUME LifecycleTypes, NEW e \in AppEvents
    PROVE  /\ app_listeners[e] \in Seq(Functions)
           /\ [app_listeners EXCEPT ![e] = <<>>] \in [AppEvents -> Seq(Functions)]
  BY EmptySeq DEF LifecycleTypes

LEMMA AddedListener ==
    ASSUME LifecycleTypes, NEW e \in AppEvents, NEW f \in Functions
    PROVE  [app_listeners EXCEPT ![e] = Append(@, f)] \in [AppEvents -> Seq(Functions)]
  BY AppendProperties DEF LifecycleTypes

LEMMA OneFunction == ASSUME NEW f \in Functions PROVE <<f>> \in Seq(Functions)
  OBVIOUS

LEMMA SettledKeepsTypes ==
    ASSUME IpcTypes, pump.invokes # <<>>, Settled
    PROVE  IpcTypes'
<1>1. pump.invokes \in Seq(Calls)
    BY DEF IpcTypes
<1>2. Head(pump.invokes) \in Calls /\ Tail(pump.invokes) \in Seq(Calls)
    BY <1>1, HeadTailProperties
<1>3. answered' \in Seq(Calls)
    BY <1>2, AppendProperties DEF Settled, IpcTypes
<1>4. pump' \in [invokes : Seq(Calls), sends : Seq(Calls)]
    BY <1>2 DEF Settled, IpcTypes
<1> QED
    BY <1>3, <1>4 DEF Settled, IpcTypes, lifecycleVars

-----------------------------------------------------------------------------
(* Every action keeps the types.                                           *)

LEMMA EvalKeepsTypes ==
    ASSUME HostTypeOK, Eval
    PROVE  HostTypeOK'
<1> USE TypeParts
<1>1. LifecycleTypes'
    BY LifecycleKept DEF Eval, lifecycleVars
<1>2. StackTypes'
    BY EmptySeq, FrameIsTyped, FrameFields, PushKeepsTypes DEF Eval, Works
<1>3. IpcTypes'
    BY IpcKept DEF Eval, lifecycleVars, IpcTypes
<1> QED
    BY <1>1, <1>2, <1>3, TypePartsNext

LEMMA CallNextKeepsTypes ==
    ASSUME HostTypeOK, CallNext
    PROVE  HostTypeOK'
<1> USE TypeParts
<1>1. LifecycleTypes'
  <2>1. Head(Top.todo) \in Functions
      BY TopIsAFrame, FrameAhead DEF CallNext
  <2>2. ran' \in [Functions -> Nat]
      BY <2>1 DEF CallNext, LifecycleTypes
  <2> QED
      BY <2>2 DEF CallNext, LifecycleTypes, lifecycleVars
<1>2. StackTypes'
    BY TopIsAFrame, FrameAhead, ReplaceKeepsTypes DEF CallNext
<1>3. IpcTypes'
    BY IpcKept DEF CallNext, lifecycleVars, IpcTypes
<1> QED
    BY <1>1, <1>2, <1>3, TypePartsNext

(* The frame of run_jobs, with the job that runs.                          *)
LEMMA RunJobReplaces ==
    ASSUME RunJob
    PROVE  /\ stack # <<>> /\ Top.work \in {"jobs", "microtask"}
           /\ \E work \in {"jobs", "microtask"} :
                 Replace([Top EXCEPT !.work = work, !.calling = TRUE])
  BY DEF RunJob, InJobs, Working

LEMMA RunJobKeepsTypes ==
    ASSUME HostTypeOK, RunJob
    PROVE  HostTypeOK'
<1> USE TypeParts
<1>1. LifecycleTypes'
  <2>1. Head(jobs) \in Functions /\ Tail(jobs) \in Seq(Functions)
      BY HeadTailProperties DEF RunJob, LifecycleTypes
  <2>2. ran' \in [Functions -> Nat] /\ jobs' \in Seq(Functions)
      BY <2>1 DEF RunJob, LifecycleTypes
  <2> QED
      BY <2>2 DEF RunJob, LifecycleTypes, lifecycleVars
<1>2. StackTypes'
    BY RunJobReplaces, TopIsAFrame, JobFrame, ReplaceKeepsTypes
<1>3. IpcTypes'
    BY IpcKept DEF RunJob, lifecycleVars, IpcTypes
<1> QED
    BY <1>1, <1>2, <1>3, TypePartsNext

LEMMA JobsDoneKeepsTypes ==
    ASSUME HostTypeOK, JobsDone
    PROVE  HostTypeOK'
<1> USE TypeParts
<1>1. LifecycleTypes'
    BY LifecycleKept DEF JobsDone, lifecycleVars
<1>2. StackTypes'
    BY WorkingIsTop, PopKeepsTypes DEF JobsDone, InJobs
<1>3. IpcTypes'
    BY IpcKept DEF JobsDone, lifecycleVars, IpcTypes
<1> QED
    BY <1>1, <1>2, <1>3, TypePartsNext

LEMMA JobThrowsKeepsTypes ==
    ASSUME HostTypeOK, JobThrows
    PROVE  HostTypeOK'
<1> USE TypeParts
<1>1. LifecycleTypes'
  <2>1. used' \in [Functions -> Purposes \cup {"no", "lost"}]
      BY DEF JobThrows, LifecycleTypes
  <2>2. jobs' \in Seq(Functions)
      BY EmptySeq DEF JobThrows
  <2> QED
      BY <2>1, <2>2 DEF JobThrows, LifecycleTypes
<1>2. StackTypes'
    BY WorkingIsTop, PopKeepsTypes DEF JobThrows
<1>3. IpcTypes'
    BY IpcKept DEF JobThrows, IpcTypes
<1> QED
    BY <1>1, <1>2, <1>3, TypePartsNext

LEMMA ScriptDoneKeepsTypes ==
    ASSUME HostTypeOK, ScriptDone
    PROVE  HostTypeOK'
<1> USE TypeParts
<1>1. LifecycleTypes'
    BY LifecycleKept DEF ScriptDone, lifecycleVars
<1>2. StackTypes'
    BY WorkingIsTop, EmptySeq, FrameIsTyped, FrameFields, ReplaceKeepsTypes DEF ScriptDone, Works
<1>3. IpcTypes'
    BY IpcKept DEF ScriptDone, lifecycleVars, IpcTypes
<1> QED
    BY <1>1, <1>2, <1>3, TypePartsNext

LEMMA MarkReadyKeepsTypes ==
    ASSUME HostTypeOK, MarkReady
    PROVE  HostTypeOK'
<1> USE TypeParts
<1>1. LifecycleTypes'
  <2>1. app' \in [ready : BOOLEAN, quit : BOOLEAN, noted_zero : BOOLEAN]
      BY DEF MarkReady, LifecycleTypes
  <2>2. "ready" \in AppEvents
      BY DEF AppEvents
  <2>3. app_listeners' \in [AppEvents -> Seq(Functions)]
      BY <2>2, TakenListeners DEF MarkReady
  <2>4. when_ready_resolvers' \in Seq(Functions)
      BY EmptySeq DEF MarkReady
  <2> QED
      BY <2>1, <2>3, <2>4 DEF MarkReady, LifecycleTypes
<1>2. StackTypes'
  <2>1. app_listeners["ready"] \in Seq(Functions)
      BY TakenListeners DEF AppEvents
  <2>2. [Frame("ready", app_listeners["ready"]) EXCEPT !.resolvers = when_ready_resolvers] \in Frames
      BY <2>1, ReadyFrame DEF LifecycleTypes
  <2> QED
      BY <2>2, PushKeepsTypes DEF MarkReady
<1>3. IpcTypes'
    BY IpcKept DEF MarkReady, lifecycleVars, IpcTypes
<1> QED
    BY <1>1, <1>2, <1>3, TypePartsNext

LEMMA ReadyDoneKeepsTypes ==
    ASSUME HostTypeOK, ReadyDone
    PROVE  HostTypeOK'
<1> USE TypeParts
<1>1. LifecycleTypes'
  <2>1. Top.resolvers \in Seq(Functions)
      BY WorkingIsTop, TopIsAFrame, FrameFields DEF ReadyDone
  <2>2. jobs' \in Seq(Functions)
      BY <2>1, ConcatProperties DEF ReadyDone, LifecycleTypes
  <2> QED
      BY <2>2 DEF ReadyDone, LifecycleTypes, lifecycleVars
<1>2. StackTypes'
    BY WorkingIsTop, EmptySeq, FrameIsTyped, FrameFields, ReplaceKeepsTypes DEF ReadyDone, Works
<1>3. IpcTypes'
    BY IpcKept DEF ReadyDone, lifecycleVars, IpcTypes
<1> QED
    BY <1>1, <1>2, <1>3, TypePartsNext

LEMMA QueueMicrotaskKeepsTypes ==
    ASSUME HostTypeOK, NEW f \in Functions, QueueMicrotask(f)
    PROVE  HostTypeOK'
<1> USE TypeParts
<1>1. LifecycleTypes'
  <2>1. used' \in [Functions -> Purposes \cup {"no", "lost"}]
      BY HandedTypes DEF QueueMicrotask, Purposes, Deferred
  <2>2. jobs' \in Seq(Functions)
      BY AppendProperties DEF QueueMicrotask, LifecycleTypes
  <2> QED
      BY <2>1, <2>2 DEF QueueMicrotask, LifecycleTypes
<1>2. StackTypes'
    BY StackKept DEF QueueMicrotask
<1>3. IpcTypes'
    BY IpcKept DEF QueueMicrotask, IpcTypes
<1> QED
    BY <1>1, <1>2, <1>3, TypePartsNext

LEMMA WhenReadyKeepsTypes ==
    ASSUME HostTypeOK, NEW f \in Functions, WhenReady(f)
    PROVE  HostTypeOK'
<1> USE TypeParts
<1>1. LifecycleTypes'
  <2>1. used' \in [Functions -> Purposes \cup {"no", "lost"}]
      BY HandedTypes DEF WhenReady, Purposes, Deferred
  <2>2. jobs \in Seq(Functions) /\ when_ready_resolvers \in Seq(Functions)
      BY DEF LifecycleTypes
  <2>3. /\ Append(jobs, f) \in Seq(Functions)
        /\ Append(when_ready_resolvers, f) \in Seq(Functions)
      BY <2>2, AppendProperties
  <2>4. jobs' = jobs \/ jobs' = Append(jobs, f)
      BY DEF WhenReady
  <2>5. \/ when_ready_resolvers' = when_ready_resolvers
        \/ when_ready_resolvers' = Append(when_ready_resolvers, f)
      BY DEF WhenReady
  <2>6. jobs' \in Seq(Functions)
      BY <2>2, <2>4, <2>3, Zenon
  <2>7. when_ready_resolvers' \in Seq(Functions)
      BY <2>2, <2>5, <2>3, Zenon
  <2> QED
      BY <2>1, <2>6, <2>7 DEF WhenReady, LifecycleTypes
<1>2. StackTypes'
    BY StackKept DEF WhenReady
<1>3. IpcTypes'
    BY IpcKept DEF WhenReady, lifecycleVars, IpcTypes
<1> QED
    BY <1>1, <1>2, <1>3, TypePartsNext

LEMMA AppOnKeepsTypes ==
    ASSUME HostTypeOK, NEW event \in AppEvents, NEW f \in Functions, AppOn(event, f)
    PROVE  HostTypeOK'
<1> USE TypeParts
<1>1. LifecycleTypes'
  <2>1. used' \in [Functions -> Purposes \cup {"no", "lost"}]
      BY HandedTypes DEF AppOn, Purposes, Deferred
  <2>2. \/ app_listeners' = app_listeners
        \/ app_listeners' = [app_listeners EXCEPT ![event] = Append(@, f)]
      BY DEF AppOn
  <2>3. app_listeners' \in [AppEvents -> Seq(Functions)]
    <3>1. app_listeners \in [AppEvents -> Seq(Functions)]
        BY DEF LifecycleTypes
    <3>2. [app_listeners EXCEPT ![event] = Append(@, f)] \in [AppEvents -> Seq(Functions)]
        BY AddedListener
    <3> QED
        BY <2>2, <3>1, <3>2, Zenon
  <2> QED
      BY <2>1, <2>3 DEF AppOn, LifecycleTypes
<1>2. StackTypes'
  <2>1. CASE event = "ready" /\ app.ready
    <3>1. Frame("ready", <<f>>) \in Frames
        BY OneFunction, FrameIsTyped DEF Works
    <3> QED
        BY <2>1, <3>1, PushKeepsTypes DEF AppOn
  <2>2. CASE ~(event = "ready" /\ app.ready)
      BY <2>2, StackKept DEF AppOn
  <2> QED
      BY <2>1, <2>2
<1>3. IpcTypes'
    BY IpcKept DEF AppOn, lifecycleVars, IpcTypes
<1> QED
    BY <1>1, <1>2, <1>3, TypePartsNext

LEMMA WindowOnKeepsTypes ==
    ASSUME HostTypeOK, NEW w \in Windows, NEW f \in Functions, WindowOn(w, f)
    PROVE  HostTypeOK'
<1> USE TypeParts
<1>1. LifecycleTypes'
  <2>1. used' \in [Functions -> Purposes \cup {"no", "lost"}]
      BY HandedTypes DEF WindowOn, Purposes, Deferred
  <2>2. window_closed_listeners' \in [Windows -> Seq(Functions)]
      BY AppendProperties DEF WindowOn, LifecycleTypes
  <2> QED
      BY <2>1, <2>2 DEF WindowOn, LifecycleTypes
<1>2. StackTypes'
    BY StackKept DEF WindowOn
<1>3. IpcTypes'
    BY IpcKept DEF WindowOn, lifecycleVars, IpcTypes
<1> QED
    BY <1>1, <1>2, <1>3, TypePartsNext

LEMMA WindowCreateKeepsTypes ==
    ASSUME HostTypeOK, WindowCreate
    PROVE  HostTypeOK'
<1> USE TypeParts
<1>1. LifecycleTypes'
  <2>1. created' \in 0..MaxWindows /\ windows' \subseteq 1..created'
      BY BoundsAssumption DEF WindowCreate, LifecycleTypes
  <2> QED
      BY <2>1 DEF WindowCreate, LifecycleTypes
<1>2. StackTypes'
    BY StackKept DEF WindowCreate
<1>3. IpcTypes'
    BY DEF WindowCreate, ipcVars, IpcTypes
<1> QED
    BY <1>1, <1>2, <1>3, TypePartsNext

LEMMA WindowCloseKeepsTypes ==
    ASSUME HostTypeOK, NEW w \in Windows, WindowClose(w)
    PROVE  HostTypeOK'
<1> USE TypeParts
<1>1. LifecycleTypes'
  <2>1. /\ windows' \subseteq 1..created /\ created' = created
        /\ emptied' \in Nat
      BY DEF WindowClose, LifecycleTypes
  <2>2. window_closed_listeners' \in [Windows -> Seq(Functions)]
      BY EmptySeq DEF WindowClose, LifecycleTypes
  <2> QED
      BY <2>1, <2>2 DEF WindowClose, LifecycleTypes
<1>2. StackTypes'
  <2>1. window_closed_listeners[w] \in Seq(Functions) /\ (windows' = {}) \in BOOLEAN
      BY DEF LifecycleTypes
  <2>2. [Frame("closed", window_closed_listeners[w]) EXCEPT !.last_closed = windows' = {}] \in Frames
      BY <2>1, ClosedFrame
  <2> QED
      BY <2>2, PushKeepsTypes DEF WindowClose
<1>3. IpcTypes'
    BY DEF WindowClose, OutboxWithout, IpcTypes
<1> QED
    BY <1>1, <1>2, <1>3, TypePartsNext

LEMMA ClosedDoneKeepsTypes ==
    ASSUME HostTypeOK, ClosedDone
    PROVE  HostTypeOK'
<1> USE TypeParts
<1>1. LifecycleTypes'
  <2>1. app' \in [ready : BOOLEAN, quit : BOOLEAN, noted_zero : BOOLEAN]
      BY DEF ClosedDone, LifecycleTypes
  <2>2. announced' \in Nat
      BY DEF ClosedDone, LifecycleTypes
  <2> QED
      BY <2>1, <2>2 DEF ClosedDone, LifecycleTypes
<1>2. StackTypes'
  <2>1. stack # <<>>
      BY WorkingIsTop DEF ClosedDone
  <2>2. app_listeners["window-all-closed"] \in Seq(Functions)
      BY TakenListeners DEF AppEvents
  <2>3. Frame("window-all-closed", app_listeners["window-all-closed"]) \in Frames
      BY <2>2, FrameIsTyped DEF Works, AppEvents
  <2>4. CASE Top.last_closed
      BY <2>1, <2>3, <2>4, ReplaceKeepsTypes DEF ClosedDone
  <2>5. CASE ~Top.last_closed
      BY <2>1, <2>5, PopKeepsTypes DEF ClosedDone
  <2> QED
      BY <2>4, <2>5
<1>3. IpcTypes'
    BY IpcKept DEF ClosedDone, lifecycleVars, IpcTypes
<1> QED
    BY <1>1, <1>2, <1>3, TypePartsNext

LEMMA ReturnToScriptKeepsTypes ==
    ASSUME HostTypeOK, ReturnToScript
    PROVE  HostTypeOK'
<1> USE TypeParts
<1>1. LifecycleTypes'
    BY LifecycleKept DEF ReturnToScript, lifecycleVars
<1>2. StackTypes'
    BY WorkingIsTop, PopKeepsTypes DEF ReturnToScript
<1>3. IpcTypes'
    BY IpcKept DEF ReturnToScript, lifecycleVars, IpcTypes
<1> QED
    BY <1>1, <1>2, <1>3, TypePartsNext

LEMMA AppQuitKeepsTypes ==
    ASSUME HostTypeOK, AppQuit
    PROVE  HostTypeOK'
<1> USE TypeParts
<1>1. LifecycleTypes'
  <2>1. "before-quit" \in AppEvents
      BY DEF AppEvents
  <2>2. app_listeners' \in [AppEvents -> Seq(Functions)]
      BY <2>1, TakenListeners DEF AppQuit
  <2> QED
      BY <2>2 DEF AppQuit, LifecycleTypes
<1>2. StackTypes'
  <2>1. app_listeners["before-quit"] \in Seq(Functions)
      BY TakenListeners DEF AppEvents
  <2>2. Frame("before-quit", app_listeners["before-quit"]) \in Frames
      BY <2>1, FrameIsTyped DEF Works, AppEvents
  <2> QED
      BY <2>2, WorkingIsTop, PushKeepsTypes DEF AppQuit
<1>3. IpcTypes'
    BY IpcKept DEF AppQuit, lifecycleVars, IpcTypes
<1> QED
    BY <1>1, <1>2, <1>3, TypePartsNext

LEMMA BeforeQuitDoneKeepsTypes ==
    ASSUME HostTypeOK, BeforeQuitDone
    PROVE  HostTypeOK'
<1> USE TypeParts
<1>1. LifecycleTypes'
  <2>1. "will-quit" \in AppEvents
      BY DEF AppEvents
  <2>2. app_listeners' \in [AppEvents -> Seq(Functions)]
      BY <2>1, TakenListeners DEF BeforeQuitDone
  <2> QED
      BY <2>2 DEF BeforeQuitDone, LifecycleTypes
<1>2. StackTypes'
  <2>1. app_listeners["will-quit"] \in Seq(Functions)
      BY TakenListeners DEF AppEvents
  <2>2. Frame("will-quit", app_listeners["will-quit"]) \in Frames
      BY <2>1, FrameIsTyped DEF Works, AppEvents
  <2> QED
      BY <2>2, WorkingIsTop, ReplaceKeepsTypes DEF BeforeQuitDone
<1>3. IpcTypes'
    BY IpcKept DEF BeforeQuitDone, lifecycleVars, IpcTypes
<1> QED
    BY <1>1, <1>2, <1>3, TypePartsNext

LEMMA WillQuitDoneKeepsTypes ==
    ASSUME HostTypeOK, WillQuitDone
    PROVE  HostTypeOK'
<1> USE TypeParts
<1>1. LifecycleTypes'
  <2>1. app' \in [ready : BOOLEAN, quit : BOOLEAN, noted_zero : BOOLEAN]
      BY DEF WillQuitDone, LifecycleTypes
  <2> QED
      BY <2>1 DEF WillQuitDone, LifecycleTypes
<1>2. StackTypes'
    BY WorkingIsTop, PopKeepsTypes DEF WillQuitDone
<1>3. IpcTypes'
    BY IpcKept DEF WillQuitDone, lifecycleVars, IpcTypes
<1> QED
    BY <1>1, <1>2, <1>3, TypePartsNext

LEMMA InvokeKeepsTypes ==
    ASSUME HostTypeOK, NEW c \in Calls, Invoke(c)
    PROVE  HostTypeOK'
<1> USE TypeParts
<1>1. LifecycleTypes'
    BY LifecycleKept DEF Invoke, lifecycleVars
<1>2. StackTypes'
    BY StackKept DEF Invoke
<1>3. IpcTypes'
    BY AppendProperties DEF Invoke, IpcTypes, lifecycleVars
<1> QED
    BY <1>1, <1>2, <1>3, TypePartsNext

LEMMA SendKeepsTypes ==
    ASSUME HostTypeOK, NEW c \in Calls, Send(c)
    PROVE  HostTypeOK'
<1> USE TypeParts
<1>1. LifecycleTypes'
    BY LifecycleKept DEF Send, lifecycleVars
<1>2. StackTypes'
    BY StackKept DEF Send
<1>3. IpcTypes'
    BY AppendProperties DEF Send, IpcTypes, lifecycleVars
<1> QED
    BY <1>1, <1>2, <1>3, TypePartsNext

LEMMA IpcHandleKeepsTypes ==
    ASSUME HostTypeOK, IpcHandle
    PROVE  HostTypeOK'
<1> USE TypeParts
<1>1. LifecycleTypes'
    BY LifecycleKept DEF IpcHandle, lifecycleVars
<1>2. StackTypes'
    BY StackKept DEF IpcHandle
<1>3. IpcTypes'
    BY DEF IpcHandle, IpcTypes, lifecycleVars
<1> QED
    BY <1>1, <1>2, <1>3, TypePartsNext

LEMMA WebContentsSendKeepsTypes ==
    ASSUME HostTypeOK, NEW w \in Windows, WebContentsSend(w)
    PROVE  HostTypeOK'
<1> USE TypeParts
<1>1. LifecycleTypes'
    BY LifecycleKept DEF WebContentsSend, lifecycleVars
<1>2. StackTypes'
    BY StackKept DEF WebContentsSend
<1>3. IpcTypes'
    BY DEF WebContentsSend, IpcTypes, lifecycleVars
<1> QED
    BY <1>1, <1>2, <1>3, TypePartsNext

LEMMA PumpIpcKeepsTypes ==
    ASSUME HostTypeOK, PumpIpc
    PROVE  HostTypeOK'
<1> USE TypeParts
<1>1. LifecycleTypes'
    BY LifecycleKept DEF PumpIpc, lifecycleVars
<1>2. StackTypes'
    BY EmptySeq, FrameIsTyped, PushKeepsTypes DEF PumpIpc, Works
<1>3. IpcTypes'
  <2>1. pump' \in [invokes : Seq(Calls), sends : Seq(Calls)]
      BY DEF PumpIpc, IpcTypes
  <2>2. invoke_queue' \in Seq(Calls) /\ send_queue' \in Seq(Calls)
      BY EmptySeq DEF PumpIpc
  <2> QED
      BY <2>1, <2>2 DEF PumpIpc, IpcTypes, lifecycleVars
<1> QED
    BY <1>1, <1>2, <1>3, TypePartsNext

LEMMA ServeUnhandledKeepsTypes ==
    ASSUME HostTypeOK, ServeUnhandled
    PROVE  HostTypeOK'
<1> USE TypeParts
<1>1. LifecycleTypes'
    BY LifecycleKept DEF ServeUnhandled, Rejected, Settled, lifecycleVars
<1>2. StackTypes'
    BY StackKept DEF ServeUnhandled, Rejected
<1>3. IpcTypes'
    BY SettledKeepsTypes DEF ServeUnhandled, Rejected
<1> QED
    BY <1>1, <1>2, <1>3, TypePartsNext

LEMMA CallHandlerKeepsTypes ==
    ASSUME HostTypeOK, CallHandler
    PROVE  HostTypeOK'
<1> USE TypeParts
<1>1. LifecycleTypes'
    BY LifecycleKept DEF CallHandler, lifecycleVars
<1>2. StackTypes'
    BY EmptySeq, FrameIsTyped, FrameFields, PushKeepsTypes DEF CallHandler, Works
<1>3. IpcTypes'
    BY IpcKept DEF CallHandler, lifecycleVars, IpcTypes
<1> QED
    BY <1>1, <1>2, <1>3, TypePartsNext

LEMMA HandlerDoneKeepsTypes ==
    ASSUME HostTypeOK, HandlerDone
    PROVE  HostTypeOK'
<1> USE TypeParts
<1>1. LifecycleTypes'
    BY LifecycleKept DEF HandlerDone, Settled, lifecycleVars
<1>2. StackTypes'
    BY WorkingIsTop, PopKeepsTypes DEF HandlerDone
<1>3. IpcTypes'
    BY SettledKeepsTypes DEF HandlerDone
<1> QED
    BY <1>1, <1>2, <1>3, TypePartsNext

LEMMA ServeSendKeepsTypes ==
    ASSUME HostTypeOK, ServeSend
    PROVE  HostTypeOK'
<1> USE TypeParts
<1>1. LifecycleTypes'
    BY LifecycleKept DEF ServeSend, lifecycleVars
<1>2. StackTypes'
    BY EmptySeq, FrameIsTyped, FrameFields, PushKeepsTypes DEF ServeSend, Works
<1>3. IpcTypes'
  <2>1. pump.sends \in Seq(Calls)
      BY DEF IpcTypes
  <2>2. Tail(pump.sends) \in Seq(Calls)
      BY <2>1, HeadTailProperties DEF ServeSend
  <2>3. pump' \in [invokes : Seq(Calls), sends : Seq(Calls)]
      BY <2>2 DEF ServeSend, IpcTypes
  <2> QED
      BY <2>3 DEF ServeSend, IpcTypes, lifecycleVars
<1> QED
    BY <1>1, <1>2, <1>3, TypePartsNext

LEMMA ListenerDoneKeepsTypes ==
    ASSUME HostTypeOK, ListenerDone
    PROVE  HostTypeOK'
<1> USE TypeParts
<1>1. LifecycleTypes'
    BY LifecycleKept DEF ListenerDone, lifecycleVars
<1>2. StackTypes'
    BY WorkingIsTop, PopKeepsTypes DEF ListenerDone
<1>3. IpcTypes'
    BY IpcKept DEF ListenerDone, lifecycleVars, IpcTypes
<1> QED
    BY <1>1, <1>2, <1>3, TypePartsNext

LEMMA ServeMainSendsKeepsTypes ==
    ASSUME HostTypeOK, ServeMainSends
    PROVE  HostTypeOK'
<1> USE TypeParts
<1>1. LifecycleTypes'
    BY LifecycleKept DEF ServeMainSends, lifecycleVars
<1>2. StackTypes'
    BY StackKept DEF ServeMainSends
<1>3. IpcTypes'
    BY DEF ServeMainSends, IpcTypes, lifecycleVars
<1> QED
    BY <1>1, <1>2, <1>3, TypePartsNext

LEMMA PumpDoneKeepsTypes ==
    ASSUME HostTypeOK, PumpDone
    PROVE  HostTypeOK'
<1> USE TypeParts
<1>1. LifecycleTypes'
    BY LifecycleKept DEF PumpDone, lifecycleVars
<1>2. StackTypes'
    BY WorkingIsTop, EmptySeq, FrameIsTyped, ReplaceKeepsTypes DEF PumpDone, Works
<1>3. IpcTypes'
    BY IpcKept DEF PumpDone, lifecycleVars, IpcTypes
<1> QED
    BY <1>1, <1>2, <1>3, TypePartsNext

LEMMA LifecycleStepKeepsTypes == HostTypeOK /\ LifecycleStep => HostTypeOK'
<1> SUFFICES ASSUME HostTypeOK, LifecycleStep PROVE HostTypeOK'
    OBVIOUS
<1>1. CASE Eval
    BY <1>1, EvalKeepsTypes
<1>2. CASE CallNext
    BY <1>2, CallNextKeepsTypes
<1>3. CASE RunJob
    BY <1>3, RunJobKeepsTypes
<1>4. CASE JobsDone
    BY <1>4, JobsDoneKeepsTypes
<1>5. CASE ScriptDone
    BY <1>5, ScriptDoneKeepsTypes
<1>6. CASE MarkReady
    BY <1>6, MarkReadyKeepsTypes
<1>7. CASE ReadyDone
    BY <1>7, ReadyDoneKeepsTypes
<1>8. CASE WindowCreate
    BY <1>8, WindowCreateKeepsTypes
<1>9. CASE ClosedDone
    BY <1>9, ClosedDoneKeepsTypes
<1>10. CASE ReturnToScript
    BY <1>10, ReturnToScriptKeepsTypes
<1>11. CASE AppQuit
    BY <1>11, AppQuitKeepsTypes
<1>12. CASE BeforeQuitDone
    BY <1>12, BeforeQuitDoneKeepsTypes
<1>13. CASE WillQuitDone
    BY <1>13, WillQuitDoneKeepsTypes
<1>14. ASSUME NEW f \in Functions, WhenReady(f) PROVE HostTypeOK'
    BY <1>14, WhenReadyKeepsTypes
<1>15. ASSUME NEW event \in AppEvents, NEW f \in Functions, AppOn(event, f) PROVE HostTypeOK'
    BY <1>15, AppOnKeepsTypes
<1>16. ASSUME NEW w \in Windows, NEW f \in Functions, WindowOn(w, f) PROVE HostTypeOK'
    BY <1>16, WindowOnKeepsTypes
<1>17. ASSUME NEW w \in Windows, WindowClose(w) PROVE HostTypeOK'
    BY <1>17, WindowCloseKeepsTypes
<1>18. CASE JobThrows
    BY <1>18, JobThrowsKeepsTypes
<1>19. ASSUME NEW f \in Functions, QueueMicrotask(f) PROVE HostTypeOK'
    BY <1>19, QueueMicrotaskKeepsTypes
<1> QED
    BY <1>1, <1>2, <1>3, <1>4, <1>5, <1>6, <1>7, <1>8, <1>9,
       <1>10, <1>11, <1>12, <1>13, <1>14, <1>15, <1>16, <1>17, <1>18, <1>19
       DEF LifecycleStep

LEMMA IpcStepKeepsTypes == HostTypeOK /\ IpcStep => HostTypeOK'
<1> SUFFICES ASSUME HostTypeOK, IpcStep PROVE HostTypeOK'
    OBVIOUS
<1>1. CASE IpcHandle
    BY <1>1, IpcHandleKeepsTypes
<1>2. CASE PumpIpc
    BY <1>2, PumpIpcKeepsTypes
<1>3. CASE ServeUnhandled
    BY <1>3, ServeUnhandledKeepsTypes
<1>4. CASE CallHandler
    BY <1>4, CallHandlerKeepsTypes
<1>5. CASE HandlerDone
    BY <1>5, HandlerDoneKeepsTypes
<1>6. CASE ServeSend
    BY <1>6, ServeSendKeepsTypes
<1>7. CASE ListenerDone
    BY <1>7, ListenerDoneKeepsTypes
<1>8. CASE ServeMainSends
    BY <1>8, ServeMainSendsKeepsTypes
<1>9. CASE PumpDone
    BY <1>9, PumpDoneKeepsTypes
<1>10. ASSUME NEW c \in Calls, Invoke(c) PROVE HostTypeOK'
    BY <1>10, InvokeKeepsTypes
<1>11. ASSUME NEW c \in Calls, Send(c) PROVE HostTypeOK'
    BY <1>11, SendKeepsTypes
<1>12. ASSUME NEW w \in Windows, WebContentsSend(w) PROVE HostTypeOK'
    BY <1>12, WebContentsSendKeepsTypes
<1> QED
    BY <1>1, <1>2, <1>3, <1>4, <1>5, <1>6, <1>7, <1>8, <1>9, <1>10, <1>11, <1>12
       DEF IpcStep

(* The state of the main process keeps its types (ElectronState, App,      *)
(* WindowManager and the queues of electron.rs).                           *)
THEOREM HostIsTyped == HostSpec => []HostTypeOK
<1>1. HostTypeOK /\ [LifecycleStep \/ IpcStep]_hostVars => HostTypeOK'
  <2> SUFFICES ASSUME HostTypeOK, [LifecycleStep \/ IpcStep]_hostVars PROVE HostTypeOK'
      OBVIOUS
  <2>1. CASE UNCHANGED hostVars
      BY <2>1 DEF HostTypeOK, hostVars, lifecycleVars, ipcVars
  <2> QED
      BY <2>1, LifecycleStepKeepsTypes, IpcStepKeepsTypes
<1> QED
    BY <1>1, InitTypes, PTL DEF HostSpec

-----------------------------------------------------------------------------
(* What the pump has taken is served before anything but its own work:     *)
(* while a call is left the pump is at the bottom of the stack.  Between   *)
(* turns the stack is empty, so none is left.                              *)

PumpIsAtTheBottom == pump.invokes # <<>> => stack # <<>> /\ stack[1].work = "pump"
NothingIsLost == issued = answered \o pump.invokes \o invoke_queue
PumpInv == HostTypeOK /\ PumpIsAtTheBottom /\ NothingIsLost

LEMMA PushKeepsPump ==
    ASSUME HostTypeOK, PumpIsAtTheBottom, NEW frame, Push(frame), UNCHANGED pump
    PROVE  PumpIsAtTheBottom'
<1> DEFINE F == Frames \cup {frame}
<1>1. stack \in Seq(F)
    BY SeqMonotonic DEF HostTypeOK
<1>2. stack' # <<>> /\ stack'[1] = IF stack = <<>> THEN frame ELSE stack[1]
    BY <1>1, PushedStack DEF Push
<1> QED
    BY <1>2 DEF PumpIsAtTheBottom

LEMMA ReplaceKeepsPump ==
    ASSUME HostTypeOK, PumpIsAtTheBottom, stack # <<>>,
           NEW frame, Replace(frame), Top.work = "pump" => frame.work = "pump",
           pump'.invokes # <<>> => pump.invokes # <<>>
    PROVE  PumpIsAtTheBottom'
<1> DEFINE F == Frames \cup {frame}
<1>1. stack \in Seq(F)
    BY SeqMonotonic DEF HostTypeOK
<1>2. stack' # <<>> /\ stack'[1] = IF Len(stack) = 1 THEN frame ELSE stack[1]
    BY <1>1, ReplacedStack DEF Replace
<1>3. Len(stack) = 1 => Top = stack[1]
    BY <1>1, PoppedStack DEF Top
<1> QED
    BY <1>2, <1>3 DEF PumpIsAtTheBottom

LEMMA PopKeepsPump ==
    ASSUME HostTypeOK, PumpIsAtTheBottom, stack # <<>>, Pop, Top.work # "pump",
           pump'.invokes # <<>> => pump.invokes # <<>>
    PROVE  PumpIsAtTheBottom'
<1>1. Len(stack) \in Nat \ {0}
    BY PoppedStack DEF HostTypeOK
<1>2. Len(stack) > 1 => stack' # <<>> /\ stack'[1] = stack[1]
    BY PoppedStack DEF HostTypeOK, Pop
<1>3. Len(stack) = 1 => Top = stack[1]
    BY PoppedStack DEF HostTypeOK, Top
<1>4. CASE Len(stack) = 1
    BY <1>3, <1>4 DEF PumpIsAtTheBottom
<1>5. CASE Len(stack) > 1
    BY <1>2, <1>5 DEF PumpIsAtTheBottom
<1>6. Len(stack) = 1 \/ Len(stack) > 1
    BY <1>1
<1> QED
    BY <1>4, <1>5, <1>6, Zenon

LEMMA HeadMoves ==
    ASSUME NEW S, NEW a \in Seq(S), NEW p \in Seq(S), p # <<>>
    PROVE  Append(a, Head(p)) \o Tail(p) = a \o p
<1> DEFINE l == Append(a, Head(p)) \o Tail(p)
           r == a \o p
<1>1. /\ Len(a) \in Nat /\ Len(p) \in Nat \ {0}
      /\ Head(p) \in S /\ Head(p) = p[1]
      /\ Tail(p) \in Seq(S) /\ Len(Tail(p)) = Len(p) - 1
      /\ \A i \in 1..Len(Tail(p)) : Tail(p)[i] = p[i + 1]
    BY EmptySeq, LenProperties, HeadTailProperties
<1>2. /\ Append(a, Head(p)) \in Seq(S)
      /\ Len(Append(a, Head(p))) = Len(a) + 1
      /\ \A i \in 1..Len(a) : Append(a, Head(p))[i] = a[i]
      /\ Append(a, Head(p))[Len(a) + 1] = p[1]
    BY <1>1, AppendProperties
<1>3. /\ l \in Seq(S)
      /\ Len(l) = Len(a) + 1 + (Len(p) - 1)
      /\ \A i \in 1..(Len(a) + 1 + (Len(p) - 1)) :
            l[i] = IF i <= Len(a) + 1 THEN Append(a, Head(p))[i] ELSE Tail(p)[i - (Len(a) + 1)]
    BY <1>1, <1>2, ConcatProperties
<1>4. /\ r \in Seq(S)
      /\ Len(r) = Len(a) + Len(p)
      /\ \A i \in 1..(Len(a) + Len(p)) : r[i] = IF i <= Len(a) THEN a[i] ELSE p[i - Len(a)]
    BY ConcatProperties
<1>5. Len(l) = Len(r)
    BY <1>1, <1>3, <1>4
<1>6. ASSUME NEW i \in 1..Len(l) PROVE l[i] = r[i]
  <2> HIDE DEF l, r
  <2>0. /\ i \in 1..(Len(a) + Len(p)) /\ i \in 1..(Len(a) + 1 + (Len(p) - 1))
        /\ i \in Nat \ {0}
      BY <1>1, <1>4, <1>5
  <2>1. CASE i <= Len(a)
    <3>1. i \in 1..Len(a) /\ i <= Len(a) + 1
        BY <1>1, <2>0, <2>1
    <3> QED
        BY <1>2, <1>3, <1>4, <2>0, <2>1, <3>1
  <2>2. CASE i = Len(a) + 1
    <3>1. i <= Len(a) + 1 /\ ~(i <= Len(a)) /\ i - Len(a) = 1
        BY <1>1, <2>2
    <3> QED
        BY <1>2, <1>3, <1>4, <2>0, <2>2, <3>1
  <2>3. CASE i > Len(a) + 1
    <3>1. /\ ~(i <= Len(a) + 1) /\ ~(i <= Len(a))
          /\ i - (Len(a) + 1) \in 1..Len(Tail(p))
          /\ (i - (Len(a) + 1)) + 1 = i - Len(a)
        BY <1>1, <2>0, <2>3
    <3> QED
        BY <1>1, <1>3, <1>4, <2>0, <3>1
  <2> QED
      BY <1>1, <2>1, <2>2, <2>3
<1> HIDE DEF l, r
<1>7. l = r
    BY <1>3, <1>4, <1>5, <1>6, SeqEqual
<1> QED
    BY <1>7 DEF l, r

LEMMA AppendMoves ==
    ASSUME NEW a \in Seq(Calls), NEW q \in Seq(Calls), NEW c \in Calls
    PROVE  Append(a \o q, c) = a \o Append(q, c)
<1>1. /\ a \o q \in Seq(Calls)
      /\ <<c>> \in Seq(Calls)
    BY ConcatProperties
<1>2. Append(a \o q, c) = (a \o q) \o <<c>> /\ Append(q, c) = q \o <<c>>
    BY <1>1, AppendIsConcat
<1>3. (a \o q) \o <<c>> = a \o (q \o <<c>>)
    BY <1>1, ConcatAssociative
<1> QED
    BY <1>2, <1>3

LEMMA HistoryKept ==
    ASSUME NothingIsLost, UNCHANGED <<issued, answered, invoke_queue>>,
           pump'.invokes = pump.invokes
    PROVE  NothingIsLost'
  BY DEF NothingIsLost

(* The steps that move a call.                                             *)
LEMMA SettledKeepsHistory ==
    ASSUME HostTypeOK, NothingIsLost, pump.invokes # <<>>, Settled
    PROVE  NothingIsLost'
<1> DEFINE p == pump.invokes
<1>1. p \in Seq(Calls) /\ answered \in Seq(Calls) /\ p # <<>>
    BY DEF HostTypeOK
<1>2. Append(answered, Head(p)) \o Tail(p) = answered \o p
    BY <1>1, HeadMoves
<1>3. answered' = Append(answered, Head(p)) /\ pump'.invokes = Tail(p)
      /\ UNCHANGED <<issued, invoke_queue>>
    BY DEF Settled, HostTypeOK
<1> QED
    BY <1>2, <1>3 DEF NothingIsLost

LEMMA InvokeKeepsHistory ==
    ASSUME HostTypeOK, NothingIsLost, NEW c \in Calls, Invoke(c)
    PROVE  NothingIsLost'
<1> DEFINE s == answered \o pump.invokes
<1>1. s \in Seq(Calls) /\ invoke_queue \in Seq(Calls)
    BY ConcatProperties DEF HostTypeOK
<1>2. Append(s \o invoke_queue, c) = s \o Append(invoke_queue, c)
  <2> HIDE DEF s
  <2> QED
      BY <1>1, AppendMoves
<1> QED
    BY <1>2 DEF NothingIsLost, Invoke

LEMMA PumpKeepsHistory ==
    ASSUME HostTypeOK, PumpIsAtTheBottom, NothingIsLost, PumpIpc
    PROVE  NothingIsLost'
<1>1. pump.invokes = <<>>
    BY DEF PumpIsAtTheBottom, PumpIpc, HostIdle
<1>2. pump'.invokes = invoke_queue /\ invoke_queue' = <<>> /\ UNCHANGED <<issued, answered>>
    BY DEF PumpIpc
<1>3. answered \in Seq(Calls) /\ invoke_queue \in Seq(Calls)
    BY DEF HostTypeOK
<1>4. answered \o <<>> = answered
    BY <1>3, ConcatEmptySeq
<1>5. (answered \o invoke_queue) \o <<>> = answered \o invoke_queue
    BY <1>3, ConcatProperties, ConcatEmptySeq
<1> QED
    BY <1>1, <1>2, <1>4, <1>5 DEF NothingIsLost

-----------------------------------------------------------------------------
(* Every action keeps the invariant.                                       *)

LEMMA EvalKeepsPump ==
    ASSUME PumpInv, Eval
    PROVE  PumpInv'
<1> USE DEF PumpInv
<1>1. HostTypeOK'
    BY EvalKeepsTypes
<1>2. PumpIsAtTheBottom'
    BY PushKeepsPump DEF Eval, ipcVars
<1>3. NothingIsLost'
    BY HistoryKept DEF Eval, ipcVars
<1> QED
    BY <1>1, <1>2, <1>3

LEMMA MarkReadyKeepsPump ==
    ASSUME PumpInv, MarkReady
    PROVE  PumpInv'
<1> USE DEF PumpInv
<1>1. HostTypeOK'
    BY MarkReadyKeepsTypes
<1>2. PumpIsAtTheBottom'
    BY PushKeepsPump DEF MarkReady, ipcVars
<1>3. NothingIsLost'
    BY HistoryKept DEF MarkReady, ipcVars
<1> QED
    BY <1>1, <1>2, <1>3

LEMMA AppQuitKeepsPump ==
    ASSUME PumpInv, AppQuit
    PROVE  PumpInv'
<1> USE DEF PumpInv
<1>1. HostTypeOK'
    BY AppQuitKeepsTypes
<1>2. PumpIsAtTheBottom'
    BY PushKeepsPump DEF AppQuit, ipcVars
<1>3. NothingIsLost'
    BY HistoryKept DEF AppQuit, ipcVars
<1> QED
    BY <1>1, <1>2, <1>3

LEMMA CallHandlerKeepsPump ==
    ASSUME PumpInv, CallHandler
    PROVE  PumpInv'
<1> USE DEF PumpInv
<1>1. HostTypeOK'
    BY CallHandlerKeepsTypes
<1>2. PumpIsAtTheBottom'
    BY PushKeepsPump DEF CallHandler, ipcVars
<1>3. NothingIsLost'
    BY HistoryKept DEF CallHandler, ipcVars
<1> QED
    BY <1>1, <1>2, <1>3

LEMMA WindowCloseKeepsPump ==
    ASSUME PumpInv, NEW w \in Windows, WindowClose(w)
    PROVE  PumpInv'
<1> USE DEF PumpInv
<1>1. HostTypeOK'
    BY WindowCloseKeepsTypes
<1>2. PumpIsAtTheBottom'
    BY PushKeepsPump DEF WindowClose
<1>3. NothingIsLost'
    BY HistoryKept DEF WindowClose, ipcVars
<1> QED
    BY <1>1, <1>2, <1>3

LEMMA WindowCreateKeepsPump ==
    ASSUME PumpInv, WindowCreate
    PROVE  PumpInv'
<1> USE DEF PumpInv
<1>1. HostTypeOK'
    BY WindowCreateKeepsTypes
<1>2. PumpIsAtTheBottom'
    BY DEF WindowCreate, ipcVars, PumpIsAtTheBottom
<1>3. NothingIsLost'
    BY HistoryKept DEF WindowCreate, ipcVars
<1> QED
    BY <1>1, <1>2, <1>3

LEMMA IpcHandleKeepsPump ==
    ASSUME PumpInv, IpcHandle
    PROVE  PumpInv'
<1> USE DEF PumpInv
<1>1. HostTypeOK'
    BY IpcHandleKeepsTypes
<1>2. PumpIsAtTheBottom'
    BY DEF IpcHandle, ipcVars, PumpIsAtTheBottom
<1>3. NothingIsLost'
    BY HistoryKept DEF IpcHandle, ipcVars
<1> QED
    BY <1>1, <1>2, <1>3

LEMMA ServeMainSendsKeepsPump ==
    ASSUME PumpInv, ServeMainSends
    PROVE  PumpInv'
<1> USE DEF PumpInv
<1>1. HostTypeOK'
    BY ServeMainSendsKeepsTypes
<1>2. PumpIsAtTheBottom'
    BY DEF ServeMainSends, ipcVars, PumpIsAtTheBottom
<1>3. NothingIsLost'
    BY HistoryKept DEF ServeMainSends, ipcVars
<1> QED
    BY <1>1, <1>2, <1>3

LEMMA QueueMicrotaskKeepsPump ==
    ASSUME PumpInv, NEW f \in Functions, QueueMicrotask(f)
    PROVE  PumpInv'
<1> USE DEF PumpInv
<1>1. HostTypeOK'
    BY QueueMicrotaskKeepsTypes
<1>2. PumpIsAtTheBottom'
    BY DEF QueueMicrotask, ipcVars, PumpIsAtTheBottom
<1>3. NothingIsLost'
    BY HistoryKept DEF QueueMicrotask, ipcVars
<1> QED
    BY <1>1, <1>2, <1>3

LEMMA WhenReadyKeepsPump ==
    ASSUME PumpInv, NEW f \in Functions, WhenReady(f)
    PROVE  PumpInv'
<1> USE DEF PumpInv
<1>1. HostTypeOK'
    BY WhenReadyKeepsTypes
<1>2. PumpIsAtTheBottom'
    BY DEF WhenReady, ipcVars, PumpIsAtTheBottom
<1>3. NothingIsLost'
    BY HistoryKept DEF WhenReady, ipcVars
<1> QED
    BY <1>1, <1>2, <1>3

LEMMA WindowOnKeepsPump ==
    ASSUME PumpInv, NEW w \in Windows, NEW f \in Functions, WindowOn(w, f)
    PROVE  PumpInv'
<1> USE DEF PumpInv
<1>1. HostTypeOK'
    BY WindowOnKeepsTypes
<1>2. PumpIsAtTheBottom'
    BY DEF WindowOn, ipcVars, PumpIsAtTheBottom
<1>3. NothingIsLost'
    BY HistoryKept DEF WindowOn, ipcVars
<1> QED
    BY <1>1, <1>2, <1>3

LEMMA SendKeepsPump ==
    ASSUME PumpInv, NEW c \in Calls, Send(c)
    PROVE  PumpInv'
<1> USE DEF PumpInv
<1>1. HostTypeOK'
    BY SendKeepsTypes
<1>2. PumpIsAtTheBottom'
    BY DEF Send, ipcVars, PumpIsAtTheBottom
<1>3. NothingIsLost'
    BY HistoryKept DEF Send, ipcVars
<1> QED
    BY <1>1, <1>2, <1>3

LEMMA WebContentsSendKeepsPump ==
    ASSUME PumpInv, NEW w \in Windows, WebContentsSend(w)
    PROVE  PumpInv'
<1> USE DEF PumpInv
<1>1. HostTypeOK'
    BY WebContentsSendKeepsTypes
<1>2. PumpIsAtTheBottom'
    BY DEF WebContentsSend, ipcVars, PumpIsAtTheBottom
<1>3. NothingIsLost'
    BY HistoryKept DEF WebContentsSend, ipcVars
<1> QED
    BY <1>1, <1>2, <1>3

LEMMA AppOnKeepsPump ==
    ASSUME PumpInv, NEW event \in AppEvents, NEW f \in Functions, AppOn(event, f)
    PROVE  PumpInv'
<1> USE DEF PumpInv
<1>1. HostTypeOK'
    BY AppOnKeepsTypes
<1>2. PumpIsAtTheBottom'
  <2>1. CASE event = "ready" /\ app.ready
      BY <2>1, PushKeepsPump DEF AppOn, ipcVars
  <2>2. CASE ~(event = "ready" /\ app.ready)
      BY <2>2 DEF AppOn, ipcVars, PumpIsAtTheBottom
  <2> QED
      BY <2>1, <2>2
<1>3. NothingIsLost'
    BY HistoryKept DEF AppOn, ipcVars
<1> QED
    BY <1>1, <1>2, <1>3

LEMMA CallNextKeepsPump ==
    ASSUME PumpInv, CallNext
    PROVE  PumpInv'
<1> USE DEF PumpInv
<1>1. HostTypeOK'
    BY CallNextKeepsTypes
<1>2. PumpIsAtTheBottom'
  <2>1. stack # <<>> /\ Top \in Frames
      BY TopIsAFrame, TypeParts DEF CallNext, Working
  <2>2. [Top EXCEPT !.todo = Tail(@), !.calling = TRUE].work = Top.work
      BY <2>1, FrameAhead DEF CallNext
  <2> QED
      BY <2>1, <2>2, ReplaceKeepsPump DEF CallNext, ipcVars
<1>3. NothingIsLost'
    BY HistoryKept DEF CallNext, ipcVars
<1> QED
    BY <1>1, <1>2, <1>3

LEMMA RunJobKeepsPump ==
    ASSUME PumpInv, RunJob
    PROVE  PumpInv'
<1> USE DEF PumpInv
<1>1. HostTypeOK'
    BY RunJobKeepsTypes
<1>2. PumpIsAtTheBottom'
  <2>1. stack # <<>> /\ Top \in Frames /\ Top.work # "pump"
      BY RunJobReplaces, TopIsAFrame, TypeParts
  <2>2. PICK work \in {"jobs", "microtask"} :
            Replace([Top EXCEPT !.work = work, !.calling = TRUE])
      BY RunJobReplaces
  <2>3. UNCHANGED pump
      BY DEF RunJob, ipcVars
  <2> QED
      BY <2>1, <2>2, <2>3, ReplaceKeepsPump
<1>3. NothingIsLost'
    BY HistoryKept DEF RunJob, ipcVars
<1> QED
    BY <1>1, <1>2, <1>3

LEMMA JobsDoneKeepsPump ==
    ASSUME PumpInv, JobsDone
    PROVE  PumpInv'
<1> USE DEF PumpInv
<1>1. HostTypeOK'
    BY JobsDoneKeepsTypes
<1>2. PumpIsAtTheBottom'
    BY PopKeepsPump DEF JobsDone, InJobs, Working, ipcVars
<1>3. NothingIsLost'
    BY HistoryKept DEF JobsDone, ipcVars
<1> QED
    BY <1>1, <1>2, <1>3

LEMMA JobThrowsKeepsPump ==
    ASSUME PumpInv, JobThrows
    PROVE  PumpInv'
<1> USE DEF PumpInv
<1>1. HostTypeOK'
    BY JobThrowsKeepsTypes
<1>2. PumpIsAtTheBottom'
    BY PopKeepsPump DEF JobThrows, Working, ipcVars
<1>3. NothingIsLost'
    BY HistoryKept DEF JobThrows, ipcVars
<1> QED
    BY <1>1, <1>2, <1>3

LEMMA ReturnToScriptKeepsPump ==
    ASSUME PumpInv, ReturnToScript
    PROVE  PumpInv'
<1> USE DEF PumpInv
<1>1. HostTypeOK'
    BY ReturnToScriptKeepsTypes
<1>2. PumpIsAtTheBottom'
    BY PopKeepsPump DEF ReturnToScript, Working, ipcVars
<1>3. NothingIsLost'
    BY HistoryKept DEF ReturnToScript, ipcVars
<1> QED
    BY <1>1, <1>2, <1>3

LEMMA WillQuitDoneKeepsPump ==
    ASSUME PumpInv, WillQuitDone
    PROVE  PumpInv'
<1> USE DEF PumpInv
<1>1. HostTypeOK'
    BY WillQuitDoneKeepsTypes
<1>2. PumpIsAtTheBottom'
    BY PopKeepsPump DEF WillQuitDone, Working, ipcVars
<1>3. NothingIsLost'
    BY HistoryKept DEF WillQuitDone, ipcVars
<1> QED
    BY <1>1, <1>2, <1>3

LEMMA ListenerDoneKeepsPump ==
    ASSUME PumpInv, ListenerDone
    PROVE  PumpInv'
<1> USE DEF PumpInv
<1>1. HostTypeOK'
    BY ListenerDoneKeepsTypes
<1>2. PumpIsAtTheBottom'
    BY PopKeepsPump DEF ListenerDone, Working, ipcVars
<1>3. NothingIsLost'
    BY HistoryKept DEF ListenerDone, ipcVars
<1> QED
    BY <1>1, <1>2, <1>3

LEMMA ScriptDoneKeepsPump ==
    ASSUME PumpInv, ScriptDone
    PROVE  PumpInv'
<1> USE DEF PumpInv
<1>1. HostTypeOK'
    BY ScriptDoneKeepsTypes
<1>2. PumpIsAtTheBottom'
    BY ReplaceKeepsPump DEF ScriptDone, Working, ipcVars
<1>3. NothingIsLost'
    BY HistoryKept DEF ScriptDone, ipcVars
<1> QED
    BY <1>1, <1>2, <1>3

LEMMA ReadyDoneKeepsPump ==
    ASSUME PumpInv, ReadyDone
    PROVE  PumpInv'
<1> USE DEF PumpInv
<1>1. HostTypeOK'
    BY ReadyDoneKeepsTypes
<1>2. PumpIsAtTheBottom'
    BY ReplaceKeepsPump DEF ReadyDone, Working, ipcVars
<1>3. NothingIsLost'
    BY HistoryKept DEF ReadyDone, ipcVars
<1> QED
    BY <1>1, <1>2, <1>3

LEMMA BeforeQuitDoneKeepsPump ==
    ASSUME PumpInv, BeforeQuitDone
    PROVE  PumpInv'
<1> USE DEF PumpInv
<1>1. HostTypeOK'
    BY BeforeQuitDoneKeepsTypes
<1>2. PumpIsAtTheBottom'
    BY ReplaceKeepsPump DEF BeforeQuitDone, Working, ipcVars
<1>3. NothingIsLost'
    BY HistoryKept DEF BeforeQuitDone, ipcVars
<1> QED
    BY <1>1, <1>2, <1>3

LEMMA ClosedDoneKeepsPump ==
    ASSUME PumpInv, ClosedDone
    PROVE  PumpInv'
<1> USE DEF PumpInv
<1>1. HostTypeOK'
    BY ClosedDoneKeepsTypes
<1>2. PumpIsAtTheBottom'
  <2>1. CASE Top.last_closed
      BY <2>1, ReplaceKeepsPump DEF ClosedDone, Working, ipcVars
  <2>2. CASE ~Top.last_closed
      BY <2>2, PopKeepsPump DEF ClosedDone, Working, ipcVars
  <2> QED
      BY <2>1, <2>2
<1>3. NothingIsLost'
    BY HistoryKept DEF ClosedDone, ipcVars
<1> QED
    BY <1>1, <1>2, <1>3

LEMMA PumpDoneKeepsPump ==
    ASSUME PumpInv, PumpDone
    PROVE  PumpInv'
<1> USE DEF PumpInv
<1>1. HostTypeOK'
    BY PumpDoneKeepsTypes
<1>2. PumpIsAtTheBottom'
    BY TopIsAFrame, TypeParts, ReplacedStack DEF PumpDone, Working, ipcVars, PumpIsAtTheBottom
<1>3. NothingIsLost'
    BY HistoryKept DEF PumpDone, ipcVars
<1> QED
    BY <1>1, <1>2, <1>3

LEMMA InvokeKeepsPump ==
    ASSUME PumpInv, NEW c \in Calls, Invoke(c)
    PROVE  PumpInv'
<1> USE DEF PumpInv
<1>1. HostTypeOK'
    BY InvokeKeepsTypes
<1>2. PumpIsAtTheBottom'
    BY DEF Invoke, PumpIsAtTheBottom
<1>3. NothingIsLost'
    BY InvokeKeepsHistory
<1> QED
    BY <1>1, <1>2, <1>3

LEMMA PumpIpcKeepsPump ==
    ASSUME PumpInv, PumpIpc
    PROVE  PumpInv'
<1> USE DEF PumpInv
<1>1. HostTypeOK'
    BY PumpIpcKeepsTypes
<1>2. PumpIsAtTheBottom'
  <2>1. Frame("pump", <<>>).work = "pump"
      BY DEF Frame
  <2>2. stack = <<>> /\ Frame("pump", <<>>) \in Frames
      BY EmptySeq, FrameIsTyped DEF PumpIpc, HostIdle, Works
  <2>3. stack' # <<>> /\ stack'[1] = Frame("pump", <<>>)
      BY <2>2, PushedStack DEF PumpIpc, Push, HostTypeOK
  <2> QED
      BY <2>1, <2>3 DEF PumpIsAtTheBottom
<1>3. NothingIsLost'
    BY PumpKeepsHistory
<1> QED
    BY <1>1, <1>2, <1>3

LEMMA ServeUnhandledKeepsPump ==
    ASSUME PumpInv, ServeUnhandled
    PROVE  PumpInv'
<1> USE DEF PumpInv
<1>1. HostTypeOK'
    BY ServeUnhandledKeepsTypes
<1>2. PumpIsAtTheBottom'
    BY DEF ServeUnhandled, Rejected, Settled, PumpIsAtTheBottom
<1>3. NothingIsLost'
    BY SettledKeepsHistory DEF ServeUnhandled, Rejected
<1> QED
    BY <1>1, <1>2, <1>3

LEMMA HandlerDoneKeepsPump ==
    ASSUME PumpInv, HandlerDone
    PROVE  PumpInv'
<1> USE DEF PumpInv
<1>1. HostTypeOK'
    BY HandlerDoneKeepsTypes
<1>2. PumpIsAtTheBottom'
  <2>1. pump.invokes # <<>>
      BY DEF HandlerDone
  <2> QED
      BY <2>1, PopKeepsPump DEF HandlerDone, Working
<1>3. NothingIsLost'
    BY SettledKeepsHistory DEF HandlerDone
<1> QED
    BY <1>1, <1>2, <1>3

LEMMA ServeSendKeepsPump ==
    ASSUME PumpInv, ServeSend
    PROVE  PumpInv'
<1> USE DEF PumpInv
<1>1. HostTypeOK'
    BY ServeSendKeepsTypes
<1>2. PumpIsAtTheBottom'
  <2>1. pump'.invokes = pump.invokes /\ pump.invokes = <<>>
      BY DEF ServeSend, HostTypeOK
  <2> QED
      BY <2>1 DEF PumpIsAtTheBottom
<1>3. NothingIsLost'
  <2>1. pump'.invokes = pump.invokes
      BY DEF ServeSend, HostTypeOK
  <2> QED
      BY <2>1, HistoryKept DEF ServeSend
<1> QED
    BY <1>1, <1>2, <1>3

LEMMA LifecycleStepKeepsPump == PumpInv /\ LifecycleStep => PumpInv'
<1> SUFFICES ASSUME PumpInv, LifecycleStep PROVE PumpInv'
    OBVIOUS
<1>1. CASE Eval
    BY <1>1, EvalKeepsPump
<1>2. CASE CallNext
    BY <1>2, CallNextKeepsPump
<1>3. CASE RunJob
    BY <1>3, RunJobKeepsPump
<1>4. CASE JobsDone
    BY <1>4, JobsDoneKeepsPump
<1>5. CASE ScriptDone
    BY <1>5, ScriptDoneKeepsPump
<1>6. CASE MarkReady
    BY <1>6, MarkReadyKeepsPump
<1>7. CASE ReadyDone
    BY <1>7, ReadyDoneKeepsPump
<1>8. CASE WindowCreate
    BY <1>8, WindowCreateKeepsPump
<1>9. CASE ClosedDone
    BY <1>9, ClosedDoneKeepsPump
<1>10. CASE ReturnToScript
    BY <1>10, ReturnToScriptKeepsPump
<1>11. CASE AppQuit
    BY <1>11, AppQuitKeepsPump
<1>12. CASE BeforeQuitDone
    BY <1>12, BeforeQuitDoneKeepsPump
<1>13. CASE WillQuitDone
    BY <1>13, WillQuitDoneKeepsPump
<1>14. ASSUME NEW f \in Functions, WhenReady(f) PROVE PumpInv'
    BY <1>14, WhenReadyKeepsPump
<1>15. ASSUME NEW event \in AppEvents, NEW f \in Functions, AppOn(event, f) PROVE PumpInv'
    BY <1>15, AppOnKeepsPump
<1>16. ASSUME NEW w \in Windows, NEW f \in Functions, WindowOn(w, f) PROVE PumpInv'
    BY <1>16, WindowOnKeepsPump
<1>17. ASSUME NEW w \in Windows, WindowClose(w) PROVE PumpInv'
    BY <1>17, WindowCloseKeepsPump
<1>18. CASE JobThrows
    BY <1>18, JobThrowsKeepsPump
<1>19. ASSUME NEW f \in Functions, QueueMicrotask(f) PROVE PumpInv'
    BY <1>19, QueueMicrotaskKeepsPump
<1> QED
    BY <1>1, <1>2, <1>3, <1>4, <1>5, <1>6, <1>7, <1>8, <1>9,
       <1>10, <1>11, <1>12, <1>13, <1>14, <1>15, <1>16, <1>17, <1>18, <1>19
       DEF LifecycleStep

LEMMA IpcStepKeepsPump == PumpInv /\ IpcStep => PumpInv'
<1> SUFFICES ASSUME PumpInv, IpcStep PROVE PumpInv'
    OBVIOUS
<1>1. CASE IpcHandle
    BY <1>1, IpcHandleKeepsPump
<1>2. CASE PumpIpc
    BY <1>2, PumpIpcKeepsPump
<1>3. CASE ServeUnhandled
    BY <1>3, ServeUnhandledKeepsPump
<1>4. CASE CallHandler
    BY <1>4, CallHandlerKeepsPump
<1>5. CASE HandlerDone
    BY <1>5, HandlerDoneKeepsPump
<1>6. CASE ServeSend
    BY <1>6, ServeSendKeepsPump
<1>7. CASE ListenerDone
    BY <1>7, ListenerDoneKeepsPump
<1>8. CASE ServeMainSends
    BY <1>8, ServeMainSendsKeepsPump
<1>9. CASE PumpDone
    BY <1>9, PumpDoneKeepsPump
<1>10. ASSUME NEW c \in Calls, Invoke(c) PROVE PumpInv'
    BY <1>10, InvokeKeepsPump
<1>11. ASSUME NEW c \in Calls, Send(c) PROVE PumpInv'
    BY <1>11, SendKeepsPump
<1>12. ASSUME NEW w \in Windows, WebContentsSend(w) PROVE PumpInv'
    BY <1>12, WebContentsSendKeepsPump
<1> QED
    BY <1>1, <1>2, <1>3, <1>4, <1>5, <1>6, <1>7, <1>8, <1>9, <1>10, <1>11, <1>12
       DEF IpcStep

(* Every invoke is answered exactly once, in the order of the calls, by    *)
(* the first pump after it: none is lost whatever handlers do and          *)
(* whichever calls continuations make (electron.rs:8002-8093).             *)
THEOREM InvokesAreAlwaysSettled == HostSpec => []InvokesAreSettled
<1>1. HostInit => PumpInv
  <2> SUFFICES ASSUME HostInit PROVE PumpIsAtTheBottom /\ NothingIsLost
      BY InitTypes DEF PumpInv
  <2>1. PumpIsAtTheBottom
      BY DEF HostInit, PumpIsAtTheBottom
  <2>2. <<>> \o <<>> \o <<>> = <<>>
      BY EmptySeq, ConcatEmptySeq
  <2>3. NothingIsLost
      BY <2>2 DEF HostInit, NothingIsLost
  <2> QED
      BY <2>1, <2>3
<1>2. PumpInv /\ [LifecycleStep \/ IpcStep]_hostVars => PumpInv'
  <2> SUFFICES ASSUME PumpInv, [LifecycleStep \/ IpcStep]_hostVars PROVE PumpInv'
      OBVIOUS
  <2>1. CASE UNCHANGED hostVars
    <3>1. HostTypeOK'
        BY <2>1 DEF PumpInv, HostTypeOK, hostVars, lifecycleVars, ipcVars
    <3>2. PumpIsAtTheBottom' /\ NothingIsLost'
        BY <2>1 DEF PumpInv, PumpIsAtTheBottom, NothingIsLost, hostVars, ipcVars
    <3> QED
        BY <3>1, <3>2 DEF PumpInv
  <2> QED
      BY <2>1, LifecycleStepKeepsPump, IpcStepKeepsPump
<1>3. PumpInv => InvokesAreSettled
    BY DEF PumpInv, PumpIsAtTheBottom, NothingIsLost, InvokesAreSettled, HostIdle
<1> QED
    BY <1>1, <1>2, <1>3, PTL DEF HostSpec

-----------------------------------------------------------------------------
(***************************************************************************)
(* The lifecycle.  Functions wait on many lists: the host's own, one per   *)
(* event and one per window, and the frames of the stack hold what they    *)
(* have taken from those and not called yet.  A slot names a list, and     *)
(* lists is what they all hold: an action moves functions between slots.   *)
(***************************************************************************)

Resolvers == <<"resolvers", 0>>
Jobs == <<"jobs", 0>>
OnApp(event) == <<"app", event>>
OnWindow(w) == <<"window", w>>
Todo(d) == <<"todo", d>>
Waits(d) == <<"waits", d>>
Slots ==
    {Resolvers, Jobs} \cup {OnApp(e) : e \in AppEvents} \cup {OnWindow(w) : w \in Windows}
        \cup {Todo(d) : d \in 1..MaxDepth} \cup {Waits(d) : d \in 1..MaxDepth}

(* What a slot holds, given the parts of the state that hold functions.    *)
List(resolvers, microtasks, on_app, on_window, frames, p) ==
    CASE p[1] = "resolvers" -> resolvers
      [] p[1] = "jobs" -> microtasks
      [] p[1] = "app" -> on_app[p[2]]
      [] p[1] = "window" -> on_window[p[2]]
      [] p[1] = "todo" -> IF p[2] <= Len(frames) THEN frames[p[2]].todo ELSE <<>>
      [] p[1] = "waits" -> IF p[2] <= Len(frames) THEN frames[p[2]].resolvers ELSE <<>>
Lists(resolvers, microtasks, on_app, on_window, frames) ==
    [p \in Slots |-> List(resolvers, microtasks, on_app, on_window, frames, p)]
lists == Lists(when_ready_resolvers, jobs, app_listeners, window_closed_listeners, stack)

(* A function is on some list.                                             *)
Held(L, f) == \E p \in Slots : \E i \in 1..Len(L[p]) : L[p][i] = f

(* The books: a function handed over to be called once is in one place of  *)
(* the lists until it is called, and then in none and called exactly once; *)
(* one that is lost is in none and was never called.                       *)
Once == {"once"} \cup Deferred
Unshared(L, U) ==
    \A p, q \in Slots : \A i \in 1..Len(L[p]), j \in 1..Len(L[q]) :
        L[p][i] = L[q][j] /\ U[L[p][i]] \in Once => p = q /\ i = j
Accounted(L, U, R) ==
    /\ Unshared(L, U)
    /\ \A f \in Functions :
          /\ U[f] \in {"no", "lost"} => ~Held(L, f) /\ R[f] = 0
          /\ U[f] \in Once => R[f] = IF Held(L, f) THEN 0 ELSE 1

(* What a frame of each kind may hold, and what may be at the bottom of    *)
(* the stack: only mark_ready takes resolvers, and never from a callback.  *)
Bottoms == {"script", "ready", "pump", "jobs", "microtask"}
FrameShape(frame) ==
    /\ frame.work \in {"script", "jobs", "microtask", "pump", "handler"} => frame.todo = <<>>
    /\ frame.resolvers # <<>> => frame.work = "ready"
    /\ frame.last_closed => frame.work = "closed"
StackShape(frames) ==
    /\ \A d \in 1..Len(frames) :
          /\ FrameShape(frames[d])
          /\ d > 1 => frames[d].resolvers = <<>>
          /\ d = 1 => frames[d].work \in Bottoms

(* The frames that announce window-all-closed once their listeners return. *)
Owed(frames) == {d \in 1..Len(frames) : frames[d].last_closed}

(* After ready, nobody waits for it; a closed window keeps no listeners,   *)
(* and no microtask outlives its turn; each time the windows emptied is    *)
(* announced or owed by a frame.                                           *)
ReadyIsTold == app.ready => app_listeners["ready"] = <<>> /\ when_ready_resolvers = <<>>
ListsAreTidy ==
    /\ HostIdle => jobs = <<>>
    /\ \A w \in Windows \ windows : window_closed_listeners[w] = <<>>
    /\ \A i \in 1..Len(app_listeners["window-all-closed"]) :
          used[app_listeners["window-all-closed"][i]] = "recurring"
Announcements ==
    /\ announced + Cardinality(Owed(stack)) = emptied
    /\ announced > 0 => app.quit
    /\ app.noted_zero => app.quit

(* The inductive invariant: LifecycleIsAnnounced is what it says of an     *)
(* empty stack, where no frame holds functions and none owes anything.     *)
LifecycleInv ==
    /\ HostTypeOK
    /\ ReadyIsTold
    /\ StackShape(stack)
    /\ ListsAreTidy
    /\ Accounted(lists, used, ran)
    /\ Announcements

-----------------------------------------------------------------------------
(* Books kept on any lists.                                                *)

(* A function handed over once has one place on the lists.                 *)
OnePlace(L, U, p, q) ==
    \A i \in 1..Len(L[p]), j \in 1..Len(L[q]) :
        L[p][i] = L[q][j] /\ U[L[p][i]] \in Once => p = q /\ i = j
LEMMA PlacesAreUnique ==
    ASSUME NEW L, NEW U, NEW R, Accounted(L, U, R)
    PROVE  \A p, q \in Slots : OnePlace(L, U, p, q)
  BY DEF Accounted, Unshared, OnePlace

LEMMA ListsMoved ==
    ASSUME NEW L \in [Slots -> Seq(Functions)], NEW M \in [Slots -> Seq(Functions)],
           NEW U, NEW R, Accounted(L, U, R),
           NEW p \in Slots, NEW q \in Slots, p # q,
           M[p] = <<>>, M[q] = L[q] \o L[p],
           \A r \in Slots : r # p /\ r # q => M[r] = L[r]
    PROVE  Accounted(M, U, R)
<1> DEFINE Slot(r, i) == IF r = q /\ i > Len(L[q]) THEN p ELSE r
           At(r, i) == IF r = q /\ i > Len(L[q]) THEN i - Len(L[q]) ELSE i
<1>1. Len(L[p]) \in Nat /\ Len(L[q]) \in Nat /\ Len(M[q]) = Len(L[q]) + Len(L[p])
    BY ConcatProperties
<1>2. Len(M[p]) = 0
    BY EmptySeq
<1>3. \A i \in 1..Len(M[q]) : M[q][i] = IF i <= Len(L[q]) THEN L[q][i] ELSE L[p][i - Len(L[q])]
    BY <1>1, ConcatProperties
<1>4. ASSUME NEW r \in Slots, NEW i \in 1..Len(M[r])
      PROVE  /\ r # p /\ Slot(r, i) \in Slots /\ At(r, i) \in 1..Len(L[Slot(r, i)])
             /\ M[r][i] = L[Slot(r, i)][At(r, i)]
  <2>1. r # p
      BY <1>2
  <2>2. CASE r # q
      BY <2>1, <2>2
  <2>3. CASE r = q /\ i <= Len(L[q])
      BY <1>1, <1>3, <2>1, <2>3
  <2>4. CASE r = q /\ i > Len(L[q])
    <3>1. i - Len(L[q]) \in 1..Len(L[p])
        BY <1>1, <2>4
    <3>2. M[q][i] = L[p][i - Len(L[q])]
        BY <1>1, <1>3, <2>4
    <3> QED
        BY <2>1, <2>4, <3>1, <3>2
  <2>5. Len(M[r]) \in Nat
      OBVIOUS
  <2> QED
      BY <1>1, <2>2, <2>3, <2>4, <2>5
<1>5. ASSUME NEW r \in Slots, NEW i \in 1..Len(M[r]), NEW s \in Slots, NEW j \in 1..Len(M[s]),
             Slot(r, i) = Slot(s, j), At(r, i) = At(s, j)
      PROVE  r = s /\ i = j
  <2>1. r # p /\ s # p
      BY <1>4
  <2>2. i \in Int /\ j \in Int
      OBVIOUS
  <2> QED
      BY <1>1, <1>5, <2>1, <2>2
<1>6. ASSUME NEW s \in Slots, NEW j \in 1..Len(L[s])
      PROVE  \E r \in Slots : \E i \in 1..Len(M[r]) : M[r][i] = L[s][j]
  <2>1. CASE s = p
    <3>1. j + Len(L[q]) \in 1..Len(M[q]) /\ ~(j + Len(L[q]) <= Len(L[q]))
          /\ (j + Len(L[q])) - Len(L[q]) = j
        BY <1>1, <2>1
    <3>2. M[q][j + Len(L[q])] = L[p][j]
        BY <1>3, <3>1
    <3> QED
        BY <2>1, <3>1, <3>2
  <2>2. CASE s = q
    <3>1. j \in 1..Len(M[q]) /\ j <= Len(L[q])
        BY <1>1, <2>2
    <3>2. M[q][j] = L[q][j]
        BY <1>3, <3>1
    <3> QED
        BY <2>2, <3>1, <3>2
  <2>3. CASE s # p /\ s # q
      BY <2>3
  <2> QED
      BY <2>1, <2>2, <2>3
<1> HIDE DEF Slot, At
<1>7. \A f : Held(M, f) <=> Held(L, f)
  <2>1. ASSUME NEW f, Held(M, f) PROVE Held(L, f)
    <3>0. PICK r \in Slots : \E i \in 1..Len(M[r]) : M[r][i] = f
        BY <2>1 DEF Held
    <3>1. PICK i \in 1..Len(M[r]) : M[r][i] = f
        BY <3>0
    <3>2. Slot(r, i) \in Slots /\ At(r, i) \in 1..Len(L[Slot(r, i)]) /\ L[Slot(r, i)][At(r, i)] = f
        BY <1>4, <3>1
    <3> QED
        BY <3>2 DEF Held
  <2>2. ASSUME NEW f, Held(L, f) PROVE Held(M, f)
      BY <1>6, <2>2 DEF Held
  <2> QED
      BY <2>1, <2>2
<1>8. ASSUME NEW r \in Slots, NEW s \in Slots, NEW i \in 1..Len(M[r]), NEW j \in 1..Len(M[s]),
             M[r][i] = M[s][j], U[M[r][i]] \in Once
      PROVE  r = s /\ i = j
  <2>1. /\ Slot(r, i) \in Slots /\ At(r, i) \in 1..Len(L[Slot(r, i)])
        /\ M[r][i] = L[Slot(r, i)][At(r, i)]
      BY <1>4
  <2>2. /\ Slot(s, j) \in Slots /\ At(s, j) \in 1..Len(L[Slot(s, j)])
        /\ M[s][j] = L[Slot(s, j)][At(s, j)]
      BY <1>4
  <2>3. L[Slot(r, i)][At(r, i)] = L[Slot(s, j)][At(s, j)] /\ U[L[Slot(r, i)][At(r, i)]] \in Once
      BY <1>8, <2>1, <2>2
  <2>4. OnePlace(L, U, Slot(r, i), Slot(s, j))
      BY <2>1, <2>2, PlacesAreUnique
  <2>5. Slot(r, i) = Slot(s, j) /\ At(r, i) = At(s, j)
      BY <2>1, <2>2, <2>3, <2>4 DEF OnePlace
  <2> QED
      BY <1>5, <2>5
<1>9. Unshared(M, U)
    BY <1>8 DEF Unshared
<1> QED
    BY <1>7, <1>9 DEF Accounted

LEMMA ListHandedOn ==
    ASSUME NEW L \in [Slots -> Seq(Functions)], NEW M \in [Slots -> Seq(Functions)],
           NEW U, NEW R, Accounted(L, U, R),
           NEW p \in Slots, NEW q \in Slots, p # q,
           L[q] = <<>>, M[p] = <<>>, M[q] = L[p],
           \A r \in Slots : r # p /\ r # q => M[r] = L[r]
    PROVE  Accounted(M, U, R)
<1>1. M[q] = L[q] \o L[p]
    BY ConcatEmptySeq
<1> QED
    BY <1>1, ListsMoved

LEMMA HandOn ==
    ASSUME NEW L \in [Slots -> Seq(Functions)], NEW U, NEW R, Accounted(L, U, R),
           NEW p \in Slots, NEW q \in Slots, p # q, L[q] = <<>>
    PROVE  LET M == [L EXCEPT ![p] = <<>>, ![q] = L[p]]
           IN  /\ M \in [Slots -> Seq(Functions)] /\ Accounted(M, U, R)
               /\ M[p] = <<>> /\ M[q] = L[p]
               /\ \A r \in Slots : r # p /\ r # q => M[r] = L[r]
<1> DEFINE M == [L EXCEPT ![p] = <<>>, ![q] = L[p]]
<1>1. <<>> \in Seq(Functions) /\ L[p] \in Seq(Functions)
    OBVIOUS
<1>2. /\ M \in [Slots -> Seq(Functions)] /\ M[p] = <<>> /\ M[q] = L[p]
      /\ \A r \in Slots : r # p /\ r # q => M[r] = L[r]
    BY <1>1
<1> HIDE DEF M
<1>3. Accounted(M, U, R)
    BY <1>2, ListHandedOn
<1> QED
    BY <1>2, <1>3 DEF M

(* A function handed over for the first time is put on a list, once; the   *)
(* listeners of window-all-closed are not accounted for.                   *)
LEMMA FunctionListed ==
    ASSUME NEW L \in [Slots -> Seq(Functions)], NEW M \in [Slots -> Seq(Functions)],
           NEW U \in [Functions -> Purposes \cup {"no", "lost"}], NEW R, Accounted(L, U, R),
           NEW f \in Functions, U[f] = "no", NEW purpose \in Purposes,
           NEW p \in Slots, M[p] = Append(L[p], f),
           \A r \in Slots : r # p => M[r] = L[r]
    PROVE  Accounted(M, [U EXCEPT ![f] = purpose], R)
<1> DEFINE V == [U EXCEPT ![f] = purpose]
<1>1. /\ Len(L[p]) \in Nat /\ Len(M[p]) = Len(L[p]) + 1
      /\ M[p][Len(L[p]) + 1] = f
      /\ \A i \in 1..Len(L[p]) : M[p][i] = L[p][i]
    BY AppendProperties
<1>2. ~Held(L, f) /\ R[f] = 0
    BY DEF Accounted
<1>3. \A r \in Slots : \A i \in 1..Len(L[r]) : i \in 1..Len(M[r]) /\ M[r][i] = L[r][i] /\ M[r][i] # f
  <2> SUFFICES ASSUME NEW r \in Slots, NEW i \in 1..Len(L[r])
               PROVE  i \in 1..Len(M[r]) /\ M[r][i] = L[r][i] /\ M[r][i] # f
      OBVIOUS
  <2>1. i \in 1..Len(M[r]) /\ M[r][i] = L[r][i]
    <3>1. CASE r = p
      <4>1. i \in 1..Len(M[p])
          BY <1>1, <3>1
      <4> QED
          BY <1>1, <3>1, <4>1
    <3>2. CASE r # p
        BY <3>2
    <3> QED
        BY <3>1, <3>2
  <2> QED
      BY <1>2, <2>1 DEF Held
<1>4. ASSUME NEW r \in Slots, NEW i \in 1..Len(M[r])
      PROVE  i \in 1..Len(L[r]) \/ (r = p /\ i = Len(L[p]) + 1 /\ M[r][i] = f)
  <2>1. CASE r = p
    <3>1. i \in 1..(Len(L[p]) + 1)
        BY <1>1, <2>1
    <3>2. i \in 1..Len(L[p]) \/ i = Len(L[p]) + 1
        BY <1>1, <3>1
    <3> QED
        BY <1>1, <2>1, <3>2
  <2> QED
      BY <2>1
<1>5. Held(M, f)
  <2>1. Len(L[p]) + 1 \in 1..Len(M[p])
      BY <1>1
  <2> QED
      BY <1>1, <2>1 DEF Held
<1>6. \A g : g # f => (Held(M, g) <=> Held(L, g))
  <2>1. ASSUME NEW g, g # f, Held(M, g) PROVE Held(L, g)
    <3>0. PICK r \in Slots : \E i \in 1..Len(M[r]) : M[r][i] = g
        BY <2>1 DEF Held
    <3>1. PICK i \in 1..Len(M[r]) : M[r][i] = g
        BY <3>0
    <3>2. i \in 1..Len(L[r])
        BY <1>4, <2>1, <3>1
    <3> QED
        BY <1>3, <3>1, <3>2 DEF Held
  <2>2. ASSUME NEW g, Held(L, g) PROVE Held(M, g)
    <3>0. PICK r \in Slots : \E i \in 1..Len(L[r]) : L[r][i] = g
        BY <2>2 DEF Held
    <3>1. PICK i \in 1..Len(L[r]) : L[r][i] = g
        BY <3>0
    <3> QED
        BY <1>3, <3>1 DEF Held
  <2> QED
      BY <2>1, <2>2
<1>7. ASSUME NEW r \in Slots, NEW s \in Slots, NEW i \in 1..Len(M[r]), NEW j \in 1..Len(M[s]),
             M[r][i] = M[s][j], V[M[r][i]] \in Once
      PROVE  r = s /\ i = j
  <2>1. i \in 1..Len(L[r]) \/ (r = p /\ i = Len(L[p]) + 1 /\ M[r][i] = f)
      BY <1>4
  <2>2. j \in 1..Len(L[s]) \/ (s = p /\ j = Len(L[p]) + 1 /\ M[s][j] = f)
      BY <1>4
  <2>3. CASE i \in 1..Len(L[r]) /\ j \in 1..Len(L[s])
    <3>1. M[r][i] = L[r][i] /\ M[s][j] = L[s][j] /\ M[r][i] # f
        BY <1>3, <2>3
    <3>2. L[r][i] \in Functions
        BY <2>3, ElementOfSeq
    <3>3. U[L[r][i]] \in Once
        BY <1>7, <3>1, <3>2
    <3>4. OnePlace(L, U, r, s)
        BY PlacesAreUnique
    <3> QED
        BY <1>7, <2>3, <3>1, <3>3, <3>4 DEF OnePlace
  <2>4. CASE M[r][i] = f
    <3>1. i \notin 1..Len(L[r]) /\ j \notin 1..Len(L[s])
        BY <1>3, <1>7, <2>4
    <3> QED
        BY <2>1, <2>2, <3>1
  <2>5. CASE M[s][j] = f
      BY <1>7, <2>4, <2>5
  <2> QED
      BY <2>1, <2>2, <2>3, <2>4, <2>5
<1>8. ASSUME NEW g \in Functions
      PROVE  /\ V[g] \in {"no", "lost"} => ~Held(M, g) /\ R[g] = 0
             /\ V[g] \in Once => R[g] = IF Held(M, g) THEN 0 ELSE 1
  <2>1. CASE g = f
    <3>1. V[g] = purpose
        BY <2>1
    <3> QED
        BY <1>2, <1>5, <2>1, <3>1 DEF Purposes, Deferred
  <2>2. CASE g # f
    <3>1. V[g] = U[g]
        BY <2>2
    <3> QED
        BY <1>6, <2>2, <3>1 DEF Accounted
  <2> QED
      BY <2>1, <2>2
<1>9. Unshared(M, V)
    BY <1>7 DEF Unshared
<1> QED
    BY <1>8, <1>9 DEF Accounted

(* The first of a list is called.                                          *)
LEMMA FunctionCalled ==
    ASSUME NEW L \in [Slots -> Seq(Functions)], NEW M \in [Slots -> Seq(Functions)],
           NEW U, NEW R \in [Functions -> Nat], Accounted(L, U, R),
           NEW p \in Slots, L[p] # <<>>, M[p] = Tail(L[p]),
           \A r \in Slots : r # p => M[r] = L[r]
    PROVE  Accounted(M, U, [R EXCEPT ![Head(L[p])] = @ + 1])
<1> DEFINE f == Head(L[p])
           S == [R EXCEPT ![f] = @ + 1]
           At(r, i) == IF r = p THEN i + 1 ELSE i
<1>1. /\ Len(L[p]) \in Nat \ {0} /\ Len(M[p]) = Len(L[p]) - 1
      /\ f = L[p][1] /\ f \in Functions
      /\ \A i \in 1..Len(M[p]) : M[p][i] = L[p][i + 1]
    BY HeadTailProperties
<1> HIDE DEF f
<1>2. 1 \in 1..Len(L[p])
    BY <1>1
<1>3. ASSUME NEW r \in Slots, NEW i \in 1..Len(M[r])
      PROVE  /\ At(r, i) \in 1..Len(L[r]) /\ M[r][i] = L[r][At(r, i)] /\ i \in Int
             /\ ~(r = p /\ At(r, i) = 1)
  <2>1. CASE r = p
    <3>1. i \in 1..Len(M[p]) /\ i \in Int
        BY <2>1
    <3>2. i + 1 \in 1..Len(L[p]) /\ i + 1 # 1
        BY <1>1, <3>1
    <3>3. M[p][i] = L[p][i + 1]
        BY <1>1, <3>1
    <3> QED
        BY <2>1, <3>1, <3>2, <3>3
  <2>2. CASE r # p
      BY <2>2
  <2> QED
      BY <2>1, <2>2
<1>4. ASSUME NEW r \in Slots, NEW i \in 1..Len(L[r]), ~(r = p /\ i = 1)
      PROVE  \E j \in 1..Len(M[r]) : M[r][j] = L[r][i]
  <2>1. CASE r = p
    <3>1. i - 1 \in 1..Len(M[p]) /\ (i - 1) + 1 = i
        BY <1>1, <1>4, <2>1
    <3> QED
        BY <1>1, <2>1, <3>1
  <2>2. CASE r # p
      BY <2>2
  <2> QED
      BY <2>1, <2>2
<1>5. ASSUME NEW r \in Slots, NEW s \in Slots, NEW i \in 1..Len(M[r]), NEW j \in 1..Len(M[s]),
             M[r][i] = M[s][j], U[M[r][i]] \in Once
      PROVE  r = s /\ i = j
  <2>1. /\ At(r, i) \in 1..Len(L[r]) /\ M[r][i] = L[r][At(r, i)] /\ i \in Int
      BY <1>3
  <2>2. /\ At(s, j) \in 1..Len(L[s]) /\ M[s][j] = L[s][At(s, j)] /\ j \in Int
      BY <1>3
  <2> HIDE DEF At
  <2>3. L[r][At(r, i)] = L[s][At(s, j)] /\ U[L[r][At(r, i)]] \in Once
      BY <1>5, <2>1, <2>2
  <2>4. OnePlace(L, U, r, s)
      BY PlacesAreUnique
  <2>5. r = s /\ At(r, i) = At(s, j)
      BY <2>1, <2>2, <2>3, <2>4 DEF OnePlace
  <2> USE DEF At
  <2> QED
      BY <2>1, <2>2, <2>5
<1>6. U[f] \in Once => ~Held(M, f) /\ Held(L, f)
  <2> SUFFICES ASSUME U[f] \in Once PROVE ~Held(M, f) /\ Held(L, f)
      OBVIOUS
  <2>1. Held(L, f)
      BY <1>1, <1>2 DEF Held
  <2>2. ASSUME NEW r \in Slots, NEW i \in 1..Len(M[r]), M[r][i] = f PROVE FALSE
    <3>1. At(r, i) \in 1..Len(L[r]) /\ L[r][At(r, i)] = f /\ ~(r = p /\ At(r, i) = 1)
        BY <1>3, <2>2
    <3> HIDE DEF At
    <3>2. L[r][At(r, i)] = L[p][1] /\ U[L[r][At(r, i)]] \in Once
        BY <1>1, <3>1
    <3>3. OnePlace(L, U, r, p)
        BY PlacesAreUnique
    <3>4. r = p /\ At(r, i) = 1
        BY <1>2, <3>1, <3>2, <3>3 DEF OnePlace
    <3> QED
        BY <3>1, <3>4
  <2> QED
      BY <2>1, <2>2 DEF Held
<1>7. \A g : g # f => (Held(M, g) <=> Held(L, g))
  <2>1. ASSUME NEW g, Held(M, g) PROVE Held(L, g)
    <3>0. PICK r \in Slots : \E i \in 1..Len(M[r]) : M[r][i] = g
        BY <2>1 DEF Held
    <3>1. PICK i \in 1..Len(M[r]) : M[r][i] = g
        BY <3>0
    <3>2. At(r, i) \in 1..Len(L[r]) /\ L[r][At(r, i)] = g
        BY <1>3, <3>1
    <3> HIDE DEF At
    <3> QED
        BY <3>2 DEF Held
  <2>2. ASSUME NEW g, g # f, Held(L, g) PROVE Held(M, g)
    <3>0. PICK r \in Slots : \E i \in 1..Len(L[r]) : L[r][i] = g
        BY <2>2 DEF Held
    <3>1. PICK i \in 1..Len(L[r]) : L[r][i] = g
        BY <3>0
    <3>2. ~(r = p /\ i = 1)
        BY <1>1, <2>2, <3>1
    <3> QED
        BY <1>4, <3>1, <3>2 DEF Held
  <2> QED
      BY <2>1, <2>2
<1>8. U[f] \notin {"no", "lost"}
  <2>1. Held(L, f)
      BY <1>1, <1>2 DEF Held
  <2> QED
      BY <1>1, <2>1 DEF Accounted
<1>9. ASSUME NEW g \in Functions
      PROVE  /\ U[g] \in {"no", "lost"} => ~Held(M, g) /\ S[g] = 0
             /\ U[g] \in Once => S[g] = IF Held(M, g) THEN 0 ELSE 1
  <2>1. CASE g = f
    <3>1. S[g] = R[f] + 1
        BY <1>1, <2>1
    <3>2. U[f] \in Once => R[f] = 0
        BY <1>1, <1>6 DEF Accounted
    <3> QED
        BY <1>6, <1>8, <2>1, <3>1, <3>2
  <2>2. CASE g # f
    <3>1. S[g] = R[g]
        BY <2>2
    <3> QED
        BY <1>7, <2>2, <3>1 DEF Accounted
  <2> QED
      BY <2>1, <2>2
<1>10. Unshared(M, U)
    BY <1>5 DEF Unshared
<1> QED
    BY <1>9, <1>10 DEF Accounted, f

(* A list of functions that are not accounted for is copied.               *)
LEMMA RecurringCopied ==
    ASSUME NEW L \in [Slots -> Seq(Functions)], NEW M \in [Slots -> Seq(Functions)],
           NEW U, NEW R, Accounted(L, U, R),
           NEW p \in Slots, L[p] = <<>>,
           \A i \in 1..Len(M[p]) : U[M[p][i]] = "recurring",
           \A r \in Slots : r # p => M[r] = L[r]
    PROVE  Accounted(M, U, R)
<1>1. Len(L[p]) = 0
    BY EmptySeq
<1>2. ASSUME NEW f, U[f] # "recurring" PROVE Held(M, f) <=> Held(L, f)
  <2>1. ASSUME Held(M, f) PROVE Held(L, f)
    <3>1. PICK r \in Slots : \E i \in 1..Len(M[r]) : M[r][i] = f
        BY <2>1 DEF Held
    <3>2. r # p
        BY <1>2, <3>1
    <3> QED
        BY <3>1, <3>2 DEF Held
  <2>2. ASSUME Held(L, f) PROVE Held(M, f)
    <3>1. PICK r \in Slots : \E i \in 1..Len(L[r]) : L[r][i] = f
        BY <2>2 DEF Held
    <3>2. r # p
        BY <1>1, <3>1
    <3> QED
        BY <3>1, <3>2 DEF Held
  <2> QED
      BY <2>1, <2>2
<1>3. \A r \in Slots : \A i \in 1..Len(M[r]) : U[M[r][i]] \in Once => r # p /\ M[r] = L[r]
    BY DEF Once, Deferred
<1>4. ASSUME NEW r \in Slots, NEW s \in Slots, NEW i \in 1..Len(M[r]), NEW j \in 1..Len(M[s]),
             M[r][i] = M[s][j], U[M[r][i]] \in Once
      PROVE  r = s /\ i = j
  <2>1. M[r] = L[r] /\ M[s] = L[s]
      BY <1>3, <1>4
  <2>2. OnePlace(L, U, r, s)
      BY PlacesAreUnique
  <2> QED
      BY <1>4, <2>1, <2>2 DEF OnePlace
<1>5. \A f \in Functions :
          /\ U[f] \in {"no", "lost"} => ~Held(M, f) /\ R[f] = 0
          /\ U[f] \in Once => R[f] = IF Held(M, f) THEN 0 ELSE 1
  <2> SUFFICES ASSUME NEW f \in Functions
               PROVE  /\ U[f] \in {"no", "lost"} => ~Held(M, f) /\ R[f] = 0
                      /\ U[f] \in Once => R[f] = IF Held(M, f) THEN 0 ELSE 1
      OBVIOUS
  <2>1. U[f] # "recurring" => (Held(M, f) <=> Held(L, f))
      BY <1>2
  <2> QED
      BY <2>1 DEF Accounted, Once, Deferred
<1>6. Unshared(M, U)
    BY <1>4 DEF Unshared
<1> QED
    BY <1>5, <1>6 DEF Accounted

(* A list of deferred functions is thrown away, and they are lost.         *)
Later == Deferred \cup {"lost"}
Late(s, U) == \A i \in 1..Len(s) : U[s[i]] \in Later
Loses(s, U, V) ==
    \A f \in Functions :
        V[f] = IF (\E i \in 1..Len(s) : s[i] = f) /\ U[f] \in Deferred THEN "lost" ELSE U[f]
LEMMA ListDropped ==
    ASSUME NEW L \in [Slots -> Seq(Functions)], NEW M \in [Slots -> Seq(Functions)],
           NEW U, NEW R, Accounted(L, U, R),
           NEW p \in Slots, Late(L[p], U), M[p] = <<>>,
           \A r \in Slots : r # p => M[r] = L[r],
           NEW V, Loses(L[p], U, V)
    PROVE  Accounted(M, V, R)
<1> USE DEF Loses
<1> DEFINE On(f) == \E i \in 1..Len(L[p]) : L[p][i] = f
<1>1. Len(M[p]) = 0
    BY EmptySeq
<1>2. ASSUME NEW r \in Slots, NEW i \in 1..Len(M[r])
      PROVE  r # p /\ M[r] = L[r] /\ i \in 1..Len(L[r]) /\ M[r][i] \in Functions
  <2>1. r # p /\ M[r] = L[r]
      BY <1>1
  <2> QED
      BY <2>1, ElementOfSeq
<1>3. \A f : Held(M, f) => Held(L, f)
    BY <1>2 DEF Held
<1>4. \A f : ~On(f) => (Held(M, f) <=> Held(L, f))
  <2> SUFFICES ASSUME NEW f, ~On(f), Held(L, f) PROVE Held(M, f)
      BY <1>3
  <2>1. PICK r \in Slots : \E i \in 1..Len(L[r]) : L[r][i] = f
      BY DEF Held
  <2>2. r # p
      BY <2>1
  <2> QED
      BY <2>1, <2>2 DEF Held
<1>5. ASSUME NEW f \in Functions, On(f)
      PROVE  V[f] = "lost" /\ ~Held(M, f) /\ R[f] = 0
  <2>1. PICK j \in 1..Len(L[p]) : L[p][j] = f
      BY <1>5
  <2>2. Held(L, f)
      BY <2>1 DEF Held
  <2>3. U[f] \in Deferred /\ U[f] \in Once
    <3>1. U[f] \in Deferred \cup {"lost"}
        BY <2>1 DEF Late, Later
    <3>2. U[f] # "lost"
        BY <2>2 DEF Accounted
    <3> QED
        BY <3>1, <3>2 DEF Once
  <2>4. ASSUME NEW r \in Slots, NEW i \in 1..Len(M[r]), M[r][i] = f PROVE FALSE
    <3>1. r # p /\ i \in 1..Len(L[r]) /\ L[r][i] = L[p][j] /\ U[L[r][i]] \in Once
        BY <1>2, <2>1, <2>3, <2>4
    <3>2. OnePlace(L, U, r, p)
        BY PlacesAreUnique
    <3> QED
        BY <3>1, <3>2 DEF OnePlace
  <2> QED
      BY <1>5, <2>2, <2>3, <2>4 DEF Accounted, Held
<1>6. ASSUME NEW f \in Functions, ~On(f) PROVE V[f] = U[f]
    BY <1>6
<1> HIDE DEF On
<1>7. "lost" \notin Once
    BY DEF Once, Deferred
<1>8. ASSUME NEW r \in Slots, NEW s \in Slots, NEW i \in 1..Len(M[r]), NEW j \in 1..Len(M[s]),
             M[r][i] = M[s][j], V[M[r][i]] \in Once
      PROVE  r = s /\ i = j
  <2>1. /\ M[r] = L[r] /\ i \in 1..Len(L[r]) /\ M[r][i] \in Functions
        /\ M[s] = L[s] /\ j \in 1..Len(L[s])
      BY <1>2
  <2>2. U[M[r][i]] \in Once
      BY <1>5, <1>6, <1>7, <1>8, <2>1
  <2>3. OnePlace(L, U, r, s)
      BY PlacesAreUnique
  <2> QED
      BY <1>8, <2>1, <2>2, <2>3 DEF OnePlace
<1>9. Unshared(M, V)
    BY <1>8 DEF Unshared
<1>10. ASSUME NEW f \in Functions
       PROVE  /\ V[f] \in {"no", "lost"} => ~Held(M, f) /\ R[f] = 0
              /\ V[f] \in Once => R[f] = IF Held(M, f) THEN 0 ELSE 1
  <2>1. CASE On(f)
      BY <1>5, <1>7, <2>1
  <2>2. CASE ~On(f)
      BY <1>4, <1>6, <2>2 DEF Accounted
  <2> QED
      BY <2>1, <2>2
<1> QED
    BY <1>9, <1>10 DEF Accounted

-----------------------------------------------------------------------------
(* The host's lists.                                                       *)

LEMMA SlotCases ==
    \A p \in Slots :
        \/ p = Resolvers \/ p = Jobs
        \/ \E e \in AppEvents : p = OnApp(e)
        \/ \E w \in Windows : p = OnWindow(w)
        \/ \E d \in 1..MaxDepth : p = Todo(d)
        \/ \E d \in 1..MaxDepth : p = Waits(d)
  BY DEF Slots

LEMMA SlotsDiffer ==
    /\ Resolvers \in Slots /\ Jobs \in Slots /\ Resolvers # Jobs
    /\ \A e \in AppEvents : OnApp(e) \in Slots /\ OnApp(e) # Resolvers /\ OnApp(e) # Jobs
    /\ \A w \in Windows : OnWindow(w) \in Slots
    /\ \A d \in 1..MaxDepth : Todo(d) \in Slots /\ Waits(d) \in Slots
    /\ \A d : \A e : Todo(d) # OnApp(e) /\ Waits(d) # OnApp(e)
    /\ \A d : \A w : Todo(d) # OnWindow(w) /\ Waits(d) # OnWindow(w)
    /\ \A d, e : Todo(d) # Waits(e)
    /\ \A d : /\ Todo(d) # Resolvers /\ Todo(d) # Jobs
              /\ Waits(d) # Resolvers /\ Waits(d) # Jobs
  BY DEF Slots, Resolvers, Jobs, OnApp, OnWindow, Todo, Waits

LEMMA ListsAt ==
    ASSUME NEW r, NEW j, NEW a, NEW c, NEW s
    PROVE  /\ Lists(r, j, a, c, s)[Resolvers] = r
           /\ Lists(r, j, a, c, s)[Jobs] = j
           /\ \A e \in AppEvents : Lists(r, j, a, c, s)[OnApp(e)] = a[e]
           /\ \A w \in Windows : Lists(r, j, a, c, s)[OnWindow(w)] = c[w]
           /\ \A d \in 1..MaxDepth :
                 /\ Lists(r, j, a, c, s)[Todo(d)] = IF d <= Len(s) THEN s[d].todo ELSE <<>>
                 /\ Lists(r, j, a, c, s)[Waits(d)] =
                        IF d <= Len(s) THEN s[d].resolvers ELSE <<>>
<1>1. Resolvers[1] = "resolvers" /\ Jobs[1] = "jobs"
    BY DEF Resolvers, Jobs
<1>2. \A e : OnApp(e)[1] = "app" /\ OnApp(e)[2] = e
    BY DEF OnApp
<1>3. \A w : OnWindow(w)[1] = "window" /\ OnWindow(w)[2] = w
    BY DEF OnWindow
<1>4. \A d : Todo(d)[1] = "todo" /\ Todo(d)[2] = d
    BY DEF Todo
<1>5. \A d : Waits(d)[1] = "waits" /\ Waits(d)[2] = d
    BY DEF Waits
<1> QED
    BY <1>1, <1>2, <1>3, <1>4, <1>5, SlotsDiffer DEF Lists, List

LEMMA ListsIsAFunction ==
    ASSUME NEW r, NEW j, NEW a, NEW c, NEW s
    PROVE  /\ DOMAIN Lists(r, j, a, c, s) = Slots
           /\ Lists(r, j, a, c, s) = [p \in Slots |-> Lists(r, j, a, c, s)[p]]
  BY DEF Lists

(* The parts are typed.                                                    *)
Listing(r, j, a, c, s) ==
    /\ r \in Seq(Functions) /\ j \in Seq(Functions)
    /\ a \in [AppEvents -> Seq(Functions)] /\ c \in [Windows -> Seq(Functions)]
    /\ s \in Seq(Frames)
LEMMA ListsAreTyped ==
    ASSUME NEW r, NEW j, NEW a, NEW c, NEW s, Listing(r, j, a, c, s)
    PROVE  Lists(r, j, a, c, s) \in [Slots -> Seq(Functions)]
<1> USE DEF Listing
<1> SUFFICES ASSUME NEW p \in Slots PROVE Lists(r, j, a, c, s)[p] \in Seq(Functions)
    BY ListsIsAFunction
<1>1. CASE p = Resolvers \/ p = Jobs
    BY <1>1, ListsAt
<1>2. CASE \E e \in AppEvents : p = OnApp(e)
    BY <1>2, ListsAt
<1>3. CASE \E w \in Windows : p = OnWindow(w)
    BY <1>3, ListsAt
<1>4. ASSUME NEW d \in 1..MaxDepth, d <= Len(s)
      PROVE  s[d].todo \in Seq(Functions) /\ s[d].resolvers \in Seq(Functions)
  <2>1. d \in 1..Len(s)
      BY <1>4, BoundsAssumption
  <2> QED
      BY <2>1, ElementOfSeq, FrameFields
<1>5. <<>> \in Seq(Functions)
    OBVIOUS
<1>6. CASE \E d \in 1..MaxDepth : p = Todo(d)
  <2>1. PICK d \in 1..MaxDepth : p = Todo(d)
      BY <1>6
  <2>2. Lists(r, j, a, c, s)[p] = IF d <= Len(s) THEN s[d].todo ELSE <<>>
      BY <2>1, ListsAt
  <2> QED
      BY <1>4, <1>5, <2>2
<1>7. CASE \E d \in 1..MaxDepth : p = Waits(d)
  <2>1. PICK d \in 1..MaxDepth : p = Waits(d)
      BY <1>7
  <2>2. Lists(r, j, a, c, s)[p] = IF d <= Len(s) THEN s[d].resolvers ELSE <<>>
      BY <2>1, ListsAt
  <2> QED
      BY <1>4, <1>5, <2>2
<1> QED
    BY <1>1, <1>2, <1>3, <1>6, <1>7, SlotCases

(* Changing what the lists are made of changes lists.                      *)
Holds(M, r, j, a, c, s) ==
    /\ M \in [Slots -> Seq(Functions)]
    /\ M[Resolvers] = r /\ M[Jobs] = j
    /\ \A e \in AppEvents : M[OnApp(e)] = a[e]
    /\ \A w \in Windows : M[OnWindow(w)] = c[w]
    /\ \A d \in 1..MaxDepth :
          /\ M[Todo(d)] = IF d <= Len(s) THEN s[d].todo ELSE <<>>
          /\ M[Waits(d)] = IF d <= Len(s) THEN s[d].resolvers ELSE <<>>
LEMMA ListsAgree ==
    ASSUME NEW M, NEW r, NEW j, NEW a, NEW c, NEW s, Holds(M, r, j, a, c, s)
    PROVE  Lists(r, j, a, c, s) = M
<1> DEFINE L == Lists(r, j, a, c, s)
<1>1. ASSUME NEW p \in Slots PROVE L[p] = M[p]
  <2>1. CASE p = Resolvers \/ p = Jobs
      BY <2>1, ListsAt DEF Holds
  <2>2. CASE \E e \in AppEvents : p = OnApp(e)
      BY <2>2, ListsAt DEF Holds
  <2>3. CASE \E w \in Windows : p = OnWindow(w)
      BY <2>3, ListsAt DEF Holds
  <2>4. CASE \E d \in 1..MaxDepth : p = Todo(d)
      BY <2>4, ListsAt DEF Holds
  <2>5. CASE \E d \in 1..MaxDepth : p = Waits(d)
      BY <2>5, ListsAt DEF Holds
  <2> QED
      BY <2>1, <2>2, <2>3, <2>4, <2>5, SlotCases
<1>2. DOMAIN L = Slots /\ L = [p \in Slots |-> L[p]]
    BY ListsIsAFunction
<1> HIDE DEF L
<1>3. L = M
    BY <1>1, <1>2 DEF Holds
<1> QED
    BY <1>3 DEF L

LEMMA PushedFrames ==
    ASSUME NEW s \in Seq(Frames), NEW frame
    PROVE  /\ Len(s) \in Nat /\ Len(Append(s, frame)) = Len(s) + 1
           /\ \A d \in 1..Len(s) : Append(s, frame)[d] = s[d]
           /\ Append(s, frame)[Len(s) + 1] = frame
  BY AppendProperties

LEMMA PoppedFrames ==
    ASSUME NEW s \in Seq(Frames), s # <<>>
    PROVE  /\ Len(s) \in Nat \ {0} /\ Len(Front(s)) = Len(s) - 1
           /\ \A d \in 1..Len(s) - 1 : Front(s)[d] = s[d]
           /\ Last(s) = s[Len(s)] /\ Last(s) \in Frames
<1>1. Len(s) \in Nat \ {0} /\ Last(s) \in Frames /\ Len(Front(s)) = Len(s) - 1
    BY PoppedStack
<1>2. Front(s) = SubSeq(s, 1, Len(s) - 1)
    BY DEF Front
<1>3. \A i \in 1..(Len(s) - 1) : s[i] \in Frames
    BY <1>1, ElementOfSeq
<1>4. 1 \in Int /\ Len(s) - 1 \in Int
    BY <1>1
<1>5. \A i \in 1..(Len(s) - 1 - 1 + 1) : Front(s)[i] = s[1 + i - 1]
    BY <1>2, <1>3, <1>4, SubSeqProperties
<1>6. \A d \in 1..Len(s) - 1 : d \in 1..(Len(s) - 1 - 1 + 1) /\ 1 + d - 1 = d
    BY <1>1
<1>7. \A d \in 1..Len(s) - 1 : Front(s)[d] = s[d]
    BY <1>5, <1>6
<1>8. Last(s) = s[Len(s)]
    BY DEF Last
<1> QED
    BY <1>1, <1>7, <1>8

LEMMA ReplacedFrames ==
    ASSUME NEW s \in Seq(Frames), s # <<>>, NEW frame
    PROVE  /\ Len(s) \in Nat \ {0} /\ Len(Append(Front(s), frame)) = Len(s)
           /\ \A d \in 1..Len(s) - 1 : Append(Front(s), frame)[d] = s[d]
           /\ Append(Front(s), frame)[Len(s)] = frame
<1>1. /\ Len(s) \in Nat \ {0} /\ Len(Front(s)) = Len(s) - 1
      /\ \A d \in 1..Len(s) - 1 : Front(s)[d] = s[d]
    BY PoppedFrames
<1>2. Front(s) \in Seq(Frames)
    BY PoppedStack
<1>3. /\ Len(Append(Front(s), frame)) = Len(Front(s)) + 1
      /\ \A d \in 1..Len(Front(s)) : Append(Front(s), frame)[d] = Front(s)[d]
      /\ Append(Front(s), frame)[Len(Front(s)) + 1] = frame
    BY <1>2, PushedFrames
<1>4. Len(Front(s)) + 1 = Len(s)
    BY <1>1
<1> QED
    BY <1>1, <1>3, <1>4

(* What the stack of unfinished work does to the lists.                    *)
LEMMA ListsPushed ==
    ASSUME NEW r, NEW j, NEW a, NEW c, NEW s, Listing(r, j, a, c, s), Len(s) < MaxDepth, NEW frame \in Frames
    PROVE  LET L == Lists(r, j, a, c, s)
               d == Len(s) + 1
           IN  /\ d \in 1..MaxDepth /\ L[Todo(d)] = <<>> /\ L[Waits(d)] = <<>>
               /\ Lists(r, j, a, c, Append(s, frame)) =
                      [L EXCEPT ![Todo(d)] = frame.todo, ![Waits(d)] = frame.resolvers]
<1> USE DEF Listing
<1> DEFINE L == Lists(r, j, a, c, s)
           d == Len(s) + 1
<1>1. /\ Len(s) \in Nat /\ Len(Append(s, frame)) = Len(s) + 1
      /\ \A e \in 1..Len(s) : Append(s, frame)[e] = s[e]
      /\ Append(s, frame)[Len(s) + 1] = frame
    BY PushedFrames
<1>2. d \in 1..MaxDepth /\ ~(d <= Len(s))
    BY <1>1, BoundsAssumption
<1>3. L[Todo(d)] = <<>> /\ L[Waits(d)] = <<>>
    BY <1>2, ListsAt
<1> DEFINE M == [L EXCEPT ![Todo(d)] = frame.todo, ![Waits(d)] = frame.resolvers]
<1>4. L \in [Slots -> Seq(Functions)] /\ frame.todo \in Seq(Functions)
      /\ frame.resolvers \in Seq(Functions)
    BY ListsAreTyped, FrameFields
<1>5. M \in [Slots -> Seq(Functions)]
    BY <1>4
<1>6. /\ M[Resolvers] = r /\ M[Jobs] = j
      /\ \A e \in AppEvents : M[OnApp(e)] = a[e]
      /\ \A w \in Windows : M[OnWindow(w)] = c[w]
    BY <1>4, ListsAt, SlotsDiffer
<1>7. ASSUME NEW e \in 1..MaxDepth
      PROVE  /\ M[Todo(e)] = IF e <= Len(s) + 1 THEN Append(s, frame)[e].todo ELSE <<>>
             /\ M[Waits(e)] = IF e <= Len(s) + 1 THEN Append(s, frame)[e].resolvers ELSE <<>>
  <2>1. CASE e = d
      BY <1>1, <1>2, <1>4, <2>1, SlotsDiffer
  <2>2. CASE e # d
    <3>1. M[Todo(e)] = L[Todo(e)] /\ M[Waits(e)] = L[Waits(e)]
        BY <1>4, <2>2, SlotsDiffer DEF Todo, Waits
    <3>2. /\ L[Todo(e)] = IF e <= Len(s) THEN s[e].todo ELSE <<>>
          /\ L[Waits(e)] = IF e <= Len(s) THEN s[e].resolvers ELSE <<>>
        BY ListsAt
    <3>3. e <= Len(s) => Append(s, frame)[e] = s[e]
        BY <1>1, BoundsAssumption
    <3>4. e <= Len(s) + 1 <=> e <= Len(s)
        BY <1>1, <2>2, BoundsAssumption
    <3> QED
        BY <3>1, <3>2, <3>3, <3>4
  <2> QED
      BY <2>1, <2>2
<1> HIDE DEF M
<1>8. Holds(M, r, j, a, c, Append(s, frame))
    BY <1>1, <1>5, <1>6, <1>7 DEF Holds
<1>9. Lists(r, j, a, c, Append(s, frame)) = M
    BY <1>8, ListsAgree
<1> QED
    BY <1>2, <1>3, <1>9 DEF M

LEMMA ListsReplaced ==
    ASSUME NEW r, NEW j, NEW a, NEW c, NEW s, Listing(r, j, a, c, s), s # <<>>, Len(s) <= MaxDepth, NEW frame \in Frames
    PROVE  LET L == Lists(r, j, a, c, s)
               d == Len(s)
           IN  /\ d \in 1..MaxDepth /\ L[Todo(d)] = Last(s).todo /\ L[Waits(d)] = Last(s).resolvers
               /\ Lists(r, j, a, c, Append(Front(s), frame)) =
                      [L EXCEPT ![Todo(d)] = frame.todo, ![Waits(d)] = frame.resolvers]
<1> USE DEF Listing
<1> DEFINE L == Lists(r, j, a, c, s)
           d == Len(s)
<1>1. /\ Len(s) \in Nat \ {0} /\ Len(Append(Front(s), frame)) = Len(s)
      /\ \A e \in 1..Len(s) - 1 : Append(Front(s), frame)[e] = s[e]
      /\ Append(Front(s), frame)[Len(s)] = frame
    BY ReplacedFrames
<1>2. d \in 1..MaxDepth /\ d <= Len(s)
    BY <1>1, BoundsAssumption
<1>3. L[Todo(d)] = Last(s).todo /\ L[Waits(d)] = Last(s).resolvers
    BY <1>2, ListsAt, PoppedFrames
<1> DEFINE M == [L EXCEPT ![Todo(d)] = frame.todo, ![Waits(d)] = frame.resolvers]
<1>4. L \in [Slots -> Seq(Functions)] /\ frame.todo \in Seq(Functions)
      /\ frame.resolvers \in Seq(Functions)
    BY ListsAreTyped, FrameFields
<1>5. M \in [Slots -> Seq(Functions)]
    BY <1>4
<1>6. /\ M[Resolvers] = r /\ M[Jobs] = j
      /\ \A e \in AppEvents : M[OnApp(e)] = a[e]
      /\ \A w \in Windows : M[OnWindow(w)] = c[w]
    BY <1>4, ListsAt, SlotsDiffer
<1>7. ASSUME NEW e \in 1..MaxDepth
      PROVE  /\ M[Todo(e)] = IF e <= Len(s) THEN Append(Front(s), frame)[e].todo ELSE <<>>
             /\ M[Waits(e)] = IF e <= Len(s) THEN Append(Front(s), frame)[e].resolvers ELSE <<>>
  <2>1. CASE e = d
      BY <1>1, <1>2, <1>4, <2>1, SlotsDiffer
  <2>2. CASE e # d
    <3>1. M[Todo(e)] = L[Todo(e)] /\ M[Waits(e)] = L[Waits(e)]
        BY <1>4, <2>2, SlotsDiffer DEF Todo, Waits
    <3>2. /\ L[Todo(e)] = IF e <= Len(s) THEN s[e].todo ELSE <<>>
          /\ L[Waits(e)] = IF e <= Len(s) THEN s[e].resolvers ELSE <<>>
        BY ListsAt
    <3>3. e <= Len(s) => Append(Front(s), frame)[e] = s[e]
      <4>1. e <= Len(s) => e \in 1..Len(s) - 1
          BY <1>1, <2>2, BoundsAssumption
      <4> QED
          BY <1>1, <4>1
    <3> QED
        BY <3>1, <3>2, <3>3
  <2> QED
      BY <2>1, <2>2
<1> HIDE DEF M
<1>8. Holds(M, r, j, a, c, Append(Front(s), frame))
    BY <1>1, <1>5, <1>6, <1>7 DEF Holds
<1>9. Lists(r, j, a, c, Append(Front(s), frame)) = M
    BY <1>8, ListsAgree
<1> QED
    BY <1>2, <1>3, <1>9 DEF M

LEMMA ListsPopped ==
    ASSUME NEW r, NEW j, NEW a, NEW c, NEW s, Listing(r, j, a, c, s), s # <<>>, Len(s) <= MaxDepth,
           Last(s).todo = <<>>, Last(s).resolvers = <<>>
    PROVE  Lists(r, j, a, c, Front(s)) = Lists(r, j, a, c, s)
<1> USE DEF Listing
<1>1. /\ Len(s) \in Nat \ {0} /\ Len(Front(s)) = Len(s) - 1
      /\ \A d \in 1..Len(s) - 1 : Front(s)[d] = s[d]
      /\ Last(s) = s[Len(s)]
    BY PoppedFrames
<1> DEFINE M == Lists(r, j, a, c, s)
<1>2. M \in [Slots -> Seq(Functions)]
    BY ListsAreTyped
<1>3. /\ M[Resolvers] = r /\ M[Jobs] = j
      /\ \A e \in AppEvents : M[OnApp(e)] = a[e]
      /\ \A w \in Windows : M[OnWindow(w)] = c[w]
    BY ListsAt
<1>4. ASSUME NEW e \in 1..MaxDepth
      PROVE  /\ M[Todo(e)] = IF e <= Len(s) - 1 THEN Front(s)[e].todo ELSE <<>>
             /\ M[Waits(e)] = IF e <= Len(s) - 1 THEN Front(s)[e].resolvers ELSE <<>>
  <2>1. /\ M[Todo(e)] = IF e <= Len(s) THEN s[e].todo ELSE <<>>
        /\ M[Waits(e)] = IF e <= Len(s) THEN s[e].resolvers ELSE <<>>
      BY ListsAt
  <2>2. CASE e <= Len(s) - 1
    <3>1. e \in 1..Len(s) - 1 /\ e <= Len(s)
        BY <1>1, <2>2, BoundsAssumption
    <3> QED
        BY <1>1, <2>1, <2>2, <3>1
  <2>3. CASE ~(e <= Len(s) - 1)
    <3>1. e <= Len(s) => e = Len(s)
        BY <1>1, <2>3, BoundsAssumption
    <3> QED
        BY <1>1, <2>1, <2>3, <3>1
  <2> QED
      BY <2>2, <2>3
<1> HIDE DEF M
<1>5. Holds(M, r, j, a, c, Front(s))
    BY <1>1, <1>2, <1>3, <1>4 DEF Holds
<1>6. Lists(r, j, a, c, Front(s)) = M
    BY <1>5, ListsAgree
<1> QED
    BY <1>6 DEF M

(* What other changes do to the lists.                                     *)
LEMMA ResolversSet ==
    ASSUME NEW r, NEW j, NEW a, NEW c, NEW s, Listing(r, j, a, c, s)
    PROVE  \A x \in Seq(Functions) :
              Lists(x, j, a, c, s) = [Lists(r, j, a, c, s) EXCEPT ![Resolvers] = x]
<1> SUFFICES ASSUME NEW x \in Seq(Functions)
             PROVE  Lists(x, j, a, c, s) = [Lists(r, j, a, c, s) EXCEPT ![Resolvers] = x]
    OBVIOUS
<1> USE DEF Listing
<1> DEFINE L == Lists(r, j, a, c, s)
           M == [L EXCEPT ![Resolvers] = x]
<1>1. L \in [Slots -> Seq(Functions)] /\ Resolvers \in Slots
    BY ListsAreTyped, SlotsDiffer
<1>2. /\ L[Resolvers] = r /\ L[Jobs] = j
      /\ \A e \in AppEvents : L[OnApp(e)] = a[e]
      /\ \A w \in Windows : L[OnWindow(w)] = c[w]
      /\ \A d \in 1..MaxDepth :
            /\ L[Todo(d)] = IF d <= Len(s) THEN s[d].todo ELSE <<>>
            /\ L[Waits(d)] = IF d <= Len(s) THEN s[d].resolvers ELSE <<>>
    BY ListsAt
<1> HIDE DEF L
<1>3. M \in [Slots -> Seq(Functions)] /\ M[Resolvers] = x
    BY <1>1
<1>4. \A p \in Slots : p # Resolvers => M[p] = L[p]
    BY <1>1
<1> HIDE DEF M
<1>5. M[Resolvers] = x /\ M[Jobs] = j
    BY <1>2, <1>3, <1>4, SlotsDiffer DEF OnWindow, Resolvers, Jobs
<1>6. \A e \in AppEvents : M[OnApp(e)] = a[e]
    BY <1>2, <1>3, <1>4, SlotsDiffer DEF OnApp, OnWindow
<1>7. \A w \in Windows : M[OnWindow(w)] = c[w]
    BY <1>2, <1>3, <1>4, SlotsDiffer DEF OnApp, OnWindow, Resolvers, Jobs
<1>8. \A d \in 1..MaxDepth : M[Todo(d)] = L[Todo(d)] /\ M[Waits(d)] = L[Waits(d)]
    BY <1>4, SlotsDiffer
<1>9. Holds(M, x, j, a, c, s)
    BY <1>2, <1>3, <1>5, <1>6, <1>7, <1>8 DEF Holds
<1> QED
    BY <1>9, ListsAgree DEF M, L

LEMMA JobsSet ==
    ASSUME NEW r, NEW j, NEW a, NEW c, NEW s, Listing(r, j, a, c, s)
    PROVE  \A x \in Seq(Functions) :
              Lists(r, x, a, c, s) = [Lists(r, j, a, c, s) EXCEPT ![Jobs] = x]
<1> SUFFICES ASSUME NEW x \in Seq(Functions)
             PROVE  Lists(r, x, a, c, s) = [Lists(r, j, a, c, s) EXCEPT ![Jobs] = x]
    OBVIOUS
<1> USE DEF Listing
<1> DEFINE L == Lists(r, j, a, c, s)
           M == [L EXCEPT ![Jobs] = x]
<1>1. L \in [Slots -> Seq(Functions)] /\ Jobs \in Slots
    BY ListsAreTyped, SlotsDiffer
<1>2. /\ L[Resolvers] = r /\ L[Jobs] = j
      /\ \A e \in AppEvents : L[OnApp(e)] = a[e]
      /\ \A w \in Windows : L[OnWindow(w)] = c[w]
      /\ \A d \in 1..MaxDepth :
            /\ L[Todo(d)] = IF d <= Len(s) THEN s[d].todo ELSE <<>>
            /\ L[Waits(d)] = IF d <= Len(s) THEN s[d].resolvers ELSE <<>>
    BY ListsAt
<1> HIDE DEF L
<1>3. M \in [Slots -> Seq(Functions)] /\ M[Jobs] = x
    BY <1>1
<1>4. \A p \in Slots : p # Jobs => M[p] = L[p]
    BY <1>1
<1> HIDE DEF M
<1>5. M[Resolvers] = r /\ M[Jobs] = x
    BY <1>2, <1>3, <1>4, SlotsDiffer DEF OnWindow, Resolvers, Jobs
<1>6. \A e \in AppEvents : M[OnApp(e)] = a[e]
    BY <1>2, <1>3, <1>4, SlotsDiffer DEF OnApp, OnWindow
<1>7. \A w \in Windows : M[OnWindow(w)] = c[w]
    BY <1>2, <1>3, <1>4, SlotsDiffer DEF OnApp, OnWindow, Resolvers, Jobs
<1>8. \A d \in 1..MaxDepth : M[Todo(d)] = L[Todo(d)] /\ M[Waits(d)] = L[Waits(d)]
    BY <1>4, SlotsDiffer
<1>9. Holds(M, r, x, a, c, s)
    BY <1>2, <1>3, <1>5, <1>6, <1>7, <1>8 DEF Holds
<1> QED
    BY <1>9, ListsAgree DEF M, L

LEMMA OnAppSet ==
    ASSUME NEW r, NEW j, NEW a, NEW c, NEW s, Listing(r, j, a, c, s)
    PROVE  \A event \in AppEvents, x \in Seq(Functions) :
              Lists(r, j, [a EXCEPT ![event] = x], c, s) = [Lists(r, j, a, c, s) EXCEPT ![OnApp(event)] = x]
<1> SUFFICES ASSUME NEW event \in AppEvents, NEW x \in Seq(Functions)
             PROVE  Lists(r, j, [a EXCEPT ![event] = x], c, s) = [Lists(r, j, a, c, s) EXCEPT ![OnApp(event)] = x]
    OBVIOUS
<1> USE DEF Listing
<1> DEFINE L == Lists(r, j, a, c, s)
           M == [L EXCEPT ![OnApp(event)] = x]
<1>1. L \in [Slots -> Seq(Functions)] /\ OnApp(event) \in Slots
    BY ListsAreTyped, SlotsDiffer
<1>2. /\ L[Resolvers] = r /\ L[Jobs] = j
      /\ \A e \in AppEvents : L[OnApp(e)] = a[e]
      /\ \A w \in Windows : L[OnWindow(w)] = c[w]
      /\ \A d \in 1..MaxDepth :
            /\ L[Todo(d)] = IF d <= Len(s) THEN s[d].todo ELSE <<>>
            /\ L[Waits(d)] = IF d <= Len(s) THEN s[d].resolvers ELSE <<>>
    BY ListsAt
<1> HIDE DEF L
<1>3. M \in [Slots -> Seq(Functions)] /\ M[OnApp(event)] = x
    BY <1>1
<1>4. \A p \in Slots : p # OnApp(event) => M[p] = L[p]
    BY <1>1
<1> HIDE DEF M
<1>5. M[Resolvers] = r /\ M[Jobs] = j
    BY <1>2, <1>3, <1>4, SlotsDiffer DEF OnWindow, Resolvers, Jobs
<1>6. \A e \in AppEvents : M[OnApp(e)] = [a EXCEPT ![event] = x][e]
    BY <1>2, <1>3, <1>4, SlotsDiffer DEF OnApp, OnWindow
<1>7. \A w \in Windows : M[OnWindow(w)] = c[w]
    BY <1>2, <1>3, <1>4, SlotsDiffer DEF OnApp, OnWindow, Resolvers, Jobs
<1>8. \A d \in 1..MaxDepth : M[Todo(d)] = L[Todo(d)] /\ M[Waits(d)] = L[Waits(d)]
    BY <1>4, SlotsDiffer
<1>9. Holds(M, r, j, [a EXCEPT ![event] = x], c, s)
    BY <1>2, <1>3, <1>5, <1>6, <1>7, <1>8 DEF Holds
<1> QED
    BY <1>9, ListsAgree DEF M, L

LEMMA OnWindowSet ==
    ASSUME NEW r, NEW j, NEW a, NEW c, NEW s, Listing(r, j, a, c, s)
    PROVE  \A v \in Windows, x \in Seq(Functions) :
              Lists(r, j, a, [c EXCEPT ![v] = x], s) = [Lists(r, j, a, c, s) EXCEPT ![OnWindow(v)] = x]
<1> SUFFICES ASSUME NEW v \in Windows, NEW x \in Seq(Functions)
             PROVE  Lists(r, j, a, [c EXCEPT ![v] = x], s) = [Lists(r, j, a, c, s) EXCEPT ![OnWindow(v)] = x]
    OBVIOUS
<1> USE DEF Listing
<1> DEFINE L == Lists(r, j, a, c, s)
           M == [L EXCEPT ![OnWindow(v)] = x]
<1>1. L \in [Slots -> Seq(Functions)] /\ OnWindow(v) \in Slots
    BY ListsAreTyped, SlotsDiffer
<1>2. /\ L[Resolvers] = r /\ L[Jobs] = j
      /\ \A e \in AppEvents : L[OnApp(e)] = a[e]
      /\ \A w \in Windows : L[OnWindow(w)] = c[w]
      /\ \A d \in 1..MaxDepth :
            /\ L[Todo(d)] = IF d <= Len(s) THEN s[d].todo ELSE <<>>
            /\ L[Waits(d)] = IF d <= Len(s) THEN s[d].resolvers ELSE <<>>
    BY ListsAt
<1> HIDE DEF L
<1>3. M \in [Slots -> Seq(Functions)] /\ M[OnWindow(v)] = x
    BY <1>1
<1>4. \A p \in Slots : p # OnWindow(v) => M[p] = L[p]
    BY <1>1
<1> HIDE DEF M
<1>5. M[Resolvers] = r /\ M[Jobs] = j
    BY <1>2, <1>3, <1>4, SlotsDiffer DEF OnWindow, Resolvers, Jobs
<1>6. \A e \in AppEvents : M[OnApp(e)] = a[e]
    BY <1>2, <1>3, <1>4, SlotsDiffer DEF OnApp, OnWindow
<1>7. \A w \in Windows : M[OnWindow(w)] = [c EXCEPT ![v] = x][w]
    BY <1>2, <1>3, <1>4, SlotsDiffer DEF OnApp, OnWindow, Resolvers, Jobs
<1>8. \A d \in 1..MaxDepth : M[Todo(d)] = L[Todo(d)] /\ M[Waits(d)] = L[Waits(d)]
    BY <1>4, SlotsDiffer
<1>9. Holds(M, r, j, a, [c EXCEPT ![v] = x], s)
    BY <1>2, <1>3, <1>5, <1>6, <1>7, <1>8 DEF Holds
<1> QED
    BY <1>9, ListsAgree DEF M, L

-----------------------------------------------------------------------------
(* The shape of the stack, and the announcements owed by its frames.       *)

LEMMA EmptyFrame ==
    ASSUME NEW work
    PROVE  LET frame == Frame(work, <<>>)
               called == [frame EXCEPT !.calling = TRUE]
           IN  /\ frame.work = work /\ frame.todo = <<>> /\ frame.resolvers = <<>>
               /\ ~frame.last_closed
               /\ called.work = work /\ called.todo = <<>> /\ called.resolvers = <<>>
               /\ ~called.last_closed
  BY DEF Frame

LEMMA ShapePushed ==
    ASSUME NEW s \in Seq(Frames), StackShape(s), NEW frame, FrameShape(frame),
           s = <<>> => frame.work \in Bottoms, s # <<>> => frame.resolvers = <<>>
    PROVE  StackShape(Append(s, frame))
<1>1. /\ Len(s) \in Nat /\ Len(Append(s, frame)) = Len(s) + 1
      /\ \A d \in 1..Len(s) : Append(s, frame)[d] = s[d]
      /\ Append(s, frame)[Len(s) + 1] = frame
    BY PushedFrames
<1>2. s = <<>> <=> Len(s) = 0
    BY EmptySeq
<1> SUFFICES ASSUME NEW d \in 1..Len(s) + 1
             PROVE  /\ FrameShape(Append(s, frame)[d])
                    /\ d > 1 => Append(s, frame)[d].resolvers = <<>>
                    /\ d = 1 => Append(s, frame)[d].work \in Bottoms
    BY <1>1 DEF StackShape
<1>3. CASE d \in 1..Len(s)
    BY <1>1, <1>3 DEF StackShape
<1>4. CASE d = Len(s) + 1
  <2>1. (d > 1 => s # <<>>) /\ (d = 1 => s = <<>>)
      BY <1>1, <1>2, <1>4
  <2> QED
      BY <1>1, <1>4, <2>1
<1> QED
    BY <1>1, <1>3, <1>4

LEMMA ShapePopped ==
    ASSUME NEW s \in Seq(Frames), s # <<>>, StackShape(s)
    PROVE  /\ StackShape(Front(s))
           /\ FrameShape(Last(s))
           /\ Len(s) > 1 => Last(s).resolvers = <<>>
           /\ Len(s) = 1 => Last(s).work \in Bottoms
           /\ Len(s) = 1 <=> Front(s) = <<>>
<1>1. /\ Len(s) \in Nat \ {0} /\ Len(Front(s)) = Len(s) - 1
      /\ \A d \in 1..Len(s) - 1 : Front(s)[d] = s[d]
      /\ Last(s) = s[Len(s)]
    BY PoppedFrames
<1>2. Len(s) \in 1..Len(s) /\ \A d \in 1..Len(s) - 1 : d \in 1..Len(s)
    BY <1>1
<1>3. StackShape(Front(s))
    BY <1>1, <1>2 DEF StackShape
<1>4. /\ FrameShape(Last(s))
      /\ Len(s) > 1 => Last(s).resolvers = <<>>
      /\ Len(s) = 1 => Last(s).work \in Bottoms
    BY <1>1, <1>2 DEF StackShape
<1>5. Front(s) \in Seq(Frames)
    BY PoppedStack
<1>6. Len(s) = 1 <=> Front(s) = <<>>
    BY <1>1, <1>5, EmptySeq
<1> QED
    BY <1>3, <1>4, <1>6

LEMMA ShapeReplaced ==
    ASSUME NEW s \in Seq(Frames), s # <<>>, StackShape(s), NEW frame, FrameShape(frame),
           Len(s) = 1 => frame.work \in Bottoms, Len(s) > 1 => frame.resolvers = <<>>
    PROVE  StackShape(Append(Front(s), frame))
<1>1. StackShape(Front(s)) /\ Front(s) \in Seq(Frames) /\ (Len(s) = 1 <=> Front(s) = <<>>)
    BY ShapePopped, PoppedStack
<1>2. Len(s) \in Nat \ {0}
    BY PoppedFrames
<1>3. Len(s) = 1 \/ Len(s) > 1
    BY <1>2
<1> QED
    BY <1>1, <1>3, ShapePushed

LEMMA OwedIsFinite ==
    ASSUME NEW s \in Seq(Frames)
    PROVE  /\ Owed(s) \subseteq 1..Len(s) /\ IsFiniteSet(Owed(s)) /\ Cardinality(Owed(s)) \in Nat
<1>1. Owed(s) \subseteq 1..Len(s)
    BY DEF Owed
<1>2. IsFiniteSet(1..Len(s))
    BY FS_Interval
<1> QED
    BY <1>1, <1>2, FS_Subset, FS_CardinalityType

LEMMA OwedPushed ==
    ASSUME NEW s \in Seq(Frames), NEW frame
    PROVE  /\ ~frame.last_closed => Owed(Append(s, frame)) = Owed(s)
           /\ frame.last_closed =>
                  Cardinality(Owed(Append(s, frame))) = Cardinality(Owed(s)) + 1
<1>1. /\ Len(s) \in Nat /\ Len(Append(s, frame)) = Len(s) + 1
      /\ \A d \in 1..Len(s) : Append(s, frame)[d] = s[d]
      /\ Append(s, frame)[Len(s) + 1] = frame
    BY PushedFrames
<1>2. 1..Len(s) + 1 = (1..Len(s)) \cup {Len(s) + 1} /\ Len(s) + 1 \notin 1..Len(s)
    BY <1>1
<1>3. Owed(Append(s, frame)) = IF frame.last_closed THEN Owed(s) \cup {Len(s) + 1} ELSE Owed(s)
    BY <1>1, <1>2 DEF Owed
<1>4. IsFiniteSet(Owed(s)) /\ Len(s) + 1 \notin Owed(s)
    BY <1>2, OwedIsFinite
<1>5. Cardinality(Owed(s) \cup {Len(s) + 1}) = Cardinality(Owed(s)) + 1
    BY <1>4, FS_AddElement
<1> QED
    BY <1>3, <1>5

LEMMA OwedPopped ==
    ASSUME NEW s \in Seq(Frames), s # <<>>
    PROVE  /\ ~Last(s).last_closed => Owed(Front(s)) = Owed(s)
           /\ Last(s).last_closed =>
                  Cardinality(Owed(s)) = Cardinality(Owed(Front(s))) + 1
<1>1. /\ Len(s) \in Nat \ {0} /\ Len(Front(s)) = Len(s) - 1
      /\ \A d \in 1..Len(s) - 1 : Front(s)[d] = s[d]
      /\ Last(s) = s[Len(s)]
    BY PoppedFrames
<1>2. 1..Len(s) = (1..Len(s) - 1) \cup {Len(s)} /\ Len(s) \notin 1..Len(s) - 1
    BY <1>1
<1>3. Owed(s) = IF Last(s).last_closed THEN Owed(Front(s)) \cup {Len(s)} ELSE Owed(Front(s))
    BY <1>1, <1>2 DEF Owed
<1>4. Front(s) \in Seq(Frames)
    BY PoppedStack
<1>5. IsFiniteSet(Owed(Front(s))) /\ Len(s) \notin Owed(Front(s))
    BY <1>1, <1>2, <1>4, OwedIsFinite
<1>6. Cardinality(Owed(Front(s)) \cup {Len(s)}) = Cardinality(Owed(Front(s))) + 1
    BY <1>5, FS_AddElement
<1> QED
    BY <1>3, <1>6

LEMMA OwedReplaced ==
    ASSUME NEW s \in Seq(Frames), s # <<>>, NEW frame
    PROVE  /\ frame.last_closed = Last(s).last_closed =>
                  Cardinality(Owed(Append(Front(s), frame))) = Cardinality(Owed(s))
           /\ Last(s).last_closed /\ ~frame.last_closed =>
                  Cardinality(Owed(s)) = Cardinality(Owed(Append(Front(s), frame))) + 1
<1>1. Front(s) \in Seq(Frames)
    BY PoppedStack
<1>2. /\ ~frame.last_closed => Owed(Append(Front(s), frame)) = Owed(Front(s))
      /\ frame.last_closed =>
             Cardinality(Owed(Append(Front(s), frame))) = Cardinality(Owed(Front(s))) + 1
    BY <1>1, OwedPushed
<1> QED
    BY <1>2, OwedPopped

-----------------------------------------------------------------------------
(* Steps that leave the lists alone.                                       *)

LEMMA ListsTyped ==
    /\ HostTypeOK => lists \in [Slots -> Seq(Functions)]
    /\ HostTypeOK' => lists' \in [Slots -> Seq(Functions)]
  BY ListsAreTyped DEF HostTypeOK, Listing, lists

LEMMA HostListing ==
    ASSUME HostTypeOK
    PROVE  Listing(when_ready_resolvers, jobs, app_listeners, window_closed_listeners, stack)
  BY DEF HostTypeOK, Listing

(* The lists, were the stack as before.                                    *)
ListsBetween ==
    Lists(when_ready_resolvers', jobs', app_listeners', window_closed_listeners', stack)

LEMMA BetweenTyped ==
    ASSUME HostTypeOK, HostTypeOK'
    PROVE  /\ Listing(when_ready_resolvers', jobs', app_listeners', window_closed_listeners', stack)
           /\ ListsBetween \in [Slots -> Seq(Functions)]
<1>1. Listing(when_ready_resolvers', jobs', app_listeners', window_closed_listeners', stack)
    BY DEF HostTypeOK, Listing
<1> QED
    BY <1>1, ListsAreTyped DEF ListsBetween

LEMMA BetweenLists ==
    ASSUME HostTypeOK
    PROVE  /\ UNCHANGED <<when_ready_resolvers, jobs, app_listeners, window_closed_listeners>>
                  => ListsBetween = lists
           /\ \A x \in Seq(Functions) :
                 /\ jobs' = x /\ UNCHANGED <<when_ready_resolvers, app_listeners,
                                             window_closed_listeners>>
                       => ListsBetween = [lists EXCEPT ![Jobs] = x]
                 /\ when_ready_resolvers' = x /\ UNCHANGED <<jobs, app_listeners,
                                                             window_closed_listeners>>
                       => ListsBetween = [lists EXCEPT ![Resolvers] = x]
           /\ \A event \in AppEvents, x \in Seq(Functions) :
                 app_listeners' = [app_listeners EXCEPT ![event] = x]
                 /\ UNCHANGED <<when_ready_resolvers, jobs, window_closed_listeners>>
                       => ListsBetween = [lists EXCEPT ![OnApp(event)] = x]
           /\ \A w \in Windows, x \in Seq(Functions) :
                 window_closed_listeners' = [window_closed_listeners EXCEPT ![w] = x]
                 /\ UNCHANGED <<when_ready_resolvers, jobs, app_listeners>>
                       => ListsBetween = [lists EXCEPT ![OnWindow(w)] = x]
<1> DEFINE L(r, j, a, c) == Lists(r, j, a, c, stack)
<1>1. Listing(when_ready_resolvers, jobs, app_listeners, window_closed_listeners, stack)
    BY HostListing
<1>2. \A x \in Seq(Functions) :
          L(x, jobs, app_listeners, window_closed_listeners) =
              [L(when_ready_resolvers, jobs, app_listeners, window_closed_listeners)
                  EXCEPT ![Resolvers] = x]
    BY <1>1, ResolversSet
<1>3. \A x \in Seq(Functions) :
          L(when_ready_resolvers, x, app_listeners, window_closed_listeners) =
              [L(when_ready_resolvers, jobs, app_listeners, window_closed_listeners)
                  EXCEPT ![Jobs] = x]
    BY <1>1, JobsSet
<1>4. \A event \in AppEvents, x \in Seq(Functions) :
          L(when_ready_resolvers, jobs, [app_listeners EXCEPT ![event] = x],
            window_closed_listeners) =
              [L(when_ready_resolvers, jobs, app_listeners, window_closed_listeners)
                  EXCEPT ![OnApp(event)] = x]
    BY <1>1, OnAppSet
<1>5. \A w \in Windows, x \in Seq(Functions) :
          L(when_ready_resolvers, jobs, app_listeners,
            [window_closed_listeners EXCEPT ![w] = x]) =
              [L(when_ready_resolvers, jobs, app_listeners, window_closed_listeners)
                  EXCEPT ![OnWindow(w)] = x]
    BY <1>1, OnWindowSet
<1>6. lists = L(when_ready_resolvers, jobs, app_listeners, window_closed_listeners)
    BY DEF lists
<1>7. ListsBetween = L(when_ready_resolvers', jobs', app_listeners', window_closed_listeners')
    BY DEF ListsBetween
<1> HIDE DEF L
<1>8. ASSUME UNCHANGED <<when_ready_resolvers, jobs, app_listeners, window_closed_listeners>>
      PROVE  ListsBetween = lists
    BY <1>6, <1>7, <1>8
<1>9. ASSUME NEW x \in Seq(Functions), jobs' = x,
             UNCHANGED <<when_ready_resolvers, app_listeners, window_closed_listeners>>
      PROVE  ListsBetween = [lists EXCEPT ![Jobs] = x]
    BY <1>3, <1>6, <1>7, <1>9
<1>10. ASSUME NEW x \in Seq(Functions), when_ready_resolvers' = x,
              UNCHANGED <<jobs, app_listeners, window_closed_listeners>>
       PROVE  ListsBetween = [lists EXCEPT ![Resolvers] = x]
    BY <1>2, <1>6, <1>7, <1>10
<1>11. ASSUME NEW event \in AppEvents, NEW x \in Seq(Functions),
              app_listeners' = [app_listeners EXCEPT ![event] = x],
              UNCHANGED <<when_ready_resolvers, jobs, window_closed_listeners>>
       PROVE  ListsBetween = [lists EXCEPT ![OnApp(event)] = x]
    BY <1>4, <1>6, <1>7, <1>11
<1>12. ASSUME NEW w \in Windows, NEW x \in Seq(Functions),
              window_closed_listeners' = [window_closed_listeners EXCEPT ![w] = x],
              UNCHANGED <<when_ready_resolvers, jobs, app_listeners>>
       PROVE  ListsBetween = [lists EXCEPT ![OnWindow(w)] = x]
    BY <1>5, <1>6, <1>7, <1>12
<1> QED
    BY <1>8, <1>9, <1>10, <1>11, <1>12

LEMMA ListsKept ==
    ASSUME UNCHANGED stack
    PROVE  lists' = ListsBetween
  BY DEF lists, ListsBetween

LEMMA HostPushed ==
    ASSUME HostTypeOK, HostTypeOK', NEW frame \in Frames, Push(frame), NEW d, d = Len(stack) + 1
    PROVE  /\ d \in 1..MaxDepth /\ ListsBetween[Todo(d)] = <<>> /\ ListsBetween[Waits(d)] = <<>>
           /\ lists' = [ListsBetween EXCEPT ![Todo(d)] = frame.todo, ![Waits(d)] = frame.resolvers]
<1>1. Listing(when_ready_resolvers', jobs', app_listeners', window_closed_listeners', stack)
    BY BetweenTyped
<1>2. Len(stack) < MaxDepth /\ stack' = Append(stack, frame)
    BY DEF Push
<1>3. lists' = Lists(when_ready_resolvers', jobs', app_listeners', window_closed_listeners',
                    Append(stack, frame))
    BY <1>2 DEF lists
<1> QED
    BY <1>1, <1>2, <1>3, ListsPushed DEF ListsBetween

LEMMA HostReplaced ==
    ASSUME HostTypeOK, HostTypeOK', stack # <<>>, NEW frame \in Frames, Replace(frame),
           NEW d, d = Len(stack)
    PROVE  /\ d \in 1..MaxDepth
           /\ ListsBetween[Todo(d)] = Top.todo /\ ListsBetween[Waits(d)] = Top.resolvers
           /\ lists' = [ListsBetween EXCEPT ![Todo(d)] = frame.todo, ![Waits(d)] = frame.resolvers]
<1>1. Listing(when_ready_resolvers', jobs', app_listeners', window_closed_listeners', stack)
    BY BetweenTyped
<1>2. Len(stack) <= MaxDepth /\ stack' = Append(Front(stack), frame)
    BY DEF Replace, HostTypeOK
<1>3. lists' = Lists(when_ready_resolvers', jobs', app_listeners', window_closed_listeners',
                    Append(Front(stack), frame))
    BY <1>2 DEF lists
<1> QED
    BY <1>1, <1>2, <1>3, ListsReplaced DEF ListsBetween, Top

LEMMA NothingMoves ==
    ASSUME LifecycleInv, HostTypeOK', UNCHANGED <<lifecycleVars, jobs, stack, ran>>
    PROVE  LifecycleInv'
<1>1. lists' = lists
    BY DEF lists, lifecycleVars
<1> QED
    BY <1>1 DEF LifecycleInv, lifecycleVars, ReadyIsTold, ListsAreTidy, Announcements, HostIdle

(* The host starts on something that calls no function by itself.          *)
LEMMA PushKeepsInv ==
    ASSUME LifecycleInv, HostTypeOK', NEW frame \in Frames, Push(frame),
           frame.todo = <<>>, frame.resolvers = <<>>, ~frame.last_closed,
           HostIdle => frame.work \in Bottoms,
           UNCHANGED <<lifecycleVars, jobs, ran>>
    PROVE  LifecycleInv'
<1>1. stack \in Seq(Frames) /\ Len(stack) < MaxDepth /\ stack' = Append(stack, frame)
    BY DEF LifecycleInv, HostTypeOK, Push
<1>2. stack' # <<>>
    BY <1>1, PushedStack
<1>3. lists' = lists
  <2> DEFINE d == Len(stack) + 1
  <2>1. /\ d \in 1..MaxDepth /\ lists[Todo(d)] = <<>> /\ lists[Waits(d)] = <<>>
        /\ lists' = [lists EXCEPT ![Todo(d)] = frame.todo, ![Waits(d)] = frame.resolvers]
    <3>1. ListsBetween = lists
        BY BetweenLists DEF LifecycleInv, lifecycleVars
    <3> QED
        BY <3>1, HostPushed DEF LifecycleInv
  <2>2. lists \in [Slots -> Seq(Functions)]
      BY ListsTyped DEF LifecycleInv
  <2> HIDE DEF d
  <2> QED
      BY <2>1, <2>2
<1>4. StackShape(stack')
    BY <1>1, ShapePushed DEF LifecycleInv, FrameShape, HostIdle
<1>5. Owed(stack') = Owed(stack)
    BY <1>1, OwedPushed
<1> QED
    BY <1>2, <1>3, <1>4, <1>5
       DEF LifecycleInv, lifecycleVars, ReadyIsTold, ListsAreTidy, Announcements, HostIdle

(* The host is done with something, and the app may have quit meanwhile.   *)
LEMMA PopKeepsInv ==
    ASSUME LifecycleInv, HostTypeOK', stack # <<>>, Pop,
           Top.todo = <<>>, Top.resolvers = <<>>, ~Top.last_closed,
           Len(stack) = 1 => jobs = <<>>,
           app.ready = app'.ready, app.noted_zero = app'.noted_zero, app.quit => app'.quit,
           UNCHANGED <<app_listeners, when_ready_resolvers, windows, created,
                       window_closed_listeners, used, announced, emptied, jobs, ran>>
    PROVE  LifecycleInv'
<1>1. stack \in Seq(Frames) /\ Len(stack) <= MaxDepth /\ stack' = Front(stack)
    BY DEF LifecycleInv, HostTypeOK, Pop
<1>2. lists' = lists
    BY <1>1, HostListing, ListsPopped DEF LifecycleInv, lists, Top
<1>3. StackShape(stack') /\ (Len(stack) = 1 <=> stack' = <<>>)
    BY <1>1, ShapePopped DEF LifecycleInv
<1>4. Owed(stack') = Owed(stack)
    BY <1>1, OwedPopped DEF Top
<1> QED
    BY <1>2, <1>3, <1>4 DEF LifecycleInv, ReadyIsTold, ListsAreTidy, Announcements, HostIdle

(* The host turns from one thing to the next.                              *)
LEMMA ReplaceKeepsInv ==
    ASSUME LifecycleInv, HostTypeOK', stack # <<>>, NEW frame \in Frames, Replace(frame),
           Top.todo = <<>>, Top.resolvers = <<>>, ~Top.last_closed,
           frame.todo = <<>>, frame.resolvers = <<>>, ~frame.last_closed, frame.work \in Bottoms,
           UNCHANGED <<lifecycleVars, jobs, ran>>
    PROVE  LifecycleInv'
<1>1. stack \in Seq(Frames) /\ Len(stack) <= MaxDepth /\ stack' = Append(Front(stack), frame)
    BY DEF LifecycleInv, HostTypeOK, Replace
<1>2. stack' # <<>>
    BY <1>1, ReplacedStack
<1>3. lists' = lists
  <2> DEFINE d == Len(stack)
  <2>1. /\ d \in 1..MaxDepth /\ lists[Todo(d)] = <<>> /\ lists[Waits(d)] = <<>>
        /\ lists' = [lists EXCEPT ![Todo(d)] = frame.todo, ![Waits(d)] = frame.resolvers]
    <3>1. ListsBetween = lists
        BY BetweenLists DEF LifecycleInv, lifecycleVars
    <3> QED
        BY <3>1, HostReplaced DEF LifecycleInv
  <2>2. lists \in [Slots -> Seq(Functions)]
      BY ListsTyped DEF LifecycleInv
  <2> HIDE DEF d
  <2> QED
      BY <2>1, <2>2
<1>4. StackShape(stack')
    BY <1>1, ShapeReplaced DEF LifecycleInv, FrameShape
<1>5. Cardinality(Owed(stack')) = Cardinality(Owed(stack))
  <2>1. Last(stack) \in Frames
      BY <1>1, PoppedFrames
  <2>2. frame.last_closed = Last(stack).last_closed
      BY <2>1 DEF Top, Frames
  <2> QED
      BY <1>1, <2>2, OwedReplaced
<1> QED
    BY <1>2, <1>3, <1>4, <1>5
       DEF LifecycleInv, lifecycleVars, ReadyIsTold, ListsAreTidy, Announcements, HostIdle

LEMMA TopShape ==
    ASSUME LifecycleInv, stack # <<>>
    PROVE  /\ stack \in Seq(Frames) /\ Len(stack) \in Nat \ {0} /\ Len(stack) <= MaxDepth
           /\ Top \in Frames /\ FrameShape(Top)
           /\ Len(stack) > 1 => Top.resolvers = <<>>
           /\ Len(stack) = 1 => Top.work \in Bottoms
<1>1. stack \in Seq(Frames) /\ StackShape(stack) /\ Len(stack) <= MaxDepth
    BY DEF LifecycleInv, HostTypeOK
<1> QED
    BY <1>1, ShapePopped, PoppedFrames DEF Top

(* Nothing is left to do for a frame of plain work.                        *)
LEMMA PlainTop ==
    ASSUME LifecycleInv, NEW work \in {"script", "jobs", "microtask", "pump", "handler"},
           Working(work)
    PROVE  /\ stack # <<>> /\ Top.todo = <<>> /\ Top.resolvers = <<>> /\ ~Top.last_closed
           /\ Len(stack) = 1 => work # "handler"
<1>1. stack # <<>> /\ Top.work = work
    BY DEF Working
<1> QED
    BY <1>1, TopShape DEF FrameShape, Frames, Bottoms

LEMMA EvalKeepsLifecycle ==
    ASSUME LifecycleInv, HostTypeOK', Eval
    PROVE  LifecycleInv'
<1> DEFINE frame == [Frame("script", <<>>) EXCEPT !.calling = TRUE]
<1>1. frame \in Frames
    BY EmptySeq, FrameIsTyped, FrameFields DEF Works
<1>2. frame.work = "script" /\ frame.todo = <<>> /\ frame.resolvers = <<>> /\ ~frame.last_closed
    BY EmptyFrame
<1> HIDE DEF frame
<1>3. frame.work \in Bottoms
    BY <1>2 DEF Bottoms
<1>4. Push(frame) /\ UNCHANGED <<lifecycleVars, jobs, ran>>
    BY DEF Eval, frame, ipcVars
<1> QED
    BY <1>1, <1>2, <1>3, <1>4, PushKeepsInv

LEMMA CallHandlerKeepsLifecycle ==
    ASSUME LifecycleInv, HostTypeOK', CallHandler
    PROVE  LifecycleInv'
<1> DEFINE frame == [Frame("handler", <<>>) EXCEPT !.calling = TRUE]
<1>1. frame \in Frames
    BY EmptySeq, FrameIsTyped, FrameFields DEF Works
<1>2. frame.work = "handler" /\ frame.todo = <<>> /\ frame.resolvers = <<>> /\ ~frame.last_closed
    BY EmptyFrame
<1> HIDE DEF frame
<1>3. ~HostIdle
    BY DEF CallHandler, Working, HostIdle
<1>4. Push(frame) /\ UNCHANGED <<lifecycleVars, jobs, ran>>
    BY DEF CallHandler, frame, ipcVars
<1> QED
    BY <1>1, <1>2, <1>3, <1>4, PushKeepsInv

LEMMA ServeSendKeepsLifecycle ==
    ASSUME LifecycleInv, HostTypeOK', ServeSend
    PROVE  LifecycleInv'
<1> DEFINE frame == [Frame("handler", <<>>) EXCEPT !.calling = TRUE]
<1>1. frame \in Frames
    BY EmptySeq, FrameIsTyped, FrameFields DEF Works
<1>2. frame.work = "handler" /\ frame.todo = <<>> /\ frame.resolvers = <<>> /\ ~frame.last_closed
    BY EmptyFrame
<1> HIDE DEF frame
<1>3. ~HostIdle
    BY DEF ServeSend, Working, HostIdle
<1>4. Push(frame) /\ UNCHANGED <<lifecycleVars, jobs, ran>>
    BY DEF ServeSend, frame, ipcVars
<1> QED
    BY <1>1, <1>2, <1>3, <1>4, PushKeepsInv

LEMMA PumpIpcKeepsLifecycle ==
    ASSUME LifecycleInv, HostTypeOK', PumpIpc
    PROVE  LifecycleInv'
<1> DEFINE frame == Frame("pump", <<>>)
<1>1. frame \in Frames
    BY EmptySeq, FrameIsTyped, FrameFields DEF Works
<1>2. frame.work = "pump" /\ frame.todo = <<>> /\ frame.resolvers = <<>> /\ ~frame.last_closed
    BY EmptyFrame
<1> HIDE DEF frame
<1>3. frame.work \in Bottoms
    BY <1>2 DEF Bottoms
<1>4. Push(frame) /\ UNCHANGED <<lifecycleVars, jobs, ran>>
    BY DEF PumpIpc, frame, ipcVars
<1> QED
    BY <1>1, <1>2, <1>3, <1>4, PushKeepsInv

LEMMA JobsDoneKeepsLifecycle ==
    ASSUME LifecycleInv, HostTypeOK', JobsDone
    PROVE  LifecycleInv'
<1>1. stack # <<>> /\ Top.todo = <<>> /\ Top.resolvers = <<>> /\ ~Top.last_closed
    BY PlainTop DEF JobsDone, InJobs
<1>2. jobs = <<>>
    BY DEF JobsDone
<1>3. Pop /\ UNCHANGED <<lifecycleVars, jobs, ran>>
    BY DEF JobsDone
<1> QED
    BY <1>1, <1>2, <1>3, PopKeepsInv DEF lifecycleVars

LEMMA HandlerDoneKeepsLifecycle ==
    ASSUME LifecycleInv, HostTypeOK', HandlerDone
    PROVE  LifecycleInv'
<1>1. /\ stack # <<>> /\ Top.todo = <<>> /\ Top.resolvers = <<>> /\ ~Top.last_closed
      /\ Len(stack) = 1 => "handler" # "handler"
    BY PlainTop DEF HandlerDone
<1>2. Len(stack) = 1 => jobs = <<>>
    BY <1>1 DEF HandlerDone
<1>3. Pop /\ UNCHANGED <<lifecycleVars, jobs, ran>>
    BY DEF HandlerDone, Settled
<1> QED
    BY <1>1, <1>2, <1>3, PopKeepsInv DEF lifecycleVars

LEMMA ListenerDoneKeepsLifecycle ==
    ASSUME LifecycleInv, HostTypeOK', ListenerDone
    PROVE  LifecycleInv'
<1>1. /\ stack # <<>> /\ Top.todo = <<>> /\ Top.resolvers = <<>> /\ ~Top.last_closed
      /\ Len(stack) = 1 => "handler" # "handler"
    BY PlainTop DEF ListenerDone
<1>2. Len(stack) = 1 => jobs = <<>>
    BY <1>1 DEF ListenerDone
<1>3. Pop /\ UNCHANGED <<lifecycleVars, jobs, ran>>
    BY DEF ListenerDone
<1> QED
    BY <1>1, <1>2, <1>3, PopKeepsInv DEF lifecycleVars

LEMMA ReturnToScriptKeepsLifecycle ==
    ASSUME LifecycleInv, HostTypeOK', ReturnToScript
    PROVE  LifecycleInv'
<1>1. /\ stack # <<>> /\ Top.todo = <<>>
      /\ Top.work = "window-all-closed" \/ (Top.work = "ready" /\ Len(stack) > 1)
    BY DEF ReturnToScript, Working
<1>2. /\ FrameShape(Top) /\ Top.last_closed \in BOOLEAN /\ Len(stack) \in Nat
      /\ Len(stack) > 1 => Top.resolvers = <<>>
      /\ Len(stack) = 1 => Top.work \in Bottoms
    BY <1>1, TopShape DEF Frames
<1>3. ~Top.last_closed
    BY <1>1, <1>2 DEF FrameShape
<1>4. Len(stack) # 1 /\ Top.resolvers = <<>>
  <2>1. CASE Top.work = "window-all-closed"
      BY <1>2, <2>1 DEF FrameShape, Bottoms
  <2>2. CASE Top.work = "ready" /\ Len(stack) > 1
    <3>1. \A n \in Nat : n > 1 => n # 1
        OBVIOUS
    <3> QED
        BY <1>2, <2>2, <3>1
  <2> QED
      BY <1>1, <2>1, <2>2
<1>5. Pop /\ UNCHANGED <<lifecycleVars, jobs, ran>>
    BY DEF ReturnToScript
<1> QED
    BY <1>1, <1>3, <1>4, <1>5, PopKeepsInv DEF lifecycleVars

LEMMA WillQuitDoneKeepsLifecycle ==
    ASSUME LifecycleInv, HostTypeOK', WillQuitDone
    PROVE  LifecycleInv'
<1>1. stack # <<>> /\ Top.todo = <<>> /\ Top.work = "will-quit"
    BY DEF WillQuitDone, Working
<1>2. Top.resolvers = <<>> /\ ~Top.last_closed /\ Len(stack) # 1
    BY <1>1, TopShape DEF FrameShape, Frames, Bottoms
<1>3. app.ready = app'.ready /\ app.noted_zero = app'.noted_zero /\ app'.quit
    BY DEF WillQuitDone, LifecycleInv, HostTypeOK
<1> QED
    BY <1>1, <1>2, <1>3, PopKeepsInv DEF WillQuitDone

LEMMA ScriptDoneKeepsLifecycle ==
    ASSUME LifecycleInv, HostTypeOK', ScriptDone
    PROVE  LifecycleInv'
<1> DEFINE frame == Frame("jobs", <<>>)
<1>1. frame \in Frames
    BY EmptySeq, FrameIsTyped DEF Works
<1>2. frame.work \in Bottoms /\ frame.todo = <<>> /\ frame.resolvers = <<>> /\ ~frame.last_closed
    BY EmptyFrame DEF Bottoms
<1>3. stack # <<>> /\ Top.todo = <<>> /\ Top.resolvers = <<>> /\ ~Top.last_closed
    BY PlainTop DEF ScriptDone
<1>4. Replace(frame) /\ UNCHANGED <<lifecycleVars, jobs, ran>>
    BY DEF ScriptDone
<1> HIDE DEF frame
<1> QED
    BY <1>1, <1>2, <1>3, <1>4, ReplaceKeepsInv

LEMMA PumpDoneKeepsLifecycle ==
    ASSUME LifecycleInv, HostTypeOK', PumpDone
    PROVE  LifecycleInv'
<1> DEFINE frame == Frame("jobs", <<>>)
<1>1. frame \in Frames
    BY EmptySeq, FrameIsTyped DEF Works
<1>2. frame.work \in Bottoms /\ frame.todo = <<>> /\ frame.resolvers = <<>> /\ ~frame.last_closed
    BY EmptyFrame DEF Bottoms
<1>3. stack # <<>> /\ Top.todo = <<>> /\ Top.resolvers = <<>> /\ ~Top.last_closed
    BY PlainTop DEF PumpDone
<1>4. Replace(frame) /\ UNCHANGED <<lifecycleVars, jobs, ran>>
    BY DEF PumpDone
<1> HIDE DEF frame
<1> QED
    BY <1>1, <1>2, <1>3, <1>4, ReplaceKeepsInv

LEMMA WindowCreateKeepsLifecycle ==
    ASSUME LifecycleInv, HostTypeOK', WindowCreate
    PROVE  LifecycleInv'
<1>1. lists' = lists
    BY DEF WindowCreate, lists
<1>2. windows \subseteq windows'
    BY DEF WindowCreate
<1> QED
    BY <1>1, <1>2
       DEF WindowCreate, LifecycleInv, ReadyIsTold, ListsAreTidy, Announcements, HostIdle

-----------------------------------------------------------------------------
(* Steps that call a function.                                             *)

LEMMA CallNextKeepsLifecycle ==
    ASSUME LifecycleInv, HostTypeOK', CallNext
    PROVE  LifecycleInv'
<1> DEFINE frame == [Top EXCEPT !.todo = Tail(@), !.calling = TRUE]
           d == Len(stack)
<1>1. stack # <<>> /\ Top.todo # <<>>
    BY DEF CallNext
<1>2. /\ stack \in Seq(Frames) /\ Len(stack) \in Nat \ {0} /\ Len(stack) <= MaxDepth
      /\ Top \in Frames /\ FrameShape(Top)
      /\ Len(stack) > 1 => Top.resolvers = <<>>
      /\ Len(stack) = 1 => Top.work \in Bottoms
    BY <1>1, TopShape
<1>3. frame \in Frames /\ frame.work = Top.work
    BY <1>1, <1>2, FrameAhead
<1>4. /\ frame.todo = Tail(Top.todo) /\ frame.resolvers = Top.resolvers
      /\ frame.last_closed = Top.last_closed
    BY <1>2 DEF Frames
<1>5. FrameShape(frame)
    BY <1>1, <1>2, <1>3, <1>4 DEF FrameShape
<1>6. stack' = Append(Front(stack), frame)
    BY DEF CallNext, Replace
<1> HIDE DEF frame
<1>7. /\ d \in 1..MaxDepth /\ lists[Todo(d)] = Top.todo /\ lists[Waits(d)] = Top.resolvers
      /\ lists' = [lists EXCEPT ![Todo(d)] = Tail(Top.todo), ![Waits(d)] = Top.resolvers]
  <2>1. ListsBetween = lists
      BY BetweenLists DEF LifecycleInv, CallNext, lifecycleVars
  <2>2. Replace(frame)
      BY <1>6 DEF Replace
  <2>3. /\ d \in 1..MaxDepth /\ ListsBetween[Todo(d)] = Top.todo /\ ListsBetween[Waits(d)] = Top.resolvers
        /\ lists' = [ListsBetween EXCEPT ![Todo(d)] = frame.todo, ![Waits(d)] = frame.resolvers]
      BY <1>1, <1>3, <2>2, HostReplaced DEF LifecycleInv
  <2> QED
      BY <1>4, <2>1, <2>3
<1> HIDE DEF d
<1>8. lists \in [Slots -> Seq(Functions)] /\ lists' \in [Slots -> Seq(Functions)]
    BY ListsTyped DEF LifecycleInv
<1>9. /\ Todo(d) \in Slots /\ lists'[Todo(d)] = Tail(lists[Todo(d)])
      /\ \A p \in Slots : p # Todo(d) => lists'[p] = lists[p]
    BY <1>7, <1>8, SlotsDiffer
<1>10. ran' = [ran EXCEPT ![Head(lists[Todo(d)])] = @ + 1] /\ ran \in [Functions -> Nat]
    BY <1>7 DEF CallNext, LifecycleInv, HostTypeOK
<1>11. Accounted(lists', used, ran')
    BY <1>1, <1>7, <1>8, <1>9, <1>10, FunctionCalled DEF LifecycleInv
<1>12. StackShape(stack')
    BY <1>1, <1>2, <1>3, <1>4, <1>5, <1>6, ShapeReplaced DEF LifecycleInv
<1>13. Cardinality(Owed(stack')) = Cardinality(Owed(stack))
    BY <1>1, <1>2, <1>4, <1>6, OwedReplaced DEF Top
<1>14. stack' # <<>>
    BY <1>1, <1>2, <1>3, <1>6, ReplacedStack
<1> QED
    BY <1>11, <1>12, <1>13, <1>14
       DEF CallNext, LifecycleInv, lifecycleVars, ReadyIsTold, ListsAreTidy, Announcements, HostIdle

LEMMA RunJobKeepsLifecycle ==
    ASSUME LifecycleInv, HostTypeOK', RunJob
    PROVE  LifecycleInv'
<1> DEFINE d == Len(stack)
<1>1. stack # <<>> /\ jobs # <<>> /\ Top.work \in {"jobs", "microtask"}
    BY RunJobReplaces DEF RunJob
<1>2. /\ stack \in Seq(Frames) /\ Len(stack) \in Nat \ {0} /\ Len(stack) <= MaxDepth
      /\ Top \in Frames /\ FrameShape(Top)
      /\ Len(stack) > 1 => Top.resolvers = <<>>
    BY <1>1, TopShape
<1>3. PICK work \in {"jobs", "microtask"} : Replace([Top EXCEPT !.work = work, !.calling = TRUE])
    BY RunJobReplaces
<1> DEFINE frame == [Top EXCEPT !.work = work, !.calling = TRUE]
<1>4. /\ frame \in Frames /\ frame.work = work
      /\ frame.todo = Top.todo /\ frame.resolvers = Top.resolvers
      /\ frame.last_closed = Top.last_closed
    BY <1>2, JobFrame
<1> HIDE DEF frame
<1>5. FrameShape(frame) /\ frame.work \in Bottoms
    BY <1>1, <1>2, <1>4 DEF FrameShape, Bottoms
<1>6. stack' = Append(Front(stack), frame)
    BY <1>3 DEF frame, Replace
<1>7. Tail(jobs) \in Seq(Functions)
    BY <1>1 DEF LifecycleInv, HostTypeOK
<1>8. ListsBetween = [lists EXCEPT ![Jobs] = Tail(jobs)]
    BY <1>7, BetweenLists DEF LifecycleInv, RunJob, lifecycleVars
<1>9. Replace(frame)
    BY <1>6 DEF Replace
<1>10. /\ d \in 1..MaxDepth /\ ListsBetween[Todo(d)] = Top.todo /\ ListsBetween[Waits(d)] = Top.resolvers
       /\ lists' = [ListsBetween EXCEPT ![Todo(d)] = Top.todo, ![Waits(d)] = Top.resolvers]
    BY <1>1, <1>4, <1>9, HostReplaced DEF LifecycleInv
<1> HIDE DEF d
<1>11. lists \in [Slots -> Seq(Functions)] /\ lists' \in [Slots -> Seq(Functions)]
    BY ListsTyped DEF LifecycleInv
<1>12. lists' = [lists EXCEPT ![Jobs] = Tail(jobs)]
    BY <1>8, <1>10, <1>11
<1>13. lists[Jobs] = jobs /\ Jobs \in Slots
    BY ListsAt, SlotsDiffer DEF lists
<1>14. /\ lists'[Jobs] = Tail(lists[Jobs])
       /\ \A p \in Slots : p # Jobs => lists'[p] = lists[p]
    BY <1>11, <1>12, <1>13
<1>15. ran' = [ran EXCEPT ![Head(lists[Jobs])] = @ + 1] /\ ran \in [Functions -> Nat]
    BY <1>13 DEF RunJob, LifecycleInv, HostTypeOK
<1>16. Accounted(lists', used, ran')
    BY <1>1, <1>11, <1>13, <1>14, <1>15, FunctionCalled DEF LifecycleInv
<1>17. StackShape(stack')
    BY <1>1, <1>2, <1>4, <1>5, <1>6, ShapeReplaced DEF LifecycleInv
<1>18. Cardinality(Owed(stack')) = Cardinality(Owed(stack))
    BY <1>1, <1>2, <1>4, <1>6, OwedReplaced DEF Top
<1>19. stack' # <<>>
    BY <1>1, <1>2, <1>4, <1>6, ReplacedStack
<1> QED
    BY <1>16, <1>17, <1>18, <1>19
       DEF RunJob, LifecycleInv, lifecycleVars, ReadyIsTold, ListsAreTidy, Announcements, HostIdle

(* A microtask throws, and the jobs behind it are lost.                    *)
LEMMA JobThrowsKeepsLifecycle ==
    ASSUME LifecycleInv, HostTypeOK', Late(jobs, used), JobThrows
    PROVE  LifecycleInv'
<1>1. stack # <<>> /\ Top.todo = <<>> /\ Top.resolvers = <<>> /\ ~Top.last_closed
    BY PlainTop DEF JobThrows
<1>2. stack \in Seq(Frames) /\ Len(stack) <= MaxDepth /\ stack' = Front(stack)
    BY DEF LifecycleInv, HostTypeOK, JobThrows, Pop
<1>3. jobs' = <<>> /\ <<>> \in Seq(Functions) /\ jobs \in Seq(Functions)
      /\ used \in [Functions -> Purposes \cup {"no", "lost"}]
    BY DEF JobThrows, LifecycleInv, HostTypeOK
<1>4. lists \in [Slots -> Seq(Functions)] /\ lists' \in [Slots -> Seq(Functions)]
    BY ListsTyped DEF LifecycleInv
<1>5. Jobs \in Slots /\ lists[Jobs] = jobs
    BY ListsAt, SlotsDiffer DEF lists
<1>6. lists' = [lists EXCEPT ![Jobs] = <<>>]
  <2>1. ListsBetween = [lists EXCEPT ![Jobs] = <<>>]
      BY <1>3, BetweenLists DEF JobThrows, LifecycleInv
  <2>2. Listing(when_ready_resolvers', jobs', app_listeners', window_closed_listeners', stack)
      BY BetweenTyped DEF LifecycleInv
  <2>3. lists' = ListsBetween
      BY <1>1, <1>2, <2>2, ListsPopped DEF lists, ListsBetween, Top
  <2> QED
      BY <2>1, <2>3
<1>7. lists'[Jobs] = <<>> /\ \A p \in Slots : p # Jobs => lists'[p] = lists[p]
    BY <1>4, <1>5, <1>6
<1>8. \A f : f \in ToSet(jobs) <=> \E i \in 1..Len(lists[Jobs]) : lists[Jobs][i] = f
  <2>1. DOMAIN jobs = 1..Len(jobs)
      BY <1>3
  <2> QED
      BY <1>5, <2>1 DEF ToSet
<1>9. Loses(lists[Jobs], used, used')
    BY <1>8 DEF JobThrows, Dropped, Loses
<1>10. Accounted(lists', used', ran)
  <2>1. Late(lists[Jobs], used)
      BY <1>5
  <2>2. Accounted(lists, used, ran)
      BY DEF LifecycleInv
  <2> QED
      BY <1>4, <1>5, <1>7, <1>9, <2>1, <2>2, ListDropped
<1>11. \A i \in 1..Len(app_listeners["window-all-closed"]) :
           used'[app_listeners["window-all-closed"][i]] = "recurring"
  <2> SUFFICES ASSUME NEW i \in 1..Len(app_listeners["window-all-closed"])
               PROVE  used'[app_listeners["window-all-closed"][i]] = "recurring"
      OBVIOUS
  <2>1. used[app_listeners["window-all-closed"][i]] = "recurring"
      BY DEF LifecycleInv, ListsAreTidy
  <2>2. app_listeners["window-all-closed"][i] \in Functions
      BY ElementOfSeq DEF LifecycleInv, HostTypeOK, AppEvents
  <2> QED
      BY <1>9, <2>1, <2>2 DEF Deferred, Loses
<1>12. StackShape(stack')
    BY <1>1, <1>2, ShapePopped DEF LifecycleInv
<1>13. Owed(stack') = Owed(stack)
    BY <1>1, <1>2, OwedPopped DEF Top
<1> QED
    BY <1>3, <1>10, <1>11, <1>12, <1>13
       DEF JobThrows, LifecycleInv, ReadyIsTold, ListsAreTidy, Announcements, HostIdle

-----------------------------------------------------------------------------
(* Steps that hand a function to the host.                                 *)

LEMMA RecurringStay ==
    ASSUME LifecycleInv, NEW f \in Functions, NEW purpose \in Purposes,
           Handed(f, purpose)
    PROVE  /\ used \in [Functions -> Purposes \cup {"no", "lost"}] /\ used[f] = "no"
           /\ used' = [used EXCEPT ![f] = purpose] /\ used'[f] = purpose
           /\ app_listeners["window-all-closed"] \in Seq(Functions)
           /\ \A i \in 1..Len(app_listeners["window-all-closed"]) :
                 used'[app_listeners["window-all-closed"][i]] = "recurring"
<1>1. /\ used \in [Functions -> Purposes \cup {"no", "lost"}] /\ used[f] = "no"
      /\ used' = [used EXCEPT ![f] = purpose] /\ used'[f] = purpose
      /\ app_listeners["window-all-closed"] \in Seq(Functions)
    BY DEF LifecycleInv, HostTypeOK, Handed, AppEvents
<1>2. ASSUME NEW i \in 1..Len(app_listeners["window-all-closed"])
      PROVE  used'[app_listeners["window-all-closed"][i]] = "recurring"
  <2>1. app_listeners["window-all-closed"][i] \in Functions
      BY <1>1, ElementOfSeq
  <2>2. used[app_listeners["window-all-closed"][i]] = "recurring"
      BY DEF LifecycleInv, ListsAreTidy
  <2> QED
      BY <1>1, <2>1, <2>2
<1> QED
    BY <1>1, <1>2

LEMMA QueueMicrotaskKeepsLifecycle ==
    ASSUME LifecycleInv, HostTypeOK', NEW f \in Functions, QueueMicrotask(f)
    PROVE  LifecycleInv'
<1>1. /\ used \in [Functions -> Purposes \cup {"no", "lost"}] /\ used[f] = "no"
      /\ used' = [used EXCEPT ![f] = "microtask"] /\ "microtask" \in Purposes
      /\ \A i \in 1..Len(app_listeners["window-all-closed"]) :
            used'[app_listeners["window-all-closed"][i]] = "recurring"
    BY RecurringStay DEF QueueMicrotask, Purposes, Deferred
<1>2. lists \in [Slots -> Seq(Functions)] /\ lists' \in [Slots -> Seq(Functions)]
    BY ListsTyped DEF LifecycleInv
<1>3. Append(jobs, f) \in Seq(Functions)
    BY AppendProperties DEF LifecycleInv, HostTypeOK
<1>4. Jobs \in Slots /\ lists[Jobs] = jobs
    BY ListsAt, SlotsDiffer DEF lists
<1>5. lists' = [lists EXCEPT ![Jobs] = Append(jobs, f)]
    BY <1>3, BetweenLists, ListsKept DEF QueueMicrotask, LifecycleInv
<1>6. /\ lists'[Jobs] = Append(lists[Jobs], f)
      /\ \A p \in Slots : p # Jobs => lists'[p] = lists[p]
    BY <1>2, <1>4, <1>5
<1>7. Accounted(lists', used', ran)
    BY <1>1, <1>2, <1>4, <1>6, FunctionListed DEF LifecycleInv
<1>8. stack' # <<>>
    BY DEF QueueMicrotask, Running
<1> QED
    BY <1>1, <1>7, <1>8
       DEF QueueMicrotask, LifecycleInv, ReadyIsTold, ListsAreTidy, Announcements, HostIdle

LEMMA WhenReadyKeepsLifecycle ==
    ASSUME LifecycleInv, HostTypeOK', NEW f \in Functions, WhenReady(f)
    PROVE  LifecycleInv'
<1>1. /\ used \in [Functions -> Purposes \cup {"no", "lost"}] /\ used[f] = "no"
      /\ used' = [used EXCEPT ![f] = "continuation"]
      /\ \A i \in 1..Len(app_listeners["window-all-closed"]) :
            used'[app_listeners["window-all-closed"][i]] = "recurring"
    BY RecurringStay DEF WhenReady, Purposes, Deferred
<1>2. lists \in [Slots -> Seq(Functions)] /\ lists' \in [Slots -> Seq(Functions)]
    BY ListsTyped DEF LifecycleInv
<1>3. /\ Listing(when_ready_resolvers, jobs, app_listeners, window_closed_listeners, stack)
      /\ Append(when_ready_resolvers, f) \in Seq(Functions) /\ Append(jobs, f) \in Seq(Functions)
    BY HostListing, AppendProperties DEF LifecycleInv, Listing
<1>4. Jobs \in Slots /\ Resolvers \in Slots
      /\ lists[Jobs] = jobs /\ lists[Resolvers] = when_ready_resolvers
    BY ListsAt, SlotsDiffer DEF lists
<1>5. \E p \in {Jobs, Resolvers} : lists' = [lists EXCEPT ![p] = Append(lists[p], f)]
  <2>1. CASE app.ready
    <3>1. lists' = [lists EXCEPT ![Jobs] = Append(jobs, f)]
        BY <1>3, <2>1, BetweenLists, ListsKept DEF WhenReady, LifecycleInv
    <3> QED
        BY <1>4, <3>1
  <2>2. CASE ~app.ready
    <3>1. lists' = [lists EXCEPT ![Resolvers] = Append(when_ready_resolvers, f)]
        BY <1>3, <2>2, BetweenLists, ListsKept DEF WhenReady, LifecycleInv
    <3> QED
        BY <1>4, <3>1
  <2> QED
      BY <2>1, <2>2
<1>6. PICK p \in {Jobs, Resolvers} : lists' = [lists EXCEPT ![p] = Append(lists[p], f)]
    BY <1>5
<1>7. /\ p \in Slots /\ lists'[p] = Append(lists[p], f)
      /\ \A q \in Slots : q # p => lists'[q] = lists[q]
    BY <1>2, <1>4, <1>6
<1>8. Accounted(lists', used', ran)
  <2>1. "continuation" \in Purposes
      BY DEF Purposes, Deferred
  <2> QED
      BY <1>1, <1>2, <1>7, <2>1, FunctionListed DEF LifecycleInv
<1>9. ReadyIsTold'
    BY DEF WhenReady, LifecycleInv, ReadyIsTold
<1>10. stack' # <<>>
    BY DEF WhenReady, Running
<1> QED
    BY <1>1, <1>8, <1>9, <1>10
       DEF WhenReady, LifecycleInv, ListsAreTidy, Announcements, HostIdle

LEMMA WindowOnKeepsLifecycle ==
    ASSUME LifecycleInv, HostTypeOK', NEW w \in Windows, NEW f \in Functions, WindowOn(w, f)
    PROVE  LifecycleInv'
<1>1. /\ used \in [Functions -> Purposes \cup {"no", "lost"}] /\ used[f] = "no"
      /\ used' = [used EXCEPT ![f] = "once"]
      /\ \A i \in 1..Len(app_listeners["window-all-closed"]) :
            used'[app_listeners["window-all-closed"][i]] = "recurring"
    BY RecurringStay DEF WindowOn, Purposes
<1>2. lists \in [Slots -> Seq(Functions)] /\ lists' \in [Slots -> Seq(Functions)]
    BY ListsTyped DEF LifecycleInv
<1>3. /\ Listing(when_ready_resolvers, jobs, app_listeners, window_closed_listeners, stack)
      /\ Append(window_closed_listeners[w], f) \in Seq(Functions)
      /\ window_closed_listeners \in [Windows -> Seq(Functions)]
    BY HostListing, AppendProperties DEF LifecycleInv, Listing
<1>4. OnWindow(w) \in Slots /\ lists[OnWindow(w)] = window_closed_listeners[w]
    BY ListsAt, SlotsDiffer DEF lists
<1>5. lists' = [lists EXCEPT ![OnWindow(w)] = Append(window_closed_listeners[w], f)]
    BY <1>3, BetweenLists, ListsKept DEF WindowOn, LifecycleInv
<1>6. /\ lists'[OnWindow(w)] = Append(lists[OnWindow(w)], f)
      /\ \A q \in Slots : q # OnWindow(w) => lists'[q] = lists[q]
    BY <1>2, <1>4, <1>5
<1>7. Accounted(lists', used', ran)
  <2>1. "once" \in Purposes
      BY DEF Purposes
  <2> QED
      BY <1>1, <1>2, <1>4, <1>6, <2>1, FunctionListed DEF LifecycleInv
<1>8. \A v \in Windows \ windows' : window_closed_listeners'[v] = <<>>
    BY <1>3 DEF WindowOn, LifecycleInv, ListsAreTidy
<1>9. stack' # <<>>
    BY DEF WindowOn, Running
<1> QED
    BY <1>1, <1>7, <1>8, <1>9
       DEF WindowOn, LifecycleInv, ReadyIsTold, ListsAreTidy, Announcements, HostIdle

LEMMA AppOnKeepsLifecycle ==
    ASSUME LifecycleInv, HostTypeOK', NEW event \in AppEvents, NEW f \in Functions,
           AppOn(event, f)
    PROVE  LifecycleInv'
<1> DEFINE purpose == IF event = "window-all-closed" THEN "recurring" ELSE "once"
<1>1. Handed(f, purpose) /\ purpose \in Purposes /\ stack # <<>>
    BY DEF AppOn, Running, Purposes
<1>2. /\ used \in [Functions -> Purposes \cup {"no", "lost"}] /\ used[f] = "no"
      /\ used' = [used EXCEPT ![f] = purpose] /\ used'[f] = purpose
      /\ app_listeners["window-all-closed"] \in Seq(Functions)
      /\ \A i \in 1..Len(app_listeners["window-all-closed"]) :
            used'[app_listeners["window-all-closed"][i]] = "recurring"
    BY <1>1, RecurringStay
<1>3. lists \in [Slots -> Seq(Functions)] /\ lists' \in [Slots -> Seq(Functions)]
    BY ListsTyped DEF LifecycleInv
<1>4. CASE event = "ready" /\ app.ready
  <2> DEFINE frame == Frame("ready", <<f>>)
             d == Len(stack) + 1
  <2>1. frame \in Frames
      BY FrameIsTyped, OneFunction DEF Works
  <2>2. /\ frame.todo = <<f>> /\ frame.resolvers = <<>> /\ ~frame.last_closed
        /\ frame.work = "ready"
      BY DEF Frame
  <2>3. Push(frame) /\ UNCHANGED app_listeners
      BY <1>4 DEF AppOn
  <2>4. stack' = Append(stack, frame)
      BY <2>3 DEF Push
  <2> HIDE DEF frame
  <2>5. ListsBetween = lists
      BY <2>3, BetweenLists DEF LifecycleInv, AppOn
  <2>6. /\ d \in 1..MaxDepth /\ lists[Todo(d)] = <<>> /\ lists[Waits(d)] = <<>>
        /\ lists' = [lists EXCEPT ![Todo(d)] = frame.todo, ![Waits(d)] = frame.resolvers]
      BY <2>1, <2>3, <2>5, HostPushed DEF LifecycleInv
  <2> HIDE DEF d
  <2>7. <<f>> = Append(<<>>, f)
      OBVIOUS
  <2>8. /\ Todo(d) \in Slots /\ lists'[Todo(d)] = Append(lists[Todo(d)], f)
        /\ \A p \in Slots : p # Todo(d) => lists'[p] = lists[p]
      BY <1>3, <2>2, <2>6, <2>7, SlotsDiffer
  <2>9. Accounted(lists', used', ran)
      BY <1>1, <1>2, <1>3, <2>8, FunctionListed DEF LifecycleInv
  <2>10. StackShape(stack') /\ stack' # <<>>
    <3>1. stack \in Seq(Frames) /\ StackShape(stack) /\ FrameShape(frame)
        BY <2>2 DEF LifecycleInv, HostTypeOK, FrameShape
    <3> QED
        BY <1>1, <2>1, <2>2, <2>4, <3>1, ShapePushed, PushedStack
  <2>11. Owed(stack') = Owed(stack)
      BY <2>2, <2>4, OwedPushed DEF LifecycleInv, HostTypeOK
  <2> QED
      BY <1>2, <2>3, <2>9, <2>10, <2>11
         DEF AppOn, LifecycleInv, ReadyIsTold, ListsAreTidy, Announcements, HostIdle
<1>5. CASE ~(event = "ready" /\ app.ready)
  <2>1. /\ app_listeners' = [app_listeners EXCEPT ![event] = Append(@, f)] /\ UNCHANGED stack
        /\ app_listeners \in [AppEvents -> Seq(Functions)]
      BY <1>5 DEF AppOn, LifecycleInv, HostTypeOK
  <2>2. Append(app_listeners[event], f) \in Seq(Functions)
      BY <2>1, AppendProperties
  <2>3. lists' = [lists EXCEPT ![OnApp(event)] = Append(app_listeners[event], f)]
      BY <2>1, <2>2, BetweenLists, ListsKept DEF AppOn, LifecycleInv
  <2>4. OnApp(event) \in Slots /\ lists[OnApp(event)] = app_listeners[event]
      BY ListsAt, SlotsDiffer DEF lists
  <2>5. /\ lists'[OnApp(event)] = Append(lists[OnApp(event)], f)
        /\ \A p \in Slots : p # OnApp(event) => lists'[p] = lists[p]
      BY <1>3, <2>3, <2>4
  <2>6. Accounted(lists', used', ran)
      BY <1>1, <1>2, <1>3, <2>4, <2>5, FunctionListed DEF LifecycleInv
  <2>7. ReadyIsTold'
      BY <1>5, <2>1 DEF AppOn, LifecycleInv, ReadyIsTold
  <2>8. \A i \in 1..Len(app_listeners'["window-all-closed"]) :
            used'[app_listeners'["window-all-closed"][i]] = "recurring"
    <3>1. CASE event = "window-all-closed"
      <4> DEFINE s == app_listeners["window-all-closed"]
      <4>1. app_listeners'["window-all-closed"] = Append(s, f)
          BY <2>1, <3>1
      <4>2. used'[f] = "recurring"
          BY <1>2, <3>1
      <4>3. s \in Seq(Functions) /\ \A i \in 1..Len(s) : used'[s[i]] = "recurring"
          BY <1>2
      <4> HIDE DEF s
      <4>4. /\ Len(s) \in Nat /\ Len(Append(s, f)) = Len(s) + 1
            /\ \A i \in 1..Len(s) : Append(s, f)[i] = s[i]
            /\ Append(s, f)[Len(s) + 1] = f
          BY <4>3, AppendProperties
      <4>5. ASSUME NEW i \in 1..Len(s) + 1 PROVE used'[Append(s, f)[i]] = "recurring"
        <5>1. i \in 1..Len(s) \/ i = Len(s) + 1
            BY <4>4
        <5> QED
            BY <4>2, <4>3, <4>4, <5>1
      <4> QED
          BY <4>1, <4>4, <4>5
    <3>2. CASE event # "window-all-closed"
      <4>1. app_listeners'["window-all-closed"] = app_listeners["window-all-closed"]
          BY <2>1, <3>2
      <4> QED
          BY <1>2, <4>1
    <3> QED
        BY <3>1, <3>2
  <2> QED
      BY <1>1, <2>1, <2>6, <2>7, <2>8
         DEF AppOn, LifecycleInv, ListsAreTidy, Announcements, HostIdle
<1> QED
    BY <1>4, <1>5

-----------------------------------------------------------------------------
(* Steps that take lists for the host to call.                             *)

LEMMA MarkReadyKeepsLifecycle ==
    ASSUME LifecycleInv, HostTypeOK', MarkReady
    PROVE  LifecycleInv'
<1> DEFINE frame == [Frame("ready", app_listeners["ready"]) EXCEPT !.resolvers = when_ready_resolvers]
           d == Len(stack) + 1
           mid == [lists EXCEPT ![OnApp("ready")] = <<>>, ![Todo(d)] = lists[OnApp("ready")]]
<1>1. /\ app_listeners["ready"] \in Seq(Functions) /\ when_ready_resolvers \in Seq(Functions)
      /\ app_listeners \in [AppEvents -> Seq(Functions)] /\ "ready" \in AppEvents
      /\ stack \in Seq(Frames) /\ stack = <<>>
    BY DEF LifecycleInv, HostTypeOK, AppEvents, MarkReady, HostIdle
<1>2. frame \in Frames
    BY <1>1, ReadyFrame
<1>3. /\ frame.todo = app_listeners["ready"] /\ frame.resolvers = when_ready_resolvers
      /\ ~frame.last_closed /\ frame.work = "ready"
    BY DEF Frame
<1>4. Push(frame) /\ stack' = Append(stack, frame)
    BY DEF MarkReady, Push
<1> HIDE DEF frame
<1>5. lists \in [Slots -> Seq(Functions)] /\ lists' \in [Slots -> Seq(Functions)]
    BY ListsTyped DEF LifecycleInv
<1>6. ListsBetween = [lists EXCEPT ![OnApp("ready")] = <<>>, ![Resolvers] = <<>>]
  <2> DEFINE a == [app_listeners EXCEPT !["ready"] = <<>>]
             c == window_closed_listeners
  <2>1. Listing(when_ready_resolvers, jobs, app_listeners, c, stack)
      BY HostListing DEF LifecycleInv
  <2>2. Lists(when_ready_resolvers, jobs, a, c, stack) = [lists EXCEPT ![OnApp("ready")] = <<>>]
    <3>1. \A event \in AppEvents, x \in Seq(Functions) :
              Lists(when_ready_resolvers, jobs, [app_listeners EXCEPT ![event] = x], c, stack) =
                  [Lists(when_ready_resolvers, jobs, app_listeners, c, stack)
                      EXCEPT ![OnApp(event)] = x]
        BY <2>1, OnAppSet
    <3>2. <<>> \in Seq(Functions)
        OBVIOUS
    <3> QED
        BY <1>1, <3>1, <3>2 DEF lists
  <2>3. Listing(when_ready_resolvers, jobs, a, c, stack)
      BY <1>1, <2>1 DEF Listing
  <2> HIDE DEF a, c
  <2>4. \A x \in Seq(Functions) :
            Lists(x, jobs, a, c, stack) =
                [Lists(when_ready_resolvers, jobs, a, c, stack) EXCEPT ![Resolvers] = x]
      BY <2>3, ResolversSet
  <2>5. <<>> \in Seq(Functions)
      OBVIOUS
  <2>6. Lists(<<>>, jobs, a, c, stack) =
            [Lists(when_ready_resolvers, jobs, a, c, stack) EXCEPT ![Resolvers] = <<>>]
      BY <2>4, <2>5
  <2>7. ListsBetween = Lists(<<>>, jobs, a, c, stack)
      BY DEF ListsBetween, MarkReady, a, c
  <2> QED
      BY <2>2, <2>6, <2>7
<1>7. /\ d \in 1..MaxDepth /\ ListsBetween[Todo(d)] = <<>> /\ ListsBetween[Waits(d)] = <<>>
      /\ lists' = [ListsBetween EXCEPT ![Todo(d)] = frame.todo, ![Waits(d)] = frame.resolvers]
    BY <1>2, <1>4, HostPushed DEF LifecycleInv
<1>8. lists[OnApp("ready")] = app_listeners["ready"] /\ lists[Resolvers] = when_ready_resolvers
    BY <1>1, ListsAt DEF lists
<1> HIDE DEF d
<1>9. /\ OnApp("ready") \in Slots /\ Resolvers \in Slots /\ Todo(d) \in Slots /\ Waits(d) \in Slots
      /\ OnApp("ready") # Resolvers /\ Todo(d) # OnApp("ready") /\ Waits(d) # OnApp("ready")
      /\ Todo(d) # Waits(d) /\ Todo(d) # Resolvers /\ Waits(d) # Resolvers
    BY <1>1, <1>7, SlotsDiffer
<1>10. lists[Todo(d)] = <<>> /\ lists[Waits(d)] = <<>>
    BY <1>5, <1>6, <1>7, <1>9
<1>11. /\ mid \in [Slots -> Seq(Functions)] /\ Accounted(mid, used, ran)
       /\ mid[OnApp("ready")] = <<>> /\ mid[Todo(d)] = lists[OnApp("ready")]
       /\ \A p \in Slots : p # OnApp("ready") /\ p # Todo(d) => mid[p] = lists[p]
    BY <1>5, <1>9, <1>10, HandOn DEF LifecycleInv
<1> HIDE DEF mid
<1>12. mid[Resolvers] = when_ready_resolvers /\ mid[Waits(d)] = <<>>
    BY <1>8, <1>9, <1>10, <1>11
<1>13. /\ lists'[Resolvers] = <<>> /\ lists'[Waits(d)] = mid[Resolvers]
       /\ \A p \in Slots : p # Resolvers /\ p # Waits(d) => lists'[p] = mid[p]
    BY <1>3, <1>5, <1>6, <1>7, <1>8, <1>9, <1>11, <1>12
<1>14. Accounted(lists', used, ran)
    BY <1>5, <1>9, <1>11, <1>12, <1>13, ListHandedOn
<1>15. StackShape(stack') /\ stack' # <<>>
    BY <1>1, <1>2, <1>3, <1>4, ShapePushed, PushedStack DEF LifecycleInv, FrameShape, Bottoms
<1>16. Owed(stack') = Owed(stack)
    BY <1>1, <1>3, <1>4, OwedPushed
<1>17. ReadyIsTold'
    BY <1>1 DEF MarkReady, ReadyIsTold
<1>18. app'.quit = app.quit /\ app'.noted_zero = app.noted_zero
    BY DEF MarkReady, LifecycleInv, HostTypeOK
<1>19. app_listeners'["window-all-closed"] = app_listeners["window-all-closed"]
    BY <1>1 DEF MarkReady, AppEvents
<1> QED
    BY <1>14, <1>15, <1>16, <1>17, <1>18, <1>19
       DEF MarkReady, LifecycleInv, ListsAreTidy, Announcements, HostIdle

LEMMA ReadyDoneKeepsLifecycle ==
    ASSUME LifecycleInv, HostTypeOK', ReadyDone
    PROVE  LifecycleInv'
<1> DEFINE frame == Frame("jobs", <<>>)
           d == Len(stack)
<1>1. stack # <<>> /\ Top.work = "ready" /\ Top.todo = <<>> /\ Len(stack) = 1
    BY DEF ReadyDone, Working
<1>2. /\ stack \in Seq(Frames) /\ Top \in Frames /\ FrameShape(Top)
      /\ Top.resolvers \in Seq(Functions) /\ Top.last_closed \in BOOLEAN
    BY <1>1, TopShape DEF Frames
<1>3. frame \in Frames
    BY EmptySeq, FrameIsTyped DEF Works
<1>4. frame.work = "jobs" /\ frame.todo = <<>> /\ frame.resolvers = <<>> /\ ~frame.last_closed
    BY EmptyFrame
<1>5. Replace(frame) /\ stack' = Append(Front(stack), frame)
    BY DEF ReadyDone, Replace
<1> HIDE DEF frame
<1>6. lists \in [Slots -> Seq(Functions)] /\ lists' \in [Slots -> Seq(Functions)]
    BY ListsTyped DEF LifecycleInv
<1>7. jobs \o Top.resolvers \in Seq(Functions)
    BY <1>2, ConcatProperties DEF LifecycleInv, HostTypeOK
<1>8. ListsBetween = [lists EXCEPT ![Jobs] = jobs \o Top.resolvers]
    BY <1>7, BetweenLists DEF ReadyDone, LifecycleInv, lifecycleVars
<1>9. /\ d \in 1..MaxDepth
      /\ ListsBetween[Todo(d)] = Top.todo /\ ListsBetween[Waits(d)] = Top.resolvers
      /\ lists' = [ListsBetween EXCEPT ![Todo(d)] = <<>>, ![Waits(d)] = <<>>]
    BY <1>1, <1>3, <1>4, <1>5, HostReplaced DEF LifecycleInv
<1> HIDE DEF d
<1>10. /\ Jobs \in Slots /\ Todo(d) \in Slots /\ Waits(d) \in Slots /\ Waits(d) # Jobs
       /\ Todo(d) # Jobs /\ Todo(d) # Waits(d) /\ lists[Jobs] = jobs
    BY <1>9, ListsAt, SlotsDiffer DEF lists
<1>11. lists[Todo(d)] = <<>> /\ lists[Waits(d)] = Top.resolvers
    BY <1>1, <1>6, <1>8, <1>9, <1>10
<1>12. /\ lists'[Waits(d)] = <<>> /\ lists'[Jobs] = lists[Jobs] \o lists[Waits(d)]
       /\ \A p \in Slots : p # Waits(d) /\ p # Jobs => lists'[p] = lists[p]
    BY <1>6, <1>8, <1>9, <1>10, <1>11
<1>13. Accounted(lists', used, ran)
    BY <1>6, <1>10, <1>12, ListsMoved DEF LifecycleInv
<1>14. StackShape(stack')
  <2>1. FrameShape(frame) /\ frame.work \in Bottoms
      BY <1>4 DEF FrameShape, Bottoms
  <2> QED
      BY <1>1, <1>2, <1>4, <1>5, <2>1, ShapeReplaced DEF LifecycleInv
<1>15. Cardinality(Owed(stack')) = Cardinality(Owed(stack))
  <2>1. ~Top.last_closed
      BY <1>1, <1>2 DEF FrameShape
  <2>2. frame.last_closed = Top.last_closed
      BY <1>2, <1>3, <1>4, <2>1 DEF Frames
  <2> QED
      BY <1>1, <1>2, <1>5, <2>2, OwedReplaced DEF Top
<1>16. stack' # <<>>
    BY <1>1, <1>2, <1>3, <1>5, ReplacedStack
<1> QED
    BY <1>13, <1>14, <1>15, <1>16
       DEF ReadyDone, LifecycleInv, lifecycleVars, ReadyIsTold, ListsAreTidy, Announcements, HostIdle

LEMMA AppQuitKeepsLifecycle ==
    ASSUME LifecycleInv, HostTypeOK', AppQuit
    PROVE  LifecycleInv'
<1> DEFINE frame == Frame("before-quit", app_listeners["before-quit"])
           d == Len(stack) + 1
<1>1. /\ app_listeners["before-quit"] \in Seq(Functions) /\ "before-quit" \in AppEvents
      /\ app_listeners \in [AppEvents -> Seq(Functions)]
      /\ stack \in Seq(Frames) /\ stack # <<>>
    BY DEF LifecycleInv, HostTypeOK, AppEvents, AppQuit, Running
<1>2. frame \in Frames
    BY <1>1, FrameIsTyped DEF Works
<1>3. /\ frame.todo = app_listeners["before-quit"] /\ frame.resolvers = <<>>
      /\ ~frame.last_closed /\ frame.work = "before-quit"
    BY DEF Frame
<1>4. Push(frame) /\ stack' = Append(stack, frame)
    BY DEF AppQuit, Push
<1> HIDE DEF frame
<1>5. lists \in [Slots -> Seq(Functions)] /\ lists' \in [Slots -> Seq(Functions)]
    BY ListsTyped DEF LifecycleInv
<1>6. ListsBetween = [lists EXCEPT ![OnApp("before-quit")] = <<>>]
  <2>1. <<>> \in Seq(Functions)
      OBVIOUS
  <2> QED
      BY <1>1, <2>1, BetweenLists DEF AppQuit, LifecycleInv
<1>7. /\ d \in 1..MaxDepth /\ ListsBetween[Todo(d)] = <<>> /\ ListsBetween[Waits(d)] = <<>>
      /\ lists' = [ListsBetween EXCEPT ![Todo(d)] = frame.todo, ![Waits(d)] = frame.resolvers]
    BY <1>2, <1>4, HostPushed DEF LifecycleInv
<1> HIDE DEF d
<1>8. /\ OnApp("before-quit") \in Slots /\ Todo(d) \in Slots /\ Waits(d) \in Slots
      /\ OnApp("before-quit") # Todo(d) /\ OnApp("before-quit") # Waits(d) /\ Todo(d) # Waits(d)
      /\ lists[OnApp("before-quit")] = app_listeners["before-quit"]
    BY <1>1, <1>7, ListsAt, SlotsDiffer DEF lists
<1>9. lists[Todo(d)] = <<>> /\ lists[Waits(d)] = <<>>
    BY <1>5, <1>6, <1>7, <1>8
<1>10. /\ lists'[OnApp("before-quit")] = <<>> /\ lists'[Todo(d)] = lists[OnApp("before-quit")]
       /\ \A p \in Slots : p # OnApp("before-quit") /\ p # Todo(d) => lists'[p] = lists[p]
    BY <1>3, <1>5, <1>6, <1>7, <1>8, <1>9
<1>11. Accounted(lists', used, ran)
    BY <1>5, <1>8, <1>9, <1>10, ListHandedOn DEF LifecycleInv
<1>12. StackShape(stack') /\ stack' # <<>>
  <2>1. FrameShape(frame)
      BY <1>3 DEF FrameShape
  <2> QED
      BY <1>1, <1>2, <1>3, <1>4, <2>1, ShapePushed, PushedStack DEF LifecycleInv
<1>13. Owed(stack') = Owed(stack)
    BY <1>1, <1>3, <1>4, OwedPushed
<1>14. /\ app_listeners'["window-all-closed"] = app_listeners["window-all-closed"]
       /\ app_listeners'["ready"] = app_listeners["ready"]
    BY <1>1 DEF AppQuit, AppEvents
<1> QED
    BY <1>11, <1>12, <1>13, <1>14
       DEF AppQuit, LifecycleInv, ReadyIsTold, ListsAreTidy, Announcements, HostIdle

LEMMA BeforeQuitDoneKeepsLifecycle ==
    ASSUME LifecycleInv, HostTypeOK', BeforeQuitDone
    PROVE  LifecycleInv'
<1> DEFINE frame == Frame("will-quit", app_listeners["will-quit"])
           d == Len(stack)
<1>1. /\ app_listeners["will-quit"] \in Seq(Functions) /\ "will-quit" \in AppEvents
      /\ app_listeners \in [AppEvents -> Seq(Functions)]
      /\ stack # <<>> /\ Top.work = "before-quit" /\ Top.todo = <<>>
    BY DEF LifecycleInv, HostTypeOK, AppEvents, BeforeQuitDone, Working
<1>2. /\ stack \in Seq(Frames) /\ Len(stack) \in Nat \ {0} /\ FrameShape(Top)
      /\ Top.last_closed \in BOOLEAN /\ (Len(stack) = 1 => Top.work \in Bottoms)
    BY <1>1, TopShape DEF Frames
<1>3. Top.resolvers = <<>> /\ ~Top.last_closed /\ Len(stack) # 1
    BY <1>1, <1>2 DEF FrameShape, Bottoms
<1>4. frame \in Frames
    BY <1>1, FrameIsTyped DEF Works
<1>5. /\ frame.todo = app_listeners["will-quit"] /\ frame.resolvers = <<>>
      /\ ~frame.last_closed /\ frame.work = "will-quit"
    BY DEF Frame
<1>6. Replace(frame) /\ stack' = Append(Front(stack), frame)
    BY DEF BeforeQuitDone, Replace
<1> HIDE DEF frame
<1>7. lists \in [Slots -> Seq(Functions)] /\ lists' \in [Slots -> Seq(Functions)]
    BY ListsTyped DEF LifecycleInv
<1>8. ListsBetween = [lists EXCEPT ![OnApp("will-quit")] = <<>>]
  <2>1. <<>> \in Seq(Functions)
      OBVIOUS
  <2> QED
      BY <1>1, <2>1, BetweenLists DEF BeforeQuitDone, LifecycleInv
<1>9. /\ d \in 1..MaxDepth /\ ListsBetween[Todo(d)] = Top.todo /\ ListsBetween[Waits(d)] = Top.resolvers
      /\ lists' = [ListsBetween EXCEPT ![Todo(d)] = frame.todo, ![Waits(d)] = frame.resolvers]
    BY <1>1, <1>4, <1>6, HostReplaced DEF LifecycleInv
<1> HIDE DEF d
<1>10. /\ OnApp("will-quit") \in Slots /\ Todo(d) \in Slots /\ Waits(d) \in Slots
       /\ OnApp("will-quit") # Todo(d) /\ OnApp("will-quit") # Waits(d) /\ Todo(d) # Waits(d)
       /\ lists[OnApp("will-quit")] = app_listeners["will-quit"]
    BY <1>1, <1>9, ListsAt, SlotsDiffer DEF lists
<1>11. lists[Todo(d)] = <<>> /\ lists[Waits(d)] = <<>>
    BY <1>1, <1>3, <1>7, <1>8, <1>9, <1>10
<1>12. /\ lists'[OnApp("will-quit")] = <<>> /\ lists'[Todo(d)] = lists[OnApp("will-quit")]
       /\ \A p \in Slots : p # OnApp("will-quit") /\ p # Todo(d) => lists'[p] = lists[p]
    BY <1>5, <1>7, <1>8, <1>9, <1>10, <1>11
<1>13. Accounted(lists', used, ran)
    BY <1>7, <1>10, <1>11, <1>12, ListHandedOn DEF LifecycleInv
<1>14. StackShape(stack') /\ stack' # <<>>
  <2>1. FrameShape(frame)
      BY <1>5 DEF FrameShape
  <2> QED
      BY <1>1, <1>2, <1>3, <1>4, <1>5, <1>6, <2>1, ShapeReplaced, ReplacedStack DEF LifecycleInv
<1>15. Cardinality(Owed(stack')) = Cardinality(Owed(stack))
  <2>1. frame.last_closed = Top.last_closed
      BY <1>2, <1>3, <1>4, <1>5 DEF Frames
  <2> QED
      BY <1>1, <1>2, <1>6, <2>1, OwedReplaced DEF Top
<1>16. /\ app_listeners'["window-all-closed"] = app_listeners["window-all-closed"]
       /\ app_listeners'["ready"] = app_listeners["ready"]
    BY <1>1 DEF BeforeQuitDone, AppEvents
<1> QED
    BY <1>13, <1>14, <1>15, <1>16
       DEF BeforeQuitDone, LifecycleInv, ReadyIsTold, ListsAreTidy, Announcements, HostIdle

LEMMA WindowCloseKeepsLifecycle ==
    ASSUME LifecycleInv, HostTypeOK', NEW w \in Windows, WindowClose(w)
    PROVE  LifecycleInv'
<1> DEFINE frame == [Frame("closed", window_closed_listeners[w])
                        EXCEPT !.last_closed = (windows \ {w} = {})]
           d == Len(stack) + 1
<1>1. /\ window_closed_listeners \in [Windows -> Seq(Functions)]
      /\ window_closed_listeners[w] \in Seq(Functions)
      /\ stack \in Seq(Frames) /\ stack # <<>> /\ windows' = windows \ {w}
    BY DEF LifecycleInv, HostTypeOK, WindowClose, Running
<1>2. frame \in Frames
    BY <1>1, ClosedFrame
<1>3. /\ frame.todo = window_closed_listeners[w] /\ frame.resolvers = <<>>
      /\ frame.last_closed = (windows \ {w} = {}) /\ frame.work = "closed"
    BY DEF Frame
<1>4. Push(frame) /\ stack' = Append(stack, frame)
    BY <1>1 DEF WindowClose, Push
<1> HIDE DEF frame
<1>5. lists \in [Slots -> Seq(Functions)] /\ lists' \in [Slots -> Seq(Functions)]
    BY ListsTyped DEF LifecycleInv
<1>6. ListsBetween = [lists EXCEPT ![OnWindow(w)] = <<>>]
  <2>1. <<>> \in Seq(Functions)
      OBVIOUS
  <2> QED
      BY <1>1, <2>1, BetweenLists DEF WindowClose, LifecycleInv
<1>7. /\ d \in 1..MaxDepth /\ ListsBetween[Todo(d)] = <<>> /\ ListsBetween[Waits(d)] = <<>>
      /\ lists' = [ListsBetween EXCEPT ![Todo(d)] = frame.todo, ![Waits(d)] = frame.resolvers]
    BY <1>2, <1>4, HostPushed DEF LifecycleInv
<1> HIDE DEF d
<1>8. /\ OnWindow(w) \in Slots /\ Todo(d) \in Slots /\ Waits(d) \in Slots
      /\ OnWindow(w) # Todo(d) /\ OnWindow(w) # Waits(d) /\ Todo(d) # Waits(d)
      /\ lists[OnWindow(w)] = window_closed_listeners[w]
    BY <1>7, ListsAt, SlotsDiffer DEF lists
<1>9. lists[Todo(d)] = <<>> /\ lists[Waits(d)] = <<>>
    BY <1>5, <1>6, <1>7, <1>8
<1>10. /\ lists'[OnWindow(w)] = <<>> /\ lists'[Todo(d)] = lists[OnWindow(w)]
       /\ \A p \in Slots : p # OnWindow(w) /\ p # Todo(d) => lists'[p] = lists[p]
    BY <1>3, <1>5, <1>6, <1>7, <1>8, <1>9
<1>11. Accounted(lists', used, ran)
    BY <1>5, <1>8, <1>9, <1>10, ListHandedOn DEF LifecycleInv
<1>12. StackShape(stack') /\ stack' # <<>>
  <2>1. FrameShape(frame)
      BY <1>3 DEF FrameShape
  <2> QED
      BY <1>1, <1>2, <1>3, <1>4, <2>1, ShapePushed, PushedStack DEF LifecycleInv
<1>13. announced' + Cardinality(Owed(stack')) = emptied'
  <2>1. /\ ~frame.last_closed => Owed(stack') = Owed(stack)
        /\ frame.last_closed => Cardinality(Owed(stack')) = Cardinality(Owed(stack)) + 1
      BY <1>1, <1>4, OwedPushed
  <2>2. Cardinality(Owed(stack)) \in Nat /\ announced \in Nat
      BY <1>1, OwedIsFinite DEF LifecycleInv, HostTypeOK
  <2>3. /\ emptied' = IF frame.last_closed THEN emptied + 1 ELSE emptied
        /\ announced' = announced /\ announced + Cardinality(Owed(stack)) = emptied
      BY <1>1, <1>3 DEF WindowClose, LifecycleInv, Announcements
  <2> QED
      BY <2>1, <2>2, <2>3
<1>14. \A v \in Windows \ windows' : window_closed_listeners'[v] = <<>>
    BY <1>1 DEF WindowClose, LifecycleInv, ListsAreTidy
<1> QED
    BY <1>11, <1>12, <1>13, <1>14
       DEF WindowClose, LifecycleInv, ReadyIsTold, ListsAreTidy, Announcements, HostIdle

LEMMA ClosedDoneKeepsLifecycle ==
    ASSUME LifecycleInv, HostTypeOK', ClosedDone
    PROVE  LifecycleInv'
<1>1. stack # <<>> /\ Top.work = "closed" /\ Top.todo = <<>>
    BY DEF ClosedDone, Working
<1>2. /\ stack \in Seq(Frames) /\ Len(stack) \in Nat \ {0} /\ FrameShape(Top)
      /\ Top.last_closed \in BOOLEAN /\ (Len(stack) = 1 => Top.work \in Bottoms)
    BY <1>1, TopShape DEF Frames
<1>3. Top.resolvers = <<>> /\ Len(stack) # 1
    BY <1>1, <1>2 DEF FrameShape, Bottoms
<1>4. CASE ~Top.last_closed
  <2>1. Pop /\ UNCHANGED <<app, announced>>
      BY <1>4 DEF ClosedDone
  <2> QED
      BY <1>1, <1>3, <1>4, <2>1, PopKeepsInv DEF ClosedDone
<1>5. CASE Top.last_closed
  <2> DEFINE frame == Frame("window-all-closed", app_listeners["window-all-closed"])
             d == Len(stack)
  <2>1. app_listeners["window-all-closed"] \in Seq(Functions) /\ app \in [ready : BOOLEAN, quit : BOOLEAN, noted_zero : BOOLEAN]
      BY DEF LifecycleInv, HostTypeOK, AppEvents
  <2>2. frame \in Frames
      BY <2>1, FrameIsTyped DEF Works, AppEvents
  <2>3. /\ frame.todo = app_listeners["window-all-closed"] /\ frame.resolvers = <<>>
        /\ ~frame.last_closed /\ frame.work = "window-all-closed"
      BY DEF Frame
  <2>4. Replace(frame) /\ stack' = Append(Front(stack), frame)
      BY <1>5 DEF ClosedDone, Replace
  <2> HIDE DEF frame
  <2>5. lists \in [Slots -> Seq(Functions)] /\ lists' \in [Slots -> Seq(Functions)]
      BY ListsTyped DEF LifecycleInv
  <2>6. ListsBetween = lists
      BY BetweenLists DEF ClosedDone, LifecycleInv
  <2>7. /\ d \in 1..MaxDepth /\ lists[Todo(d)] = Top.todo /\ lists[Waits(d)] = Top.resolvers
        /\ lists' = [lists EXCEPT ![Todo(d)] = frame.todo, ![Waits(d)] = frame.resolvers]
      BY <1>1, <2>2, <2>4, <2>6, HostReplaced DEF LifecycleInv
  <2> HIDE DEF d
  <2>8. /\ Todo(d) \in Slots /\ lists[Todo(d)] = <<>>
        /\ lists'[Todo(d)] = app_listeners["window-all-closed"]
        /\ \A p \in Slots : p # Todo(d) => lists'[p] = lists[p]
      BY <1>1, <1>3, <2>3, <2>5, <2>7, SlotsDiffer
  <2>9. \A i \in 1..Len(lists'[Todo(d)]) : used[lists'[Todo(d)][i]] = "recurring"
      BY <2>8 DEF LifecycleInv, ListsAreTidy
  <2>10. Accounted(lists', used, ran)
      BY <2>5, <2>8, <2>9, RecurringCopied DEF LifecycleInv
  <2>11. StackShape(stack') /\ stack' # <<>>
    <3>1. FrameShape(frame)
        BY <2>3 DEF FrameShape
    <3> QED
        BY <1>1, <1>2, <1>3, <2>2, <2>3, <2>4, <3>1, ShapeReplaced, ReplacedStack DEF LifecycleInv
  <2>12. announced' + Cardinality(Owed(stack')) = emptied'
    <3>1. Cardinality(Owed(stack)) = Cardinality(Owed(stack')) + 1
        BY <1>1, <1>2, <1>5, <2>3, <2>4, OwedReplaced DEF Top
    <3>2. stack' \in Seq(Frames)
        BY DEF HostTypeOK
    <3>3. Cardinality(Owed(stack')) \in Nat /\ announced \in Nat
        BY <3>2, OwedIsFinite DEF LifecycleInv, HostTypeOK
    <3>4. /\ announced' = announced + 1 /\ emptied' = emptied
          /\ announced + Cardinality(Owed(stack)) = emptied
        BY <1>5 DEF ClosedDone, LifecycleInv, Announcements
    <3> QED
        BY <3>1, <3>3, <3>4
  <2>13. app'.quit /\ app'.noted_zero /\ app'.ready = app.ready
    <3>1. app' = [app EXCEPT !.quit = @ \/ ~app.noted_zero, !.noted_zero = TRUE]
        BY <1>5 DEF ClosedDone
    <3>2. app.noted_zero => app.quit
        BY DEF LifecycleInv, Announcements
    <3> QED
        BY <2>1, <3>1, <3>2
  <2> QED
      BY <2>10, <2>11, <2>12, <2>13
         DEF ClosedDone, LifecycleInv, ReadyIsTold, ListsAreTidy, Announcements, HostIdle
<1> QED
    BY <1>2, <1>4, <1>5

-----------------------------------------------------------------------------
(* What waits for ready, or to run as a job, are continuations and         *)
(* microtasks: no listener is ever among the jobs that are dropped.        *)

FramesLate(frames, U) == \A d \in 1..Len(frames) : Late(frames[d].resolvers, U)
DeferredWait ==
    Late(when_ready_resolvers, used) /\ Late(jobs, used) /\ FramesLate(stack, used)

LEMMA LateLists ==
    ASSUME NEW U, NEW s \in Seq(Functions), Late(s, U)
    PROVE  /\ Late(<<>>, U)
           /\ s # <<>> => Late(Tail(s), U)
           /\ \A f : U[f] \in Later => Late(Append(s, f), U)
           /\ \A t \in Seq(Functions) : Late(t, U) => Late(s \o t, U)
<1>1. Late(<<>>, U)
  <2>1. \A i \in 1..Len(<<>>) : FALSE
      OBVIOUS
  <2> QED
      BY <2>1 DEF Late
<1>2. ASSUME s # <<>> PROVE Late(Tail(s), U)
  <2>1. Len(s) \in Nat \ {0} /\ Len(Tail(s)) = Len(s) - 1
        /\ \A i \in 1..Len(Tail(s)) : Tail(s)[i] = s[i + 1]
      BY <1>2, HeadTailProperties
  <2>2. \A i \in 1..Len(Tail(s)) : i + 1 \in 1..Len(s)
      BY <2>1
  <2> QED
      BY <2>1, <2>2 DEF Late
<1>3. ASSUME NEW f, U[f] \in Later PROVE Late(Append(s, f), U)
  <2>1. /\ Len(s) \in Nat /\ Len(Append(s, f)) = Len(s) + 1
        /\ \A i \in 1..Len(s) : Append(s, f)[i] = s[i]
        /\ Append(s, f)[Len(s) + 1] = f
    <3>1. s \in Seq(Functions \cup {f})
        BY SeqMonotonic
    <3> QED
        BY <3>1, AppendProperties
  <2>2. \A i \in 1..Len(s) + 1 : i \in 1..Len(s) \/ i = Len(s) + 1
      BY <2>1
  <2> QED
      BY <1>3, <2>1, <2>2 DEF Late
<1>4. ASSUME NEW t \in Seq(Functions), Late(t, U) PROVE Late(s \o t, U)
  <2>1. /\ Len(s) \in Nat /\ Len(t) \in Nat /\ Len(s \o t) = Len(s) + Len(t)
        /\ \A i \in 1..Len(s) + Len(t) :
              (s \o t)[i] = IF i <= Len(s) THEN s[i] ELSE t[i - Len(s)]
      BY ConcatProperties
  <2>2. \A i \in 1..Len(s) + Len(t) :
            IF i <= Len(s) THEN i \in 1..Len(s) ELSE i - Len(s) \in 1..Len(t)
      BY <2>1
  <2> QED
      BY <1>4, <2>1, <2>2 DEF Late
<1> QED
    BY <1>1, <1>2, <1>3, <1>4

LEMMA LateFrames ==
    ASSUME NEW U, NEW s \in Seq(Frames), FramesLate(s, U), NEW frame, Late(frame.resolvers, U)
    PROVE  /\ FramesLate(Append(s, frame), U)
           /\ s # <<>> => FramesLate(Append(Front(s), frame), U)
<1>1. FramesLate(Append(s, frame), U)
  <2>1. /\ Len(s) \in Nat /\ Len(Append(s, frame)) = Len(s) + 1
        /\ \A d \in 1..Len(s) : Append(s, frame)[d] = s[d]
        /\ Append(s, frame)[Len(s) + 1] = frame
      BY PushedFrames
  <2>2. \A d \in 1..Len(s) + 1 : d \in 1..Len(s) \/ d = Len(s) + 1
      BY <2>1
  <2> QED
      BY <2>1, <2>2 DEF FramesLate
<1>2. ASSUME s # <<>> PROVE FramesLate(Append(Front(s), frame), U)
  <2>1. /\ Len(s) \in Nat \ {0} /\ Len(Append(Front(s), frame)) = Len(s)
        /\ \A d \in 1..Len(s) - 1 : Append(Front(s), frame)[d] = s[d]
        /\ Append(Front(s), frame)[Len(s)] = frame
      BY <1>2, ReplacedFrames
  <2>2. \A d \in 1..Len(s) : d \in 1..Len(s) - 1 \/ d = Len(s)
      BY <2>1
  <2> QED
      BY <2>1, <2>2 DEF FramesLate
<1> QED
    BY <1>1, <1>2

LEMMA LateFramesPopped ==
    ASSUME NEW U, NEW s \in Seq(Frames), s # <<>>, FramesLate(s, U)
    PROVE  FramesLate(Front(s), U) /\ Late(Last(s).resolvers, U)
<1>1. /\ Len(s) \in Nat \ {0} /\ Len(Front(s)) = Len(s) - 1
      /\ \A d \in 1..Len(s) - 1 : Front(s)[d] = s[d]
      /\ Last(s) = s[Len(s)]
    BY PoppedFrames
<1>2. Len(s) \in 1..Len(s) /\ \A d \in 1..Len(s) - 1 : d \in 1..Len(s)
    BY <1>1
<1> QED
    BY <1>1, <1>2 DEF FramesLate

(* What is late stays late as functions are handed over, and are lost.     *)
LEMMA LateStays ==
    ASSUME NEW U, NEW V, \A f \in Functions : U[f] \in Later => V[f] \in Later
    PROVE  /\ \A s \in Seq(Functions) : Late(s, U) => Late(s, V)
           /\ \A s \in Seq(Frames) : FramesLate(s, U) => FramesLate(s, V)
<1>1. ASSUME NEW s \in Seq(Functions), Late(s, U) PROVE Late(s, V)
  <2>1. \A i \in 1..Len(s) : s[i] \in Functions
      BY ElementOfSeq
  <2> QED
      BY <1>1, <2>1 DEF Late
<1>2. ASSUME NEW s \in Seq(Frames), FramesLate(s, U) PROVE FramesLate(s, V)
  <2>1. \A d \in 1..Len(s) : s[d].resolvers \in Seq(Functions)
      BY ElementOfSeq, FrameFields
  <2> QED
      BY <1>1, <1>2, <2>1 DEF FramesLate
<1> QED
    BY <1>1, <1>2

LEMMA HandedStaysLate ==
    ASSUME HostTypeOK, DeferredWait, NEW f \in Functions, NEW purpose, Handed(f, purpose)
    PROVE  /\ Late(when_ready_resolvers, used') /\ Late(jobs, used')
           /\ FramesLate(stack, used')
           /\ used'[f] = purpose
<1>1. used[f] \notin Later /\ used'[f] = purpose
      /\ \A g \in Functions : g # f => used'[g] = used[g]
    BY DEF Handed, HostTypeOK, Later, Deferred
<1>2. \A g \in Functions : used[g] \in Later => used'[g] \in Later
    BY <1>1
<1> QED
    BY <1>1, <1>2, LateStays DEF DeferredWait, HostTypeOK

(* The host turns to a frame that holds no resolver, or to one that holds  *)
(* what was on top, or back.                                               *)
LEMMA FramesStayLate ==
    ASSUME HostTypeOK, DeferredWait, UNCHANGED <<used, when_ready_resolvers, jobs>>
    PROVE  /\ stack # <<>> /\ Pop => DeferredWait'
           /\ UNCHANGED stack => DeferredWait'
           /\ \A frame : Push(frame) /\ frame.resolvers = <<>> => DeferredWait'
           /\ stack # <<>> => \A frame :
                 Replace(frame) /\ frame.resolvers \in {<<>>, Top.resolvers} => DeferredWait'
<1>1. stack \in Seq(Frames) /\ FramesLate(stack, used) /\ Late(<<>>, used)
    BY LateLists DEF HostTypeOK, DeferredWait
<1>2. FramesLate(stack', used) => DeferredWait'
    BY DEF DeferredWait
<1>3. ASSUME stack # <<>>, Pop PROVE DeferredWait'
    BY <1>1, <1>2, <1>3, LateFramesPopped DEF Pop
<1>4. ASSUME UNCHANGED stack PROVE DeferredWait'
    BY <1>1, <1>2, <1>4
<1>5. ASSUME NEW frame, Push(frame), frame.resolvers = <<>> PROVE DeferredWait'
    BY <1>1, <1>2, <1>5, LateFrames DEF Push
<1>6. ASSUME stack # <<>>, NEW frame, Replace(frame), frame.resolvers \in {<<>>, Top.resolvers}
      PROVE  DeferredWait'
  <2>1. Late(frame.resolvers, used)
      BY <1>1, <1>6, LateFramesPopped DEF Top
  <2> QED
      BY <1>1, <1>2, <1>6, <2>1, LateFrames DEF Replace
<1> QED
    BY <1>3, <1>4, <1>5, <1>6

LEMMA FramesWithoutResolvers ==
    ASSUME NEW work, NEW todo, NEW last
    PROVE  /\ Frame(work, todo).resolvers = <<>>
           /\ [Frame(work, todo) EXCEPT !.calling = TRUE].resolvers = <<>>
           /\ [Frame(work, todo) EXCEPT !.last_closed = last].resolvers = <<>>
  BY DEF Frame

LEMMA RunJobKeepsDeferred == HostTypeOK /\ DeferredWait /\ RunJob => DeferredWait'
<1> SUFFICES ASSUME HostTypeOK, DeferredWait, RunJob PROVE DeferredWait'
    OBVIOUS
<1>1. PICK work \in {"jobs", "microtask"} : Replace([Top EXCEPT !.work = work, !.calling = TRUE])
    BY RunJobReplaces
<1> DEFINE frame == [Top EXCEPT !.work = work, !.calling = TRUE]
<1>2. stack # <<>> /\ stack \in Seq(Frames) /\ Top \in Frames
    BY RunJobReplaces, PoppedFrames DEF HostTypeOK, Top
<1>3. frame.resolvers = Last(stack).resolvers /\ stack' = Append(Front(stack), frame)
    BY <1>1, <1>2, JobFrame DEF Replace, Top
<1> HIDE DEF frame
<1>4. FramesLate(stack', used)
    BY <1>2, <1>3, LateFrames, LateFramesPopped DEF DeferredWait
<1>5. Late(jobs', used)
    BY LateLists DEF RunJob, DeferredWait, HostTypeOK
<1> QED
    BY <1>4, <1>5 DEF RunJob, DeferredWait, lifecycleVars

LEMMA JobThrowsKeepsDeferred == HostTypeOK /\ DeferredWait /\ JobThrows => DeferredWait'
<1> SUFFICES ASSUME HostTypeOK, DeferredWait, JobThrows PROVE DeferredWait'
    OBVIOUS
<1>1. /\ jobs' = <<>> /\ UNCHANGED when_ready_resolvers /\ stack' = Front(stack)
      /\ \A f \in Functions : used'[f] \in {"lost", used[f]}
    BY DEF JobThrows, Pop
<1>2. \A f \in Functions : used[f] \in Later => used'[f] \in Later
    BY <1>1 DEF Later
<1>3. stack # <<>> /\ stack \in Seq(Frames) /\ Front(stack) \in Seq(Frames)
    BY PoppedStack DEF JobThrows, Working, HostTypeOK
<1>4. FramesLate(Front(stack), used)
    BY <1>3, LateFramesPopped DEF DeferredWait
<1>5. FramesLate(Front(stack), used') /\ Late(when_ready_resolvers, used')
    BY <1>2, <1>3, <1>4, LateStays DEF DeferredWait, HostTypeOK
<1>6. Late(jobs', used')
    BY <1>1, <1>5, LateLists DEF HostTypeOK
<1> QED
    BY <1>1, <1>5, <1>6 DEF DeferredWait

LEMMA MarkReadyKeepsDeferred == HostTypeOK /\ DeferredWait /\ MarkReady => DeferredWait'
<1> SUFFICES ASSUME HostTypeOK, DeferredWait, MarkReady PROVE DeferredWait'
    OBVIOUS
<1> DEFINE frame == [Frame("ready", app_listeners["ready"]) EXCEPT !.resolvers = when_ready_resolvers]
<1>1. frame.resolvers = when_ready_resolvers
    BY DEF Frame
<1>2. stack' = Append(stack, frame)
    BY DEF MarkReady, Push
<1> HIDE DEF frame
<1>3. FramesLate(stack', used)
    BY <1>1, <1>2, LateFrames DEF DeferredWait, HostTypeOK
<1>4. Late(<<>>, used)
    BY LateLists DEF DeferredWait, HostTypeOK
<1> QED
    BY <1>3, <1>4 DEF MarkReady, DeferredWait

LEMMA ReadyDoneKeepsDeferred == HostTypeOK /\ DeferredWait /\ ReadyDone => DeferredWait'
<1> SUFFICES ASSUME HostTypeOK, DeferredWait, ReadyDone PROVE DeferredWait'
    OBVIOUS
<1>1. stack # <<>> /\ stack \in Seq(Frames) /\ Top \in Frames
    BY PoppedFrames DEF ReadyDone, Working, HostTypeOK, Top
<1>2. Late(Top.resolvers, used) /\ Top.resolvers \in Seq(Functions)
    BY <1>1, LateFramesPopped, FrameFields DEF DeferredWait, Top
<1>3. Late(jobs \o Top.resolvers, used)
    BY <1>2, LateLists DEF DeferredWait, HostTypeOK
<1>4. Late(Frame("jobs", <<>>).resolvers, used)
    BY FramesWithoutResolvers, LateLists DEF DeferredWait, HostTypeOK
<1>5. FramesLate(Append(Front(stack), Frame("jobs", <<>>)), used)
    BY <1>1, <1>4, LateFrames DEF DeferredWait
<1> QED
    BY <1>3, <1>5 DEF ReadyDone, Replace, DeferredWait, lifecycleVars

LEMMA HandedKeepsDeferred ==
    ASSUME HostTypeOK, DeferredWait, NEW f \in Functions,
           \/ QueueMicrotask(f) \/ WhenReady(f)
           \/ \E e \in AppEvents : AppOn(e, f)
           \/ \E w \in Windows : WindowOn(w, f)
    PROVE  DeferredWait'
<1>1. CASE QueueMicrotask(f) \/ WhenReady(f)
  <2>1. PICK purpose \in Deferred : Handed(f, purpose)
      BY <1>1 DEF QueueMicrotask, WhenReady, Deferred
  <2>2. /\ Late(when_ready_resolvers, used') /\ Late(jobs, used') /\ FramesLate(stack, used')
        /\ used'[f] \in Later
      BY <2>1, HandedStaysLate DEF Later
  <2>3. Late(Append(jobs, f), used') /\ Late(Append(when_ready_resolvers, f), used')
      BY <2>2, LateLists DEF HostTypeOK
  <2>4. /\ jobs' \in {jobs, Append(jobs, f)} /\ UNCHANGED stack
        /\ when_ready_resolvers' \in {when_ready_resolvers, Append(when_ready_resolvers, f)}
      BY <1>1 DEF QueueMicrotask, WhenReady
  <2> QED
      BY <2>2, <2>3, <2>4 DEF DeferredWait
<1>2. CASE (\E e \in AppEvents : AppOn(e, f)) \/ (\E w \in Windows : WindowOn(w, f))
  <2>1. \E purpose : Handed(f, purpose)
      BY <1>2 DEF AppOn, WindowOn
  <2>2. Late(when_ready_resolvers, used') /\ Late(jobs, used') /\ FramesLate(stack, used')
      BY <2>1, HandedStaysLate
  <2>3. UNCHANGED <<jobs, when_ready_resolvers>>
      BY <1>2 DEF AppOn, WindowOn
  <2>4. UNCHANGED stack \/ stack' = Append(stack, Frame("ready", <<f>>))
      BY <1>2 DEF AppOn, WindowOn, Push
  <2>5. Late(Frame("ready", <<f>>).resolvers, used')
      BY <2>2, FramesWithoutResolvers, LateLists DEF HostTypeOK
  <2>6. FramesLate(stack', used')
    <3>1. FramesLate(Append(stack, Frame("ready", <<f>>)), used')
        BY <2>2, <2>5, LateFrames DEF HostTypeOK
    <3> QED
        BY <2>2, <2>4, <3>1
  <2> QED
      BY <2>2, <2>3, <2>6 DEF DeferredWait
<1> QED
    BY <1>1, <1>2

LEMMA LifecycleStepKeepsDeferred == HostTypeOK /\ DeferredWait /\ LifecycleStep => DeferredWait'
<1> SUFFICES ASSUME HostTypeOK, DeferredWait, LifecycleStep PROVE DeferredWait'
    OBVIOUS
<1>1. CASE Eval
    BY <1>1, FramesStayLate, FramesWithoutResolvers DEF Eval, lifecycleVars
<1>2. CASE CallNext
  <2>1. stack # <<>> /\ stack \in Seq(Frames)
      BY <1>2 DEF CallNext, HostTypeOK
  <2>2. Top \in Frames
      BY <2>1, PoppedFrames DEF Top
  <2>3. [Top EXCEPT !.todo = Tail(@), !.calling = TRUE].resolvers = Top.resolvers
      BY <2>2 DEF Frames
  <2> QED
      BY <1>2, <2>1, <2>3, FramesStayLate DEF CallNext, lifecycleVars
<1>3. CASE RunJob \/ JobThrows \/ MarkReady \/ ReadyDone
    BY <1>3, RunJobKeepsDeferred, JobThrowsKeepsDeferred, MarkReadyKeepsDeferred,
       ReadyDoneKeepsDeferred
<1>4. CASE JobsDone
    BY <1>4, FramesStayLate DEF JobsDone, InJobs, Working, lifecycleVars
<1>5. CASE ScriptDone
    BY <1>5, FramesStayLate, FramesWithoutResolvers DEF ScriptDone, Working, lifecycleVars
<1>6. CASE WindowCreate
    BY <1>6, FramesStayLate DEF WindowCreate
<1>7. ASSUME NEW w \in Windows, WindowClose(w) PROVE DeferredWait'
  <2> DEFINE frame(last) == [Frame("closed", window_closed_listeners[w]) EXCEPT !.last_closed = last]
  <2>1. Push(frame(windows' = {})) /\ UNCHANGED <<used, when_ready_resolvers, jobs>>
      BY <1>7 DEF WindowClose
  <2>2. \A last : frame(last).resolvers = <<>>
      BY FramesWithoutResolvers
  <2> HIDE DEF frame
  <2> QED
      BY <2>1, <2>2, FramesStayLate
<1>8. CASE ClosedDone
    BY <1>8, FramesStayLate, FramesWithoutResolvers DEF ClosedDone, Working
<1>9. CASE ReturnToScript
    BY <1>9, FramesStayLate DEF ReturnToScript, Working, lifecycleVars
<1>10. CASE AppQuit
    BY <1>10, FramesStayLate, FramesWithoutResolvers DEF AppQuit
<1>11. CASE BeforeQuitDone
    BY <1>11, FramesStayLate, FramesWithoutResolvers DEF BeforeQuitDone, Working
<1>12. CASE WillQuitDone
    BY <1>12, FramesStayLate DEF WillQuitDone, Working
<1> QED
    BY <1>1, <1>2, <1>3, <1>4, <1>5, <1>6, <1>7, <1>8, <1>9, <1>10, <1>11, <1>12,
       HandedKeepsDeferred DEF LifecycleStep

LEMMA IpcStepKeepsDeferred == HostTypeOK /\ DeferredWait /\ IpcStep => DeferredWait'
<1> SUFFICES ASSUME HostTypeOK, DeferredWait, IpcStep PROVE DeferredWait'
    OBVIOUS
<1>1. CASE PumpIpc \/ CallHandler \/ ServeSend
    BY <1>1, FramesStayLate, FramesWithoutResolvers DEF PumpIpc, CallHandler, ServeSend, lifecycleVars
<1>2. CASE HandlerDone \/ ListenerDone
    BY <1>2, FramesStayLate DEF HandlerDone, Settled, ListenerDone, Working, lifecycleVars
<1>3. CASE PumpDone
    BY <1>3, FramesStayLate, FramesWithoutResolvers DEF PumpDone, Working, lifecycleVars
<1>4. CASE \/ IpcHandle \/ ServeMainSends \/ ServeUnhandled
           \/ \E c \in Calls : Invoke(c) \/ Send(c)
           \/ \E w \in Windows : WebContentsSend(w)
    BY <1>4, FramesStayLate
       DEF IpcHandle, ServeMainSends, ServeUnhandled, Rejected, Settled, Invoke, Send,
           WebContentsSend, lifecycleVars
<1> QED
    BY <1>1, <1>2, <1>3, <1>4 DEF IpcStep

(* In every state of the main process (electron.rs:6050-6072,              *)
(* runtime.rs:800-817).                                                    *)
LEMMA DeferredAlwaysWait == HostSpec => []DeferredWait
<1>1. HostInit => DeferredWait
  <2>1. \A i \in 1..Len(<<>>) : FALSE
      OBVIOUS
  <2> QED
      BY <2>1 DEF HostInit, DeferredWait, Late, FramesLate
<1>2. HostTypeOK /\ DeferredWait /\ [LifecycleStep \/ IpcStep]_hostVars => DeferredWait'
  <2> SUFFICES ASSUME HostTypeOK, DeferredWait, UNCHANGED hostVars PROVE DeferredWait'
      BY LifecycleStepKeepsDeferred, IpcStepKeepsDeferred
  <2> QED
      BY DEF DeferredWait, hostVars, lifecycleVars
<1> QED
    BY <1>1, <1>2, HostIsTyped, PTL DEF HostSpec

-----------------------------------------------------------------------------
(* The invariant holds, and what it says between turns.                    *)

LEMMA InitLifecycle == HostInit => LifecycleInv
<1> SUFFICES ASSUME HostInit PROVE LifecycleInv
    OBVIOUS
<1>1. HostTypeOK
    BY InitTypes
<1>2. ReadyIsTold /\ ListsAreTidy
  <2>1. \A i \in 1..Len(<<>>) : FALSE
      OBVIOUS
  <2>2. app_listeners["window-all-closed"] = <<>> /\ app_listeners["ready"] = <<>>
      BY DEF HostInit, AppEvents
  <2> QED
      BY <2>1, <2>2 DEF HostInit, ReadyIsTold, ListsAreTidy
<1>3. stack = <<>> /\ Len(stack) = 0
    BY DEF HostInit
<1>4. StackShape(stack)
    BY <1>3 DEF StackShape
<1>5. Owed(stack) = {}
    BY <1>3 DEF Owed
<1>6. Announcements
  <2>1. Cardinality(Owed(stack)) = 0
      BY <1>5, FS_EmptySet
  <2>2. announced = 0 /\ emptied = 0 /\ app.noted_zero = FALSE
      BY DEF HostInit
  <2> QED
      BY <2>1, <2>2, <1>3 DEF Announcements
<1>7. \A p \in Slots : Len(lists[p]) = 0
  <2> SUFFICES ASSUME NEW p \in Slots PROVE lists[p] = <<>>
      BY EmptySeq
  <2>1. CASE p = Resolvers \/ p = Jobs
      BY <2>1, ListsAt DEF lists, HostInit
  <2>2. CASE \E e \in AppEvents : p = OnApp(e)
      BY <2>2, ListsAt DEF lists, HostInit
  <2>3. CASE \E w \in Windows : p = OnWindow(w)
      BY <2>3, ListsAt DEF lists, HostInit
  <2>4. \A d \in 1..MaxDepth : ~(d <= Len(stack))
      BY <1>3
  <2>5. CASE \E d \in 1..MaxDepth : p = Todo(d)
      BY <2>4, <2>5, ListsAt DEF lists
  <2>6. CASE \E d \in 1..MaxDepth : p = Waits(d)
      BY <2>4, <2>6, ListsAt DEF lists
  <2> QED
      BY <2>1, <2>2, <2>3, <2>5, <2>6, SlotCases
<1>8. Unshared(lists, used) /\ \A f : ~Held(lists, f)
    BY <1>7 DEF Unshared, Held
<1>9. Accounted(lists, used, ran)
    BY <1>8 DEF Accounted, HostInit, Once, Deferred
<1> QED
    BY <1>1, <1>2, <1>4, <1>6, <1>9 DEF LifecycleInv

LEMMA LifecycleStepKeepsLifecycle ==
    LifecycleInv /\ DeferredWait /\ LifecycleStep => LifecycleInv'
<1> SUFFICES ASSUME LifecycleInv, DeferredWait, LifecycleStep PROVE LifecycleInv'
    OBVIOUS
<1>0. HostTypeOK'
    BY LifecycleStepKeepsTypes DEF LifecycleInv
<1>1. CASE Eval
    BY <1>0, <1>1, EvalKeepsLifecycle
<1>2. CASE CallNext
    BY <1>0, <1>2, CallNextKeepsLifecycle
<1>3. CASE RunJob
    BY <1>0, <1>3, RunJobKeepsLifecycle
<1>4. CASE JobsDone
    BY <1>0, <1>4, JobsDoneKeepsLifecycle
<1>5. CASE ScriptDone
    BY <1>0, <1>5, ScriptDoneKeepsLifecycle
<1>6. CASE MarkReady
    BY <1>0, <1>6, MarkReadyKeepsLifecycle
<1>7. CASE ReadyDone
    BY <1>0, <1>7, ReadyDoneKeepsLifecycle
<1>8. CASE WindowCreate
    BY <1>0, <1>8, WindowCreateKeepsLifecycle
<1>9. CASE ClosedDone
    BY <1>0, <1>9, ClosedDoneKeepsLifecycle
<1>10. CASE ReturnToScript
    BY <1>0, <1>10, ReturnToScriptKeepsLifecycle
<1>11. CASE AppQuit
    BY <1>0, <1>11, AppQuitKeepsLifecycle
<1>12. CASE BeforeQuitDone
    BY <1>0, <1>12, BeforeQuitDoneKeepsLifecycle
<1>13. CASE WillQuitDone
    BY <1>0, <1>13, WillQuitDoneKeepsLifecycle
<1>14. ASSUME NEW f \in Functions, WhenReady(f) PROVE LifecycleInv'
    BY <1>0, <1>14, WhenReadyKeepsLifecycle
<1>15. ASSUME NEW event \in AppEvents, NEW f \in Functions, AppOn(event, f) PROVE LifecycleInv'
    BY <1>0, <1>15, AppOnKeepsLifecycle
<1>16. ASSUME NEW w \in Windows, NEW f \in Functions, WindowOn(w, f) PROVE LifecycleInv'
    BY <1>0, <1>16, WindowOnKeepsLifecycle
<1>17. ASSUME NEW w \in Windows, WindowClose(w) PROVE LifecycleInv'
    BY <1>0, <1>17, WindowCloseKeepsLifecycle
<1>18. CASE JobThrows
    BY <1>0, <1>18, JobThrowsKeepsLifecycle DEF DeferredWait
<1>19. ASSUME NEW f \in Functions, QueueMicrotask(f) PROVE LifecycleInv'
    BY <1>0, <1>19, QueueMicrotaskKeepsLifecycle
<1> QED
    BY <1>1, <1>2, <1>3, <1>4, <1>5, <1>6, <1>7, <1>8, <1>9,
       <1>10, <1>11, <1>12, <1>13, <1>14, <1>15, <1>16, <1>17, <1>18, <1>19
       DEF LifecycleStep

LEMMA IpcStepKeepsLifecycle == LifecycleInv /\ IpcStep => LifecycleInv'
<1> SUFFICES ASSUME LifecycleInv, IpcStep PROVE LifecycleInv'
    OBVIOUS
<1>0. HostTypeOK'
    BY IpcStepKeepsTypes DEF LifecycleInv
<1>1. CASE PumpIpc
    BY <1>0, <1>1, PumpIpcKeepsLifecycle
<1>2. CASE CallHandler
    BY <1>0, <1>2, CallHandlerKeepsLifecycle
<1>3. CASE HandlerDone
    BY <1>0, <1>3, HandlerDoneKeepsLifecycle
<1>4. CASE ServeSend
    BY <1>0, <1>4, ServeSendKeepsLifecycle
<1>5. CASE ListenerDone
    BY <1>0, <1>5, ListenerDoneKeepsLifecycle
<1>6. CASE PumpDone
    BY <1>0, <1>6, PumpDoneKeepsLifecycle
<1>7. CASE IpcHandle \/ ServeMainSends
    BY <1>0, <1>7, NothingMoves DEF IpcHandle, ServeMainSends
<1>8. CASE ServeUnhandled
    BY <1>0, <1>8, NothingMoves DEF ServeUnhandled, Rejected, Settled
<1>9. ASSUME NEW c \in Calls, Invoke(c) \/ Send(c) PROVE LifecycleInv'
    BY <1>0, <1>9, NothingMoves DEF Invoke, Send
<1>10. ASSUME NEW w \in Windows, WebContentsSend(w) PROVE LifecycleInv'
    BY <1>0, <1>10, NothingMoves DEF WebContentsSend
<1> QED
    BY <1>1, <1>2, <1>3, <1>4, <1>5, <1>6, <1>7, <1>8, <1>9, <1>10 DEF IpcStep

LEMMA WaitingIsHeld ==
    ASSUME LifecycleInv, HostIdle
    PROVE  \A f \in Functions : f \in Waiting <=> Held(lists, f)
<1>1. stack = <<>> /\ jobs = <<>> /\ Len(stack) = 0 /\ Len(jobs) = 0
    BY EmptySeq DEF LifecycleInv, ListsAreTidy, HostIdle
<1>2. /\ when_ready_resolvers \in Seq(Functions)
      /\ app_listeners \in [AppEvents -> Seq(Functions)]
      /\ window_closed_listeners \in [Windows -> Seq(Functions)]
      /\ windows \subseteq Windows
    BY BoundsAssumption DEF LifecycleInv, HostTypeOK, Windows
<1>3. /\ lists[Resolvers] = when_ready_resolvers /\ lists[Jobs] = jobs
      /\ \A e \in AppEvents : lists[OnApp(e)] = app_listeners[e]
      /\ \A w \in Windows : lists[OnWindow(w)] = window_closed_listeners[w]
      /\ \A d \in 1..MaxDepth : lists[Todo(d)] = <<>> /\ lists[Waits(d)] = <<>>
  <2>1. \A d \in 1..MaxDepth : ~(d <= Len(stack))
      BY <1>1
  <2> QED
      BY <2>1, ListsAt DEF lists
<1>4. ASSUME NEW s \in Seq(Functions), NEW f
      PROVE  f \in ToSet(s) <=> \E i \in 1..Len(s) : s[i] = f
  <2>1. DOMAIN s = 1..Len(s)
      OBVIOUS
  <2> QED
      BY <2>1 DEF ToSet
<1>5. ASSUME NEW f, f \in Waiting PROVE Held(lists, f)
  <2>1. CASE f \in ToSet(when_ready_resolvers)
    <3>1. \E i \in 1..Len(lists[Resolvers]) : lists[Resolvers][i] = f
        BY <1>2, <1>3, <1>4, <2>1
    <3> QED
        BY <3>1, SlotsDiffer DEF Held
  <2>2. CASE \E e \in AppEvents : f \in ToSet(app_listeners[e])
    <3>1. PICK e \in AppEvents : f \in ToSet(app_listeners[e])
        BY <2>2
    <3>2. \E i \in 1..Len(lists[OnApp(e)]) : lists[OnApp(e)][i] = f
        BY <1>2, <1>3, <1>4, <3>1
    <3> QED
        BY <3>2, SlotsDiffer DEF Held
  <2>3. CASE \E w \in windows : f \in ToSet(window_closed_listeners[w])
    <3>1. PICK w \in windows : f \in ToSet(window_closed_listeners[w])
        BY <2>3
    <3>2. w \in Windows
        BY <1>2
    <3>3. \E i \in 1..Len(lists[OnWindow(w)]) : lists[OnWindow(w)][i] = f
        BY <1>2, <1>3, <1>4, <3>1, <3>2
    <3> QED
        BY <3>2, <3>3, SlotsDiffer DEF Held
  <2> QED
      BY <1>5, <2>1, <2>2, <2>3 DEF Waiting
<1>6. ASSUME NEW f, Held(lists, f) PROVE f \in Waiting
  <2>1. PICK p \in Slots : \E i \in 1..Len(lists[p]) : lists[p][i] = f
      BY <1>6 DEF Held
  <2>2. CASE p = Resolvers
    <3>1. f \in ToSet(when_ready_resolvers)
        BY <1>2, <1>3, <1>4, <2>1, <2>2
    <3> QED
        BY <3>1 DEF Waiting
  <2>3. CASE \E e \in AppEvents : p = OnApp(e)
    <3>1. PICK e \in AppEvents : p = OnApp(e)
        BY <2>3
    <3>2. f \in ToSet(app_listeners[e])
        BY <1>2, <1>3, <1>4, <2>1, <3>1
    <3> QED
        BY <3>2 DEF Waiting
  <2>4. CASE \E w \in Windows : p = OnWindow(w)
    <3>1. PICK w \in Windows : p = OnWindow(w)
        BY <2>4
    <3>2. \E i \in 1..Len(window_closed_listeners[w]) : window_closed_listeners[w][i] = f
        BY <1>3, <2>1, <3>1
    <3>3. w \in windows
        BY <3>2, EmptySeq DEF LifecycleInv, ListsAreTidy
    <3>4. f \in ToSet(window_closed_listeners[w])
        BY <1>2, <1>4, <3>2
    <3> QED
        BY <3>3, <3>4 DEF Waiting
  <2>5. CASE p = Jobs \/ (\E d \in 1..MaxDepth : p = Todo(d) \/ p = Waits(d))
    <3>1. lists[p] = <<>>
        BY <1>1, <1>3, <2>5
    <3> QED
        BY <2>1, <3>1, EmptySeq
  <2> QED
      BY <2>2, <2>3, <2>4, <2>5, SlotCases
<1> QED
    BY <1>5, <1>6

(* Nobody waits for ready once the app is; between turns each function has *)
(* been called exactly once if what it waited for has happened, and not at *)
(* all otherwise; closing the last window is announced once each time and  *)
(* quits the app, however closed listeners close and open windows          *)
(* (electron.rs:6050-6072, 7580-7603).  A function that Boa drops behind a *)
(* microtask that throws is a continuation or a microtask, and never runs  *)
(* (runtime.rs:800-817).                                                   *)
THEOREM LifecycleIsAlwaysAnnounced == HostSpec => []LifecycleIsAnnounced
<1>1. LifecycleInv /\ DeferredWait /\ [LifecycleStep \/ IpcStep]_hostVars => LifecycleInv'
  <2> SUFFICES ASSUME LifecycleInv, DeferredWait, [LifecycleStep \/ IpcStep]_hostVars
               PROVE  LifecycleInv'
      OBVIOUS
  <2>1. CASE UNCHANGED hostVars
    <3>1. HostTypeOK'
        BY <2>1 DEF LifecycleInv, HostTypeOK, hostVars, lifecycleVars, ipcVars
    <3> QED
        BY <2>1, <3>1, NothingMoves DEF hostVars
  <2> QED
      BY <2>1, LifecycleStepKeepsLifecycle, IpcStepKeepsLifecycle
<1>2. LifecycleInv => LifecycleIsAnnounced
  <2> SUFFICES ASSUME LifecycleInv PROVE LifecycleIsAnnounced
      OBVIOUS
  <2>1. app.ready => app_listeners["ready"] = <<>> /\ when_ready_resolvers = <<>>
      BY DEF LifecycleInv, ReadyIsTold
  <2>2. ASSUME HostIdle, NEW f \in Functions
        PROVE  /\ used[f] \in Deferred \cup {"once"} => ran[f] = IF f \in Waiting THEN 0 ELSE 1
               /\ used[f] = "lost" => ran[f] = 0
    <3>1. f \in Waiting <=> Held(lists, f)
        BY <2>2, WaitingIsHeld
    <3> QED
        BY <3>1 DEF LifecycleInv, Accounted, Once
  <2>3. ASSUME HostIdle PROVE announced = emptied
    <3>1. Owed(stack) = {}
        BY <2>3 DEF HostIdle, Owed
    <3> QED
        BY <3>1, FS_EmptySet DEF LifecycleInv, HostTypeOK, Announcements
  <2>4. ASSUME HostIdle, emptied > 0 PROVE app.quit
      BY <2>3, <2>4 DEF LifecycleInv, Announcements
  <2> QED
      BY <2>1, <2>2, <2>3, <2>4 DEF LifecycleIsAnnounced
<1> QED
    BY <1>1, <1>2, InitLifecycle, DeferredAlwaysWait, PTL DEF HostSpec

-----------------------------------------------------------------------------
(* The host as a whole.                                                    *)

LEMMA HostParts == Spec => DispatchSpec /\ HostSpec
<1>1. Init => DispatchInit /\ HostInit
    BY DEF Init
<1>2. [Next]_vars => [EventStep]_dispatchVars /\ [LifecycleStep \/ IpcStep]_hostVars
    BY DEF Next, vars
<1> QED
    BY <1>1, <1>2, PTL DEF Spec, DispatchSpec, HostSpec

(* Events and the main process keep their types, in whichever scenario.    *)
(* (runtime.rs:904-1185, electron.rs:3694-8185)                            *)
THEOREM ScriptHostIsTyped == Spec => []TypeOK
<1>1. DispatchTypeOK /\ HostTypeOK => TypeOK
    BY DEF TypeOK
<1> QED
    BY <1>1, HostParts, DispatchIsTyped, HostIsTyped, PTL

(* All that is shown of dispatch and main process holds of the two as      *)
(* parts of one host, whichever of them a behaviour is about               *)
(* (runtime.rs:1014-1182, electron.rs:4263-4303 and 8002-8185).            *)
THEOREM ScriptHostKeepsOrder ==
    Spec => [](DispatchIsOrderly /\ EveryListenerHears /\ LifecycleIsAnnounced /\ InvokesAreSettled)
BY HostParts, DispatchStaysOrderly, ListenersAlwaysHear, LifecycleIsAlwaysAnnounced,
   InvokesAreAlwaysSettled, PTL
=============================================================================
